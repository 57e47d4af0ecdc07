----------------------------- MODULE CallProofs ------------------------------
(***************************************************************************)
(* What holds of voice calls for all values of the constants: the signals  *)
(* that set a call up and end it, and the audio frames it carries.         *)
(***************************************************************************)
EXTENDS Calls, CallAudio, FiniteSetTheorems, TLAPS

(***************************************************************************)
(* The frames of a call: what is played is in order, for any number of     *)
(* calls and frames and whatever the network does to the datagrams.        *)
(***************************************************************************)
(* What was played was noted as received, in its call, and no later call   *)
(* has begun than the one under way.                                       *)
PlayedIsNoted ==
  \A i \in DOMAIN played :
    /\ played[i].call <= audioCall
    /\ played[i].call \in DOMAIN lastSeq
    /\ played[i].seq <= lastSeq[played[i].call]

AudioInv == AudioTypeOK /\ PlayedIsNoted /\ PlayedInOrder

LEMMA AudioInitInv == AudioInit => AudioInv
<1> SUFFICES ASSUME AudioInit PROVE AudioInv
  OBVIOUS
<1> USE AudioAssumption DEF AudioInit
<1>1. DOMAIN lastSeq = {} /\ DOMAIN played = {}
  OBVIOUS
<1>2. Cardinality(DOMAIN lastSeq) <= MAX_STREAMS
  BY <1>1, FS_EmptySet
<1>3. played \in Seq(AudioFrame) /\ lastSeq \in [DOMAIN lastSeq -> 1..MaxSeq]
  OBVIOUS
<1>4. muted \in BOOLEAN /\ refused \in BOOLEAN
  OBVIOUS
<1>5. SenderTypeOK
  BY <1>4 DEF SenderTypeOK
<1>6. ReceiverTypeOK
  BY <1>1, <1>2, <1>3 DEF ReceiverTypeOK
<1> QED
  BY <1>1, <1>5, <1>6 DEF AudioInv, AudioTypeOK, PlayedIsNoted, PlayedInOrder

(* A frame that is played is newer than all of its own call before it, and *)
(* no frame before it is of a later call.                                  *)
LEMMA ReceiveFrameInv ==
  ASSUME AudioInv, NEW f \in datagrams, ReceiveFrame(f)
  PROVE  AudioInv'
<1> USE AudioAssumption
<1>1. f \in AudioFrame /\ f.call \in 1..AudioCalls /\ f.seq \in 1..MaxSeq
  BY DEF AudioInv, AudioTypeOK, SenderTypeOK, AudioFrame
<1>2. /\ FreshFrame(f)
      /\ lastSeq' = [c \in DOMAIN lastSeq \cup {f.call} |->
                       IF c = f.call THEN f.seq ELSE lastSeq[c]]
      /\ UNCHANGED <<audioCall, muted, buffered, sinceSend, audioSeq, datagrams, refused>>
  BY DEF ReceiveFrame
<1>3. SenderTypeOK' /\ audioCall \in 1..AudioCalls
  BY <1>2 DEF AudioInv, AudioTypeOK, SenderTypeOK
<1>4. /\ lastSeq \in [DOMAIN lastSeq -> 1..MaxSeq]
      /\ DOMAIN lastSeq \subseteq 1..AudioCalls
      /\ Cardinality(DOMAIN lastSeq) <= MAX_STREAMS
      /\ queued \in 0..(MAX_QUEUED + 1)
      /\ played \in Seq(AudioFrame)
  BY DEF AudioInv, AudioTypeOK, ReceiverTypeOK
<1>5. /\ DOMAIN lastSeq' = DOMAIN lastSeq \cup {f.call}
      /\ lastSeq'[f.call] = f.seq
      /\ \A c \in DOMAIN lastSeq : lastSeq[c] <= lastSeq'[c]
      /\ f.call \in DOMAIN lastSeq => lastSeq[f.call] < f.seq
      /\ lastSeq' \in [DOMAIN lastSeq' -> 1..MaxSeq]
      /\ DOMAIN lastSeq' \subseteq 1..AudioCalls
  BY <1>1, <1>2, <1>4 DEF FreshFrame, LastOf
<1>6. Cardinality(DOMAIN lastSeq') <= MAX_STREAMS
  <2>1. CASE f.call \in DOMAIN lastSeq
    <3>1. DOMAIN lastSeq' = DOMAIN lastSeq
      BY <1>5, <2>1
    <3> QED
      BY <1>4, <3>1
  <2>2. CASE f.call \notin DOMAIN lastSeq
    <3>1. IsFiniteSet(1..AudioCalls)
      BY FS_Interval
    <3>2. IsFiniteSet(DOMAIN lastSeq)
      BY <1>4, <3>1, FS_Subset
    <3>3. Cardinality(DOMAIN lastSeq \cup {f.call}) = Cardinality(DOMAIN lastSeq) + 1
      BY <2>2, <3>2, FS_AddElement
    <3>4. Cardinality(DOMAIN lastSeq) < MAX_STREAMS /\ Cardinality(DOMAIN lastSeq) \in Nat
      BY <1>2, <2>2, <3>2, FS_CardinalityType DEF FreshFrame
    <3> QED
      BY <1>5, <3>3, <3>4
  <2> QED
    BY <2>1, <2>2
<1>7. CASE f.call = audioCall /\ Takes
  <2>1. queued' = queued + 1 /\ played' = Append(played, f)
    BY <1>7 DEF ReceiveFrame
  <2>2. /\ DOMAIN played' = 1..(Len(played) + 1) /\ DOMAIN played = 1..Len(played)
        /\ Len(played) \in Nat
        /\ played'[Len(played) + 1] = f
        /\ \A i \in DOMAIN played : played'[i] = played[i] /\ played[i] \in AudioFrame
        /\ played' \in Seq(AudioFrame)
    BY <1>1, <1>4, <2>1
  <2>3. queued' \in 0..(MAX_QUEUED + 1)
    BY <1>4, <1>7, <2>1 DEF Takes
  <2>4. ReceiverTypeOK'
    BY <1>5, <1>6, <2>2, <2>3 DEF ReceiverTypeOK
  <2>5. ASSUME NEW i \in DOMAIN played
        PROVE  /\ played[i].call <= audioCall
               /\ played[i].call \in DOMAIN lastSeq
               /\ played[i].seq <= lastSeq[played[i].call]
               /\ played[i].call \in Nat /\ played[i].seq \in Nat
    BY <2>2 DEF AudioInv, PlayedIsNoted, AudioFrame
  <2>6. ASSUME NEW i \in DOMAIN played
        PROVE  \/ played[i].call < f.call
               \/ played[i].call = f.call /\ played[i].seq < f.seq
    <3>1. CASE played[i].call = f.call
      <4>1. f.call \in DOMAIN lastSeq /\ lastSeq[f.call] < f.seq
        BY <1>5, <2>5, <3>1
      <4>2. lastSeq[f.call] \in Nat /\ played[i].seq <= lastSeq[f.call]
        BY <1>4, <2>5, <3>1, <4>1
      <4> QED
        BY <1>1, <2>5, <3>1, <4>1, <4>2
    <3>2. CASE played[i].call # f.call
      <4>1. played[i].call <= f.call /\ played[i].call \in Nat
        BY <1>7, <2>5
      <4>2. f.call \in Nat
        BY <1>1
      <4> QED
        BY <3>2, <4>1, <4>2
    <3> QED
      BY <3>1, <3>2
  <2>7. PlayedInOrder'
    BY <2>2, <2>6 DEF AudioInv, PlayedInOrder
  <2>8. ASSUME NEW i \in DOMAIN played
        PROVE  /\ played[i].call \in DOMAIN lastSeq'
               /\ played[i].seq <= lastSeq'[played[i].call]
    BY <1>4, <1>5, <2>5
  <2>9. PlayedIsNoted'
    <3>1. ASSUME NEW i \in DOMAIN played'
          PROVE  /\ played'[i].call <= audioCall'
                 /\ played'[i].call \in DOMAIN lastSeq'
                 /\ played'[i].seq <= lastSeq'[played'[i].call]
      <4>1. audioCall' = audioCall /\ audioCall \in Nat
        BY <1>2, <1>3
      <4>2. CASE i \in DOMAIN played
        BY <2>2, <2>5, <2>8, <4>1, <4>2
      <4>3. CASE i = Len(played) + 1
        BY <1>1, <1>5, <1>7, <2>2, <4>1, <4>3
      <4> QED
        BY <2>2, <4>2, <4>3
    <3> QED
      BY <3>1 DEF PlayedIsNoted
  <2> QED
    BY <1>3, <2>4, <2>7, <2>9 DEF AudioInv, AudioTypeOK
<1>8. CASE ~(f.call = audioCall /\ Takes)
  <2>1. UNCHANGED <<queued, played>>
    BY <1>8 DEF ReceiveFrame
  <2>2. ReceiverTypeOK'
    BY <1>4, <1>5, <1>6, <2>1 DEF ReceiverTypeOK
  <2>3. ASSUME NEW i \in DOMAIN played
        PROVE  /\ played[i].call <= audioCall
               /\ played[i].call \in DOMAIN lastSeq'
               /\ played[i].seq <= lastSeq'[played[i].call]
    <3>1. /\ played[i].call <= audioCall
          /\ played[i].call \in DOMAIN lastSeq
          /\ played[i].seq <= lastSeq[played[i].call]
          /\ played[i] \in AudioFrame
      BY <1>4 DEF AudioInv, PlayedIsNoted
    <3> QED
      BY <1>4, <1>5, <3>1 DEF AudioFrame
  <2>4. PlayedIsNoted'
    BY <1>2, <2>1, <2>3 DEF PlayedIsNoted
  <2>5. PlayedInOrder'
    BY <2>1 DEF AudioInv, PlayedInOrder
  <2> QED
    BY <1>3, <2>2, <2>4, <2>5 DEF AudioInv, AudioTypeOK
<1> QED
  BY <1>7, <1>8

LEMMA AudioStepInv == AudioInv /\ [AudioNext]_audioVars => AudioInv'
<1> SUFFICES ASSUME AudioInv, [AudioNext]_audioVars PROVE AudioInv'
  OBVIOUS
<1> USE AudioAssumption
<1>1. ASSUME SenderTypeOK', audioCall' >= audioCall, queued' \in 0..(MAX_QUEUED + 1),
             UNCHANGED <<lastSeq, played>>
      PROVE  AudioInv'
  <2>1. ReceiverTypeOK'
    BY <1>1 DEF AudioInv, AudioTypeOK, ReceiverTypeOK
  <2>2. PlayedIsNoted'
    <3>1. audioCall \in Nat /\ audioCall' \in Nat
      BY <1>1 DEF AudioInv, AudioTypeOK, SenderTypeOK
    <3>2. \A i \in DOMAIN played : played[i].call \in Nat
      <4>1. \A i \in DOMAIN played : played[i] \in AudioFrame
        BY DEF AudioInv, AudioTypeOK, ReceiverTypeOK
      <4> QED
        BY <4>1 DEF AudioFrame
    <3> QED
      BY <1>1, <3>1, <3>2 DEF AudioInv, PlayedIsNoted
  <2>3. PlayedInOrder'
    BY <1>1 DEF AudioInv, PlayedInOrder
  <2> QED
    BY <1>1, <2>1, <2>2, <2>3 DEF AudioInv, AudioTypeOK
<1> USE DEF AudioInv, AudioTypeOK, SenderTypeOK, ReceiverTypeOK
<1>2. ASSUME NEW dt \in FrameTimes, FrameTooSoon(dt) PROVE AudioInv'
  <2>1. dt * BytesPerMs \in Nat
    OBVIOUS
  <2>2. buffered' \in Nat /\ sinceSend' \in Nat
    BY <1>2, <2>1 DEF FrameTooSoon, Drained
  <2>3. SenderTypeOK'
    BY <1>2, <2>2 DEF FrameTooSoon
  <2> QED
    BY <1>1, <1>2, <2>3 DEF FrameTooSoon
<1>3. ASSUME NEW dt \in FrameTimes, FrameSends(dt) PROVE AudioInv'
  <2>1. datagrams' \subseteq AudioFrame
    BY <1>3 DEF FrameSends, AudioFrame
  <2>2. audioSeq' \in 0..MaxSeq /\ buffered' \in Nat /\ sinceSend' \in Nat
    BY <1>3 DEF FrameSends
  <2>3. muted' \in BOOLEAN /\ refused' \in BOOLEAN
    BY <1>3 DEF FrameSends
  <2>4. SenderTypeOK'
    BY <1>3, <2>1, <2>2, <2>3 DEF FrameSends
  <2> QED
    BY <1>1, <1>3, <2>4 DEF FrameSends
<1>4. CASE Mute
  BY <1>1, <1>4 DEF Mute
<1>5. CASE NextCall
  <2>1. SenderTypeOK'
    <3>1. muted' \in BOOLEAN
      BY <1>5 DEF NextCall
    <3> QED
      BY <1>5, <3>1 DEF NextCall
  <2>2. audioCall' >= audioCall /\ queued' \in 0..(MAX_QUEUED + 1)
    BY <1>5 DEF NextCall
  <2> QED
    BY <1>1, <1>5, <2>1, <2>2 DEF NextCall
<1>6. ASSUME NEW f \in datagrams, ReceiveFrame(f) PROVE AudioInv'
  BY <1>6, ReceiveFrameInv
<1>7. ASSUME NEW f \in datagrams, FrameLost(f) PROVE AudioInv'
  BY <1>1, <1>7 DEF FrameLost
<1>8. CASE PlayOut
  BY <1>1, <1>8 DEF PlayOut
<1>9. CASE UNCHANGED audioVars
  BY <1>1, <1>9 DEF audioVars
<1> QED
  BY <1>2, <1>3, <1>4, <1>5, <1>6, <1>7, <1>8, <1>9 DEF AudioNext

(* Type correctness of the frames: sequence numbers and the jitter buffer  *)
(* stay within their ranges, the map of streams within MAX_STREAMS.        *)
THEOREM AudioTyped == AudioSpec => []AudioTypeOK
<1>1. AudioInv => AudioTypeOK
  BY DEF AudioInv
<1> QED
  BY <1>1, AudioInitInv, AudioStepInv, PTL DEF AudioSpec

(* A frame is played after all older frames of its call and after every    *)
(* frame of an earlier call, whatever the network duplicates or reorders.  *)
THEOREM PlayedInOrderHolds == AudioSpec => []PlayedInOrder
<1>1. AudioInv => PlayedInOrder
  BY DEF AudioInv
<1> QED
  BY <1>1, AudioInitInv, AudioStepInv, PTL DEF AudioSpec

------------------------------------------------------------------------------
(***************************************************************************)
(* The two sides of a call: for any users and any calls, dialled across or *)
(* one after the other, whoever is connected has the other on the line.    *)
(***************************************************************************)
By(c) == Dials[c].by
To(c) == Dials[c].to

(* Whom a user has on the line is who called him, or whom he called.       *)
CallsFollowDials ==
  \A u \in Users : Busy(u) =>
    /\ call[u].id \in placed
    /\ IF call[u].incoming THEN u = To(call[u].id) /\ call[u].peer = By(call[u].id)
                           ELSE u = By(call[u].id) /\ call[u].peer = To(call[u].id)

(* Offers go to the user who is called, answers come back from him, ends   *)
(* go either way.                                                          *)
SignalsFollowDials ==
  \A s \in signals :
    /\ s.id \in placed
    /\ s.type = "Offer" => s.from = By(s.id) /\ s.to = To(s.id)
    /\ s.type = "Answer" => s.from = To(s.id) /\ s.to = By(s.id)
    /\ \/ s.from = By(s.id) /\ s.to = To(s.id)
       \/ s.from = To(s.id) /\ s.to = By(s.id)

AnswersAreGiven == \A s \in signals : s.type = "Answer" => <<s.from, s.id>> \in answered

(* The user who is called learns of a call from its offer: while it is     *)
(* under way he has neither answered the call nor ended it.                *)
OfferComesFirst ==
  \A s \in signals : s.type = "Offer" =>
    /\ call[s.to].id # s.id
    /\ logged[s.to][s.id] = 0
    /\ \A r \in signals : r.id = s.id => r.from # s.to

(* Who ended a call is not in it any more.                                 *)
EnderHasLeft == \A s \in signals : Ends(s) => call[s.from].id # s.id

LoggedIsOver ==
  \A u \in Users, c \in CallIds : logged[u][c] > 0 => c \in placed /\ call[u].id # c

Offered(c) == \E s \in signals : s.type = "Offer" /\ s.id = c
AnswerSent(c) == \E s \in signals : s.type = "Answer" /\ s.id = c
Told(u, c) ==
  \/ \E s \in signals : Ends(s) /\ s.to = u /\ s.id = c
  \/ <<u, c>> \in unheard

(* The caller of a call that rings, or is about to, is in it or has left.  *)
CallerIsThere ==
  \A c \in CallIds :
    call[To(c)].id = c \/ Offered(c) => call[By(c)].id = c \/ Told(To(c), c)

(* So is the user whose answer connected it, or is about to.               *)
CalleeIsThere ==
  \A c \in CallIds :
    call[By(c)].id = c /\ (call[By(c)].connected \/ AnswerSent(c)) =>
      call[To(c)].id = c \/ Told(By(c), c)

CallsInv ==
  /\ CallsTypeOK
  /\ CallsFollowDials
  /\ SignalsFollowDials
  /\ AnswersAreGiven
  /\ OfferComesFirst
  /\ EnderHasLeft
  /\ LoggedIsOver
  /\ CallerIsThere
  /\ CalleeIsThere
  /\ ConnectedIsAccepted
  /\ DevicesFollowCall
  /\ LoggedOnce

USE CallsAssumption DEF By, To

LEMMA CallsInitInv == CallsInit => CallsInv
  BY DEF CallsInit, CallsInv, CallsTypeOK, CallState, CallSignal, CallsFollowDials,
     SignalsFollowDials, AnswersAreGiven, OfferComesFirst, EnderHasLeft, LoggedIsOver,
     CallerIsThere, CalleeIsThere, Offered, ConnectedIsAccepted, DevicesFollowCall,
     LoggedOnce, NoCall, Busy

(* What is known of a user who has somebody on the line.                   *)
LEMMA BusyFacts ==
  ASSUME CallsInv, NEW u \in Users, Busy(u)
  PROVE  /\ call[u].id \in placed /\ call[u].id \in CallIds
         /\ call[u].peer \in Users \ {u}
         /\ \/ call[u].incoming /\ u = To(call[u].id) /\ call[u].peer = By(call[u].id)
            \/ ~call[u].incoming /\ u = By(call[u].id) /\ call[u].peer = To(call[u].id)
         /\ call[u] = [id |-> call[u].id, peer |-> call[u].peer,
                       incoming |-> call[u].incoming, connected |-> call[u].connected]
         /\ call[u].incoming \in BOOLEAN /\ call[u].connected \in BOOLEAN
<1>1. call[u] \in CallState /\ placed \subseteq CallIds
  BY DEF CallsInv, CallsTypeOK
<1>2. /\ call[u].id \in placed
      /\ IF call[u].incoming THEN u = To(call[u].id) /\ call[u].peer = By(call[u].id)
                             ELSE u = By(call[u].id) /\ call[u].peer = To(call[u].id)
  BY DEF CallsInv, CallsFollowDials
<1> QED
  BY <1>1, <1>2 DEF CallState

(* Who is in a call is one of the two, and has the other on the line.      *)
LEMMA InCall ==
  ASSUME CallsInv, NEW c \in CallIds, NEW u \in Users, call[u].id = c
  PROVE  /\ Busy(u) /\ c \in placed
         /\ u \in {By(c), To(c)}
         /\ u = By(c) => call[u].peer = To(c) /\ ~call[u].incoming
         /\ u = To(c) => call[u].peer = By(c) /\ call[u].incoming
<1>1. Busy(u)
  BY DEF Busy, NoCall
<1> QED
  BY <1>1, BusyFacts

(* What is known of a signal.                                              *)
LEMMA SignalFacts ==
  ASSUME CallsInv, NEW s \in signals
  PROVE  /\ s.id \in placed /\ s.id \in CallIds
         /\ s.type \in {"Offer", "Answer", "Reject", "Hangup"}
         /\ s.from \in Users /\ s.to \in Users \ {s.from}
         /\ s.type = "Offer" => s.from = By(s.id) /\ s.to = To(s.id)
         /\ s.type = "Answer" => s.from = To(s.id) /\ s.to = By(s.id)
         /\ \/ s.from = By(s.id) /\ s.to = To(s.id)
            \/ s.from = To(s.id) /\ s.to = By(s.id)
<1>1. s \in CallSignal /\ placed \subseteq CallIds
  BY DEF CallsInv, CallsTypeOK
<1> QED
  BY <1>1 DEF CallSignal, CallsInv, SignalsFollowDials

LEMMA StartCallInv ==
  ASSUME CallsInv, NEW c \in CallIds, StartCall(c)
  PROVE  CallsInv'
<1> DEFINE u == By(c)
           offer == Signal("Offer", c, u, To(c))
<1>1. /\ c \notin placed /\ placed' = placed \cup {c}
      /\ call' = [call EXCEPT ![u] =
            [id |-> c, peer |-> To(c), incoming |-> FALSE, connected |-> FALSE]]
      /\ sound' = [sound EXCEPT ![u] = "dial"]
      /\ signals' = signals \cup {offer}
      /\ unheard' = IF Busy(u) THEN unheard \cup {<<call[u].peer, call[u].id>>} ELSE unheard
      /\ UNCHANGED <<speaker, mic, answered, logged>>
  BY DEF StartCall
<1>2. /\ u \in Users /\ To(c) \in Users \ {u}
      /\ offer = [type |-> "Offer", id |-> c, from |-> u, to |-> To(c)]
  BY DEF Signal
<1>3. \A s \in signals : s.id # c
  BY <1>1, SignalFacts
<1>4. \A v \in Users : call[v].id # c
  BY <1>1, InCall
<1>5. /\ call \in [Users -> CallState]
      /\ call'[u] = [id |-> c, peer |-> To(c), incoming |-> FALSE, connected |-> FALSE]
      /\ \A v \in Users : v # u => call'[v] = call[v]
  BY <1>1, <1>2 DEF CallsInv, CallsTypeOK
<1>6. CallsTypeOK'
  <2>1. call' \in [Users -> CallState]
    BY <1>1, <1>2, <1>5 DEF CallState
  <2>2. signals' \subseteq CallSignal
    BY <1>1, <1>2 DEF CallsInv, CallsTypeOK, CallSignal
  <2>3. unheard' \subseteq Users \X CallIds
    BY <1>1, <1>2, BusyFacts DEF CallsInv, CallsTypeOK
  <2> QED
    BY <1>1, <2>1, <2>2, <2>3 DEF CallsInv, CallsTypeOK
<1>7. CallsFollowDials'
  BY <1>1, <1>2, <1>5 DEF CallsInv, CallsFollowDials, Busy, NoCall
<1>8. SignalsFollowDials' /\ AnswersAreGiven'
  BY <1>1, <1>2 DEF CallsInv, SignalsFollowDials, AnswersAreGiven
<1>9. logged[To(c)][c] = 0
  BY <1>1, <1>2 DEF CallsInv, LoggedIsOver, CallsTypeOK
<1>10. OfferComesFirst'
  BY <1>1, <1>2, <1>3, <1>4, <1>5, <1>9, SignalFacts DEF CallsInv, OfferComesFirst
<1>11. EnderHasLeft'
  BY <1>1, <1>2, <1>3, <1>5, SignalFacts DEF CallsInv, EnderHasLeft, Ends
<1>12. LoggedIsOver'
  BY <1>1, <1>2, <1>5 DEF CallsInv, LoggedIsOver
<1>13. \A v \in Users, d \in CallIds : Told(v, d) => Told(v, d)'
  BY <1>1 DEF Told, Ends
<1>14. ASSUME NEW d \in CallIds, d # c
       PROVE  /\ Offered(d)' => Offered(d)
              /\ AnswerSent(d)' => AnswerSent(d)
              /\ \A v \in Users : call'[v].id = d => call[v].id = d /\ call'[v] = call[v]
  BY <1>1, <1>2, <1>5, <1>14 DEF Offered, AnswerSent
<1>15. ASSUME NEW v \in Users, call[v].id \in CallIds
       PROVE  \/ call'[v].id = call[v].id
              \/ <<call[v].peer, call[v].id>> \in unheard'
  <2>1. Busy(v)
    BY <1>15 DEF Busy, NoCall
  <2> QED
    BY <1>1, <1>5, <2>1
<1>16. CallerIsThere'
  <2> SUFFICES ASSUME NEW d \in CallIds, call'[To(d)].id = d \/ Offered(d)'
               PROVE  call'[By(d)].id = d \/ Told(To(d), d)'
    BY DEF CallerIsThere
  <2>1. CASE d = c
    BY <1>2, <1>5, <2>1
  <2>2. CASE d # c
    <3>1. call[By(d)].id = d \/ Told(To(d), d)
      BY <1>14, <2>2 DEF CallsInv, CallerIsThere
    <3>2. ASSUME call[By(d)].id = d PROVE call[By(d)].peer = To(d)
      BY <3>2, InCall
    <3> QED
      BY <1>13, <1>15, <3>1, <3>2 DEF Told
  <2> QED
    BY <2>1, <2>2
<1>17. CalleeIsThere'
  <2> SUFFICES ASSUME NEW d \in CallIds, call'[By(d)].id = d,
                      call'[By(d)].connected \/ AnswerSent(d)'
               PROVE  call'[To(d)].id = d \/ Told(By(d), d)'
    BY DEF CalleeIsThere
  <2>1. CASE d = c
    BY <1>1, <1>2, <1>3, <1>5, <2>1 DEF AnswerSent
  <2>2. CASE d # c
    <3>1. call[To(d)].id = d \/ Told(By(d), d)
      BY <1>14, <2>2 DEF CallsInv, CalleeIsThere
    <3>2. ASSUME call[To(d)].id = d PROVE call[To(d)].peer = By(d)
      BY <3>2, InCall
    <3> QED
      BY <1>13, <1>15, <3>1, <3>2 DEF Told
  <2> QED
    BY <2>1, <2>2
<1>18. ConnectedIsAccepted' /\ DevicesFollowCall' /\ LoggedOnce'
  <2>1. ConnectedIsAccepted'
    BY <1>1, <1>2, <1>5 DEF CallsInv, ConnectedIsAccepted
  <2>2. DevicesFollowCall'
    BY <1>1, <1>2, <1>5 DEF CallsInv, CallsTypeOK, DevicesFollowCall, Busy, NoCall
  <2>3. LoggedOnce'
    BY <1>1 DEF CallsInv, LoggedOnce
  <2> QED
    BY <2>1, <2>2, <2>3
<1> QED
  BY <1>6, <1>7, <1>8, <1>10, <1>11, <1>12, <1>16, <1>17, <1>18
     DEF CallsInv

LEMMA AcceptCallInv ==
  ASSUME CallsInv, NEW u \in Users, AcceptCall(u)
  PROVE  CallsInv'
<1> DEFINE c == call[u].id
           answer == Signal("Answer", c, u, call[u].peer)
<1>1. /\ Busy(u) /\ call[u].incoming /\ ~call[u].connected
      /\ sound' = [sound EXCEPT ![u] = "none"]
      /\ speaker' = [speaker EXCEPT ![u] = TRUE]
      /\ mic' = [mic EXCEPT ![u] = TRUE]
      /\ call' = [call EXCEPT ![u].connected = TRUE]
      /\ answered' = answered \cup {<<u, c>>}
      /\ signals' = signals \cup {answer}
      /\ UNCHANGED <<placed, logged, unheard>>
  BY DEF AcceptCall, StartCallAudio
<1>2. /\ c \in placed /\ c \in CallIds
      /\ u = To(c) /\ call[u].peer = By(c) /\ By(c) \in Users /\ By(c) # u
  BY <1>1, BusyFacts
<1>3. answer = [type |-> "Answer", id |-> c, from |-> u, to |-> By(c)]
  BY <1>2 DEF Signal
<1>4. /\ call \in [Users -> CallState]
      /\ \A v \in Users : /\ call'[v].id = call[v].id /\ call'[v].peer = call[v].peer
                          /\ call'[v].incoming = call[v].incoming
                          /\ v # u => call'[v] = call[v]
      /\ call'[u].connected
  BY <1>1 DEF CallsInv, CallsTypeOK, CallState
<1>5. \A s \in signals : s.type = "Offer" => s.id # c
  BY <1>2, SignalFacts DEF CallsInv, OfferComesFirst
<1>6. CallsTypeOK'
  <2>1. call' \in [Users -> CallState]
    BY <1>1 DEF CallsInv, CallsTypeOK, CallState
  <2>2. signals' \subseteq CallSignal
    BY <1>1, <1>2, <1>3 DEF CallsInv, CallsTypeOK, CallSignal
  <2> QED
    BY <1>1, <1>2, <2>1, <2>2 DEF CallsInv, CallsTypeOK
<1>7. \A v \in Users : Busy(v)' => Busy(v)
  BY <1>1, <1>4 DEF Busy
<1>8. CallsFollowDials'
  BY <1>1, <1>4, <1>7 DEF CallsInv, CallsFollowDials
<1>9. SignalsFollowDials' /\ AnswersAreGiven'
  BY <1>1, <1>2, <1>3 DEF CallsInv, SignalsFollowDials, AnswersAreGiven
<1>10. OfferComesFirst'
  BY <1>1, <1>3, <1>4, <1>5, SignalFacts DEF CallsInv, OfferComesFirst
<1>11. EnderHasLeft' /\ LoggedIsOver'
  BY <1>1, <1>3, <1>4, SignalFacts DEF CallsInv, EnderHasLeft, LoggedIsOver, Ends
<1>12. \A v \in Users, d \in CallIds : Told(v, d) => Told(v, d)'
  BY <1>1 DEF Told, Ends
<1>13. ASSUME NEW d \in CallIds
       PROVE  (Offered(d)' => Offered(d)) /\ (d # c => (AnswerSent(d)' => AnswerSent(d)))
  BY <1>1, <1>3 DEF Offered, AnswerSent
<1>14. CallerIsThere'
  BY <1>4, <1>12, <1>13 DEF CallsInv, CallerIsThere
<1>15. CalleeIsThere'
  BY <1>2, <1>4, <1>12, <1>13 DEF CallsInv, CalleeIsThere
<1>16. ConnectedIsAccepted' /\ DevicesFollowCall' /\ LoggedOnce'
  <2>1. ConnectedIsAccepted'
    BY <1>1, <1>4 DEF CallsInv, ConnectedIsAccepted
  <2>2. \A v \in Users : Busy(v) => Busy(v)'
    BY <1>2, <1>4, InCall, BusyFacts DEF Busy, NoCall
  <2>3. DevicesFollowCall'
    BY <1>1, <1>4, <2>2 DEF CallsInv, CallsTypeOK, DevicesFollowCall
  <2>4. LoggedOnce'
    BY <1>1 DEF CallsInv, LoggedOnce
  <2> QED
    BY <2>1, <2>3, <2>4
<1> QED
  BY <1>6, <1>8, <1>9, <1>10, <1>11, <1>14, <1>15, <1>16
     DEF CallsInv

(* Declining a call and ending it: the user leaves and says so.            *)
LEMMA LeaveInv ==
  ASSUME CallsInv, NEW u \in Users, NEW type \in {"Reject", "Hangup"},
         Busy(u), Silence(u), Log(u, call[u].id),
         call' = [call EXCEPT ![u] = NoCall],
         signals' = signals \cup {Signal(type, call[u].id, u, call[u].peer)},
         UNCHANGED <<placed, answered, unheard>>
  PROVE  CallsInv'
<1> DEFINE c == call[u].id
           end == Signal(type, c, u, call[u].peer)
<1>1. /\ c \in placed /\ c \in CallIds
      /\ u \in {By(c), To(c)}
      /\ u = By(c) => call[u].peer = To(c)
      /\ u = To(c) => call[u].peer = By(c)
      /\ call[u].peer \in Users \ {u}
  BY BusyFacts
<1>2. end = [type |-> type, id |-> c, from |-> u, to |-> call[u].peer] /\ Ends(end)
  BY DEF Signal, Ends
<1>3. /\ call \in [Users -> CallState]
      /\ call'[u] = NoCall /\ NoCall.id \notin CallIds
      /\ \A v \in Users : v # u => call'[v] = call[v]
  BY DEF CallsInv, CallsTypeOK, NoCall
<1>4. /\ logged' \in [Users -> [CallIds -> Nat]]
      /\ logged'[u][c] = logged[u][c] + 1
      /\ \A v \in Users, d \in CallIds : <<v, d>> # <<u, c>> => logged'[v][d] = logged[v][d]
      /\ logged[u][c] \in Nat
  BY <1>1 DEF CallsInv, CallsTypeOK, Log
<1>5. \A s \in signals : s.type = "Offer" => s.id # c \/ s.to # u
  BY DEF CallsInv, OfferComesFirst
<1>6. CallsTypeOK'
  <2>1. call' \in [Users -> CallState]
    BY <1>3 DEF CallState, NoCall
  <2>2. signals' \subseteq CallSignal
    BY <1>1, <1>2 DEF CallsInv, CallsTypeOK, CallSignal
  <2> QED
    BY <1>4, <2>1, <2>2 DEF CallsInv, CallsTypeOK, Silence
<1>7. CallsFollowDials'
  BY <1>3 DEF CallsInv, CallsFollowDials, Busy
<1>8. SignalsFollowDials' /\ AnswersAreGiven'
  BY <1>1, <1>2 DEF CallsInv, SignalsFollowDials, AnswersAreGiven
<1>9. OfferComesFirst'
  <2>1. ASSUME NEW s \in signals, s.type = "Offer"
        PROVE  /\ call'[s.to].id # s.id /\ logged'[s.to][s.id] = 0
               /\ \A r \in signals : r.id = s.id => r.from # s.to
               /\ end.id = s.id => end.from # s.to
    <3>1. s.id \in CallIds /\ s.to \in Users
      BY SignalFacts
    <3>2. /\ call[s.to].id # s.id /\ logged[s.to][s.id] = 0
          /\ \A r \in signals : r.id = s.id => r.from # s.to
      BY <2>1 DEF CallsInv, OfferComesFirst
    <3> QED
      BY <1>2, <1>3, <1>4, <1>5, <2>1, <3>1, <3>2
  <2> QED
    BY <1>2, <2>1 DEF OfferComesFirst
<1>10. EnderHasLeft'
  BY <1>1, <1>2, <1>3, SignalFacts DEF CallsInv, EnderHasLeft, Ends
<1>11. LoggedIsOver'
  BY <1>1, <1>3, <1>4 DEF CallsInv, LoggedIsOver
<1>12. \A v \in Users, d \in CallIds : Told(v, d) => Told(v, d)'
  BY DEF Told, Ends
<1>13. \A v \in Users, d \in CallIds : v = call[u].peer /\ d = c => Told(v, d)'
  <2>1. end \in signals' /\ end.to = call[u].peer /\ end.id = c
    BY <1>2
  <2> QED
    BY <1>2, <2>1 DEF Told, Ends
<1>14. \A d \in CallIds : (Offered(d)' => Offered(d)) /\ (AnswerSent(d)' => AnswerSent(d))
  BY <1>2 DEF Offered, AnswerSent
<1>15. CallerIsThere'
  <2> SUFFICES ASSUME NEW d \in CallIds, call'[To(d)].id = d \/ Offered(d)'
               PROVE  call'[By(d)].id = d \/ Told(To(d), d)'
    BY DEF CallerIsThere
  <2>1. CASE d = c /\ u = To(c)
    BY <1>3, <1>5, <1>14, <2>1, SignalFacts DEF Offered
  <2>2. CASE d = c /\ u = By(c)
    BY <1>1, <1>13, <2>2
  <2>3. CASE d # c
    BY <1>3, <1>12, <1>14, <2>3 DEF CallsInv, CallerIsThere
  <2> QED
    BY <1>1, <2>1, <2>2, <2>3
<1>16. CalleeIsThere'
  <2> SUFFICES ASSUME NEW d \in CallIds, call'[By(d)].id = d,
                      call'[By(d)].connected \/ AnswerSent(d)'
               PROVE  call'[To(d)].id = d \/ Told(By(d), d)'
    BY DEF CalleeIsThere
  <2>1. CASE d = c /\ u = To(c)
    BY <1>1, <1>13, <2>1
  <2>2. CASE d = c /\ u = By(c)
    BY <1>3, <2>2
  <2>3. CASE d # c
    BY <1>3, <1>12, <1>14, <2>3 DEF CallsInv, CalleeIsThere
  <2> QED
    BY <1>1, <2>1, <2>2, <2>3
<1>17. ConnectedIsAccepted' /\ DevicesFollowCall' /\ LoggedOnce'
  <2>1. ConnectedIsAccepted'
    BY <1>3 DEF CallsInv, ConnectedIsAccepted, NoCall
  <2>2. DevicesFollowCall'
    BY <1>3 DEF CallsInv, CallsTypeOK, DevicesFollowCall, Busy, Silence
  <2>3. logged[u][c] = 0
    BY <1>1, <1>4 DEF CallsInv, LoggedIsOver
  <2>4. LoggedOnce'
    BY <1>4, <2>3 DEF CallsInv, LoggedOnce
  <2> QED
    BY <2>1, <2>2, <2>4
<1> QED
  BY <1>6, <1>7, <1>8, <1>9, <1>10, <1>11, <1>15, <1>16, <1>17
     DEF CallsInv

(* An offer to a user who is busy is answered with a rejection.            *)
LEMMA OfferRejectedInv ==
  ASSUME CallsInv, NEW s \in signals, Busy(s.to), ReceiveOffer(s)
  PROVE  CallsInv'
<1> DEFINE c == s.id
           end == Signal("Reject", c, s.to, s.from)
<1>1. /\ s.type = "Offer"
      /\ signals' = (signals \ {s}) \cup {end}
      /\ UNCHANGED <<call, sound, speaker, mic, placed, answered, logged, unheard>>
  BY DEF ReceiveOffer
<1>2. /\ c \in placed /\ c \in CallIds /\ s.from = By(c) /\ s.to = To(c)
      /\ s.from \in Users /\ s.to \in Users \ {s.from}
      /\ end = [type |-> "Reject", id |-> c, from |-> To(c), to |-> By(c)]
  BY <1>1, SignalFacts DEF Signal
<1>3. /\ call[To(c)].id # c /\ logged[To(c)][c] = 0
      /\ \A r \in signals : r.id = c => r.from # To(c)
  BY <1>1, <1>2 DEF CallsInv, OfferComesFirst
<1>4. ASSUME NEW r \in signals', r.type = "Offer" PROVE r \in signals /\ r.id # c
  <2>1. r \in signals /\ r # s
    BY <1>1, <1>2, <1>4
  <2>2. r \in CallSignal /\ s \in CallSignal
    BY <2>1 DEF CallsInv, CallsTypeOK
  <2>3. r.from = By(r.id) /\ r.to = To(r.id)
    BY <1>4, <2>1, SignalFacts
  <2> QED
    BY <1>1, <1>2, <1>4, <2>1, <2>2, <2>3 DEF CallSignal
<1>5. CallsTypeOK'
  <2>1. signals' \subseteq CallSignal
    BY <1>1, <1>2 DEF CallsInv, CallsTypeOK, CallSignal
  <2> QED
    BY <1>1, <2>1 DEF CallsInv, CallsTypeOK
<1>6. CallsFollowDials'
  BY <1>1 DEF CallsInv, CallsFollowDials, Busy
<1>7. SignalsFollowDials' /\ AnswersAreGiven'
  BY <1>1, <1>2 DEF CallsInv, SignalsFollowDials, AnswersAreGiven
<1>8. OfferComesFirst'
  <2>1. ASSUME NEW r \in signals', r.type = "Offer"
        PROVE  /\ call[r.to].id # r.id /\ logged[r.to][r.id] = 0
               /\ \A q \in signals : q.id = r.id => q.from # r.to
               /\ r.id # c
    BY <1>4, <2>1 DEF CallsInv, OfferComesFirst
  <2> QED
    BY <1>1, <1>2, <2>1 DEF OfferComesFirst
<1>9. EnderHasLeft'
  BY <1>1, <1>2, <1>3 DEF CallsInv, EnderHasLeft, Ends
<1>10. LoggedIsOver'
  BY <1>1 DEF CallsInv, LoggedIsOver
<1>11. \A v \in Users, d \in CallIds : Told(v, d) => Told(v, d)'
  BY <1>1 DEF Told, Ends
<1>12. \A d \in CallIds : (Offered(d)' => Offered(d)) /\ (AnswerSent(d)' => AnswerSent(d))
  BY <1>1, <1>2 DEF Offered, AnswerSent
<1>13. CallerIsThere'
  BY <1>1, <1>11, <1>12 DEF CallsInv, CallerIsThere
<1>14. CalleeIsThere'
  BY <1>1, <1>11, <1>12 DEF CallsInv, CalleeIsThere
<1>15. ConnectedIsAccepted' /\ DevicesFollowCall' /\ LoggedOnce'
  BY <1>1 DEF CallsInv, ConnectedIsAccepted, DevicesFollowCall, LoggedOnce, Busy
<1> QED
  BY <1>5, <1>6, <1>7, <1>8, <1>9, <1>10, <1>13, <1>14, <1>15
     DEF CallsInv

(* An offer to a user who is not busy rings.                               *)
LEMMA OfferRingsInv ==
  ASSUME CallsInv, NEW s \in signals, ~Busy(s.to), ReceiveOffer(s)
  PROVE  CallsInv'
<1> DEFINE c == s.id
           u == s.to
<1>1. /\ s.type = "Offer"
      /\ call' = [call EXCEPT ![u] =
            [id |-> c, peer |-> s.from, incoming |-> TRUE, connected |-> FALSE]]
      /\ sound' = [sound EXCEPT ![u] = "ringtone"]
      /\ signals' = signals \ {s}
      /\ UNCHANGED <<speaker, mic, placed, answered, logged, unheard>>
  BY DEF ReceiveOffer
<1>2. /\ c \in placed /\ c \in CallIds /\ s.from = By(c) /\ u = To(c)
      /\ s.from \in Users /\ u \in Users \ {s.from}
  BY <1>1, SignalFacts
<1>3. /\ call[u].id # c /\ logged[u][c] = 0
      /\ \A r \in signals : r.id = c => r.from # u
  BY <1>1, <1>2 DEF CallsInv, OfferComesFirst
<1>4. ASSUME NEW r \in signals', r.type = "Offer" PROVE r \in signals /\ r.id # c
  <2>1. r \in signals /\ r # s
    BY <1>1
  <2>2. r \in CallSignal /\ s \in CallSignal
    BY <2>1 DEF CallsInv, CallsTypeOK
  <2>3. r.from = By(r.id) /\ r.to = To(r.id)
    BY <1>4, <2>1, SignalFacts
  <2> QED
    BY <1>1, <1>2, <1>4, <2>1, <2>2, <2>3 DEF CallSignal
<1>5. /\ call \in [Users -> CallState]
      /\ call'[u] = [id |-> c, peer |-> By(c), incoming |-> TRUE, connected |-> FALSE]
      /\ \A v \in Users : v # u => call'[v] = call[v]
      /\ call[u] = NoCall /\ NoCall.id \notin CallIds
  BY <1>1, <1>2 DEF CallsInv, CallsTypeOK, Busy, NoCall
<1>6. CallsTypeOK'
  <2>1. call' \in [Users -> CallState]
    BY <1>1, <1>2, <1>5 DEF CallState
  <2>2. sound' \in [Users -> {"none", "ringtone", "dial"}]
    BY <1>1 DEF CallsInv, CallsTypeOK
  <2> QED
    BY <1>1, <2>1, <2>2 DEF CallsInv, CallsTypeOK
<1>7. CallsFollowDials'
  BY <1>1, <1>2, <1>5 DEF CallsInv, CallsFollowDials, Busy, NoCall
<1>8. SignalsFollowDials' /\ AnswersAreGiven'
  BY <1>1 DEF CallsInv, SignalsFollowDials, AnswersAreGiven
<1>9. OfferComesFirst'
  <2>1. ASSUME NEW r \in signals', r.type = "Offer"
        PROVE  /\ call'[r.to].id # r.id /\ logged[r.to][r.id] = 0
               /\ \A q \in signals : q.id = r.id => q.from # r.to
    <3>1. r \in signals /\ r.id # c /\ r.to \in Users
      BY <1>4, <2>1, SignalFacts
    <3> QED
      BY <1>5, <2>1, <3>1 DEF CallsInv, OfferComesFirst
  <2> QED
    BY <1>1, <2>1 DEF OfferComesFirst
<1>10. EnderHasLeft'
  <2>1. ASSUME NEW r \in signals, Ends(r) PROVE call'[r.from].id # r.id
    BY <1>3, <1>5, <2>1, SignalFacts DEF CallsInv, EnderHasLeft
  <2> QED
    BY <1>1, <2>1 DEF EnderHasLeft, Ends
<1>11. LoggedIsOver'
  BY <1>1, <1>2, <1>3, <1>5 DEF CallsInv, LoggedIsOver
<1>12. \A v \in Users, d \in CallIds : Told(v, d) => Told(v, d)'
  BY <1>1 DEF Told, Ends
<1>13. \A d \in CallIds : (Offered(d)' => Offered(d)) /\ (AnswerSent(d)' => AnswerSent(d))
  BY <1>1 DEF Offered, AnswerSent
<1>14. Offered(c)
  BY <1>1 DEF Offered
<1>15. CallerIsThere'
  <2> SUFFICES ASSUME NEW d \in CallIds, call'[To(d)].id = d \/ Offered(d)'
               PROVE  call'[By(d)].id = d \/ Told(To(d), d)'
    BY DEF CallerIsThere
  <2>1. call[By(d)].id = d \/ Told(To(d), d)
    BY <1>5, <1>13, <1>14 DEF CallsInv, CallerIsThere
  <2> QED
    BY <1>5, <1>12, <2>1
<1>16. CalleeIsThere'
  <2> SUFFICES ASSUME NEW d \in CallIds, call'[By(d)].id = d,
                      call'[By(d)].connected \/ AnswerSent(d)'
               PROVE  call'[To(d)].id = d \/ Told(By(d), d)'
    BY DEF CalleeIsThere
  <2>1. CASE d = c
    BY <1>2, <1>5, <2>1
  <2>2. CASE d # c
    <3>1. call'[By(d)] = call[By(d)]
      BY <1>5, <2>2
    <3>2. call[To(d)].id = d \/ Told(By(d), d)
      BY <1>13, <3>1 DEF CallsInv, CalleeIsThere
    <3> QED
      BY <1>5, <1>12, <3>2
  <2> QED
    BY <2>1, <2>2
<1>17. ConnectedIsAccepted' /\ DevicesFollowCall' /\ LoggedOnce'
  <2>1. ConnectedIsAccepted'
    BY <1>1, <1>5 DEF CallsInv, ConnectedIsAccepted
  <2>2. DevicesFollowCall'
    BY <1>1, <1>2, <1>5 DEF CallsInv, CallsTypeOK, DevicesFollowCall, Busy, NoCall
  <2>3. LoggedOnce'
    BY <1>1 DEF CallsInv, LoggedOnce
  <2> QED
    BY <2>1, <2>2, <2>3
<1> QED
  BY <1>6, <1>7, <1>8, <1>9, <1>10, <1>11, <1>15, <1>16, <1>17
     DEF CallsInv

(* A signal that changes no call: it is taken away, and an end is noted.   *)
LEMMA SignalGoneInv ==
  ASSUME CallsInv, NEW s \in signals,
         signals' = signals \ {s},
         unheard' = IF Ends(s) THEN unheard \cup {<<s.to, s.id>>} ELSE unheard,
         sound' \in [Users -> {"none", "ringtone", "dial"}],
         speaker' \in [Users -> BOOLEAN], mic' \in [Users -> BOOLEAN],
         \A u \in Users : /\ sound'[u] # "none" => sound'[u] = sound[u]
                          /\ mic'[u] => mic[u],
         UNCHANGED <<call, placed, answered, logged>>
  PROVE  CallsInv'
<1>1. s.id \in CallIds /\ s.to \in Users
  BY SignalFacts
<1>2. CallsTypeOK'
  BY <1>1 DEF CallsInv, CallsTypeOK
<1>3. CallsFollowDials'
  BY DEF CallsInv, CallsFollowDials, Busy
<1>4. SignalsFollowDials' /\ AnswersAreGiven' /\ EnderHasLeft' /\ LoggedIsOver'
  BY DEF CallsInv, SignalsFollowDials, AnswersAreGiven, EnderHasLeft, LoggedIsOver,
      Ends
<1>5. OfferComesFirst'
  BY DEF CallsInv, OfferComesFirst
<1>6. \A v \in Users, d \in CallIds : Told(v, d) => Told(v, d)'
  BY DEF Told, Ends
<1>7. \A d \in CallIds : (Offered(d)' => Offered(d)) /\ (AnswerSent(d)' => AnswerSent(d))
  BY DEF Offered, AnswerSent
<1>8. CallerIsThere' /\ CalleeIsThere'
  BY <1>6, <1>7 DEF CallsInv, CallerIsThere, CalleeIsThere
<1>9. ConnectedIsAccepted' /\ DevicesFollowCall' /\ LoggedOnce'
  BY DEF CallsInv, ConnectedIsAccepted, DevicesFollowCall, LoggedOnce, Busy
<1> QED
  BY <1>2, <1>3, <1>4, <1>5, <1>8, <1>9 DEF CallsInv

(* An answer to the call the caller is in connects it.                     *)
LEMMA AnswerConnectsInv ==
  ASSUME CallsInv, NEW s \in signals, Matches(s.to, s), ~call[s.to].incoming, ReceiveAnswer(s)
  PROVE  CallsInv'
<1> DEFINE c == s.id
           u == s.to
<1>1. /\ s.type = "Answer"
      /\ signals' = signals \ {s}
      /\ sound' = [sound EXCEPT ![u] = "none"]
      /\ speaker' = [speaker EXCEPT ![u] = TRUE]
      /\ call' = [call EXCEPT ![u].connected = TRUE]
      /\ mic' = [mic EXCEPT ![u] = TRUE]
      /\ UNCHANGED <<placed, answered, logged, unheard>>
  BY DEF ReceiveAnswer, StartCallAudio
<1>2. /\ c \in CallIds /\ u = By(c) /\ s.from = To(c) /\ u \in Users /\ To(c) # u
      /\ Busy(u) /\ call[u].id = c /\ call[u].peer = To(c) /\ ~call[u].incoming
  BY <1>1, SignalFacts DEF Matches
<1>3. /\ call \in [Users -> CallState]
      /\ \A v \in Users : /\ call'[v].id = call[v].id /\ call'[v].peer = call[v].peer
                          /\ call'[v].incoming = call[v].incoming
                          /\ v # u => call'[v] = call[v]
  BY <1>1 DEF CallsInv, CallsTypeOK, CallState
<1>4. CallsTypeOK'
  <2>1. call' \in [Users -> CallState]
    BY <1>1 DEF CallsInv, CallsTypeOK, CallState
  <2>2. sound' \in [Users -> {"none", "ringtone", "dial"}]
    BY <1>1 DEF CallsInv, CallsTypeOK
  <2>3. speaker' \in [Users -> BOOLEAN] /\ mic' \in [Users -> BOOLEAN]
    BY <1>1 DEF CallsInv, CallsTypeOK
  <2> QED
    BY <1>1, <2>1, <2>2, <2>3 DEF CallsInv, CallsTypeOK
<1>5. \A v \in Users : Busy(v)' <=> Busy(v)
  <2>1. ASSUME NEW v \in Users, v = u PROVE Busy(v)'
    BY <1>2, <1>3, <2>1 DEF Busy, NoCall
  <2> QED
    BY <1>2, <1>3, <2>1 DEF Busy
<1>6. CallsFollowDials'
  BY <1>1, <1>3, <1>5 DEF CallsInv, CallsFollowDials
<1>7. SignalsFollowDials' /\ AnswersAreGiven'
  BY <1>1 DEF CallsInv, SignalsFollowDials, AnswersAreGiven
<1>8. OfferComesFirst'
  BY <1>1, <1>3, SignalFacts DEF CallsInv, OfferComesFirst
<1>9. EnderHasLeft' /\ LoggedIsOver'
  BY <1>1, <1>3, SignalFacts DEF CallsInv, EnderHasLeft, LoggedIsOver, Ends
<1>10. \A v \in Users, d \in CallIds : Told(v, d) => Told(v, d)'
  BY <1>1 DEF Told, Ends
<1>11. \A d \in CallIds : (Offered(d)' => Offered(d)) /\ (AnswerSent(d)' => AnswerSent(d))
  BY <1>1 DEF Offered, AnswerSent
<1>12. AnswerSent(c)
  BY <1>1 DEF AnswerSent
<1>13. CallerIsThere'
  BY <1>3, <1>10, <1>11 DEF CallsInv, CallerIsThere
<1>14. CalleeIsThere'
  <2> SUFFICES ASSUME NEW d \in CallIds, call'[By(d)].id = d,
                      call'[By(d)].connected \/ AnswerSent(d)'
               PROVE  call'[To(d)].id = d \/ Told(By(d), d)'
    BY DEF CalleeIsThere
  <2>1. call[By(d)].id = d
    BY <1>3
  <2>2. call[By(d)].connected \/ AnswerSent(d)
    BY <1>2, <1>3, <1>11, <1>12, <2>1
  <2>3. call[To(d)].id = d \/ Told(By(d), d)
    BY <2>1, <2>2 DEF CallsInv, CalleeIsThere
  <2> QED
    BY <1>3, <1>10, <2>3
<1>15. ConnectedIsAccepted' /\ DevicesFollowCall' /\ LoggedOnce'
  <2>1. <<To(c), c>> \in answered
    BY <1>1, <1>2 DEF CallsInv, AnswersAreGiven
  <2>2. ConnectedIsAccepted'
    BY <1>1, <1>2, <1>3, <2>1 DEF CallsInv, ConnectedIsAccepted
  <2>3. DevicesFollowCall'
    BY <1>1, <1>2, <1>3, <1>5 DEF CallsInv, CallsTypeOK, DevicesFollowCall
  <2>4. LoggedOnce'
    BY <1>1 DEF CallsInv, LoggedOnce
  <2> QED
    BY <2>2, <2>3, <2>4
<1> QED
  BY <1>4, <1>6, <1>7, <1>8, <1>9, <1>13, <1>14, <1>15 DEF CallsInv

(* The peer's end of the call the user is in ends it: the peer has left,   *)
(* and there is no offer of the call any more.                             *)
LEMMA EndOfCallInv ==
  ASSUME CallsInv, NEW s \in signals, Matches(s.to, s), ReceiveEnd(s)
  PROVE  CallsInv'
<1> DEFINE c == s.id
           u == s.to
<1>1. /\ Ends(s)
      /\ signals' = signals \ {s}
      /\ Silence(u)
      /\ call' = [call EXCEPT ![u] = NoCall]
      /\ Log(u, c)
      /\ UNCHANGED <<placed, answered, unheard>>
  BY DEF ReceiveEnd
<1>2. /\ c \in placed /\ c \in CallIds /\ u \in Users /\ s.from \in Users \ {u}
      /\ \/ u = To(c) /\ s.from = By(c)
         \/ u = By(c) /\ s.from = To(c)
      /\ call[u].id = c
  BY SignalFacts DEF Matches
<1>3. /\ call \in [Users -> CallState]
      /\ call'[u] = NoCall /\ NoCall.id \notin CallIds
      /\ \A v \in Users : v # u => call'[v] = call[v]
  BY <1>1, <1>2 DEF CallsInv, CallsTypeOK, NoCall
<1>4. /\ logged' \in [Users -> [CallIds -> Nat]]
      /\ logged'[u][c] = logged[u][c] + 1
      /\ \A v \in Users, d \in CallIds : <<v, d>> # <<u, c>> => logged'[v][d] = logged[v][d]
      /\ logged[u][c] \in Nat
  BY <1>1, <1>2 DEF CallsInv, CallsTypeOK, Log
<1>5. call[s.from].id # c
  BY <1>1 DEF CallsInv, EnderHasLeft
<1>6. \A r \in signals : r.type = "Offer" => r.id # c
  BY <1>2, SignalFacts DEF CallsInv, OfferComesFirst
<1>7. CallsTypeOK'
  <2>1. call' \in [Users -> CallState]
    BY <1>1, <1>3 DEF CallState, NoCall
  <2>2. sound' \in [Users -> {"none", "ringtone", "dial"}]
    BY <1>1 DEF CallsInv, CallsTypeOK, Silence
  <2>3. speaker' \in [Users -> BOOLEAN] /\ mic' \in [Users -> BOOLEAN]
    BY <1>1 DEF CallsInv, CallsTypeOK, Silence
  <2> QED
    BY <1>1, <1>4, <2>1, <2>2, <2>3 DEF CallsInv, CallsTypeOK
<1>8. CallsFollowDials'
  BY <1>1, <1>3 DEF CallsInv, CallsFollowDials, Busy
<1>9. SignalsFollowDials' /\ AnswersAreGiven'
  BY <1>1 DEF CallsInv, SignalsFollowDials, AnswersAreGiven
<1>10. OfferComesFirst'
  <2>1. ASSUME NEW r \in signals, r.type = "Offer"
        PROVE  /\ call'[r.to].id # r.id /\ logged'[r.to][r.id] = 0
               /\ \A q \in signals : q.id = r.id => q.from # r.to
    <3>1. r.id \in CallIds /\ r.to \in Users /\ r.id # c
      BY <1>6, <2>1, SignalFacts
    <3>2. /\ call[r.to].id # r.id /\ logged[r.to][r.id] = 0
          /\ \A q \in signals : q.id = r.id => q.from # r.to
      BY <2>1 DEF CallsInv, OfferComesFirst
    <3> QED
      BY <1>3, <1>4, <3>1, <3>2
  <2> QED
    BY <1>1, <2>1 DEF OfferComesFirst
<1>11. EnderHasLeft'
  BY <1>1, <1>3, SignalFacts DEF CallsInv, EnderHasLeft, Ends
<1>12. LoggedIsOver'
  BY <1>1, <1>2, <1>3, <1>4 DEF CallsInv, LoggedIsOver
<1>13. \A v \in Users, d \in CallIds : d # c /\ Told(v, d) => Told(v, d)'
  BY <1>1 DEF Told, Ends
<1>14. \A d \in CallIds : (Offered(d)' => Offered(d)) /\ (AnswerSent(d)' => AnswerSent(d))
  BY <1>1 DEF Offered, AnswerSent
<1>15. CallerIsThere'
  <2> SUFFICES ASSUME NEW d \in CallIds, call'[To(d)].id = d \/ Offered(d)'
               PROVE  call'[By(d)].id = d \/ Told(To(d), d)'
    BY DEF CallerIsThere
  <2>1. d # c
    BY <1>2, <1>3, <1>5, <1>6, <1>14 DEF Offered
  <2>2. call[By(d)].id = d \/ Told(To(d), d)
    BY <1>3, <1>14 DEF CallsInv, CallerIsThere
  <2> QED
    BY <1>2, <1>3, <1>13, <2>1, <2>2
<1>16. CalleeIsThere'
  <2> SUFFICES ASSUME NEW d \in CallIds, call'[By(d)].id = d,
                      call'[By(d)].connected \/ AnswerSent(d)'
               PROVE  call'[To(d)].id = d \/ Told(By(d), d)'
    BY DEF CalleeIsThere
  <2>1. d # c /\ call'[By(d)] = call[By(d)]
    BY <1>2, <1>3, <1>5
  <2>2. call[To(d)].id = d \/ Told(By(d), d)
    BY <1>14, <2>1 DEF CallsInv, CalleeIsThere
  <2> QED
    BY <1>2, <1>3, <1>13, <2>1, <2>2
<1>17. ConnectedIsAccepted' /\ DevicesFollowCall' /\ LoggedOnce'
  <2>1. ConnectedIsAccepted'
    BY <1>1, <1>3 DEF CallsInv, ConnectedIsAccepted, NoCall
  <2>2. DevicesFollowCall'
    BY <1>1, <1>3 DEF CallsInv, CallsTypeOK, DevicesFollowCall, Busy, Silence
  <2>3. logged[u][c] = 0
    BY <1>2, <1>4 DEF CallsInv, LoggedIsOver
  <2>4. LoggedOnce'
    BY <1>4, <2>3 DEF CallsInv, LoggedOnce
  <2> QED
    BY <2>1, <2>2, <2>4
<1> QED
  BY <1>7, <1>8, <1>9, <1>10, <1>11, <1>12, <1>15, <1>16, <1>17
     DEF CallsInv

(* A frame only opens devices of a call that is connected.                 *)
LEMMA UpdateFrameInv ==
  ASSUME CallsInv, NEW u \in Users, UpdateFrame(u)
  PROVE  CallsInv'
<1>1. /\ Busy(u) /\ call[u].connected
      /\ mic' = [mic EXCEPT ![u] = TRUE]
      /\ \/ sound' = [sound EXCEPT ![u] = "none"] /\ speaker' = [speaker EXCEPT ![u] = TRUE]
         \/ UNCHANGED <<sound, speaker>>
      /\ UNCHANGED <<call, signals, placed, answered, logged, unheard>>
  BY DEF UpdateFrame, StartCallAudio
<1>2. CallsTypeOK'
  <2>1. sound' \in [Users -> {"none", "ringtone", "dial"}]
    BY <1>1 DEF CallsInv, CallsTypeOK
  <2>2. speaker' \in [Users -> BOOLEAN] /\ mic' \in [Users -> BOOLEAN]
    BY <1>1 DEF CallsInv, CallsTypeOK
  <2> QED
    BY <1>1, <2>1, <2>2 DEF CallsInv, CallsTypeOK
<1>3. CallsFollowDials' /\ SignalsFollowDials' /\ AnswersAreGiven' /\ OfferComesFirst'
  BY <1>1 DEF CallsInv, CallsFollowDials, SignalsFollowDials, AnswersAreGiven,
     OfferComesFirst, Busy
<1>4. EnderHasLeft' /\ LoggedIsOver' /\ CallerIsThere' /\ CalleeIsThere'
  BY <1>1 DEF CallsInv, EnderHasLeft, LoggedIsOver, CallerIsThere, CalleeIsThere,
      Offered,
     AnswerSent, Told, Ends
<1>5. ConnectedIsAccepted' /\ LoggedOnce'
  BY <1>1 DEF CallsInv, ConnectedIsAccepted, LoggedOnce
<1>6. DevicesFollowCall'
  BY <1>1 DEF CallsInv, CallsTypeOK, DevicesFollowCall, Busy
<1> QED
  BY <1>2, <1>3, <1>4, <1>5, <1>6 DEF CallsInv

LEMMA CallsStepInv == CallsInv /\ [CallsNext]_callVars => CallsInv'
<1> SUFFICES ASSUME CallsInv, [CallsNext]_callVars PROVE CallsInv'
  OBVIOUS
<1>1. ASSUME NEW c \in CallIds, StartCall(c) PROVE CallsInv'
  BY <1>1, StartCallInv
<1>2. ASSUME NEW u \in Users, AcceptCall(u) PROVE CallsInv'
  BY <1>2, AcceptCallInv
<1>3. ASSUME NEW u \in Users, DeclineCall(u) PROVE CallsInv'
  BY <1>3, LeaveInv DEF DeclineCall
<1>4. ASSUME NEW u \in Users, EndCall(u) PROVE CallsInv'
  BY <1>4, LeaveInv DEF EndCall
<1>5. ASSUME NEW u \in Users, UpdateFrame(u) PROVE CallsInv'
  BY <1>5, UpdateFrameInv
<1>6. ASSUME NEW s \in signals, ReceiveOffer(s) PROVE CallsInv'
  BY <1>6, OfferRejectedInv, OfferRingsInv
<1>7. ASSUME NEW s \in signals, ReceiveAnswer(s) PROVE CallsInv'
  <2>1. CASE Matches(s.to, s) /\ ~call[s.to].incoming
    BY <1>7, <2>1, AnswerConnectsInv
  <2>2. CASE ~(Matches(s.to, s) /\ ~call[s.to].incoming)
    <3>1. /\ s.type = "Answer" /\ signals' = signals \ {s}
          /\ sound' = [sound EXCEPT ![s.to] = "none"]
          /\ speaker' = [speaker EXCEPT ![s.to] = TRUE]
          /\ UNCHANGED <<call, mic, placed, answered, logged, unheard>>
      BY <1>7, <2>2 DEF ReceiveAnswer, StartCallAudio
    <3>2. /\ sound' \in [Users -> {"none", "ringtone", "dial"}]
          /\ \A u \in Users : sound'[u] # "none" => sound'[u] = sound[u]
      BY <3>1 DEF CallsInv, CallsTypeOK
    <3>3. speaker' \in [Users -> BOOLEAN] /\ mic' \in [Users -> BOOLEAN]
      BY <3>1 DEF CallsInv, CallsTypeOK
    <3> QED
      BY <3>1, <3>2, <3>3, SignalGoneInv DEF Ends
  <2> QED
    BY <2>1, <2>2
<1>8. ASSUME NEW s \in signals, ReceiveEnd(s) PROVE CallsInv'
  <2>1. CASE Matches(s.to, s)
    BY <1>8, <2>1, EndOfCallInv
  <2>2. CASE ~Matches(s.to, s)
    <3>1. /\ Ends(s) /\ signals' = signals \ {s}
          /\ sound' = [sound EXCEPT ![s.to] = "none"]
          /\ speaker' = [speaker EXCEPT ![s.to] = FALSE]
          /\ mic' = [mic EXCEPT ![s.to] = FALSE]
          /\ unheard' = unheard \cup {<<s.to, s.id>>}
          /\ UNCHANGED <<call, placed, answered, logged>>
      BY <1>8, <2>2 DEF ReceiveEnd, Silence
    <3>2. /\ sound' \in [Users -> {"none", "ringtone", "dial"}]
          /\ \A u \in Users : sound'[u] # "none" => sound'[u] = sound[u]
      BY <3>1 DEF CallsInv, CallsTypeOK
    <3>3. speaker' \in [Users -> BOOLEAN] /\ mic' \in [Users -> BOOLEAN]
      BY <3>1 DEF CallsInv, CallsTypeOK
    <3>4. \A u \in Users : mic'[u] => mic[u]
      BY <3>1 DEF CallsInv, CallsTypeOK
    <3> QED
      BY <3>1, <3>2, <3>3, <3>4, SignalGoneInv
  <2> QED
    BY <2>1, <2>2
<1>9. ASSUME NEW s \in signals, SignalLost(s) PROVE CallsInv'
  BY <1>9, SignalGoneInv DEF SignalLost, CallsInv, CallsTypeOK
<1>10. CASE UNCHANGED callVars
  BY <1>10 DEF callVars, CallsInv, CallsTypeOK, CallsFollowDials, SignalsFollowDials,
     AnswersAreGiven, OfferComesFirst, EnderHasLeft, LoggedIsOver, CallerIsThere,
     CalleeIsThere, ConnectedIsAccepted, DevicesFollowCall, LoggedOnce, Offered, AnswerSent,
     Told, Busy, Ends
<1> QED
  BY <1>1, <1>2, <1>3, <1>4, <1>5, <1>6, <1>7, <1>8, <1>9, <1>10
     DEF CallsNext

(* Type correctness of calls, signals and call records.                    *)
THEOREM CallsTyped == CallsSpec => []CallsTypeOK
<1>1. CallsInv => CallsTypeOK
  BY DEF CallsInv
<1> QED
  BY <1>1, CallsInitInv, CallsStepInv, PTL DEF CallsSpec

(* Connected means answered by the user who was called, nobody stays in a  *)
(* call whose end reached him, tones and microphones follow the call, and  *)
(* each call is logged once, whatever signals cross, are lost or come late.*)
THEOREM CallsAgreeHolds == CallsSpec => []CallsAgree
<1>1. CallsInv => CallsAgree
  <2> SUFFICES ASSUME CallsInv, NEW u \in Users, call[u].connected
               PROVE  \/ call[call[u].peer].id = call[u].id
                      \/ Told(u, call[u].id)
    BY DEF CallsInv, CallsAgree, NobodyTalksToNobody, Told
  <2>1. Busy(u)
    BY DEF Busy, NoCall
  <2>2. PICK c \in CallIds : c = call[u].id
    BY <2>1, BusyFacts
  <2>3. CASE call[u].incoming
    <3>1. u = To(c) /\ call[u].peer = By(c)
      BY <2>1, <2>2, <2>3, BusyFacts
    <3>2. call[By(c)].id = c \/ Told(To(c), c)
      BY <2>2, <3>1 DEF CallsInv, CallerIsThere
    <3> QED
      BY <2>2, <3>1, <3>2
  <2>4. CASE ~call[u].incoming
    <3>1. u = By(c) /\ call[u].peer = To(c)
      BY <2>1, <2>2, <2>4, BusyFacts
    <3>2. call[To(c)].id = c \/ Told(By(c), c)
      BY <2>2, <3>1 DEF CallsInv, CalleeIsThere
    <3> QED
      BY <2>2, <3>1, <3>2
  <2> QED
    BY <2>3, <2>4
<1> QED
  BY <1>1, CallsInitInv, CallsStepInv, PTL DEF CallsSpec
==============================================================================
