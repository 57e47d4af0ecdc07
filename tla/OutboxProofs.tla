---------------------------- MODULE OutboxProofs ----------------------------
(***************************************************************************)
(* The safety properties of Outbox, for every number of messages, every    *)
(* retry budget, capacity and horizon.                                     *)
(***************************************************************************)
EXTENDS Outbox, SequenceLemmas, SequenceTheorems, TLAPS

(* How far the send call of a message is tells whether the message may be  *)
(* in the database and in the outbox yet.                                  *)
BeforePush == {"unsent", "delivering", "accepted", "rejected", "stored"}
BeforeStore == {"unsent", "delivering", "accepted", "pushed", "rejected", "handed"}
UnderWay == {"delivering", "accepted", "pushed", "rejected", "stored", "handed"}

StageInv ==
  \A m \in Ids :
    /\ stage[m] \in UnderWay => m \in Peer
    /\ stage[m] = "handed" => m \notin Text
    /\ stage[m] \in BeforeStore => /\ db[m] = "absent" /\ disk[m] = "absent"
                                   /\ m \notin confirmed
    /\ stage[m] \in BeforePush => m \notin InOutbox /\ tries[m] = 0
    /\ stage[m] = "pushed" => m \in InOutbox \cup overflowed

(* An entry counts the attempts made, and is Failed when they are used up. *)
EntryInv ==
  /\ \A i \in 1..Len(queue) :
       /\ tries[queue[i].id] = queue[i].attempts
       /\ queue[i].status = "Sending" => queue[i].attempts < MAX_RETRY_ATTEMPTS
       /\ queue[i].status = "Failed" => queue[i].attempts = MAX_RETRY_ATTEMPTS
  /\ hand # NoItem =>
       /\ hand.status = "Sending"
       /\ hand.attempts >= 1
       /\ tries[hand.id] = IF wpc = "delivering" THEN hand.attempts - 1
                                                 ELSE hand.attempts
  /\ \A m \in Peer : tries[m] <= MAX_RETRY_ATTEMPTS

(* What the file says was once true: a restart that reads it shows no text *)
(* message as delivered that was never confirmed.                          *)
FileInv == \A m \in Text : disk[m] = "delivered" => m \in confirmed

(* The inductive invariant. *)
IInv ==
  /\ TypeOK
  /\ StageInv
  /\ OneCopy
  /\ QueueBounded
  /\ EntryInv
  /\ NoSilentDrop
  /\ ConfirmedIsFinal
  /\ TextDeliveredByReceipt
  /\ FileInv

-----------------------------------------------------------------------------
(* What a step that leaves the queue, the worker's hand and the attempts   *)
(* alone keeps.                                                            *)
LEMMA OutboxUntouched ==
  ASSUME OneCopy, QueueBounded, EntryInv, UNCHANGED <<queue, wpc, hand, tries>>
  PROVE  /\ OneCopy' /\ QueueBounded' /\ EntryInv'
         /\ Queued' = Queued /\ Held' = Held /\ InOutbox' = InOutbox
  BY DEF OneCopy, QueueBounded, EntryInv, Queued, Held, InOutbox

(* The initial states satisfy the invariant. *)
LEMMA InitIInv == Init => IInv
  <1> SUFFICES ASSUME Init PROVE IInv
    OBVIOUS
  <1> USE OutboxConstants
  <1>1. TypeOK
    BY DEF Init, TypeOK, Time, DbState, Stage
  <1>2. Queued = {} /\ Held = {} /\ InOutbox = {}
    BY DEF Init, Queued, Held, InOutbox
  <1>3. StageInv
    BY <1>2 DEF Init, StageInv, BeforePush, BeforeStore, UnderWay
  <1>4. OneCopy /\ QueueBounded
    BY <1>2 DEF Init, OneCopy, QueueBounded
  <1>5. EntryInv
    BY DEF Init, EntryInv, Ids
  <1>6. NoSilentDrop /\ ConfirmedIsFinal /\ TextDeliveredByReceipt /\ FileInv
    BY DEF Init, NoSilentDrop, ConfirmedIsFinal, TextDeliveredByReceipt, FileInv, Ids, Peer
  <1> QED BY <1>1, <1>3, <1>4, <1>5, <1>6 DEF IInv

(* The steps of the send calls that do not touch the outbox. *)
LEMMA SendKeepsIInv ==
  ASSUME IInv, NEW m \in Ids,
         \/ RefuseBlocked(m) \/ StartSend(m) \/ DeliverOk(m)
         \/ DeliverKeyMissing(m) \/ DeliverErr(m) \/ StorePushed(m)
         \/ StoreRejected(m) \/ StoreHanded(m) \/ SendGroup(m)
         \/ Broadcast(m) \/ SendSaved(m)
  PROVE  IInv'
  <1> USE OutboxConstants
  <1>1. /\ UNCHANGED <<clock, queue, wpc, wnow, hand, confirmed, overflowed, tries,
                        restarts, forgotten>>
        /\ transmitted' \subseteq transmitted \cup {m}
    BY DEF RefuseBlocked, StartSend, DeliverOk, DeliverKeyMissing, DeliverErr,
           StorePushed, StoreRejected, StoreHanded, SendGroup, Broadcast,
           SendSaved, worker, history, lives, Cascade
  <1>2. OneCopy' /\ QueueBounded' /\ EntryInv' /\ InOutbox' = InOutbox
    BY <1>1, OutboxUntouched DEF IInv
  <1>3. \/ /\ db' = db /\ disk' = disk
           /\ \/ Advance(m, "unsent", "refused")
              \/ m \in Peer /\ Advance(m, "unsent", "delivering")
              \/ m \in Text /\ Advance(m, "delivering", "accepted")
              \/ m \notin Text /\ Advance(m, "delivering", "handed")
              \/ Advance(m, "delivering", "refused")
              \/ Advance(m, "delivering", "rejected")
              \/ Advance(m, "broadcasting", "done")
        \/ /\ AddMessage(m, "pending")
           /\ Advance(m, "pushed", "done") \/ Advance(m, "rejected", "stored")
        \/ /\ AddMessage(m, "delivered")
           /\ \/ Advance(m, "handed", "done")
              \/ m \in Group /\ Advance(m, "unsent", "broadcasting")
              \/ m \in Saved /\ Advance(m, "unsent", "done")
    BY DEF RefuseBlocked, StartSend, DeliverOk, DeliverKeyMissing, DeliverErr,
           StorePushed, StoreRejected, StoreHanded, SendGroup, Broadcast,
           SendSaved, rows
  <1>4. TypeOK'
    <2>1. db' \in [Ids -> DbState] /\ (disk' = disk \/ disk' = db')
      BY <1>3 DEF IInv, TypeOK, AddMessage, Save, DbState
    <2>2. stage' \in [Ids -> Stage]
      BY <1>3 DEF IInv, TypeOK, Advance, Stage
    <2>3. transmitted' \subseteq Ids
      BY <1>1 DEF IInv, TypeOK
    <2> QED BY <1>1, <2>1, <2>2, <2>3 DEF IInv, TypeOK
  <1>5. StageInv'
    BY <1>1, <1>2, <1>3 DEF IInv, TypeOK, StageInv, Advance, AddMessage, Save,
       BeforePush, BeforeStore, UnderWay
  <1>6. NoSilentDrop'
    BY <1>1, <1>2, <1>3 DEF IInv, TypeOK, StageInv, NoSilentDrop, Advance,
       AddMessage, BeforePush, BeforeStore, UnderWay, Ids
  <1>7. ConfirmedIsFinal'
    BY <1>1, <1>3 DEF IInv, TypeOK, StageInv, ConfirmedIsFinal, Advance,
       AddMessage, BeforeStore
  <1>8. TextDeliveredByReceipt'
    BY <1>1, <1>3 DEF IInv, TypeOK, StageInv, TextDeliveredByReceipt, Advance,
       AddMessage, BeforeStore, Ids, Peer
  <1>9. FileInv'
    BY <1>1, <1>3, <1>8 DEF IInv, TypeOK, FileInv, TextDeliveredByReceipt, AddMessage, Save
  <1> QED BY <1>2, <1>4, <1>5, <1>6, <1>7, <1>8, <1>9 DEF IInv

(* The steps that put a message into the outbox. *)
LEMMA PushKeepsIInv ==
  ASSUME IInv, NEW m \in Ids, PushAccepted(m) \/ PushStored(m)
  PROVE  IInv'
  <1> USE OutboxConstants
  <1>1. PICK d \in Nat :
          /\ PushAfter(m, d)
          /\ UNCHANGED <<clock, wpc, wnow, hand, db, disk, transmitted, confirmed, tries,
                          restarts, forgotten>>
          /\ Advance(m, "accepted", "pushed") \/ Advance(m, "stored", "done")
    BY DEF PushAccepted, PushStored, worker, rows, lives
  <1>2. m \in Peer /\ m \notin InOutbox /\ tries[m] = 0
        /\ m \notin Queued /\ m \notin Held
    BY <1>1 DEF IInv, StageInv, Advance, BeforePush, UnderWay, InOutbox
  <1>3. CASE Len(queue) >= MAX_QUEUED_MESSAGES
    <2>1. queue' = queue /\ overflowed' = overflowed \cup {m}
      BY <1>1, <1>2, <1>3 DEF PushAfter, IInv, TypeOK
    <2>2. OneCopy' /\ QueueBounded' /\ EntryInv' /\ InOutbox' = InOutbox
      BY <1>1, <2>1, OutboxUntouched DEF IInv
    <2>3. TypeOK'
      BY <1>1, <2>1 DEF IInv, TypeOK, Advance, Stage
    <2>4. StageInv'
      BY <1>1, <2>1, <2>2 DEF IInv, TypeOK, StageInv, Advance, BeforePush,
         BeforeStore, UnderWay
    <2>5. NoSilentDrop' /\ ConfirmedIsFinal' /\ TextDeliveredByReceipt' /\ FileInv'
      BY <1>1, <2>1, <2>2 DEF IInv, TypeOK, NoSilentDrop, ConfirmedIsFinal,
         TextDeliveredByReceipt, FileInv, Advance, Ids
    <2> QED BY <2>2, <2>3, <2>4, <2>5 DEF IInv
  <1>4. CASE Len(queue) < MAX_QUEUED_MESSAGES
    <2> DEFINE e == Fresh(m, Horizon(clock + d))
    <2>1. queue' = Append(queue, e) /\ overflowed' = overflowed
      BY <1>1, <1>2, <1>4 DEF PushAfter, IInv, TypeOK
    <2>2. e \in Entry /\ e.id = m /\ e.attempts = 0 /\ e.status = "Sending"
      BY <1>2 DEF Fresh, Entry, Horizon, Time, IInv, TypeOK
    <2> HIDE DEF e
    <2>3. /\ queue' \in Seq(Entry) /\ Len(queue') = Len(queue) + 1
          /\ \A k \in 1..Len(queue) : queue'[k] = queue[k]
          /\ queue'[Len(queue) + 1] = e
      BY <2>1, <2>2, AppendProperties DEF IInv, TypeOK
    <2>4. Len(queue) \in Nat
      BY DEF IInv, TypeOK
    <2>5. TypeOK'
      BY <1>1, <2>1, <2>3 DEF IInv, TypeOK, Advance, Stage
    <2>6. Queued' = Queued \cup {m} /\ Held' = Held /\ InOutbox' = InOutbox \cup {m}
      <3>1. Queued' = Queued \cup {m}
        BY <2>2, <2>3, <2>4 DEF Queued
      <3> QED BY <1>1, <3>1 DEF Held, InOutbox
    <2>7. OneCopy'
      <3>1. \A k \in 1..Len(queue) : queue[k].id # m
        BY <1>2 DEF Queued
      <3>2. ASSUME NEW k \in 1..Len(queue'), NEW l \in 1..Len(queue'),
                   queue'[k].id = queue'[l].id
            PROVE  k = l
        BY <2>2, <2>3, <2>4, <3>1, <3>2 DEF IInv, OneCopy
      <3> QED BY <1>2, <2>6, <3>2 DEF OneCopy, IInv
    <2>8. QueueBounded'
      BY <1>1, <1>4, <2>3, <2>4 DEF QueueBounded
    <2>9. EntryInv'
      BY <1>1, <1>2, <2>2, <2>3, <2>4 DEF EntryInv, IInv
    <2>10. StageInv'
      BY <1>1, <2>1, <2>6 DEF IInv, TypeOK, StageInv, Advance, BeforePush,
         BeforeStore, UnderWay
    <2>11. NoSilentDrop' /\ ConfirmedIsFinal' /\ TextDeliveredByReceipt' /\ FileInv'
      BY <1>1, <2>1, <2>6 DEF IInv, TypeOK, NoSilentDrop, ConfirmedIsFinal,
         TextDeliveredByReceipt, FileInv, Advance, Ids
    <2> QED BY <2>5, <2>7, <2>8, <2>9, <2>10, <2>11 DEF IInv
  <1> QED BY <1>3, <1>4 DEF IInv, TypeOK

(* A queue that lost its entry i: what is left of it. *)
LEMMA QueueWithout ==
  ASSUME TypeOK, OneCopy, NEW i \in 1..Len(queue), queue' = RemoveAt(queue, i)
  PROVE  /\ queue' \in Seq(Entry)
         /\ Len(queue') = Len(queue) - 1
         /\ Len(queue) \in Nat
         /\ \A k \in 1..Len(queue') : \E l \in 1..Len(queue) :
              l # i /\ queue'[k] = queue[l]
         /\ \A x : x \in Queued' <=> x \in Queued /\ x # queue[i].id
         /\ \A k, l \in 1..Len(queue') : queue'[k].id = queue'[l].id => k = l
  <1>1. Len(queue) \in Nat
    BY DEF TypeOK
  <1>2. /\ queue' \in Seq(Entry) /\ Len(queue') = Len(queue) - 1
        /\ \A k \in 1..(Len(queue) - 1) :
             queue'[k] = IF k < i THEN queue[k] ELSE queue[k+1]
    BY RemoveAtElements DEF TypeOK
  <1>3. \A k \in 1..Len(queue') : \E l \in 1..Len(queue) :
          l # i /\ queue'[k] = queue[l]
    <2> SUFFICES ASSUME NEW k \in 1..Len(queue')
                 PROVE  \E l \in 1..Len(queue) : l # i /\ queue'[k] = queue[l]
      OBVIOUS
    <2>1. CASE k < i
      BY <1>1, <1>2, <2>1
    <2>2. CASE ~(k < i)
      <3>1. k + 1 \in 1..Len(queue) /\ k + 1 # i /\ queue'[k] = queue[k+1]
        BY <1>1, <1>2, <2>2
      <3> QED BY <3>1
    <2> QED BY <2>1, <2>2
  <1>4. \A k, l \in 1..Len(queue') : queue'[k].id = queue'[l].id => k = l
    BY <1>1, <1>2 DEF OneCopy
  <1>5. ASSUME NEW l \in 1..Len(queue), l # i
        PROVE  \E k \in 1..Len(queue') : queue'[k] = queue[l]
    <2>1. CASE l < i
      BY <1>1, <1>2, <2>1
    <2>2. CASE ~(l < i)
      <3>1. l - 1 \in 1..Len(queue') /\ ~(l - 1 < i) /\ (l - 1) + 1 = l
        BY <1>1, <1>2, <1>5, <2>2
      <3>2. queue'[l-1] = queue[l]
        BY <1>1, <1>2, <3>1
      <3> QED BY <3>1, <3>2
    <2> QED BY <2>1, <2>2
  <1>6. \A x : x \in Queued' <=> x \in Queued /\ x # queue[i].id
    <2>1. ASSUME NEW x \in Queued' PROVE x \in Queued /\ x # queue[i].id
      <3>1. PICK k \in 1..Len(queue') : x = queue'[k].id
        BY DEF Queued
      <3>2. PICK l \in 1..Len(queue) : l # i /\ queue'[k] = queue[l]
        BY <1>3
      <3> QED BY <3>1, <3>2 DEF Queued, OneCopy
    <2>2. ASSUME NEW x \in Queued, x # queue[i].id PROVE x \in Queued'
      <3>1. PICK l \in 1..Len(queue) : x = queue[l].id
        BY DEF Queued
      <3>2. l # i
        BY <2>2, <3>1
      <3>3. PICK k \in 1..Len(queue') : queue'[k] = queue[l]
        BY <1>5, <3>2
      <3> QED BY <3>1, <3>3 DEF Queued
    <2> QED BY <2>1, <2>2
  <1> QED BY <1>1, <1>2, <1>3, <1>4, <1>6

(* The worker: waking up, popping, sending, putting back. *)
LEMMA WorkerKeepsIInv ==
  ASSUME IInv, WorkerStep
  PROVE  IInv'
  <1> USE OutboxConstants
  <1>1. CASE WorkerTick \/ NothingDue
    <2>1. UNCHANGED <<clock, queue, hand, db, disk, stage, transmitted, confirmed,
                      overflowed, tries, restarts, forgotten>>
      BY <1>1 DEF WorkerTick, NothingDue, history, rows, lives
    <2>2. hand = NoItem /\ wpc' \in {"idle", "looping"} /\ wnow' \in Time
      BY <1>1 DEF WorkerTick, NothingDue, IInv, TypeOK, Time
    <2>3. TypeOK'
      BY <2>1, <2>2 DEF IInv, TypeOK
    <2>4. InOutbox' = InOutbox /\ OneCopy' /\ QueueBounded' /\ EntryInv'
      BY <2>1, <2>2 DEF IInv, OneCopy, QueueBounded, EntryInv, Queued, Held,
         InOutbox
    <2>5. StageInv' /\ NoSilentDrop' /\ ConfirmedIsFinal' /\ TextDeliveredByReceipt' /\ FileInv'
      BY <2>1, <2>4 DEF IInv, StageInv, NoSilentDrop, ConfirmedIsFinal,
         TextDeliveredByReceipt, FileInv
    <2> QED BY <2>3, <2>4, <2>5 DEF IInv
  <1>2. CASE PopPending
    <2>1. /\ UNCHANGED <<wnow, clock, db, disk, stage, transmitted, confirmed,
                         overflowed, tries, restarts, forgotten>>
          /\ wpc = "looping" /\ wpc' = "delivering" /\ hand = NoItem
      BY <1>2 DEF PopPending, history, rows, lives, IInv, TypeOK
    <2>2. PICK i \in Due : /\ hand' = [queue[i] EXCEPT !.attempts = @ + 1]
                           /\ queue' = RemoveAt(queue, i)
      BY <1>2 DEF PopPending
    <2>3. i \in 1..Len(queue) /\ queue[i] \in Entry /\ queue[i].status = "Sending"
      BY <2>2 DEF Due, IInv, TypeOK
    <2>4. /\ queue[i].attempts < MAX_RETRY_ATTEMPTS
          /\ tries[queue[i].id] = queue[i].attempts
      BY <2>3 DEF IInv, EntryInv
    <2>5. /\ hand' \in Entry /\ hand'.id = queue[i].id
          /\ hand'.attempts = queue[i].attempts + 1 /\ hand'.status = "Sending"
      BY <2>2, <2>3, <2>4 DEF Entry
    <2>6. hand' # NoItem
      BY <2>5
    <2>7. /\ queue' \in Seq(Entry) /\ Len(queue') = Len(queue) - 1
          /\ Len(queue) \in Nat
          /\ \A k \in 1..Len(queue') : \E l \in 1..Len(queue) :
               l # i /\ queue'[k] = queue[l]
          /\ \A x : x \in Queued' <=> x \in Queued /\ x # queue[i].id
          /\ \A k, l \in 1..Len(queue') : queue'[k].id = queue'[l].id => k = l
      BY <2>2, <2>3, QueueWithout DEF IInv
    <2>8. Held = {} /\ Held' = {queue[i].id} /\ queue[i].id \in Queued
      BY <2>1, <2>3, <2>5, <2>6 DEF Held, Queued
    <2>9. InOutbox' = InOutbox
      BY <2>7, <2>8 DEF InOutbox
    <2>10. TypeOK'
      BY <2>1, <2>5, <2>6, <2>7 DEF IInv, TypeOK
    <2>11. OneCopy'
      BY <2>7, <2>8 DEF OneCopy
    <2>12. QueueBounded'
      BY <2>1, <2>6, <2>7 DEF IInv, QueueBounded
    <2>13. EntryInv'
      <3>1. ASSUME NEW k \in 1..Len(queue')
            PROVE  /\ tries'[queue'[k].id] = queue'[k].attempts
                   /\ queue'[k].status = "Sending" => queue'[k].attempts < MAX_RETRY_ATTEMPTS
                   /\ queue'[k].status = "Failed" => queue'[k].attempts = MAX_RETRY_ATTEMPTS
        BY <2>1, <2>7 DEF IInv, EntryInv
      <3>2. /\ hand'.attempts >= 1
            /\ tries'[hand'.id] = hand'.attempts - 1
        BY <2>1, <2>3, <2>4, <2>5 DEF Entry
      <3> QED BY <2>1, <2>5, <3>1, <3>2 DEF IInv, EntryInv
    <2>14. StageInv' /\ NoSilentDrop' /\ ConfirmedIsFinal' /\ TextDeliveredByReceipt' /\ FileInv'
      BY <2>1, <2>9 DEF IInv, StageInv, NoSilentDrop, ConfirmedIsFinal,
         TextDeliveredByReceipt, FileInv
    <2> QED BY <2>10, <2>11, <2>12, <2>13, <2>14 DEF IInv
  <1>3. CASE WorkerDeliver
    <2>1. /\ UNCHANGED <<wnow, hand, clock, queue, db, disk, stage, confirmed,
                         overflowed, restarts, forgotten>>
          /\ wpc = "delivering" /\ wpc' = "scheduling"
          /\ transmitted' \subseteq transmitted \cup {hand.id}
          /\ tries' = [tries EXCEPT ![hand.id] =
                         IF @ > MAX_RETRY_ATTEMPTS THEN @ ELSE @ + 1]
      BY <1>3 DEF WorkerDeliver, Cascade, rows, lives
    <2>2. hand # NoItem /\ hand \in Entry /\ hand.id \in Peer /\ hand.id \in Ids
      BY <2>1 DEF IInv, TypeOK, Entry, Ids
    <2>3. tries[hand.id] = hand.attempts - 1 /\ hand.attempts \in 1..MAX_RETRY_ATTEMPTS
      BY <2>1, <2>2 DEF IInv, EntryInv, Entry
    <2>4. tries' = [tries EXCEPT ![hand.id] = hand.attempts]
      <3>1. (IF tries[hand.id] > MAX_RETRY_ATTEMPTS THEN tries[hand.id]
             ELSE tries[hand.id] + 1) = hand.attempts
        BY <2>3
      <3> QED BY <2>1, <3>1
    <2>5. TypeOK'
      BY <2>1, <2>2, <2>3, <2>4 DEF IInv, TypeOK
    <2>6. Queued' = Queued /\ Held' = Held /\ InOutbox' = InOutbox
          /\ hand.id \in Held /\ hand.id \notin Queued
      BY <2>1, <2>2 DEF Queued, Held, InOutbox, IInv, OneCopy
    <2>7. OneCopy' /\ QueueBounded'
      BY <2>1, <2>6 DEF IInv, OneCopy, QueueBounded
    <2>8. EntryInv'
      <3>1. ASSUME NEW k \in 1..Len(queue) PROVE queue[k].id # hand.id
        BY <2>6 DEF Queued
      <3>2. \A k \in 1..Len(queue) : queue[k].id \in Ids
        <4>1. \A k \in 1..Len(queue) : queue[k] \in Entry
          BY DEF IInv, TypeOK
        <4> QED BY <4>1 DEF Entry, Ids
      <3>3. tries'[hand.id] = hand.attempts
        BY <2>2, <2>4 DEF IInv, TypeOK
      <3>4. \A k \in 1..Len(queue) : tries'[queue[k].id] = tries[queue[k].id]
        BY <2>2, <2>4, <3>1, <3>2 DEF IInv, TypeOK
      <3>5. \A m \in Peer : tries'[m] <= MAX_RETRY_ATTEMPTS
        BY <2>2, <2>3, <2>4 DEF IInv, TypeOK, EntryInv, Ids
      <3> QED BY <2>1, <2>3, <3>3, <3>4, <3>5 DEF IInv, EntryInv
    <2>9. StageInv'
      <3>1. hand.id \in InOutbox
        BY <2>6 DEF InOutbox
      <3> QED BY <2>1, <2>2, <2>4, <2>6, <3>1 DEF IInv, TypeOK, StageInv
    <2>10. NoSilentDrop' /\ ConfirmedIsFinal' /\ TextDeliveredByReceipt' /\ FileInv'
      BY <2>1, <2>6 DEF IInv, NoSilentDrop, ConfirmedIsFinal, TextDeliveredByReceipt, FileInv
    <2> QED BY <2>5, <2>7, <2>8, <2>9, <2>10 DEF IInv
  <1>4. CASE ScheduleRetry
    <2> DEFINE e == Rescheduled(hand)
    <2>1. /\ UNCHANGED <<wnow, clock, db, disk, stage, transmitted, confirmed,
                         overflowed, tries, restarts, forgotten>>
          /\ wpc = "scheduling" /\ wpc' = "looping" /\ hand' = NoItem
          /\ queue' = Append(queue, e)
      BY <1>4 DEF ScheduleRetry, history, rows, lives
    <2>2. hand # NoItem /\ hand \in Entry
      BY <2>1 DEF IInv, TypeOK
    <2>3. tries[hand.id] = hand.attempts /\ hand.status = "Sending"
      BY <2>1, <2>2 DEF IInv, EntryInv
    <2>4. /\ e \in Entry /\ e.id = hand.id /\ e.attempts = hand.attempts
          /\ e.status = "Sending" => e.attempts < MAX_RETRY_ATTEMPTS
          /\ e.status = "Failed" => e.attempts = MAX_RETRY_ATTEMPTS
      <3>1. CASE hand.attempts >= MAX_RETRY_ATTEMPTS
        BY <2>2, <3>1 DEF Rescheduled, Entry
      <3>2. CASE ~(hand.attempts >= MAX_RETRY_ATTEMPTS)
        <4>1. Backoff(hand.attempts) \in Nat
          <5>1. \A n \in 1..6 : PowersOfTwo[n] \in Nat
            BY DEF PowersOfTwo
          <5>2. (IF hand.attempts > 5 THEN 6 ELSE hand.attempts + 1) \in 1..6
            BY <2>2 DEF Entry
          <5> QED BY <5>1, <5>2 DEF Backoff
        <4>2. Horizon(wnow + Backoff(hand.attempts)) \in Time
          BY <4>1 DEF Horizon, Time, IInv, TypeOK
        <4> DEFINE t == Horizon(wnow + Backoff(hand.attempts))
        <4>3. e = [hand EXCEPT !.status = "Sending", !.next_retry_at = t]
          BY <3>2 DEF Rescheduled
        <4> HIDE DEF t, e
        <4>4. t \in Time
          BY <4>2 DEF t
        <4>5. e = [id |-> hand.id, attempts |-> hand.attempts,
                   status |-> "Sending", next_retry_at |-> t]
          BY <2>2, <4>3 DEF Entry
        <4>6. hand.id \in Peer /\ hand.attempts \in 0..MAX_RETRY_ATTEMPTS
              /\ hand.attempts < MAX_RETRY_ATTEMPTS
          BY <2>2, <3>2 DEF Entry
        <4> QED BY <4>4, <4>5, <4>6 DEF Entry
      <3> QED BY <3>1, <3>2
    <2> HIDE DEF e
    <2>5. /\ queue' \in Seq(Entry) /\ Len(queue') = Len(queue) + 1
          /\ Len(queue) \in Nat
          /\ \A k \in 1..Len(queue) : queue'[k] = queue[k]
          /\ queue'[Len(queue) + 1] = e
      BY <2>1, <2>4, AppendProperties, LenProperties DEF IInv, TypeOK
    <2>6. Held = {hand.id} /\ Held' = {} /\ hand.id \notin Queued
      BY <2>1, <2>2 DEF Held, IInv, OneCopy
    <2>7. Queued' = Queued \cup {hand.id}
      BY <2>4, <2>5 DEF Queued
    <2>8. InOutbox' = InOutbox
      BY <2>6, <2>7 DEF InOutbox
    <2>9. TypeOK'
      BY <2>1, <2>5 DEF IInv, TypeOK
    <2>10. OneCopy'
      <3>1. \A k \in 1..Len(queue) : queue[k].id # hand.id
        BY <2>6 DEF Queued
      <3>2. ASSUME NEW k \in 1..Len(queue'), NEW l \in 1..Len(queue'),
                   queue'[k].id = queue'[l].id
            PROVE  k = l
        BY <2>4, <2>5, <3>1, <3>2 DEF IInv, OneCopy
      <3> QED BY <2>6, <3>2 DEF OneCopy
    <2>11. QueueBounded'
      BY <2>1, <2>2, <2>5 DEF IInv, QueueBounded
    <2>12. EntryInv'
      BY <2>1, <2>3, <2>4, <2>5 DEF IInv, EntryInv
    <2>13. StageInv' /\ NoSilentDrop' /\ ConfirmedIsFinal' /\ TextDeliveredByReceipt' /\ FileInv'
      BY <2>1, <2>8 DEF IInv, StageInv, NoSilentDrop, ConfirmedIsFinal,
         TextDeliveredByReceipt, FileInv
    <2> QED BY <2>9, <2>10, <2>11, <2>12, <2>13 DEF IInv
  <1> QED BY <1>1, <1>2, <1>3, <1>4 DEF WorkerStep

(* A receipt marks the message and removes its entry, wherever it is. *)
LEMMA ReceiptKeepsIInv ==
  ASSUME IInv, NEW m \in Ids, Receipt(m)
  PROVE  IInv'
  <1> USE OutboxConstants
  <1>1. /\ UNCHANGED <<clock, wpc, wnow, hand, stage, transmitted, overflowed,
                       tries, restarts, forgotten>>
        /\ db' = [db EXCEPT ![m] = "delivered"] /\ Save
        /\ confirmed' = confirmed \cup {m}
        /\ m \in Peer /\ db[m] # "absent" /\ MarkDelivered(m)
    BY DEF Receipt, worker, lives
  <1>2. stage[m] \notin BeforeStore
    BY <1>1 DEF IInv, StageInv
  <1>3. /\ OneCopy' /\ QueueBounded' /\ EntryInv'
        /\ queue' \in Seq(Entry)
        /\ InOutbox' \subseteq InOutbox
        /\ InOutbox \subseteq InOutbox' \cup {m}
    <2>1. CASE UNCHANGED queue
      <3>1. queue' \in Seq(Entry)
        BY <2>1 DEF IInv, TypeOK
      <3> QED BY <1>1, <2>1, <3>1, OutboxUntouched DEF IInv
    <2>2. CASE \E i \in 1..Len(queue) : queue[i].id = m /\ queue' = RemoveAt(queue, i)
      <3>1. PICK i \in 1..Len(queue) : queue[i].id = m /\ queue' = RemoveAt(queue, i)
        BY <2>2
      <3>2. /\ queue' \in Seq(Entry) /\ Len(queue') = Len(queue) - 1
            /\ Len(queue) \in Nat
            /\ \A k \in 1..Len(queue') : \E l \in 1..Len(queue) :
                 l # i /\ queue'[k] = queue[l]
            /\ \A x : x \in Queued' <=> x \in Queued /\ x # queue[i].id
            /\ \A k, l \in 1..Len(queue') : queue'[k].id = queue'[l].id => k = l
        BY <3>1, QueueWithout DEF IInv
      <3>3. Held' = Held
        BY <1>1 DEF Held
      <3>4. OneCopy'
        BY <3>2, <3>3 DEF IInv, OneCopy
      <3>5. QueueBounded'
        BY <1>1, <3>2 DEF IInv, QueueBounded
      <3>6. EntryInv'
        BY <1>1, <3>2 DEF IInv, EntryInv
      <3> QED BY <3>1, <3>2, <3>3, <3>4, <3>5, <3>6 DEF InOutbox
    <2> QED BY <1>1, <2>1, <2>2 DEF MarkDelivered
  <1>4. TypeOK'
    BY <1>1, <1>3 DEF IInv, TypeOK, DbState, Save
  <1>5. StageInv'
    BY <1>1, <1>2, <1>3 DEF IInv, TypeOK, StageInv, BeforeStore, Save
  <1>6. NoSilentDrop' /\ ConfirmedIsFinal' /\ TextDeliveredByReceipt' /\ FileInv'
    BY <1>1, <1>3 DEF IInv, TypeOK, NoSilentDrop, ConfirmedIsFinal,
       TextDeliveredByReceipt, FileInv, Save, Ids, Peer
  <1> QED BY <1>3, <1>4, <1>5, <1>6 DEF IInv

(* Deletions, a wipe, a message of a peer in the place of the user's, the  *)
(* saves of other calls and the clock leave the outbox alone.              *)
LEMMA OthersKeepIInv ==
  ASSUME IInv, \/ \E S \in SUBSET Ids : Delete(S)
               \/ WipeLocalData
               \/ \E m \in Ids : TakeOver(m)
               \/ SaveElsewhere
               \/ Tick
  PROVE  IInv'
  <1> USE OutboxConstants
  <1>1. /\ UNCHANGED <<queue, wpc, wnow, hand, stage, transmitted, confirmed,
                       overflowed, tries, restarts, forgotten>>
        /\ clock' \in Time
        /\ db' \in [Ids -> DbState]
        /\ disk' = disk \/ disk' = db'
        /\ \A m \in Ids : db[m] = "absent" => db'[m] = "absent"
        /\ \A m \in Ids : db'[m] \in {"pending", "delivered"} => db'[m] = db[m]
    <2>1. CASE \E S \in SUBSET Ids : Delete(S)
      BY <2>1 DEF Delete, Save, worker, history, lives, IInv, TypeOK, DbState
    <2>2. CASE WipeLocalData
      BY <2>2 DEF WipeLocalData, Save, worker, history, lives, IInv, TypeOK, DbState
    <2>3. CASE \E m \in Ids : TakeOver(m)
      BY <2>3 DEF TakeOver, Save, worker, history, lives, IInv, TypeOK, DbState
    <2>4. CASE SaveElsewhere
      BY <2>4 DEF SaveElsewhere, worker, history, lives, IInv, TypeOK
    <2>5. CASE Tick
      BY <2>5 DEF Tick, worker, history, rows, lives, IInv, TypeOK, Time
    <2> QED BY <2>1, <2>2, <2>3, <2>4, <2>5
  <1>2. OneCopy' /\ QueueBounded' /\ EntryInv' /\ InOutbox' = InOutbox
    BY <1>1, OutboxUntouched DEF IInv
  <1>3. TypeOK'
    BY <1>1 DEF IInv, TypeOK
  <1>4. StageInv'
    BY <1>1, <1>2 DEF IInv, StageInv
  <1>5. NoSilentDrop' /\ ConfirmedIsFinal' /\ TextDeliveredByReceipt' /\ FileInv'
    BY <1>1, <1>2 DEF IInv, TypeOK, NoSilentDrop, ConfirmedIsFinal,
       TextDeliveredByReceipt, FileInv, Ids, Peer
  <1> QED BY <1>2, <1>3, <1>4, <1>5 DEF IInv

(* A restart refills the outbox from the file, however old that is. *)
LEMMA RestartKeepsIInv ==
  ASSUME IInv, Restart
  PROVE  IInv'
  <1> USE OutboxConstants
  <1>1. /\ UNCHANGED <<clock, disk, transmitted, confirmed>>
        /\ db' = disk
        /\ forgotten' = forgotten \cup {m \in Ids : disk[m] # db[m]}
        /\ wpc' = "idle" /\ wnow' = 0 /\ hand' = NoItem
        /\ stage' = [m \in Ids |-> IF stage[m] \in {"unsent", "done", "refused"}
                                   THEN stage[m] ELSE "lost"]
        /\ tries' = [m \in Ids |-> 0]
        /\ restarts' = restarts + 1 /\ restarts < MaxRestarts
    BY DEF Restart
  <1>a. PICK n \in 0..MAX_QUEUED_MESSAGES : \E f \in [1..n -> Pending] :
          /\ \A i, j \in 1..n : f[i] = f[j] => i = j
          /\ n = MAX_QUEUED_MESSAGES \/ \A m \in Pending : \E i \in 1..n : f[i] = m
          /\ queue' = [i \in 1..n |-> Fresh(f[i], clock)]
          /\ overflowed' = {m \in Pending : \A i \in 1..n : f[i] # m}
    BY DEF Restart
  <1>2. PICK f \in [1..n -> Pending] :
          /\ \A i, j \in 1..n : f[i] = f[j] => i = j
          /\ queue' = [i \in 1..n |-> Fresh(f[i], clock)]
          /\ overflowed' = {m \in Pending : \A i \in 1..n : f[i] # m}
    BY <1>a
  <1>3. /\ \A i \in 1..n : f[i] \in Peer /\ f[i] \in Ids /\ disk[f[i]] = "pending"
        /\ \A i \in 1..n : Fresh(f[i], clock) \in Entry
    BY DEF Pending, Fresh, Entry, IInv, TypeOK, Ids
  <1>4. /\ queue' \in Seq(Entry) /\ Len(queue') = n
        /\ \A i \in 1..n : /\ queue'[i].id = f[i]
                           /\ queue'[i].attempts = 0
                           /\ queue'[i].status = "Sending"
    <2>1. queue' \in Seq(Entry) /\ Len(queue') = n
      BY <1>2, <1>3, IsASeq
    <2>2. \A i \in 1..n : queue'[i] = Fresh(f[i], clock)
      BY <1>2
    <2> QED BY <2>1, <2>2 DEF Fresh
  <1>5. /\ Held' = {}
        /\ \A x : x \in Queued' <=> \E i \in 1..n : x = f[i]
        /\ InOutbox' = Queued'
    BY <1>1, <1>4 DEF Held, Queued, InOutbox
  <1>6. TypeOK'
    BY <1>1, <1>2, <1>4 DEF IInv, TypeOK, Time, Stage, Pending, Ids
  <1>7. OneCopy' /\ QueueBounded'
    BY <1>1, <1>2, <1>4, <1>5 DEF OneCopy, QueueBounded
  <1>8. EntryInv'
    <2>1. \A m \in Ids : tries'[m] = 0
      BY <1>1
    <2> QED BY <1>1, <1>3, <1>4, <2>1 DEF EntryInv, Ids
  <1>9. StageInv'
    <2> SUFFICES ASSUME NEW m \in Ids
                 PROVE  /\ stage'[m] \in UnderWay => m \in Peer
                        /\ stage'[m] = "handed" => m \notin Text
                        /\ stage'[m] \in BeforeStore => /\ db'[m] = "absent" /\ disk'[m] = "absent"
                                                         /\ m \notin confirmed'
                        /\ stage'[m] \in BeforePush => m \notin InOutbox' /\ tries'[m] = 0
                        /\ stage'[m] = "pushed" => m \in InOutbox' \cup overflowed'
      BY DEF StageInv
    <2>1. stage'[m] \in BeforePush \cup BeforeStore \cup UnderWay
            => stage[m] = "unsent" /\ stage'[m] = "unsent"
      BY <1>1 DEF BeforePush, BeforeStore, UnderWay
    <2>2. stage[m] = "unsent" => disk[m] = "absent" /\ m \notin confirmed
      BY DEF IInv, StageInv, BeforeStore
    <2>3. disk[m] = "absent" => m \notin InOutbox'
      BY <1>3, <1>5
    <2>4. tries'[m] = 0
      BY <1>1
    <2> QED BY <1>1, <2>1, <2>2, <2>3, <2>4 DEF BeforePush, BeforeStore, UnderWay
  <1>10. NoSilentDrop'
    BY <1>1, <1>2, <1>5 DEF NoSilentDrop, Pending
  <1>11. ConfirmedIsFinal'
    <2>1. confirmed \subseteq Ids
      BY DEF IInv, TypeOK
    <2> QED BY <1>1, <2>1 DEF IInv, ConfirmedIsFinal
  <1>12. TextDeliveredByReceipt' /\ FileInv'
    BY <1>1 DEF IInv, TextDeliveredByReceipt, FileInv
  <1> QED BY <1>6, <1>7, <1>8, <1>9, <1>10, <1>11, <1>12 DEF IInv

-----------------------------------------------------------------------------
(* Every reachable state satisfies the inductive invariant. *)
THEOREM Invariance == Spec => []IInv
  <1>1. Init => IInv
    BY InitIInv
  <1>2. IInv /\ [Next]_vars => IInv'
    <2> SUFFICES ASSUME IInv, [Next]_vars PROVE IInv'
      OBVIOUS
    <2>1. CASE Next
      <3>1. ASSUME NEW m \in Ids,
                   \/ RefuseBlocked(m) \/ StartSend(m) \/ SendGroup(m)
                   \/ SendSaved(m) \/ SendStep(m) \/ Receipt(m) \/ TakeOver(m)
            PROVE  IInv'
        BY <3>1, SendKeepsIInv, PushKeepsIInv, ReceiptKeepsIInv, OthersKeepIInv DEF SendStep
      <3> QED BY <2>1, <3>1, WorkerKeepsIInv, OthersKeepIInv, RestartKeepsIInv
              DEF Next
    <2>2. CASE UNCHANGED vars
      BY <2>2 DEF vars, IInv, TypeOK, StageInv, OneCopy, QueueBounded, EntryInv,
         NoSilentDrop, ConfirmedIsFinal, TextDeliveredByReceipt, FileInv, Queued, Held,
         InOutbox
    <2> QED BY <2>1, <2>2
  <1> QED BY <1>1, <1>2, PTL DEF Spec

(* The types of Outbox, and that the worker holds an entry exactly while   *)
(* it sends it.                                                            *)
THEOREM TypeCorrect == Spec => []TypeOK
  <1>1. IInv => TypeOK
    BY DEF IInv
  <1> QED BY <1>1, Invariance, PTL

(* No message is twice in the outbox, the worker's hand included, for any  *)
(* number of messages and any capacity.                                    *)
THEOREM OneCopyHolds == Spec => []OneCopy
  <1>1. IInv => OneCopy
    BY DEF IInv
  <1> QED BY <1>1, Invariance, PTL

(* The outbox never exceeds its capacity by more than the one entry that   *)
(* schedule_retry puts back unchecked.                                     *)
THEOREM QueueBoundedHolds == Spec => []QueueBounded
  <1>1. IInv => QueueBounded
    BY DEF IInv
  <1> QED BY <1>1, Invariance, PTL

(* The worker never sends a message more often than its budget allows, and *)
(* fails it only when the budget is used up.                               *)
THEOREM RetryBudgetHolds == Spec => []RetryBudget
  <1>1. IInv => RetryBudget
    BY DEF IInv, EntryInv, RetryBudget
  <1> QED BY <1>1, Invariance, PTL

(* An undelivered message is never dropped from the outbox silently.       *)
THEOREM NoSilentDropHolds == Spec => []NoSilentDrop
  <1>1. IInv => NoSilentDrop
    BY DEF IInv
  <1> QED BY <1>1, Invariance, PTL

(* An accepted receipt is final, although the worker may hold the entry    *)
(* when it comes, whatever saves fail: only a restart that finds this very *)
(* message's row outdated in the file makes it pending again.              *)
THEOREM ConfirmedIsFinalHolds == Spec => []ConfirmedIsFinal
  <1>1. IInv => ConfirmedIsFinal
    BY DEF IInv
  <1> QED BY <1>1, Invariance, PTL

(* Only an accepted receipt shows a text message as delivered; the         *)
(* worker's sends and the transport's Ok never do.                         *)
THEOREM TextDeliveredByReceiptHolds == Spec => []TextDeliveredByReceipt
  <1>1. IInv => TextDeliveredByReceipt
    BY DEF IInv
  <1> QED BY <1>1, Invariance, PTL

=============================================================================
