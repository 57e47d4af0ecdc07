------------------------------- MODULE Outbox -------------------------------
(***************************************************************************)
(* The sending half of the messenger: the send_* calls, the local message  *)
(* database as far as they use it, the outbox (MessageQueue) and the       *)
(* background retry worker that KadMessenger::start spawns.                *)
(*                                                                         *)
(* Several tasks share the outbox and the database, each behind its own    *)
(* lock: every send call, the retry worker, the inbox loop (which handles  *)
(* receipts) and the user's deletions.  One action is one critical section *)
(* (or one network await), so that all their interleavings are explored.   *)
(*                                                                         *)
(* Time is counted in seconds.  MaxTime is a horizon: the clock stops      *)
(* there and deadlines beyond it collapse onto it, so a run is finite and  *)
(* a message that waits for a deadline is still reached.                   *)
(***************************************************************************)
EXTENDS Integers, Sequences, FiniteSets, SequencesExt

CONSTANTS
  Text,                \* messages sent with send_message
  Media,               \* messages sent with send_voice_note or send_file
  Group,               \* messages sent with send_group_message
  Saved,               \* notes to self ("self_saved_messages")
  MAX_RETRY_ATTEMPTS,  \* 6 in message_queue.rs
  MAX_QUEUED_MESSAGES, \* 100 in message_queue.rs
  CONFIRM_DELAY,       \* seconds send_message waits for a receipt (8)
  MaxTime,             \* bound: the horizon of the clock
  MaxRestarts,         \* bound: how often the process is killed and restarted
  SavesMayFail,        \* whether save_to_file may fail
  NoItem               \* the worker holds no entry

Peer == Text \cup Media          \* the messages the outbox may hold
Ids == Peer \cup Group \cup Saved

Time == 0..MaxTime

(***************************************************************************)
(* QueuedMessage; its status is Sending or Failed, the two values the      *)
(* queue ever gives it.                                                    *)
(***************************************************************************)
Entry == [id : Peer, attempts : 0..MAX_RETRY_ATTEMPTS,
          status : {"Sending", "Failed"}, next_retry_at : Time]

ASSUME OutboxConstants ==
  /\ MAX_RETRY_ATTEMPTS \in Nat \ {0}
  /\ MAX_QUEUED_MESSAGES \in Nat
  /\ CONFIRM_DELAY \in Nat
  /\ MaxTime \in Nat
  /\ MaxRestarts \in Nat
  /\ SavesMayFail \in BOOLEAN
  /\ NoItem \notin Entry
  /\ Group \cap Peer = {}
  /\ Saved \cap Peer = {}
  /\ Saved \cap Group = {}

VARIABLES
  clock,        \* current_timestamp()
  queue,        \* the outbox: a sequence of entries
  wpc,          \* where the retry worker is
  wnow,         \* the worker's `now`, read once per tick
  hand,         \* the entry the worker popped and has not put back
  db,           \* each message in the database
  disk,         \* the database as its file has it
  stage,        \* how far the send call of each message got
  transmitted,  \* messages of which an envelope reached the network
  confirmed,    \* messages whose receipt was accepted (history)
  overflowed,   \* messages a full outbox refused in this lifetime (history)
  tries,        \* worker attempts for each message in this lifetime (history,
                \* counted up to one more than the budget)
  restarts,     \* restarts so far
  forgotten     \* messages whose last change a restart undid, because it
                \* was never written to the file (history)

vars == <<clock, queue, wpc, wnow, hand, db, disk, stage, transmitted,
          confirmed, overflowed, tries, restarts, forgotten>>
worker == <<wpc, wnow, hand>>
rows == <<db, disk>>
lives == <<restarts, forgotten>>
history == <<confirmed, overflowed, tries>>

(***************************************************************************)
(* db[m], the user's own message m: "absent", "pending" (stored, delivered *)
(* = false), "delivered", or "deleted" (in deleted_message_ids, gone from  *)
(* messages).                                                              *)
(***************************************************************************)
DbState == {"absent", "pending", "delivered", "deleted"}

(***************************************************************************)
(* stage[m], the send call of m:                                           *)
(*   unsent; delivering: inside try_deliver_*;                             *)
(*   accepted -> pushed: send_message got Ok, queues the message, then     *)
(*     stores it; rejected -> stored: it got a transport error, stores the *)
(*     message, then queues it;                                            *)
(*   handed: a media message got Ok and is about to be stored;             *)
(*   broadcasting: a group message is stored and goes to the members;      *)
(*   done: returned Ok; refused: returned Err; lost: killed on the way.    *)
(***************************************************************************)
Stage == {"unsent", "delivering", "accepted", "pushed", "rejected", "stored",
          "handed", "broadcasting", "done", "refused", "lost"}

Horizon(t) == IF t > MaxTime THEN MaxTime ELSE t

Queued == {queue[i].id : i \in 1..Len(queue)}
Held == IF hand = NoItem THEN {} ELSE {hand.id}
InOutbox == Queued \cup Held

Init ==
  /\ clock = 0
  /\ queue = <<>>
  /\ wpc = "idle" /\ wnow = 0 /\ hand = NoItem
  /\ db = [m \in Ids |-> "absent"]
  /\ disk = db
  /\ stage = [m \in Ids |-> "unsent"]
  /\ transmitted = {}
  /\ confirmed = {}
  /\ overflowed = {}
  /\ tries = [m \in Ids |-> 0]
  /\ restarts = 0
  /\ forgotten = {}

-----------------------------------------------------------------------------
(* The database and the queue, as the actions below use them. *)

Fresh(m, t) ==
  [id |-> m, attempts |-> 0, status |-> "Sending", next_retry_at |-> t]

(***************************************************************************)
(* Every change of the database is followed by save_to_file, which writes  *)
(* all of it; its error is ignored (`.ok()`), and then the file is as old  *)
(* as the last write that succeeded.                                       *)
(***************************************************************************)
Save == disk' = db' \/ (SavesMayFail /\ UNCHANGED disk)

(* add_message: an id that was deleted is never stored again. *)
AddMessage(m, s) ==
  /\ db' = [db EXCEPT ![m] = IF @ = "deleted" THEN @ ELSE s]
  /\ Save

(* push_after: no second entry for an id, none at all when full. *)
PushAfter(m, delay) ==
  \/ /\ m \in Queued
     /\ UNCHANGED <<queue, overflowed>>
  \/ /\ m \notin Queued
     /\ Len(queue) >= MAX_QUEUED_MESSAGES
     /\ overflowed' = overflowed \cup {m}
     /\ UNCHANGED queue
  \/ /\ m \notin Queued
     /\ Len(queue) < MAX_QUEUED_MESSAGES
     /\ queue' = Append(queue, Fresh(m, Horizon(clock + delay)))
     /\ UNCHANGED overflowed

First(i, I) == i \in I /\ \A j \in I : i <= j

(* mark_delivered: removes the first entry with the id, if there is one. *)
MarkDelivered(m) ==
  LET at == {i \in 1..Len(queue) : queue[i].id = m}
  IN  \/ at = {} /\ UNCHANGED queue
      \/ \E i \in at : First(i, at) /\ queue' = RemoveAt(queue, i)

Advance(m, from, to) == stage[m] = from /\ stage' = [stage EXCEPT ![m] = to]

-----------------------------------------------------------------------------
(* send_message *)

(* Blocked recipient: the call fails before anything happens. *)
RefuseBlocked(m) ==
  /\ m \in Text
  /\ Advance(m, "unsent", "refused")
  /\ UNCHANGED <<clock, queue, worker, rows, transmitted, history, lives>>

StartSend(m) ==
  /\ m \in Peer
  /\ Advance(m, "unsent", "delivering")
  /\ UNCHANGED <<clock, queue, worker, rows, transmitted, history, lives>>

(***************************************************************************)
(* try_deliver_payload returns Ok when a peer acknowledged the STORE and   *)
(* also when tier 3 kept the envelope only in the local storage: Ok does   *)
(* not tell whether anything left the node.                                *)
(***************************************************************************)
Cascade(m) == transmitted' \in {transmitted, transmitted \cup {m}}

DeliverOk(m) ==
  /\ Advance(m, "delivering", IF m \in Text THEN "accepted" ELSE "handed")
  /\ Cascade(m)
  /\ UNCHANGED <<clock, queue, worker, rows, history, lives>>

(* RecipientVerifiedKeyMissing: a text message is given back to the caller, *)
(* a media message is treated as any other failure.                         *)
DeliverKeyMissing(m) ==
  /\ Advance(m, "delivering", IF m \in Text THEN "refused" ELSE "rejected")
  /\ UNCHANGED <<clock, queue, worker, rows, transmitted, history, lives>>

(* Any other error; an earlier tier may have got through all the same. *)
DeliverErr(m) ==
  /\ Advance(m, "delivering", "rejected")
  /\ Cascade(m)
  /\ UNCHANGED <<clock, queue, worker, rows, history, lives>>

PushAccepted(m) ==
  /\ Advance(m, "accepted", "pushed")
  /\ PushAfter(m, CONFIRM_DELAY)
  /\ UNCHANGED <<clock, worker, rows, transmitted, confirmed, tries, lives>>

(* A fault to detect: Ok from the transport is taken for delivery. *)
StorePushedAsDelivered(m) ==
  /\ Advance(m, "pushed", "done")
  /\ AddMessage(m, "delivered")
  /\ UNCHANGED <<clock, queue, worker, transmitted, history, lives>>

StorePushed(m) ==
  /\ Advance(m, "pushed", "done")
  /\ AddMessage(m, "pending")
  /\ UNCHANGED <<clock, queue, worker, transmitted, history, lives>>

StoreRejected(m) ==
  /\ Advance(m, "rejected", "stored")
  /\ AddMessage(m, "pending")
  /\ UNCHANGED <<clock, queue, worker, transmitted, history, lives>>

PushStored(m) ==
  /\ Advance(m, "stored", "done")
  /\ PushAfter(m, 0)
  /\ UNCHANGED <<clock, worker, rows, transmitted, confirmed, tries, lives>>

(* send_voice_note and send_file store the transport's Ok as delivered. *)
StoreHanded(m) ==
  /\ Advance(m, "handed", "done")
  /\ AddMessage(m, "delivered")
  /\ UNCHANGED <<clock, queue, worker, transmitted, history, lives>>

(* send_group_message: stored as delivered, then sent once to each member. *)
SendGroup(m) ==
  /\ m \in Group
  /\ Advance(m, "unsent", "broadcasting")
  /\ AddMessage(m, "delivered")
  /\ UNCHANGED <<clock, queue, worker, transmitted, history, lives>>

Broadcast(m) ==
  /\ Advance(m, "broadcasting", "done")
  /\ Cascade(m)
  /\ UNCHANGED <<clock, queue, worker, rows, history, lives>>

SendSaved(m) ==
  /\ m \in Saved
  /\ Advance(m, "unsent", "done")
  /\ AddMessage(m, "delivered")
  /\ UNCHANGED <<clock, queue, worker, transmitted, history, lives>>

(* The steps of a call under way; the user decides only whether to start. *)
SendStep(m) ==
  \/ DeliverOk(m) \/ DeliverKeyMissing(m) \/ DeliverErr(m)
  \/ PushAccepted(m) \/ StorePushed(m)
  \/ StoreRejected(m) \/ PushStored(m)
  \/ StoreHanded(m) \/ Broadcast(m)

-----------------------------------------------------------------------------
(* The retry worker *)

WorkerTick ==
  /\ wpc = "idle"
  /\ wpc' = "looping"
  /\ wnow' = clock
  /\ UNCHANGED <<clock, queue, hand, rows, stage, transmitted, history, lives>>

Due == {i \in 1..Len(queue) :
          queue[i].status = "Sending" /\ queue[i].next_retry_at <= wnow}

(* Faults to detect: the entry stays in the queue; its attempt is not       *)
(* counted.                                                                *)
PopPendingByPeeking ==
  /\ wpc = "looping"
  /\ \E i \in Due :
       /\ First(i, Due)
       /\ hand' = [queue[i] EXCEPT !.attempts = @ + 1]
  /\ wpc' = "delivering"
  /\ UNCHANGED <<queue, wnow, clock, rows, stage, transmitted, history, lives>>

PopPendingUncounted ==
  /\ wpc = "looping"
  /\ \E i \in Due :
       /\ First(i, Due)
       /\ hand' = queue[i]
       /\ queue' = RemoveAt(queue, i)
  /\ wpc' = "delivering"
  /\ UNCHANGED <<wnow, clock, rows, stage, transmitted, history, lives>>

(* pop_pending(now) found an entry: it leaves the queue while it is sent. *)
PopPending ==
  /\ wpc = "looping"
  /\ \E i \in Due :
       /\ First(i, Due)
       /\ hand' = [queue[i] EXCEPT !.attempts = @ + 1]
       /\ queue' = RemoveAt(queue, i)
  /\ wpc' = "delivering"
  /\ UNCHANGED <<wnow, clock, rows, stage, transmitted, history, lives>>

NothingDue ==
  /\ wpc = "looping"
  /\ Due = {}
  /\ wpc' = "idle"
  /\ wnow' = 0
  /\ UNCHANGED <<hand, clock, queue, rows, stage, transmitted, history, lives>>

WorkerDeliver ==
  /\ wpc = "delivering"
  /\ wpc' = "scheduling"
  /\ Cascade(hand.id)
  /\ tries' = [tries EXCEPT ![hand.id] = IF @ > MAX_RETRY_ATTEMPTS THEN @ ELSE @ + 1]
  /\ UNCHANGED <<wnow, hand, clock, queue, rows, stage, confirmed, overflowed,
                 lives>>

(* Backoff in seconds, 2^min(attempts, 5): 2, 4, 8, 16, 32, 32, ... *)
PowersOfTwo == <<1, 2, 4, 8, 16, 32>>
Backoff(attempts) == PowersOfTwo[IF attempts > 5 THEN 6 ELSE attempts + 1]

(* A fault to detect: one retry too many. *)
RescheduledOnceMore(e) ==
  IF e.attempts > MAX_RETRY_ATTEMPTS
  THEN [e EXCEPT !.status = "Failed"]
  ELSE [e EXCEPT !.next_retry_at = Horizon(wnow + Backoff(e.attempts))]

Rescheduled(e) ==
  IF e.attempts >= MAX_RETRY_ATTEMPTS
  THEN [e EXCEPT !.status = "Failed"]
  ELSE [e EXCEPT !.status = "Sending",
                 !.next_retry_at = Horizon(wnow + Backoff(e.attempts))]

(* A fault to detect: what the transport accepted is not put back. *)
ScheduleRetryUnlessAccepted ==
  /\ wpc = "scheduling"
  /\ queue' = IF hand.id \in transmitted THEN queue
              ELSE Append(queue, Rescheduled(hand))
  /\ hand' = NoItem
  /\ wpc' = "looping"
  /\ UNCHANGED <<wnow, clock, rows, stage, transmitted, history, lives>>

(* schedule_retry puts the entry back whatever the transport said, without *)
(* looking at the queue's length or at the database.                       *)
ScheduleRetry ==
  /\ wpc = "scheduling"
  /\ queue' = Append(queue, Rescheduled(hand))
  /\ hand' = NoItem
  /\ wpc' = "looping"
  /\ UNCHANGED <<wnow, clock, rows, stage, transmitted, history, lives>>

WorkerStep == WorkerTick \/ PopPending \/ NothingDue \/ WorkerDeliver
                \/ ScheduleRetry

-----------------------------------------------------------------------------
(* The inbox loop, the user, the process and the clock *)

(* A fault to detect: a receipt is accepted for a message not stored yet. *)
ReceiptUnchecked(m) ==
  /\ m \in transmitted \cap Peer
  /\ db' = [db EXCEPT ![m] = "delivered"] /\ Save
  /\ MarkDelivered(m)
  /\ confirmed' = confirmed \cup {m}
  /\ UNCHANGED <<clock, worker, stage, transmitted, overflowed, tries, lives>>

(***************************************************************************)
(* A delivery receipt of m's recipient, for an envelope that got through.  *)
(* It is accepted only while m is in the database as a message to that     *)
(* recipient (a group message is addressed to the group); a receipt that   *)
(* comes before StorePushed or after a deletion is rejected and lost.      *)
(* Both locks are held, the database's first.                              *)
(***************************************************************************)
Receipt(m) ==
  /\ m \in transmitted \cap Peer
  /\ db[m] \in {"pending", "delivered"}
  /\ db' = [db EXCEPT ![m] = "delivered"] /\ Save
  /\ MarkDelivered(m)
  /\ confirmed' = confirmed \cup {m}
  /\ UNCHANGED <<clock, worker, stage, transmitted, overflowed, tries, lives>>

(* delete_message(s), delete_messages_for_everyone, clear_chat and         *)
(* delete_contact: only the database changes.                              *)
Delete(S) ==
  /\ S # {}
  /\ \A m \in S : db[m] \in {"pending", "delivered"}
  /\ db' = [m \in Ids |-> IF m \in S THEN "deleted" ELSE db[m]] /\ Save
  /\ UNCHANGED <<clock, queue, worker, stage, transmitted, history, lives>>

(* wipe_local_data forgets messages and deletions and removes the file, *)
(* whose error is ignored like a save's.                                *)
WipeLocalData ==
  /\ \E m \in Ids : db[m] # "absent"
  /\ db' = [m \in Ids |-> "absent"] /\ Save
  /\ UNCHANGED <<clock, queue, worker, stage, transmitted, history, lives>>

(***************************************************************************)
(* Who got m's envelope knows its id and may send a message of his own     *)
(* with it: add_message puts that message in the place of the user's row.  *)
(***************************************************************************)
TakeOver(m) ==
  /\ m \in transmitted /\ db[m] \in {"pending", "delivered"}
  /\ db' = [db EXCEPT ![m] = "absent"] /\ Save
  /\ UNCHANGED <<clock, queue, worker, stage, transmitted, history, lives>>

(* Calls about contacts, groups or the profile save the messages with them. *)
SaveElsewhere ==
  /\ disk' = db
  /\ UNCHANGED <<clock, queue, worker, db, stage, transmitted, history, lives>>

Pending == {m \in Peer : disk[m] = "pending"}

(***************************************************************************)
(* The process dies anywhere and KadMessenger::start runs again: it loads  *)
(* the file and refills the outbox from it up to its capacity.  The order  *)
(* of the database's messages is abstracted to any order.                  *)
(***************************************************************************)
Restart ==
  /\ restarts < MaxRestarts
  /\ restarts' = restarts + 1
  /\ \E n \in 0..MAX_QUEUED_MESSAGES : \E f \in [1..n -> Pending] :
       /\ \A i, j \in 1..n : f[i] = f[j] => i = j
       /\ n = MAX_QUEUED_MESSAGES \/ \A m \in Pending : \E i \in 1..n : f[i] = m
       /\ queue' = [i \in 1..n |-> Fresh(f[i], clock)]
       /\ overflowed' = {m \in Pending : \A i \in 1..n : f[i] # m}
  /\ wpc' = "idle" /\ wnow' = 0 /\ hand' = NoItem
  /\ stage' = [m \in Ids |-> IF stage[m] \in {"unsent", "done", "refused"}
                             THEN stage[m] ELSE "lost"]
  /\ tries' = [m \in Ids |-> 0]
  /\ db' = disk
  /\ forgotten' = forgotten \cup {m \in Ids : disk[m] # db[m]}
  /\ UNCHANGED <<clock, disk, transmitted, confirmed>>

Tick ==
  /\ clock < MaxTime
  /\ clock' = clock + 1
  /\ UNCHANGED <<queue, worker, rows, stage, transmitted, history, lives>>

Next ==
  \/ \E m \in Ids : \/ RefuseBlocked(m) \/ StartSend(m) \/ SendGroup(m)
                    \/ SendSaved(m) \/ SendStep(m) \/ Receipt(m)
                    \/ TakeOver(m)
  \/ WorkerStep
  \/ \E S \in SUBSET Ids : Delete(S)
  \/ WipeLocalData
  \/ SaveElsewhere
  \/ Restart
  \/ Tick

Spec == Init /\ [][Next]_vars

(***************************************************************************)
(* The runtime polls every task and every network await ends in a timeout, *)
(* so a call under way and the worker go on, and time passes.  Receipts,   *)
(* user actions and restarts need never happen.                            *)
(***************************************************************************)
Fairness ==
  /\ \A m \in Ids : WF_vars(SendStep(m))
  /\ WF_vars(WorkerStep)
  /\ WF_vars(Tick)

FairSpec == Spec /\ Fairness

-----------------------------------------------------------------------------
(* Properties *)

(* Every variable has its type; the worker holds an entry exactly while it *)
(* sends it (KadMessenger::start, the retry worker's loop).                *)
TypeOK ==
  /\ clock \in Time
  /\ queue \in Seq(Entry)
  /\ wpc \in {"idle", "looping", "delivering", "scheduling"}
  /\ wnow \in Time
  /\ hand \in Entry \cup {NoItem}
  /\ hand = NoItem <=> wpc \in {"idle", "looping"}
  /\ db \in [Ids -> DbState]
  /\ disk \in [Ids -> DbState]
  /\ stage \in [Ids -> Stage]
  /\ transmitted \subseteq Ids
  /\ confirmed \subseteq Ids
  /\ overflowed \subseteq Ids
  /\ tries \in [Ids -> Nat]
  /\ restarts \in 0..MaxRestarts
  /\ forgotten \subseteq Ids

(* A message is in the outbox at most once, the copy in the worker's hand  *)
(* included: push_after looks for duplicates only in the queue, and        *)
(* schedule_retry does not look at all.                                    *)
OneCopy ==
  /\ \A i, j \in 1..Len(queue) : queue[i].id = queue[j].id => i = j
  /\ Held \cap Queued = {}

(* The outbox exceeds MAX_QUEUED_MESSAGES by one entry at most, although   *)
(* schedule_retry appends without looking at the length: a push may take   *)
(* the place of the entry the worker has in its hand.                      *)
QueueBounded ==
  Len(queue) + (IF hand = NoItem THEN 0 ELSE 1) <= MAX_QUEUED_MESSAGES + 1

(* In one lifetime of the process the worker sends a message at most       *)
(* MAX_RETRY_ATTEMPTS times, and gives up only when it has done so.        *)
RetryBudget ==
  /\ \A m \in Peer : tries[m] <= MAX_RETRY_ATTEMPTS
  /\ \A i \in 1..Len(queue) :
       queue[i].status = "Failed" => tries[queue[i].id] = MAX_RETRY_ATTEMPTS

(* A message the database shows as undelivered is still the outbox's       *)
(* business, unless a full outbox refused it: no interleaving of sends,    *)
(* retries, receipts, deletions, failed saves and restarts drops it        *)
(* silently.  Only between the two steps of a failed send is it stored and *)
(* not yet queued.                                                         *)
NoSilentDrop ==
  \A m \in Peer : db[m] = "pending" /\ stage[m] # "stored"
                    => m \in InOutbox \cup overflowed

(* A message whose receipt was accepted is never undelivered again,        *)
(* although send_message stores it with delivered = false after its        *)
(* envelope may already have been answered.  A restart alone does not undo *)
(* it, so the message is not sent again; only a restart that finds an      *)
(* older row in the file does, when the save of this very message failed   *)
(* and no later one succeeded (start, receipt handling in the inbox loop). *)
ConfirmedIsFinal == \A m \in confirmed \ forgotten : db[m] # "pending"

(* A text message is shown as delivered only after an accepted receipt     *)
(* (send_message; the worker ignores what the transport answered).         *)
TextDeliveredByReceipt ==
  \A m \in Text : db[m] = "delivered" => m \in confirmed

Sending(m) ==
  \/ \E i \in 1..Len(queue) : queue[i].id = m /\ queue[i].status = "Sending"
  \/ m \in Held

(* Every message in the outbox leaves it or ends as Failed: it is not      *)
(* starved by other messages, by receipts or by the worker's stale `now`.  *)
RetryEnds == \A m \in Peer : Sending(m) ~> ~Sending(m)

(* A send call that was started comes to an end, and a text message whose  *)
(* call reported success is confirmed, deleted, given up or was refused by *)
(* a full outbox: it does not stay undecided for ever.                     *)
TextIsDecided ==
  \A m \in Text :
    stage[m] = "delivering" ~>
      \/ stage[m] \in {"refused", "lost"}
      \/ stage[m] = "done" /\ (db[m] # "pending" \/ ~Sending(m))

-----------------------------------------------------------------------------
(* What the documents say and the code does not do *)

(* technical-spec-wan-performance-media.md:154: `Delivered` requires a     *)
(* recipient acknowledgement.                                              *)
DeliveredNeedsReceipt ==
  \A m \in Peer \cup Group : db[m] = "delivered" => m \in confirmed

(* technical-spec-wan-performance-media.md:207: wipe removes the outbox.   *)
WipeEmptiesOutbox ==
  [][WipeLocalData => queue' = <<>> /\ hand' = NoItem]_vars
=============================================================================
