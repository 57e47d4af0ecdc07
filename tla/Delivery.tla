------------------------------ MODULE Delivery ------------------------------
(***************************************************************************)
(* The receiving half of the messenger and the mailbox between the two     *)
(* ends.  A sends to R; both, and a relay D, keep a copy of the record     *)
(* under R's mailbox key in their DHT storage.  A's direct STORE, A's      *)
(* deposit (read the record, append, put it back on the closest nodes) and *)
(* R's inbox poll loop (read, look up, cache, process, drain) work on      *)
(* these copies concurrently.                                              *)
(*                                                                         *)
(* The network may lose, delay, duplicate and reorder what is sent: a      *)
(* STORE or a receipt stays available once sent and is taken any number of *)
(* times or never.  A process may die between any two steps; storage,      *)
(* replay cache and tasks die with it, the database file does not; but a   *)
(* write of the file may fail unnoticed, and then it is older.  How        *)
(* often A sends a message again is left to module Outbox; here it may do  *)
(* so at any time up to MaxSends.  All peers are honest.                   *)
(***************************************************************************)
EXTENDS Integers, Sequences, FiniteSets, SequencesExt

CONSTANTS
  Msgs,                  \* the messages A has in its outbox
  Edits,                 \* the messages A's user may edit
  Tombstones,            \* the messages A's user may delete for everyone
  MAX_DEPOSIT,           \* envelopes a deposit keeps (30)
  MAX_MAILBOX_ENVELOPES, \* envelopes a merged record keeps (50)
  MaxSends,              \* bound: envelopes per message
  MaxDeposits,           \* bound: deposits per lifetime of A
  MaxCrashes,            \* bound: crashes of A, R and D together
  MaxSaveFailures        \* bound: save_to_file calls of A and R that fail

ASSUME DeliveryConstants ==
  /\ Edits \subseteq Msgs
  /\ Tombstones \subseteq Msgs
  /\ {MAX_DEPOSIT, MAX_MAILBOX_ENVELOPES, MaxSends} \subseteq Nat \ {0}
  /\ {MaxDeposits, MaxCrashes, MaxSaveFailures} \subseteq Nat

Nodes == {"A", "D", "R"}

(***************************************************************************)
(* An envelope: the kind of its payload, the message it is about, and n in *)
(* place of the random signature, so that every encryption differs.  The   *)
(* envelope sent by edit_message and delete_messages_for_everyone has      *)
(* n = 0; the outbox's have n = 1, 2, ...                                  *)
(***************************************************************************)
Envelope == [kind : {"chat", "edit", "tombstone"}, id : Msgs, n : 0..MaxSends]

VARIABLES
  \* A, the sender
  aDb,       \* A's copy of each message: "sent", "delivered" or "deleted"
  aEdited,   \* messages whose text was edited in A's database
  aDisk,     \* aDb and aEdited as last written to A's file
  qEdited,   \* messages whose copy in A's outbox is the edited one
  sends,     \* envelopes sent for each message
  sent,      \* envelopes handed to the delivery cascade
  dep,       \* deposits under way: the envelope and the record read
  \* the network and the storages
  stores,    \* STORE requests: the node and the value
  receipts,  \* delivery receipts on the way to A
  box,       \* each node's record under R's mailbox key; <<>> = none
  \* R, the recipient
  rpc,       \* where the poll loop is
  found,     \* the value get_silent got from another node
  batch,     \* the envelopes still to be processed
  seen,      \* the replay cache
  db,        \* R's messages: "absent", "original", "edited" or "deleted"
  tombs,     \* R's pending_tombstones
  disk,      \* db and tombs as last written to R's file
  acks,      \* receipt tasks that have been spawned
  notified,  \* how often MessageReceived was raised (history, up to 2)
  erased,    \* messages deleted at R by their author or by R (history)
  forgotten, \* messages whose last change at R a crash undid, because it
             \* was never written to R's file (history)
  crashes, saveFailures

aVars == <<aDb, aEdited, aDisk, qEdited, sends, sent, dep>>
pollVars == <<rpc, found, batch>>
rVars == <<db, tombs, disk>>
dbVars == <<rVars, saveFailures>>
lives == <<crashes, forgotten>>
vars == <<aVars, stores, receipts, box, pollVars, seen, dbVars, acks,
          notified, erased, lives>>

Init ==
  /\ aDb = [m \in Msgs |-> "sent"]
  /\ aEdited = {} /\ qEdited = {}
  /\ aDisk = [db |-> aDb, edited |-> aEdited]
  /\ sends = [m \in Msgs |-> 0]
  /\ sent = {} /\ dep = {} /\ stores = {} /\ receipts = {}
  /\ box = [n \in Nodes |-> <<>>]
  /\ rpc = "idle" /\ found = <<>> /\ batch = <<>>
  /\ seen = {}
  /\ db = [m \in Msgs |-> "absent"]
  /\ tombs = {}
  /\ disk = [db |-> [m \in Msgs |-> "absent"], tombs |-> {}]
  /\ acks = {} /\ erased = {}
  /\ notified = [m \in Msgs |-> 0]
  /\ crashes = 0 /\ forgotten = {} /\ saveFailures = 0

-----------------------------------------------------------------------------
(* Mailbox records *)

(* The last k elements of a sequence. *)
Youngest(s, k) == IF Len(s) <= k THEN s ELSE SubSeq(s, Len(s) - k + 1, Len(s))

(* A fault to detect: duplicates are appended. *)
MergeStoreValueWithDuplicates(old, new) == Youngest(old \o new, MAX_MAILBOX_ENVELOPES)

(* Push an envelope unless the record contains it. *)
Pushed(s, e) == IF e \in ToSet(s) THEN s ELSE Append(s, e)

(* The loop of merge_store_value over the incoming envelopes: what it has  *)
(* made of the old record after the first k of them.                       *)
Merged(old, new) ==
  LET after[k \in 0..Len(new)] == IF k = 0 THEN old ELSE Pushed(after[k-1], new[k])
  IN  after[Len(new)]

(* merge_store_value: append what is new, keep the youngest. *)
MergeStoreValue(old, new) == Youngest(Merged(old, new), MAX_MAILBOX_ENVELOPES)

(* The RPC handler of STORE merges under the storage lock. *)
HandleStore(s) ==
  /\ s \in stores
  /\ box' = [box EXCEPT ![s.to] = MergeStoreValue(@, s.value)]
  /\ UNCHANGED <<aVars, stores, receipts, pollVars, seen, dbVars, acks,
                 notified, erased, lives>>

(* The TCP bridge puts the value in place of the record. *)
TcpStore(s) ==
  /\ s \in stores /\ s.to = "R" /\ Len(s.value) = 1
  /\ box' = [box EXCEPT !["R"] = s.value]
  /\ UNCHANGED <<aVars, stores, receipts, pollVars, seen, dbVars, acks,
                 notified, erased, lives>>

-----------------------------------------------------------------------------
(* A sends *)

(* Tiers 1 and 2 of try_deliver_payload: a STORE of one envelope to R. *)
Cascade(e) ==
  /\ sent' = sent \cup {e}
  /\ stores' = stores \cup {[to |-> "R", value |-> <<e>>]}

(***************************************************************************)
(* The send call or the retry worker sends m.  The outbox holds a copy of  *)
(* the message as it was queued; after a restart it is a copy of the       *)
(* database row, and a row that was edited goes out with is_edited set.    *)
(***************************************************************************)
SendMessage(m) ==
  /\ sends[m] < MaxSends
  /\ sends' = [sends EXCEPT ![m] = @ + 1]
  /\ Cascade([kind |-> IF m \in qEdited THEN "edit" ELSE "chat",
              id |-> m, n |-> sends[m] + 1])
  /\ UNCHANGED <<aDb, aEdited, aDisk, qEdited, dep, receipts, box, pollVars,
                 seen, dbVars, acks, notified, erased, lives>>

(***************************************************************************)
(* A's save_to_file: its error is ignored (`.ok()`), so a failed write     *)
(* leaves the old file and the caller goes on.                             *)
(***************************************************************************)
SaveA ==
  \/ aDisk' = [db |-> aDb', edited |-> aEdited'] /\ UNCHANGED saveFailures
  \/ /\ saveFailures < MaxSaveFailures
     /\ saveFailures' = saveFailures + 1
     /\ UNCHANGED aDisk

(* The one edit and the one deletion of m that A's user makes. *)
EditOf(m) == [kind |-> "edit", id |-> m, n |-> 0]
TombstoneOf(m) == [kind |-> "tombstone", id |-> m, n |-> 0]

(* edit_message: the row, then one envelope; the outbox copy stays. *)
EditMessage(m) ==
  /\ m \in Edits /\ EditOf(m) \notin sent /\ aDb[m] # "deleted"
  /\ aEdited' = aEdited \cup {m} /\ UNCHANGED aDb /\ SaveA
  /\ Cascade(EditOf(m))
  /\ UNCHANGED <<qEdited, sends, dep, receipts, box, pollVars, seen, rVars,
                 acks, notified, erased, lives>>

(* delete_messages_for_everyone; the outbox copy stays here too. *)
DeleteForEveryone(m) ==
  /\ m \in Tombstones /\ TombstoneOf(m) \notin sent /\ aDb[m] # "deleted"
  /\ aDb' = [aDb EXCEPT ![m] = "deleted"] /\ UNCHANGED aEdited /\ SaveA
  /\ Cascade(TombstoneOf(m))
  /\ UNCHANGED <<qEdited, sends, dep, receipts, box, pollVars, seen, rVars,
                 acks, notified, erased, lives>>

(***************************************************************************)
(* deposit_envelope_to_mailbox, first await: get_silent returns the local  *)
(* record, or the record of the first node that answers (which it caches), *)
(* or nothing.                                                             *)
(***************************************************************************)
DepositRead(e) ==
  /\ e \in sent /\ \A d \in dep : d.env # e
  /\ Cardinality(dep) < MaxDeposits
  /\ \E value \in IF box["A"] # <<>> THEN {box["A"]}
                  ELSE {box["D"], box["R"], <<>>} :
       /\ dep' = dep \cup {[env |-> e, value |-> value, done |-> FALSE]}
       /\ box' = [box EXCEPT !["A"] = value]
  /\ UNCHANGED <<aDb, aEdited, aDisk, qEdited, sends, sent, stores, receipts,
                 pollVars, seen, dbVars, acks, notified, erased, lives>>

(* Its second half: append, keep the last 30, put: overwrite the local     *)
(* record and STORE it on the closest nodes.                               *)
DepositPut(d) ==
  LET value == Youngest(Pushed(d.value, d.env), MAX_DEPOSIT)
  IN  /\ d \in dep /\ ~d.done
      /\ dep' = (dep \ {d}) \cup {[d EXCEPT !.value = <<>>, !.done = TRUE]}
      /\ box' = [box EXCEPT !["A"] = value]
      /\ stores' = stores \cup {[to |-> n, value |-> value] : n \in {"D", "R"}}
      /\ UNCHANGED <<aDb, aEdited, aDisk, qEdited, sends, sent, receipts,
                     pollVars, seen, dbVars, acks, notified, erased, lives>>

(* A fault to detect: a receipt brings a deleted message back. *)
AcceptReceiptUnchecked(m) ==
  /\ m \in receipts /\ aDb[m] # "delivered"
  /\ aDb' = [aDb EXCEPT ![m] = "delivered"] /\ UNCHANGED aEdited /\ SaveA
  /\ UNCHANGED <<qEdited, sends, sent, dep, stores, receipts, box, pollVars,
                 seen, rVars, acks, notified, erased, lives>>

(* A's inbox loop accepts a receipt for a message still in its database. *)
AcceptReceipt(m) ==
  /\ m \in receipts /\ aDb[m] = "sent"
  /\ aDb' = [aDb EXCEPT ![m] = "delivered"] /\ UNCHANGED aEdited /\ SaveA
  /\ UNCHANGED <<qEdited, sends, sent, dep, stores, receipts, box, pollVars,
                 seen, rVars, acks, notified, erased, lives>>

(* Calls about contacts, groups or the profile save the messages with them. *)
ASavesElsewhere ==
  /\ aDisk # [db |-> aDb, edited |-> aEdited]
  /\ aDisk' = [db |-> aDb, edited |-> aEdited]
  /\ UNCHANGED <<aDb, aEdited, qEdited, sends, sent, dep, stores, receipts,
                 box, pollVars, seen, dbVars, acks, notified, erased, lives>>

-----------------------------------------------------------------------------
(* R polls *)

(* get_silent finds the record in R's own storage. *)
PollLocal ==
  /\ rpc = "idle" /\ box["R"] # <<>>
  /\ rpc' = "process" /\ batch' = box["R"]
  /\ UNCHANGED <<found, aVars, stores, receipts, box, seen, dbVars, acks,
                 notified, erased, lives>>

(* Or asks the other nodes, the first that has a record answering; *)
(* finding none leaves everything as it was.                       *)
PollLookup ==
  /\ rpc = "idle" /\ box["R"] = <<>>
  /\ \E n \in {"A", "D"} : box[n] # <<>> /\ found' = box[n]
  /\ rpc' = "cache"
  /\ UNCHANGED <<batch, aVars, stores, receipts, box, seen, dbVars, acks,
                 notified, erased, lives>>

(* and puts the answer in its own storage, over what is there by now. *)
PollCache ==
  /\ rpc = "cache"
  /\ rpc' = "process" /\ batch' = found /\ found' = <<>>
  /\ box' = [box EXCEPT !["R"] = found]
  /\ UNCHANGED <<aVars, stores, receipts, seen, dbVars, acks, notified,
                 erased, lives>>

(* R's save_to_file, whose error is ignored too. *)
Save ==
  \/ disk' = [db |-> db', tombs |-> tombs'] /\ UNCHANGED saveFailures
  \/ /\ saveFailures < MaxSaveFailures
     /\ saveFailures' = saveFailures + 1
     /\ UNCHANGED disk

Stored(m) == db[m] \in {"original", "edited"}
IsTombstoned(m) == db[m] = "deleted" \/ m \in tombs

(* The next envelope of the batch, not seen in this lifetime. *)
Accept(kind, e) ==
  /\ rpc = "process" /\ batch # <<>> /\ e = Head(batch)
  /\ e.kind = kind /\ e \notin seen
  /\ batch' = Tail(batch)
  /\ seen' = seen \cup {e}
  /\ UNCHANGED <<rpc, found, aVars, stores, receipts, box, lives>>

(* check_and_insert knows the signature: the envelope is skipped. *)
SkipReplayed ==
  /\ rpc = "process" /\ batch # <<>> /\ Head(batch) \in seen
  /\ batch' = Tail(batch)
  /\ UNCHANGED <<rpc, found, aVars, stores, receipts, box, seen, dbVars, acks,
                 notified, erased, lives>>

(* Faults to detect: every copy raises an event; the receipt is spawned    *)
(* although the message was dropped.                                       *)
ChatAlwaysNew(m) ==
  IF IsTombstoned(m)
  THEN UNCHANGED <<dbVars, acks, notified, erased>>
  ELSE /\ db' = [db EXCEPT ![m] = "original"] /\ UNCHANGED <<tombs, erased>> /\ Save
       /\ acks' = acks \cup {m}
       /\ notified' = [notified EXCEPT ![m] = IF @ < 2 THEN @ + 1 ELSE 2]

ChatAckedWhenDropped(m) ==
  /\ acks' = acks \cup {m}
  /\ IF IsTombstoned(m)
     THEN UNCHANGED <<dbVars, notified, erased>>
     ELSE /\ db' = [db EXCEPT ![m] = "original"] /\ UNCHANGED <<tombs, erased>> /\ Save
          /\ notified' = [notified EXCEPT ![m] =
                            IF Stored(m) \/ @ = 2 THEN @ ELSE @ + 1]

(***************************************************************************)
(* A chat message: dropped when it was deleted before, otherwise written   *)
(* over the row it has, if any (add_message), saved and acknowledged; an   *)
(* event is raised when the row is new.                                    *)
(***************************************************************************)
Chat(m) ==
  IF IsTombstoned(m)
  THEN UNCHANGED <<dbVars, acks, notified, erased>>
  ELSE /\ db' = [db EXCEPT ![m] = "original"] /\ UNCHANGED <<tombs, erased>> /\ Save
       /\ acks' = acks \cup {m}
       /\ notified' = [notified EXCEPT ![m] =
                         IF Stored(m) \/ @ = 2 THEN @ ELSE @ + 1]

ProcessChat == \E e \in Envelope : Accept("chat", e) /\ Chat(e.id)

(* An edit changes a row that exists; without one it is dropped. *)
Edit(m) ==
  /\ IF Stored(m)
     THEN db' = [db EXCEPT ![m] = "edited"] /\ UNCHANGED tombs /\ Save
     ELSE UNCHANGED dbVars
  /\ UNCHANGED <<acks, notified, erased>>

ProcessEdit == \E e \in Envelope : Accept("edit", e) /\ Edit(e.id)

(* A fault to detect: a tombstone for a message not here is forgotten. *)
TombstoneForKnownOnly(m) ==
  /\ db' = [db EXCEPT ![m] = IF Stored(m) THEN "deleted" ELSE @]
  /\ UNCHANGED tombs /\ Save
  /\ erased' = erased \cup {m}
  /\ UNCHANGED <<acks, notified>>

(* A tombstone deletes the row and is remembered for late copies. *)
Tombstone(m) ==
  /\ db' = [db EXCEPT ![m] = IF Stored(m) THEN "deleted" ELSE @]
  /\ tombs' = tombs \cup {m} /\ Save
  /\ erased' = erased \cup {m}
  /\ UNCHANGED <<acks, notified>>

ProcessTombstone ==
  \E e \in Envelope : Accept("tombstone", e) /\ Tombstone(e.id)

(* A fault to detect: the processed record stays in the storage. *)
DrainNothing ==
  /\ rpc = "process" /\ batch = <<>>
  /\ rpc' = "idle"
  /\ UNCHANGED <<found, batch, box, aVars, stores, receipts, seen, dbVars, acks,
                 notified, erased, lives>>

(* The batch is done: the record goes, with what it holds by now. *)
Drain ==
  /\ rpc = "process" /\ batch = <<>>
  /\ rpc' = "idle"
  /\ box' = [box EXCEPT !["R"] = <<>>]
  /\ UNCHANGED <<found, batch, aVars, stores, receipts, seen, dbVars, acks,
                 notified, erased, lives>>

PollStep == PollLocal \/ PollLookup \/ PollCache \/ SkipReplayed
              \/ ProcessChat \/ ProcessEdit \/ ProcessTombstone \/ Drain

(* A spawned task sends the receipt of m. *)
SendDeliveryReceipt(m) ==
  /\ m \in acks
  /\ acks' = acks \ {m}
  /\ receipts' = receipts \cup {m}
  /\ UNCHANGED <<aVars, stores, box, pollVars, seen, dbVars, notified, erased,
                 lives>>

(* R's user: delete_message, and clear_chat, which also drops the record. *)
DeleteMessage(m) ==
  /\ Stored(m)
  /\ db' = [db EXCEPT ![m] = "deleted"] /\ UNCHANGED tombs /\ Save
  /\ erased' = erased \cup {m}
  /\ UNCHANGED <<aVars, stores, receipts, box, pollVars, seen, acks, notified,
                 lives>>

ClearChat ==
  /\ \E m \in Msgs : Stored(m)
  /\ db' = [m \in Msgs |-> IF Stored(m) THEN "deleted" ELSE db[m]]
  /\ UNCHANGED tombs /\ Save
  /\ erased' = erased \cup {m \in Msgs : Stored(m)}
  /\ box' = [box EXCEPT !["R"] = <<>>]
  /\ UNCHANGED <<aVars, stores, receipts, pollVars, seen, acks, notified,
                 lives>>

RSavesElsewhere ==
  /\ disk # [db |-> db, tombs |-> tombs]
  /\ disk' = [db |-> db, tombs |-> tombs]
  /\ UNCHANGED <<aVars, stores, receipts, box, pollVars, seen, db, tombs,
                 saveFailures, acks, notified, erased, lives>>

-----------------------------------------------------------------------------
(* Crashes: everything but the database file is lost. *)

Crash == crashes < MaxCrashes /\ crashes' = crashes + 1

CrashR ==
  /\ Crash
  /\ rpc' = "idle" /\ found' = <<>> /\ batch' = <<>>
  /\ seen' = {} /\ acks' = {}
  /\ box' = [box EXCEPT !["R"] = <<>>]
  /\ db' = disk.db /\ tombs' = disk.tombs
  /\ forgotten' = forgotten \cup
       {m \in Msgs : disk.db[m] # db[m] \/ (m \in disk.tombs) # (m \in tombs)}
  /\ UNCHANGED <<aVars, stores, receipts, disk, saveFailures, notified, erased>>

(* A fault to detect: every row goes out as an edit after the restart. *)
CrashARefillingAsEdited ==
  /\ Crash
  /\ aDb' = aDisk.db /\ aEdited' = aDisk.edited
  /\ qEdited' = Msgs
  /\ dep' = {}
  /\ box' = [box EXCEPT !["A"] = <<>>]
  /\ UNCHANGED <<aDisk, sends, sent, stores, receipts, pollVars, seen, dbVars,
                 acks, notified, erased, forgotten>>

(* A's outbox is refilled from its file. *)
CrashA ==
  /\ Crash
  /\ aDb' = aDisk.db /\ aEdited' = aDisk.edited
  /\ qEdited' = aDisk.edited
  /\ dep' = {}
  /\ box' = [box EXCEPT !["A"] = <<>>]
  /\ UNCHANGED <<aDisk, sends, sent, stores, receipts, pollVars, seen, dbVars,
                 acks, notified, erased, forgotten>>

CrashD ==
  /\ Crash
  /\ box' = [box EXCEPT !["D"] = <<>>]
  /\ UNCHANGED <<aVars, stores, receipts, pollVars, seen, dbVars, acks,
                 notified, erased, forgotten>>

Next ==
  \/ \E m \in Msgs : \/ SendMessage(m) \/ EditMessage(m) \/ DeleteForEveryone(m)
                     \/ AcceptReceipt(m) \/ SendDeliveryReceipt(m)
                     \/ DeleteMessage(m)
  \/ \E e \in sent : DepositRead(e)
  \/ \E d \in dep : DepositPut(d)
  \/ \E s \in stores : HandleStore(s) \/ TcpStore(s)
  \/ PollStep
  \/ ClearChat
  \/ ASavesElsewhere \/ RSavesElsewhere
  \/ CrashR \/ CrashA \/ CrashD

Spec == Init /\ [][Next]_vars

(* The poll loop never ends: it wakes at least every six seconds. *)
FairSpec == Spec /\ WF_vars(PollStep)

-----------------------------------------------------------------------------
(* Properties *)

(* Every variable has its type, and a record is kept within its bound.     *)
TypeOK ==
  /\ aDb \in [Msgs -> {"sent", "delivered", "deleted"}]
  /\ aEdited \subseteq Msgs
  /\ aDisk \in [db : [Msgs -> {"sent", "delivered", "deleted"}],
                edited : SUBSET aEdited]
  /\ qEdited \subseteq aDisk.edited
  /\ sends \in [Msgs -> 0..MaxSends]
  /\ sent \subseteq Envelope
  /\ dep \subseteq [env : sent, value : Seq(Envelope), done : BOOLEAN]
  /\ stores \subseteq [to : Nodes, value : Seq(Envelope)]
  /\ receipts \subseteq Msgs
  /\ box \in [Nodes -> Seq(Envelope)]
  /\ rpc \in {"idle", "cache", "process"}
  /\ found \in Seq(Envelope) /\ batch \in Seq(Envelope)
  /\ seen \subseteq Envelope
  /\ db \in [Msgs -> {"absent", "original", "edited", "deleted"}]
  /\ tombs \subseteq Msgs
  /\ disk \in [db : [Msgs -> {"absent", "original", "edited", "deleted"}],
               tombs : SUBSET Msgs]
  /\ acks \subseteq Msgs
  /\ notified \in [Msgs -> 0..2]
  /\ erased \subseteq Msgs /\ forgotten \subseteq Msgs
  /\ crashes \in 0..MaxCrashes
  /\ saveFailures \in 0..MaxSaveFailures

(* A record holds an envelope once and no more envelopes than the larger   *)
(* bound, however merges, deposits, caches and drains interleave.          *)
RecordsBounded ==
  \A n \in Nodes :
    /\ Len(box[n]) <= IF MAX_DEPOSIT > MAX_MAILBOX_ENVELOPES
                      THEN MAX_DEPOSIT ELSE MAX_MAILBOX_ENVELOPES
    /\ Cardinality(ToSet(box[n])) = Len(box[n])

(***************************************************************************)
(* A write of R's file may fail, and the code does not look at the error:  *)
(* it shows, announces and acknowledges the message all the same           *)
(* (messenger.rs:763), and a crash before the next write that succeeds     *)
(* puts back what the file had.  The three properties below hold for every *)
(* message that this did not happen to; that it happens to none unless a   *)
(* write fails is part of Implements.                                      *)
(***************************************************************************)

(* A receipt that exists anywhere, and a message A shows as delivered,     *)
(* means that R has the message or had it and deleted it: R's crash at any *)
(* point does not falsify what A was told, except about a message whose    *)
(* own last change R forgot.                                               *)
ReceiptMeansStored ==
  \A m \in Msgs \ forgotten :
    m \in acks \cup receipts \/ aDb[m] = "delivered" => db[m] # "absent"

(* R's user is told of a message once, although it is sent again with      *)
(* fresh signatures, comes by several routes, and the replay cache is lost *)
(* in a crash; of a message R forgot for want of a write, perhaps again.   *)
NotifiedOnce == \A m \in Msgs \ forgotten : notified[m] <= 1

(* A message its author or R deleted is never shown again, whatever comes  *)
(* late: retries of the outbox, copies in other storages, replays after a  *)
(* crash; unless R forgot the deletion, whose write failed.                *)
DeletionIsFinal == \A m \in erased \ forgotten : ~Stored(m)

HasChat(n, m) == \E e \in ToSet(box[n]) : e.kind = "chat" /\ e.id = m

(* Once STOREs no longer change the records, a message that is in every    *)
(* record R can look up is stored by R at last (or was deleted): R's own   *)
(* record does not hide the others for ever, and the poll loop does not    *)
(* stop at what it has seen.                                               *)
MailboxIsRead ==
  \A m \in Msgs :
    /\ <>[][PollStep]_box
    /\ <>[](/\ \E n \in {"A", "D"} : box[n] # <<>>
           /\ \A n \in {"A", "D"} : box[n] # <<>> => HasChat(n, m))
    => <>(Stored(m) \/ IsTombstoned(m))

-----------------------------------------------------------------------------
(* The abstract promise: what R shows, whom it announced, which receipts   *)
(* exist, what A shows and how many writes failed.                         *)
Promise == INSTANCE DeliverySpec WITH
  shown <- [m \in Msgs |-> IF m \in forgotten THEN "lost"
                           ELSE IF m \in erased THEN "gone"
                           ELSE IF Stored(m) THEN "shown" ELSE "never"],
  announced <- {m \in Msgs : notified[m] > 0} \cup forgotten,
  receipted <- receipts,
  author <- aDb,
  failures <- saveFailures

(* Every step of the code, seen through this mapping, is a step of         *)
(* DeliverySpec or changes nothing: retries, stale copies, drains and      *)
(* crashes cannot be told from a channel that delivers at most once and    *)
(* that loses or forgets nothing before a write of a file has failed.      *)
Implements == Promise!Spec

-----------------------------------------------------------------------------
(* What the documents say and the code does not do *)

(* technical-spec-wan-performance-media.md:138: consumption must not       *)
(* delete unrelated envelopes.  Draining removes only what was processed.  *)
DrainsOnlyProcessed ==
  [][Drain => ToSet(box["R"]) \subseteq seen]_vars

(* technical-spec-wan-performance-media.md:156: the receiver must persist  *)
(* the result before acknowledging it.  The code acknowledges it also when *)
(* save_to_file failed.                                                    *)
PersistedBeforeAck ==
  \A m \in Msgs : m \in acks => m \in forgotten \/ disk.db[m] # "absent"

(* technical-spec-wan-performance-media.md:156: the receiver must process  *)
(* a message ID at most once and safely handle duplicated envelopes.  A    *)
(* copy of the original message does not undo an edit.                     *)
EditsSurvive ==
  [][\A m \in Msgs : db[m] = "edited" => db'[m] # "original"]_vars
=============================================================================
