-------------------------------- MODULE Inbox --------------------------------
(***************************************************************************)
(* Which mailboxes the inbox task polls and when (messenger.rs), which     *)
(* envelopes it opens, and the replay cache that keeps it from accepting   *)
(* one twice (crypto.rs).  What becomes of an envelope that is accepted is *)
(* the matter of Delivery.                                                 *)
(*                                                                         *)
(* An envelope is a record [from, ts, version, ephemeral, bound, signed,   *)
(* opens]: ts is the sender's clock when it was sealed, and the others say *)
(* whether it has an ephemeral key, its sender id is that of its key, its  *)
(* signature verifies and its ciphertext opens.  Its signature names it.   *)
(* Time is counted in units of which a day has Day.                        *)
(*                                                                         *)
(* A record lives 24 hours without a new STORE: that is left out, because  *)
(* the mailboxes are polled many times in that time.                       *)
(***************************************************************************)
EXTENDS Integers, FiniteSets

CONSTANTS
  Envelopes,
  Sealing,                  \* those of Envelopes that encrypt_envelope sealed
  Day,
  LookBack,                 \* the oldest mailbox polled, in days: 6
  MAX_REPLAY_WINDOW,        \* 7 days
  MAX_REPLAY_CACHE_ENTRIES,
  FAST, SLOW,               \* every 10th and every 60th tick
  LastHour,                 \* the units of a day before its last hour
  MaxNow                   \* bound on the clock

ASSUME InboxAssumption ==
  /\ \A e \in Envelopes : e.ts \in Nat
  /\ Day \in Nat \ {0}
  /\ LookBack \in Nat
  /\ MAX_REPLAY_WINDOW \in Nat
  /\ MAX_REPLAY_CACHE_ENTRIES \in Nat
  /\ SLOW \in Nat \ {0}
  /\ MaxNow \in Nat

VARIABLES
  now,          \* the clock
  mailboxes,    \* the envelopes on the network, at the key of their day
  tick,         \* rounds of the polling loop, modulo SLOW
  batches,      \* what the current round found and has not handled
  seenHashes,   \* the replay cache
  dbTimes,      \* the timestamps of the messages in the database
  accepted      \* how often each envelope was accepted in this lifetime

inboxVars == <<now, mailboxes, tick, batches, seenHashes, dbTimes, accepted>>

DayOf(t) == t \div Day
InWindow(e, t) == e.ts - t <= MAX_REPLAY_WINDOW /\ t - e.ts <= MAX_REPLAY_WINDOW

InboxTypeOK ==
  /\ now \in 0..MaxNow
  /\ mailboxes \subseteq Envelopes
  /\ tick \in 0..(SLOW - 1)
  /\ batches \subseteq Envelopes
  /\ seenHashes \subseteq Envelopes
  /\ dbTimes \subseteq Nat
  /\ accepted \in [Envelopes -> 0..2]

InboxInit ==
  /\ now = 0
  /\ mailboxes = {}
  /\ tick = 0
  /\ batches = {}
  /\ seenHashes = {}
  /\ dbTimes = {}
  /\ accepted = [e \in Envelopes |-> 0]

----------------------------------------------------------------------------
(* encrypt_envelope seals with the version and the clock of the sender,    *)
(* and the envelope goes to the mailbox of that day.                       *)
SealAndDeposit(e) ==
  /\ e \in Sealing
  /\ e \notin mailboxes
  /\ e.ts = now
  /\ mailboxes' = mailboxes \cup {e}
  /\ UNCHANGED <<now, tick, batches, seenHashes, dbTimes, accepted>>

(* Any other envelope appears at any time: the sender's clock differs, or  *)
(* it was made by another version or damaged.                              *)
Appear(e) ==
  /\ e \in Envelopes \ Sealing
  /\ e \notin mailboxes
  /\ mailboxes' = mailboxes \cup {e}
  /\ UNCHANGED <<now, tick, batches, seenHashes, dbTimes, accepted>>

----------------------------------------------------------------------------
(* The days whose mailboxes a round polls.                                 *)

(* A fault to detect: yesterday's mailbox is forgotten.                    *)
PolledDaysWithoutYesterday(t) ==
  {DayOf(now)} \cup IF t % SLOW = 0 THEN {DayOf(now) - i : i \in (2..LookBack) \cup {-1}} ELSE {}

PolledDays(t) ==
  LET today == DayOf(now)
  IN  {today}
        \cup (IF t % FAST = 0 THEN {today - 1} ELSE {})
        \cup (IF t % SLOW = 0 THEN {today - i : i \in 2..LookBack} \cup {today + 1}
              ELSE IF t % FAST = 0 /\ now % Day >= LastHour THEN {today + 1} ELSE {})

Poll ==
  LET t == (tick + 1) % SLOW
  IN  /\ batches = {}
      /\ tick' = t
      /\ batches' = {e \in mailboxes : DayOf(e.ts) \in PolledDays(t)}
      /\ UNCHANGED <<now, mailboxes, seenHashes, dbTimes, accepted>>

(* decrypt_envelope: the sender id is bound to the key, the signature of   *)
(* the envelope's version verifies, and the payload key opens it.  A first *)
(* version has no ephemeral key; the later ones must have it.              *)
Decrypts(e) ==
  /\ e.bound
  /\ e.version >= 2 => e.ephemeral
  /\ e.signed
  /\ e.opens

(* A fault to detect: entries are forgotten too early. *)
RetainedTooShort(t) == {e \in seenHashes : t - e.ts < MAX_REPLAY_WINDOW}

(* The cache drops what has left the window, whenever it looks at an       *)
(* envelope inside the window.                                             *)
Retained(t) == {e \in seenHashes : t - e.ts <= MAX_REPLAY_WINDOW}

(* A fault to detect: the cache has no limit. *)
AdmitsUnbounded(e) ==
  /\ InWindow(e, now)
  /\ e \notin Retained(now)

(* check_and_insert returns true.                                          *)
Admits(e) ==
  /\ InWindow(e, now)
  /\ e \notin Retained(now)
  /\ Cardinality(Retained(now)) < MAX_REPLAY_CACHE_ENTRIES

(* An envelope of this identity is skipped if a message of its second is   *)
(* in the database already; one of a blocked sender is dropped unopened.   *)
Skipped(e) ==
  \/ e.from = "me" /\ e.ts \in dbTimes
  \/ e.from = "blocked"

Accept(e) ==
  /\ e \in batches
  /\ ~Skipped(e)
  /\ Decrypts(e)
  /\ Admits(e)
  /\ batches' = batches \ {e}
  /\ seenHashes' = Retained(now) \cup {e}
  /\ dbTimes' = dbTimes \cup {e.ts}
  /\ accepted' = [accepted EXCEPT ![e] = @ + 1]
  /\ UNCHANGED <<now, mailboxes, tick>>

Reject(e) ==
  /\ e \in batches
  /\ Skipped(e) \/ ~Decrypts(e) \/ ~Admits(e)
  /\ batches' = batches \ {e}
  /\ seenHashes' = IF ~Skipped(e) /\ Decrypts(e) /\ InWindow(e, now)
                     THEN Retained(now) ELSE seenHashes
  /\ UNCHANGED <<now, mailboxes, tick, dbTimes, accepted>>

----------------------------------------------------------------------------
InboxTick ==
  /\ now < MaxNow
  /\ now' = now + 1
  /\ UNCHANGED <<mailboxes, tick, batches, seenHashes, dbTimes, accepted>>

(* The cache is in memory only.                                            *)
InboxRestart ==
  /\ batches' = {}
  /\ seenHashes' = {}
  /\ tick' = 0
  /\ accepted' = [e \in Envelopes |-> 0]
  /\ UNCHANGED <<now, mailboxes, dbTimes>>

InboxNext ==
  \/ \E e \in Envelopes : SealAndDeposit(e) \/ Appear(e) \/ Accept(e) \/ Reject(e)
  \/ Poll
  \/ InboxTick
  \/ InboxRestart

(* The loop runs; the clock may stand still or jump over days.             *)
InboxFairness ==
  /\ WF_inboxVars(Poll)
  /\ WF_inboxVars(\E e \in Envelopes : Accept(e) \/ Reject(e))

InboxSpec == InboxInit /\ [][InboxNext]_inboxVars

----------------------------------------------------------------------------
(* No envelope is accepted twice in one lifetime, however often it is      *)
(* polled and whatever the cache has dropped by then.                      *)
AcceptedOnce == \A e \in Envelopes : accepted[e] <= 1

(* The cache holds no more than its limit, and what it holds was accepted. *)
CacheBounded ==
  /\ Cardinality(seenHashes) <= MAX_REPLAY_CACHE_ENTRIES
  /\ \A e \in seenHashes : accepted[e] > 0

(* A genuine envelope of a contact in a mailbox of today or of the last    *)
(* LookBack days is accepted, unless the day or the window passes or the   *)
(* cache is full, if the process is not restarted for ever.                *)
MailIsRead ==
  <>[][~InboxRestart]_inboxVars =>
    \A e \in {x \in Envelopes : x.from = "peer"} :
      (e \in mailboxes /\ Decrypts(e) /\ e.ts <= now)
        ~> \/ accepted[e] > 0
           \/ ~InWindow(e, now)
           \/ DayOf(now) - DayOf(e.ts) > LookBack
           \/ Cardinality(seenHashes) = MAX_REPLAY_CACHE_ENTRIES

(* An envelope that the replay window still accepts is at a key that some  *)
(* round polls: "7 days mailbox retention window" (crypto.rs:18).          *)
WindowPolled ==
  \A e \in mailboxes : e.ts <= now /\ InWindow(e, now) =>
    \E r \in 1..SLOW : DayOf(e.ts) \in PolledDays((tick + r) % SLOW)
=============================================================================
