---------------------------- MODULE ClientProofs ----------------------------
(***************************************************************************)
(* What holds of the client on its device for all values of the constants: *)
(* the lock of the session, the database file and its key and the desktop  *)
(* window beside the database; and, with the proofs about the outbox and   *)
(* the calls, of the client as a whole.                                    *)
(***************************************************************************)
EXTENDS MCClient, OutboxProofs, CallProofs, SequenceLemmas, FiniteSetTheorems, TLAPS

(***************************************************************************)
(* The lock of the session: who is away for longer than AUTO_LOCK finds    *)
(* the lock screen, whatever he clicked before he left.                    *)
(***************************************************************************)
(* A frame that has passed the timer's check of an overdue session found   *)
(* it locked, or locked it.                                                *)
TimedMeansLocked ==
  frame = "timed" /\ timer /\ pin /\ idle > AUTO_LOCK => locked

SessionInv == SessionTypeOK /\ TimedMeansLocked /\ AwayMeansLocked

LEMMA SessionInitInv == SessionInit => SessionInv
<1> SUFFICES ASSUME SessionInit PROVE SessionInv
  OBVIOUS
<1> USE SessionAssumption DEF SessionInit, Account, Phrase, None, Screens, Modals
<1>1. drawn \in [screen : Screens, idle : 0 .. AUTO_LOCK + 1, guarded : BOOLEAN]
  OBVIOUS
<1>2. SessionTypeOK
  <2>1. SessionFlags
    BY DEF SessionFlags
  <2>2. SessionData
    BY <1>1 DEF SessionData
  <2> QED
    BY <2>1, <2>2 DEF SessionTypeOK
<1>3. TimedMeansLocked /\ AwayMeansLocked
  BY DEF TimedMeansLocked, AwayMeansLocked
<1> QED
  BY <1>2, <1>3 DEF SessionInv

LEMMA SessionStepInv == SessionInv /\ [SessionNext]_sessionVars => SessionInv'
<1> SUFFICES ASSUME SessionInv, [SessionNext]_sessionVars PROVE SessionInv'
  OBVIOUS
<1> USE SessionAssumption DEF SessionInv, SessionTypeOK, SessionFlags, SessionData,
    TimedMeansLocked, AwayMeansLocked,
        Account, Phrase, None, Screens, Modals, account, lock, program, sessionVars, Click, ClickIn,
        Onboarding, NewPhrase
<1>1. CASE Start
  <2>1. SessionFlags'
    BY <1>1 DEF Start
  <2>4. SessionData'
    BY <1>1 DEF Start
  <2>2. TimedMeansLocked'
    BY <1>1 DEF Start
  <2>3. AwayMeansLocked'
    BY <1>1 DEF Start
  <2> QED
    BY <2>1, <2>2, <2>3, <2>4
<1>2. CASE Wait
  BY <1>2 DEF Wait
<1>3. CASE \E u, c \in BOOLEAN : BeginFrame(u, c)
  BY <1>3 DEF BeginFrame
<1>4. CASE NoteActivity
  BY <1>4 DEF NoteActivity, Screen
<1>5. CASE NoClick
  BY <1>5 DEF NoClick
<1>6. CASE Unlock
  <2>1. SessionFlags'
    BY <1>6 DEF Unlock
  <2>4. SessionData'
    BY <1>6 DEF Unlock
  <2>2. TimedMeansLocked'
    BY <1>6 DEF Unlock
  <2>3. AwayMeansLocked'
    BY <1>6 DEF Unlock
  <2> QED
    BY <2>1, <2>2, <2>3, <2>4
<1>7. CASE ForgotPin
  <2>1. SessionFlags'
    BY <1>7 DEF ForgotPin
  <2>4. SessionData'
    BY <1>7 DEF ForgotPin
  <2>2. TimedMeansLocked'
    BY <1>7 DEF ForgotPin
  <2>3. AwayMeansLocked'
    BY <1>7 DEF ForgotPin
  <2> QED
    BY <2>1, <2>2, <2>3, <2>4
<1>8. CASE CreateAccount
  BY <1>8 DEF CreateAccount
<1>9. CASE Proceed
  BY <1>9 DEF Proceed
<1>10. CASE Regenerate
  <2>1. SessionFlags'
    <3>1. UNCHANGED <<ready, onboarded, confirmedSeed, pin, timer, locked, input, messenger>>
      BY <1>10 DEF Regenerate
    <3> QED
      BY <3>1
  <2>4. SessionData'
    <3>1. UNCHANGED <<starts, step, me, noted, idle, drawn, modals>> /\ frame' = "between"
      BY <1>10 DEF Regenerate
    <3>2. generated' \in 1 .. MaxPhrases /\ seed' \in 0 .. MaxPhrases
      BY <1>10 DEF Regenerate
    <3> QED
      BY <3>1, <3>2
  <2>2. TimedMeansLocked'
    BY <1>10 DEF Regenerate
  <2>3. AwayMeansLocked'
    BY <1>10 DEF Regenerate
  <2> QED
    BY <2>1, <2>2, <2>3, <2>4
<1>11. CASE Confirm
  BY <1>11 DEF Confirm
<1>12. CASE FinishAccount
  BY <1>12 DEF FinishAccount
<1>13. CASE \E s \in {0, 1, 3} : GoTo(s)
  <2>1. SessionFlags'
    <3>1. UNCHANGED <<ready, onboarded, confirmedSeed, pin, timer, locked, input, messenger>>
      BY <1>13 DEF GoTo
    <3> QED
      BY <3>1
  <2>4. SessionData'
    <3>1. UNCHANGED <<starts, seed, me, noted, generated, idle, drawn, modals>>
      BY <1>13 DEF GoTo
    <3>2. frame' = "between" /\ step' \in 0 .. 3
      BY <1>13 DEF GoTo
    <3> QED
      BY <3>1, <3>2
  <2>2. TimedMeansLocked'
    BY <1>13 DEF GoTo
  <2>3. AwayMeansLocked'
    BY <1>13 DEF GoTo
  <2> QED
    BY <2>1, <2>2, <2>3, <2>4
<1>14. CASE CancelOnboarding
  BY <1>14 DEF CancelOnboarding
<1>15. CASE \E p \in 1 .. generated : RestoreAccount(p)
  BY <1>15 DEF RestoreAccount
<1>16. CASE \E m \in Modals : OpenModal(m) \/ CloseModal(m)
  BY <1>16 DEF OpenModal, CloseModal
<1>18. CASE ModalRegenerate
  BY <1>18 DEF ModalRegenerate
<1>19. CASE \E on \in BOOLEAN : SetPin(on) \/ SetTimer(on)
  BY <1>19 DEF SetPin, SetTimer
<1>20. CASE LockNow
  BY <1>20 DEF LockNow
<1>21. CASE UNCHANGED sessionVars
  BY <1>21
<1> QED
  BY <1>1, <1>2, <1>3, <1>4, <1>5, <1>6, <1>7, <1>8, <1>9, <1>10, <1>11,
     <1>12, <1>13, <1>14, <1>15, <1>16, <1>18, <1>19, <1>20, <1>21
     DEF SessionNext

(* The flags, screens and phrases of the session have their types.         *)
THEOREM SessionTyped == SessionSpec => []SessionTypeOK
<1>1. SessionInv => SessionTypeOK
  BY DEF SessionInv
<1> QED
  BY <1>1, SessionInitInv, SessionStepInv, PTL DEF SessionSpec

(* The screen of a frame drawn with the timer overdue is the lock screen,  *)
(* whatever the user set, locked and unlocked before, in windows over the  *)
(* lock screen, too (the checks in App::update).                           *)
THEOREM AwayMeansLockedHolds == SessionSpec => []AwayMeansLocked
<1>1. SessionInv => AwayMeansLocked
  BY DEF SessionInv
<1> QED
  BY <1>1, SessionInitInv, SessionStepInv, PTL DEF SessionSpec

------------------------------------------------------------------------------
(***************************************************************************)
(* The database file and the key that opens it: whatever saves, crashes    *)
(* and failing steps happen, the file on disk stays readable with the key  *)
(* on disk, until the user wipes the account, or while the database lies   *)
(* there as a failed copy left it.                                         *)
(***************************************************************************)
(* Who saves runs, and the steps of a wipe leave their mark.               *)
StepsLeaveMarks ==
  /\ saver.at # "idle" => process = "running"
  /\ wiper # "idle" => wiped

(* One key: what is cached, what a save uses and what opens the database   *)
(* is the key of the key file, and a fresh key is made only without one.   *)
(* It is still the one key when a copy was cut short.                      *)
OneKey ==
  /\ \A p \in DOMAIN keyCache : keyCache[p] # Absent => keyFile > 0 /\ keyCache[p] = keyFile
  /\ saver.at \in {"write_key", "finish_key"} =>
       saver.fresh /\ saver.key > 0 /\ keyFile <= 0 /\ dbFile = NoFile
  /\ saver.at \in {"backup", "replace", "copying"} => keyFile > 0 /\ saver.key = keyFile
  /\ cut => keyFile > 0
  /\ saver.at # "copying" /\ ~cut => dbFile = NoFile \/ Readable(dbFile)

(* The program has in memory at least what it saved last.                  *)
NothingForgotten == process = "running" => version >= lastSaved

Unharmed ==
  /\ process # "refused"
  /\ NothingForgotten
  /\ SavedIsReadable

KeyStoreInv ==
  /\ KeyStoreTypeOK
  /\ StepsLeaveMarks
  /\ ~wiped => OneKey
  /\ ~wiped /\ ~cut => Unharmed

USE KeyStoreAssumption DEF Absent, Torn, Empty, NoFile, EmptyFile, TornFile, IdleSaver, NoKeys,
    File, SaverSteps, keyVars, keyFiles, keyHistory

LEMMA KeyStoreInitInv == KeyStoreInit => KeyStoreInv
<1> SUFFICES ASSUME KeyStoreInit PROVE KeyStoreInv
  OBVIOUS
<1> USE DEF KeyStoreInit
<1>1. KeyStoreTypeOK
  <2>1. {dbFile, bakFile} \subseteq File /\ keyFile \in -1..MaxKeys
    OBVIOUS
  <2>2. keyCache \in [{"raw", "canonical"} -> 0..MaxKeys]
    OBVIOUS
  <2>3. saver \in [at : SaverSteps, path : {"raw", "canonical"}, key : 0..MaxKeys,
                   fresh : BOOLEAN]
    OBVIOUS
  <2>4. {version, lastSaved} \subseteq 0..MaxVersion /\ keysMade \in 0..MaxKeys
    OBVIOUS
  <2>5. {wiped, cut} \subseteq BOOLEAN
    OBVIOUS
  <2> QED
    BY <2>1, <2>2, <2>3, <2>4, <2>5 DEF KeyStoreTypeOK
<1>2. StepsLeaveMarks
  BY DEF StepsLeaveMarks
<1>3. Unharmed
  BY DEF Unharmed, NothingForgotten, SavedIsReadable
<1>4. OneKey
  BY DEF OneKey
<1> QED
  BY <1>1, <1>2, <1>3, <1>4 DEF KeyStoreInv

LEMMA KeyStoreStepInv == KeyStoreInv /\ [KeyStoreNext]_keyVars => KeyStoreInv'
<1> SUFFICES ASSUME KeyStoreInv, [KeyStoreNext]_keyVars PROVE KeyStoreInv'
  OBVIOUS
<1> USE DEF KeyStoreInv, KeyStoreTypeOK, StepsLeaveMarks, Unharmed, OneKey,
        NothingForgotten, SavedIsReadable, Readable, Exists, CachePath
<1>1. CASE BeginSave
  <2> USE <1>1 DEF BeginSave
  <2>1. CASE UseCached
    BY <2>1 DEF UseCached
  <2>2. CASE ReadKeyFile
    BY <2>2 DEF ReadKeyFile
  <2>3. CASE FreshKey
    BY <2>3 DEF FreshKey, Generate
  <2> QED
    BY <2>1, <2>2, <2>3
<1>2. CASE Change
  BY <1>2 DEF Change
<1>3. CASE TruncateKey
  BY <1>3 DEF TruncateKey
<1>4. CASE FinishKey
  BY <1>4 DEF FinishKey
<1>5. CASE KeyWriteFails
  BY <1>5 DEF KeyWriteFails
<1>6. CASE BackUp
  BY <1>6 DEF BackUp
<1>7. CASE SaveFails
  BY <1>7 DEF SaveFails
<1>8. CASE Rename
  <2> USE <1>8 DEF Rename, Written
  <2>1. KeyStoreTypeOK'
    <3>1. dbFile' \in File /\ lastSaved' \in 0..MaxVersion
      OBVIOUS
    <3>2. saver' \in [at : SaverSteps, path : {"raw", "canonical"}, key : 0..MaxKeys,
                      fresh : BOOLEAN]
      OBVIOUS
    <3> QED
      BY <3>1, <3>2
  <2>2. StepsLeaveMarks'
    OBVIOUS
  <2>3. ASSUME ~wiped'
        PROVE  OneKey' /\ Readable(dbFile)'
    BY <2>3
  <2>4. ASSUME ~wiped'
        PROVE  Unharmed'
    BY <2>3, <2>4
  <2> QED
    BY <2>1, <2>2, <2>3, <2>4
<1>9. CASE BeginCopy
  BY <1>9 DEF BeginCopy
<1>10. CASE EndCopy
  <2> USE <1>10 DEF EndCopy, Written
  <2>1. KeyStoreTypeOK'
    <3>1. dbFile' \in File /\ lastSaved' \in 0..MaxVersion
      OBVIOUS
    <3>2. saver' \in [at : SaverSteps, path : {"raw", "canonical"}, key : 0..MaxKeys,
                      fresh : BOOLEAN]
      OBVIOUS
    <3> QED
      BY <3>1, <3>2
  <2>2. StepsLeaveMarks'
    OBVIOUS
  <2>3. ASSUME ~wiped'
        PROVE  OneKey' /\ Readable(dbFile)'
    BY <2>3
  <2>4. ASSUME ~wiped'
        PROVE  Unharmed'
    BY <2>3, <2>4
  <2> QED
    BY <2>1, <2>2, <2>3, <2>4
<1>20. CASE CopyFails
  BY <1>20 DEF CopyFails
<1>11. CASE WipeMemory
  BY <1>11 DEF WipeMemory
<1>12. CASE WipeDatabase
  BY <1>12 DEF WipeDatabase
<1>13. CASE WipeKey
  BY <1>13 DEF WipeKey
<1>14. CASE ForgetInstanceKey
  BY <1>14 DEF ForgetInstanceKey
<1>15. CASE Crash
  <2>1. KeyStoreTypeOK'
    BY <1>15 DEF Crash
  <2>2. StepsLeaveMarks'
    BY <1>15 DEF Crash
  <2>3. ASSUME ~wiped', ~cut'
        PROVE  Unharmed'
    BY <1>15, <2>3 DEF Crash
  <2>4. ASSUME ~wiped'
        PROVE  OneKey'
    BY <1>15, <2>4 DEF Crash
  <2> QED
    BY <2>1, <2>2, <2>3, <2>4
<1>16. CASE StartFresh
  BY <1>16 DEF StartFresh
<1>17. CASE StartLoading
  BY <1>17 DEF StartLoading
<1>18. CASE RefuseToStart
  BY <1>18 DEF RefuseToStart, NoKey
<1>19. CASE UNCHANGED keyVars
  BY <1>19
<1> QED
  BY <1>1, <1>2, <1>3, <1>4, <1>5, <1>6, <1>7, <1>8, <1>9, <1>10, <1>11,
     <1>12, <1>13, <1>14, <1>15, <1>16, <1>17, <1>18, <1>19, <1>20
     DEF KeyStoreNext

(* The file on disk, its backup, the key file, the cache, the steps of a   *)
(* save and of a wipe have their types.                                    *)
THEOREM KeyStoreTyped == KeyStoreSpec => []KeyStoreTypeOK
<1>1. KeyStoreInv => KeyStoreTypeOK
  BY DEF KeyStoreInv
<1> QED
  BY <1>1, KeyStoreInitInv, KeyStoreStepInv, PTL DEF KeyStoreSpec

(* What was saved last can be read back with the key on disk after any     *)
(* sequence of saves, failing writes, crashes and restarts, and the program *)
(* does not refuse to start, unless the user wiped the account or the last *)
(* copy over the database failed or died and no save ended since           *)
(* (save_to_file).                                                         *)
THEOREM AccountIsReadableHolds == KeyStoreSpec => []AccountIsReadable
<1>1. KeyStoreInv => AccountIsReadable
  BY DEF KeyStoreInv, KeyStoreTypeOK, AccountIsReadable, NeverLockedOut, Unharmed,
      SavedIsReadable
<1> QED
  BY <1>1, KeyStoreInitInv, KeyStoreStepInv, PTL DEF KeyStoreSpec

(***************************************************************************)
(* Mirror: the window's list and the database.                             *)
(***************************************************************************)
Both == {"me", "peer"}
Messages ==
  [author : Both, text : {"sent", "edited"}, delivered : BOOLEAN, pinned : BOOLEAN,
   reactions : [Both -> SUBSET Emojis]]
StoredMessages == {m \in Messages : \A user \in Both : Cardinality(m.reactions[user]) <= 1}
Row == [id : MirrorIds, message : Messages]
Received == [type : {"received"}, id : PeerIds, message : Messages]
WindowEvent ==
  Received \cup [type : {"edited", "delivered", "deleted"}, id : MirrorIds]
           \cup [type : {"reaction"}, id : MirrorIds, emoji : Emojis]
MirrorTask ==
  [do : {"send", "edit", "delete", "everyone"}, id : MirrorIds]
    \cup [do : {"react"}, id : MirrorIds, emoji : Emojis]
    \cup [do : {"pin"}, id : MirrorIds, step : 0..MaxCommands]
    \cup [do : {"clear"}, id : {"none"}, seen : SUBSET MirrorIds]

(* The identifiers in a list, and those that wait to be shown. *)
IdsOf(list) == {list[i].id : i \in DOMAIN list}
Announced(q) == {q[i].id : i \in {j \in DOMAIN q : q[j].type = "received"}}
News == Announced(events)

(* What the database has or had. *)
Had == DOMAIN store \cup deleted

StoreTyped(s) ==
  /\ IsFiniteSet(DOMAIN s)
  /\ DOMAIN s \subseteq StoreIds \cup PeerIds
  /\ \A id \in DOMAIN s : s[id] \in StoredMessages
  /\ \A id \in DOMAIN s \cap PeerIds : s[id].author = "peer"

MirrorTyped ==
  /\ StoreTyped(store)
  /\ deleted \subseteq MirrorIds /\ DOMAIN store \cap deleted = {}
  /\ unannounced \in PeerIds \cup {"none"}
  /\ events \in Seq(WindowEvent)
  /\ window \in {"closed", "loaded", "open"}
  /\ shown \in Seq(Row)
  /\ mirrorTasks \subseteq MirrorTask
  /\ hidden \subseteq MirrorIds
  /\ window = "closed" => IdsOf(shown) = {} /\ hidden = {}
  /\ raced \in BOOLEAN
  /\ commands \in 0..MaxCommands

(* The messenger's identifiers in the window, on their way to it or in a   *)
(* task that deletes are known to the database; one in a task that sends   *)
(* is not yet.                                                             *)
KnownToDatabase ==
  /\ (IdsOf(shown) \cup hidden) \ WindowIds \subseteq Had
  /\ News \cup ({unannounced} \ {"none"}) \subseteq Had \cap PeerIds
  /\ \A t \in mirrorTasks :
       /\ t.do = "send" => t.id \in StoreIds \ Had
       /\ t.do = "delete" => t.id \in WindowIds \cup Had

(* A message that is to be announced is not in the window, nor was it.     *)
NewsIsNew ==
  window # "closed" /\ ~raced =>
    /\ (News \cup {unannounced}) \cap (IdsOf(shown) \cup hidden) = {}
    /\ unannounced \notin News
    /\ IdsOf(shown) \cap hidden = {}

MirrorInv == MirrorTyped /\ KnownToDatabase /\ NewsIsNew

-----------------------------------------------------------------------------
(* The changes of a message keep its type. *)
LEMMA ChangesKeepType ==
  ASSUME NEW m \in Messages
  PROVE  Edited(m) \in Messages /\ PinToggled(m) \in Messages /\ Delivered(m) \in Messages
  BY DEF Messages, Edited, PinToggled, Delivered

LEMMA ReactionsKeepType ==
  ASSUME NEW m \in Messages, NEW emoji \in Emojis, NEW user \in Both
  PROVE  /\ Reacted(m, user, emoji) \in Messages
         /\ Toggled(m, emoji) \in Messages
         /\ PeerReacted(m, emoji) \in Messages
  BY DEF Messages, Both, Reacted, Toggled, PeerReacted

LEMMA StoredChangesKeepType ==
  ASSUME NEW m \in StoredMessages
  PROVE  /\ Edited(m) \in StoredMessages /\ Edited(m).author = m.author
         /\ PinToggled(m) \in StoredMessages /\ PinToggled(m).author = m.author
         /\ Delivered(m) \in StoredMessages /\ Delivered(m).author = m.author
         /\ \A emoji \in Emojis, user \in Both :
              Reacted(m, user, emoji) \in StoredMessages /\ Reacted(m, user, emoji).author = m.author
  <1>1. m \in Messages /\ \A user \in Both : Cardinality(m.reactions[user]) <= 1
    BY DEF StoredMessages
  <1>2. /\ Edited(m) \in Messages /\ Edited(m).author = m.author
        /\ Edited(m).reactions = m.reactions
    BY <1>1 DEF Messages, Edited
  <1>3. /\ PinToggled(m) \in Messages /\ PinToggled(m).author = m.author
        /\ PinToggled(m).reactions = m.reactions
    BY <1>1 DEF Messages, PinToggled
  <1>4. /\ Delivered(m) \in Messages /\ Delivered(m).author = m.author
        /\ Delivered(m).reactions = m.reactions
    BY <1>1 DEF Messages, Delivered
  <1>5. ASSUME NEW emoji \in Emojis, NEW user \in Both
        PROVE  Reacted(m, user, emoji) \in StoredMessages /\ Reacted(m, user, emoji).author = m.author
    <2> DEFINE r == Reacted(m, user, emoji)
    <2>1. /\ r \in Messages /\ r.author = m.author
          /\ \A u \in Both : r.reactions[u] = IF u = user THEN {emoji} ELSE m.reactions[u]
      BY <1>1 DEF Messages, Reacted
    <2> HIDE DEF r
    <2>2. Cardinality({emoji}) = 1
      BY FS_Singleton
    <2>3. \A u \in Both : Cardinality(r.reactions[u]) <= 1
      BY <1>1, <2>1, <2>2
    <2> QED BY <2>1, <2>3 DEF StoredMessages, r
  <1> QED BY <1>1, <1>2, <1>3, <1>4, <1>5 DEF StoredMessages

LEMMA NewMessageTyped ==
  ASSUME NEW author \in Both, NEW done \in BOOLEAN
  PROVE  MirrorMessage(author, done) \in StoredMessages /\ MirrorMessage(author, done).author = author
  <1>1. MirrorMessage(author, done) \in Messages
    BY DEF MirrorMessage, Messages, NoReaction, Both
  <1>2. \A user \in Both : MirrorMessage(author, done).reactions[user] = {}
    BY DEF MirrorMessage, NoReaction, Both
  <1>3. Cardinality({}) = 0
    BY FS_EmptySet
  <1> QED BY <1>1, <1>2, <1>3 DEF StoredMessages, MirrorMessage

-----------------------------------------------------------------------------
(* The operations on the window's list. *)

(* A change of messages leaves the identifiers. *)
LEMMA RowsChange ==
  ASSUME NEW list \in Seq(Row), NEW r, r = [i \in DOMAIN list |-> r[i]],
         \A i \in DOMAIN list :
           r[i] = list[i] \/ \E m \in Messages : r[i] = [list[i] EXCEPT !.message = m]
  PROVE  r \in Seq(Row) /\ IdsOf(r) = IdsOf(list)
  <1>1. Len(list) \in Nat /\ DOMAIN list = 1..Len(list)
    BY LenProperties
  <1>2. ASSUME NEW i \in 1..Len(list) PROVE r[i] \in Row /\ r[i].id = list[i].id
    <2>1. list[i] \in Row
      BY <1>1, ElementOfSeq
    <2> QED BY <1>1, <2>1 DEF Row
  <1>3. r \in [1..Len(list) -> Row] /\ DOMAIN r = 1..Len(list)
    BY <1>1, <1>2
  <1>4. r \in Seq(Row)
    BY <1>1, <1>3, FunctionIsSeq
  <1>5. \A i \in DOMAIN list : r[i].id = list[i].id
    BY <1>1, <1>2
  <1> QED BY <1>1, <1>3, <1>4, <1>5 DEF IdsOf

LEMMA RowAppended ==
  ASSUME NEW list \in Seq(Row), NEW e \in Row
  PROVE  Append(list, e) \in Seq(Row) /\ IdsOf(Append(list, e)) = IdsOf(list) \cup {e.id}
  <1> DEFINE a == Append(list, e)
             n == Len(list)
  <1>1. n \in Nat /\ DOMAIN list = 1..n
    BY LenProperties
  <1>2. /\ a \in Seq(Row) /\ DOMAIN a = 1..(n + 1)
        /\ \A i \in 1..n : a[i] = list[i]
        /\ a[n + 1] = e
    BY AppendProperties, LenProperties
  <1> HIDE DEF a, n
  <1>3. 1..(n + 1) = (1..n) \cup {n + 1}
    BY <1>1
  <1>4. IdsOf(a) = IdsOf(list) \cup {e.id}
    BY <1>1, <1>2, <1>3 DEF IdsOf
  <1> QED BY <1>2, <1>4 DEF a

LEMMA RowsRemoved ==
  ASSUME NEW list \in Seq(Row), NEW ids
  PROVE  Without(list, ids) \in Seq(Row) /\ IdsOf(Without(list, ids)) = IdsOf(list) \ ids
  <1> DEFINE S == {entry \in ToSet(list) : entry.id \notin ids}
             p == Picked(list, S)
             n == Len(list)
  <1>1. n \in Nat /\ DOMAIN list = 1..n
    BY LenProperties
  <1>2. \A i \in 1..n : list[i] \in S <=> list[i].id \notin ids
    BY <1>1 DEF ToSet
  <1>3. \A e \in S : e.id \notin ids
    OBVIOUS
  <1> HIDE DEF S
  <1>4. /\ p \in Seq(Row)
        /\ \A i \in 1..Len(p) : p[i] \in S /\ \E j \in 1..n : list[j] = p[i]
        /\ \A j \in 1..n : list[j] \in S => \E i \in 1..Len(p) : p[i] = list[j]
    BY PickedProperties
  <1> HIDE DEF p
  <1>5. DOMAIN p = 1..Len(p)
    BY <1>4, LenProperties
  <1>6. ASSUME NEW x \in IdsOf(p) PROVE x \in IdsOf(list) \ ids
    <2>1. PICK i \in 1..Len(p) : x = p[i].id
      BY <1>5 DEF IdsOf
    <2>2. PICK j \in 1..n : list[j] = p[i]
      BY <1>4
    <2> QED BY <1>1, <1>3, <1>4, <2>1, <2>2 DEF IdsOf
  <1>7. ASSUME NEW x \in IdsOf(list) \ ids PROVE x \in IdsOf(p)
    <2>1. PICK j \in 1..n : x = list[j].id
      BY <1>1 DEF IdsOf
    <2>2. PICK i \in 1..Len(p) : p[i] = list[j]
      BY <1>2, <1>4, <1>7, <2>1
    <2> QED BY <1>5, <2>1, <2>2 DEF IdsOf
  <1>8. Without(list, ids) = p
    BY DEF Without, S, p
  <1> QED BY <1>4, <1>6, <1>7, <1>8

LEMMA RowsEdited ==
  ASSUME NEW list \in Seq(Row), NEW id
  PROVE  InList(list, id, Edited) \in Seq(Row) /\ IdsOf(InList(list, id, Edited)) = IdsOf(list)
  <1> DEFINE r == InList(list, id, Edited)
             first == {i \in DOMAIN list :
                         list[i].id = id /\ \A j \in 1..(i - 1) : list[j].id # id}
  <1>1. ASSUME NEW i \in DOMAIN list PROVE list[i].message \in Messages
    <2>1. list[i] \in Row
      BY LenProperties, ElementOfSeq
    <2> QED BY <2>1 DEF Row
  <1>2. r = [i \in DOMAIN list |-> IF i \in first
                THEN [list[i] EXCEPT !.message = Edited(@)] ELSE list[i]]
    BY DEF InList
  <1> HIDE DEF r, first
  <1>3. ASSUME NEW i \in DOMAIN list
        PROVE  r[i] = list[i] \/ \E m \in Messages : r[i] = [list[i] EXCEPT !.message = m]
    <2>1. Edited(list[i].message) \in Messages
      BY <1>1, ChangesKeepType
    <2>2. r[i] = IF i \in first
                 THEN [list[i] EXCEPT !.message = Edited(list[i].message)] ELSE list[i]
      BY <1>2
    <2> QED BY <2>1, <2>2, Zenon
  <1>4. r = [i \in DOMAIN list |-> r[i]]
    BY <1>2
  <1> QED BY <1>3, <1>4, RowsChange DEF r

LEMMA RowsPinned ==
  ASSUME NEW list \in Seq(Row), NEW id
  PROVE  InList(list, id, PinToggled) \in Seq(Row) /\ IdsOf(InList(list, id, PinToggled)) = IdsOf(list)
  <1> DEFINE r == InList(list, id, PinToggled)
             first == {i \in DOMAIN list :
                         list[i].id = id /\ \A j \in 1..(i - 1) : list[j].id # id}
  <1>1. ASSUME NEW i \in DOMAIN list PROVE list[i].message \in Messages
    <2>1. list[i] \in Row
      BY LenProperties, ElementOfSeq
    <2> QED BY <2>1 DEF Row
  <1>2. r = [i \in DOMAIN list |-> IF i \in first
                THEN [list[i] EXCEPT !.message = PinToggled(@)] ELSE list[i]]
    BY DEF InList
  <1> HIDE DEF r, first
  <1>3. ASSUME NEW i \in DOMAIN list
        PROVE  r[i] = list[i] \/ \E m \in Messages : r[i] = [list[i] EXCEPT !.message = m]
    <2>1. PinToggled(list[i].message) \in Messages
      BY <1>1, ChangesKeepType
    <2>2. r[i] = IF i \in first
                 THEN [list[i] EXCEPT !.message = PinToggled(list[i].message)] ELSE list[i]
      BY <1>2
    <2> QED BY <2>1, <2>2, Zenon
  <1>4. r = [i \in DOMAIN list |-> r[i]]
    BY <1>2
  <1> QED BY <1>3, <1>4, RowsChange DEF r

LEMMA RowsDelivered ==
  ASSUME NEW list \in Seq(Row), NEW id
  PROVE  InList(list, id, Delivered) \in Seq(Row) /\ IdsOf(InList(list, id, Delivered)) = IdsOf(list)
  <1> DEFINE r == InList(list, id, Delivered)
             first == {i \in DOMAIN list :
                         list[i].id = id /\ \A j \in 1..(i - 1) : list[j].id # id}
  <1>1. ASSUME NEW i \in DOMAIN list PROVE list[i].message \in Messages
    <2>1. list[i] \in Row
      BY LenProperties, ElementOfSeq
    <2> QED BY <2>1 DEF Row
  <1>2. r = [i \in DOMAIN list |-> IF i \in first
                THEN [list[i] EXCEPT !.message = Delivered(@)] ELSE list[i]]
    BY DEF InList
  <1> HIDE DEF r, first
  <1>3. ASSUME NEW i \in DOMAIN list
        PROVE  r[i] = list[i] \/ \E m \in Messages : r[i] = [list[i] EXCEPT !.message = m]
    <2>1. Delivered(list[i].message) \in Messages
      BY <1>1, ChangesKeepType
    <2>2. r[i] = IF i \in first
                 THEN [list[i] EXCEPT !.message = Delivered(list[i].message)] ELSE list[i]
      BY <1>2
    <2> QED BY <2>1, <2>2, Zenon
  <1>4. r = [i \in DOMAIN list |-> r[i]]
    BY <1>2
  <1> QED BY <1>3, <1>4, RowsChange DEF r

LEMMA RowsReacted ==
  ASSUME NEW list \in Seq(Row), NEW id, NEW emoji \in Emojis
  PROVE  LET r == InList(list, id, LAMBDA m : PeerReacted(m, emoji))
         IN  r \in Seq(Row) /\ IdsOf(r) = IdsOf(list)
  <1> DEFINE r == InList(list, id, LAMBDA m : PeerReacted(m, emoji))
             first == {i \in DOMAIN list :
                         list[i].id = id /\ \A j \in 1..(i - 1) : list[j].id # id}
  <1>1. ASSUME NEW i \in DOMAIN list PROVE list[i].message \in Messages
    <2>1. list[i] \in Row
      BY LenProperties, ElementOfSeq
    <2> QED BY <2>1 DEF Row
  <1>2. r = [i \in DOMAIN list |-> IF i \in first
                THEN [list[i] EXCEPT !.message = PeerReacted(@, emoji)] ELSE list[i]]
    BY DEF InList
  <1> HIDE DEF r, first
  <1>3. ASSUME NEW i \in DOMAIN list
        PROVE  r[i] = list[i] \/ \E m \in Messages : r[i] = [list[i] EXCEPT !.message = m]
    <2> DEFINE m == list[i].message
               x == PeerReacted(m, emoji)
    <2>1. x \in Messages
      BY <1>1, ReactionsKeepType DEF Both
    <2>2. r[i] = IF i \in first THEN [list[i] EXCEPT !.message = x] ELSE list[i]
      BY <1>2
    <2> HIDE DEF x
    <2> QED BY <2>1, <2>2, Zenon
  <1>4. r = [i \in DOMAIN list |-> r[i]]
    BY <1>2
  <1> QED BY <1>3, <1>4, RowsChange DEF r

LEMMA RowsToggled ==
  ASSUME NEW list \in Seq(Row), NEW id, NEW emoji \in Emojis
  PROVE  LET r == InList(list, id, LAMBDA m : Toggled(m, emoji))
         IN  r \in Seq(Row) /\ IdsOf(r) = IdsOf(list)
  <1> DEFINE r == InList(list, id, LAMBDA m : Toggled(m, emoji))
             first == {i \in DOMAIN list :
                         list[i].id = id /\ \A j \in 1..(i - 1) : list[j].id # id}
  <1>1. ASSUME NEW i \in DOMAIN list PROVE list[i].message \in Messages
    <2>1. list[i] \in Row
      BY LenProperties, ElementOfSeq
    <2> QED BY <2>1 DEF Row
  <1>2. r = [i \in DOMAIN list |-> IF i \in first
                THEN [list[i] EXCEPT !.message = Toggled(@, emoji)] ELSE list[i]]
    BY DEF InList
  <1> HIDE DEF r, first
  <1>3. ASSUME NEW i \in DOMAIN list
        PROVE  r[i] = list[i] \/ \E m \in Messages : r[i] = [list[i] EXCEPT !.message = m]
    <2> DEFINE m == list[i].message
               x == Toggled(m, emoji)
    <2>1. x \in Messages
      BY <1>1, ReactionsKeepType DEF Both
    <2>2. r[i] = IF i \in first THEN [list[i] EXCEPT !.message = x] ELSE list[i]
      BY <1>2
    <2> HIDE DEF x
    <2> QED BY <2>1, <2>2, Zenon
  <1>4. r = [i \in DOMAIN list |-> r[i]]
    BY <1>2
  <1> QED BY <1>3, <1>4, RowsChange DEF r

(* An event changes, removes or adds one message of the list. *)
LEMMA EventHandledProperties ==
  ASSUME NEW list \in Seq(Row), NEW event \in WindowEvent
  PROVE  /\ EventHandled(list, event) \in Seq(Row)
         /\ IdsOf(EventHandled(list, event))
              \subseteq IdsOf(list) \cup (IF event.type = "received" THEN {event.id} ELSE {})
  <1> DEFINE r == EventHandled(list, event)
  <1>1. event.type \in {"received", "delivered", "edited", "deleted", "reaction"}
    BY DEF WindowEvent, Received
  <1>2. CASE event.type = "received"
    <2>1. r = Append(list, ShownEntry(event.id, event.message))
      BY <1>2 DEF EventHandled
    <2>2. event \in Received
      BY <1>2 DEF WindowEvent
    <2>3. ShownEntry(event.id, event.message) \in Row
      BY <2>2 DEF ShownEntry, Received, Row, MirrorIds
    <2>4. ShownEntry(event.id, event.message).id = event.id
      BY DEF ShownEntry
    <2> QED BY <1>2, <2>1, <2>3, <2>4, RowAppended
  <1>3. CASE event.type = "delivered"
    <2>1. r = InList(list, event.id, Delivered)
      BY <1>3 DEF EventHandled
    <2> QED BY <1>3, <2>1, RowsDelivered
  <1>4. CASE event.type = "edited"
    <2>1. r = InList(list, event.id, Edited)
      BY <1>4 DEF EventHandled
    <2> QED BY <1>4, <2>1, RowsEdited
  <1>5. CASE event.type = "deleted"
    <2>1. r = Without(list, {event.id})
      BY <1>5 DEF EventHandled
    <2> QED BY <1>5, <2>1, RowsRemoved
  <1>6. CASE event.type = "reaction"
    <2>1. r = InList(list, event.id, LAMBDA m : PeerReacted(m, event.emoji))
      BY <1>6 DEF EventHandled
    <2>2. event.emoji \in Emojis
      BY <1>6 DEF WindowEvent, Received
    <2> QED BY <1>6, <2>1, <2>2, RowsReacted
  <1> QED BY <1>1, <1>2, <1>3, <1>4, <1>5, <1>6

(* A frame handles the events one after the other. *)
LEMMA EventsUnfold ==
  ASSUME NEW list \in Seq(Row), NEW q \in Seq(WindowEvent)
  PROVE  \E c : /\ c[0] = list
                /\ \A k \in 1..Len(q) : c[k] = EventHandled(c[k-1], q[k])
                /\ FoldLeft(EventHandled, list, q) = c[Len(q)]
  <1> DEFINE n == Len(q)
             R == Seq(Row)
             G == [k \in 1..n |-> [x \in R |-> EventHandled(x, q[k])]]
             Fold(f) == f = [t \in SUBSET (1..n) |->
                               IF t = {} THEN list ELSE EventHandled(f[t \ {Max(t)}], q[Max(t)])]
             h == CHOOSE f : Fold(f)
  <1>1. n \in Nat /\ DOMAIN q = 1..n /\ \A k \in 1..n : q[k] \in WindowEvent
    BY LenProperties, ElementOfSeq
  <1>2. \E f : Fold(f)
    <2>1. \A k \in 1..n, x \in R : EventHandled(x, q[k]) \in R
      BY <1>1, EventHandledProperties
    <2>2. \A k \in 1..n : \A x \in R : G[k][x] \in R
      BY <2>1
    <2>3. list \in R
      OBVIOUS
    <2> HIDE DEF n, R, G
    <2>4. PICK f \in [SUBSET (1..n) -> R] : IsFold(f, n, list, G)
      BY <1>1, <2>2, <2>3, FoldsExist, Zenon
    <2>5. ASSUME NEW t \in SUBSET (1..n), t # {}
          PROVE  G[Max(t)][f[t \ {Max(t)}]] = EventHandled(f[t \ {Max(t)}], q[Max(t)])
      <3>1. Max(t) \in 1..n
        BY <1>1, <2>5, GreatestPosition
      <3>2. f[t \ {Max(t)}] \in R
        BY <2>4
      <3> QED BY <3>1, <3>2 DEF G
    <2>6. Fold(f)
      BY <2>4, <2>5 DEF IsFold
    <2> HIDE DEF Fold
    <2> QED BY <2>6
  <1>3. Fold(h)
    <2> HIDE DEF Fold
    <2> QED BY <1>2
  <1>4. FoldLeft(EventHandled, list, q) = h[1..n]
    BY <1>1 DEF FoldLeft, MapThenFoldSet
  <1> DEFINE c == [k \in 0..n |-> h[1..k]]
  <1> HIDE DEF h
  <1>5. c[0] = list
    <2>1. 1..0 = {} /\ 0 \in 0..n
      BY <1>1
    <2> QED BY <1>3, <2>1
  <1>6. ASSUME NEW k \in 1..n PROVE c[k] = EventHandled(c[k-1], q[k])
    <2>1. Max(1..k) = k /\ (1..k) \ {k} = 1..(k-1) /\ 1..k # {}
      BY LastOfPrefix
    <2>2. k \in 0..n /\ k - 1 \in 0..n /\ 1..k \in SUBSET (1..n)
      BY <1>1
    <2>3. h[1..k] = EventHandled(h[1..(k-1)], q[k])
      <3> HIDE DEF n
      <3> QED BY <1>3, <2>1, <2>2
    <2> HIDE DEF n
    <2> QED BY <2>2, <2>3
  <1>7. FoldLeft(EventHandled, list, q) = c[n]
    BY <1>1, <1>4
  <1> HIDE DEF c
  <1>8. /\ c[0] = list
        /\ \A k \in 1..Len(q) : c[k] = EventHandled(c[k-1], q[k])
        /\ FoldLeft(EventHandled, list, q) = c[Len(q)]
    BY <1>5, <1>6, <1>7
  <1> QED BY <1>8, Zenon

(* What a list shows after a frame it showed before, or was told. *)
LEMMA EventsHandled ==
  ASSUME NEW list \in Seq(Row), NEW q \in Seq(WindowEvent)
  PROVE  /\ FoldLeft(EventHandled, list, q) \in Seq(Row)
         /\ \A x \in IdsOf(FoldLeft(EventHandled, list, q)) :
              x \in IdsOf(list) \/ \E k \in 1..Len(q) : q[k].type = "received" /\ x = q[k].id
  <1>1. PICK c : /\ c[0] = list
                 /\ \A k \in 1..Len(q) : c[k] = EventHandled(c[k-1], q[k])
                 /\ FoldLeft(EventHandled, list, q) = c[Len(q)]
    BY EventsUnfold
  <1> DEFINE n == Len(q)
             New(x) == \E k \in 1..n : q[k].type = "received" /\ x = q[k].id
             Good(r) == r \in Seq(Row) /\ \A x \in IdsOf(r) : x \in IdsOf(list) \/ New(x)
             T == {k \in 0..n : Good(c[k])}
  <1>2. n \in Nat /\ \A k \in 1..n : q[k] \in WindowEvent
    BY LenProperties, ElementOfSeq
  <1>3. 0 \in T
    BY <1>1, <1>2
  <1>4. ASSUME NEW k \in 0..(n-1), k \in T PROVE k + 1 \in T
    <2>1. k + 1 \in 0..n /\ k + 1 \in 1..n /\ (k + 1) - 1 = k
      BY <1>2
    <2>2. c[k+1] = EventHandled(c[k], q[k+1])
      BY <1>1, <2>1
    <2>3. Good(c[k]) /\ c[k] \in Seq(Row)
      BY <1>4
    <2>4. /\ c[k+1] \in Seq(Row)
          /\ IdsOf(c[k+1]) \subseteq
               IdsOf(c[k]) \cup (IF q[k+1].type = "received" THEN {q[k+1].id} ELSE {})
      BY <1>2, <2>1, <2>2, <2>3, EventHandledProperties
    <2>5. ASSUME NEW x \in IdsOf(c[k+1]) PROVE x \in IdsOf(list) \/ New(x)
      <3>1. CASE x \in IdsOf(c[k])
        BY <2>3, <3>1
      <3>2. CASE q[k+1].type = "received" /\ x = q[k+1].id
        BY <2>1, <3>2
      <3> QED BY <2>4, <2>5, <3>1, <3>2
    <2> QED BY <2>1, <2>4, <2>5
  <1> HIDE DEF T
  <1>5. 0..n \subseteq T
    BY <1>2, <1>3, <1>4, ReachesAll
  <1>6. n \in T
    BY <1>2, <1>5
  <1> QED BY <1>1, <1>6 DEF T

LEMMA EventAppended ==
  ASSUME NEW q \in Seq(WindowEvent), NEW e \in WindowEvent
  PROVE  /\ Append(q, e) \in Seq(WindowEvent)
         /\ Announced(Append(q, e)) =
              Announced(q) \cup (IF e.type = "received" THEN {e.id} ELSE {})
  <1> DEFINE a == Append(q, e)
             n == Len(q)
  <1>1. n \in Nat /\ DOMAIN q = 1..n
    BY LenProperties
  <1>2. /\ a \in Seq(WindowEvent) /\ DOMAIN a = 1..(n + 1)
        /\ \A i \in 1..n : a[i] = q[i]
        /\ a[n + 1] = e
    BY AppendProperties, LenProperties
  <1> HIDE DEF a, n
  <1>3. 1..(n + 1) = (1..n) \cup {n + 1}
    BY <1>1
  <1>4. Announced(a) = Announced(q) \cup (IF e.type = "received" THEN {e.id} ELSE {})
    BY <1>1, <1>2, <1>3 DEF Announced
  <1> QED BY <1>2, <1>4 DEF a

-----------------------------------------------------------------------------
(* The operations on the database. *)
LEMMA MessagesChange ==
  ASSUME NEW s, StoreTyped(s), NEW r, DOMAIN r = DOMAIN s,
         \A id \in DOMAIN s :
           r[id] = s[id] \/ (r[id] \in StoredMessages /\ r[id].author = s[id].author)
  PROVE  StoreTyped(r)
  BY DEF StoreTyped

LEMMA MessagesKept ==
  ASSUME NEW s, StoreTyped(s), NEW ids
  PROVE  /\ StoreTyped(Keeping(s, DOMAIN s \ ids))
         /\ DOMAIN Keeping(s, DOMAIN s \ ids) = DOMAIN s \ ids
         /\ \A id \in DOMAIN s \ ids : Keeping(s, DOMAIN s \ ids)[id] = s[id]
  <1> DEFINE r == Keeping(s, DOMAIN s \ ids)
  <1>1. DOMAIN r = DOMAIN s \ ids /\ \A id \in DOMAIN s \ ids : r[id] = s[id]
    BY DEF Keeping
  <1> HIDE DEF r
  <1>2. IsFiniteSet(DOMAIN s \ ids)
    BY FS_Difference DEF StoreTyped
  <1>3. StoreTyped(r)
    BY <1>1, <1>2 DEF StoreTyped
  <1> QED BY <1>1, <1>3 DEF r

LEMMA MessageAdded ==
  ASSUME NEW s, StoreTyped(s), NEW id \in StoreIds \cup PeerIds,
         NEW m \in StoredMessages, id \in PeerIds => m.author = "peer",
         NEW r, DOMAIN r = DOMAIN s \cup {id}, r[id] = m, \A i \in DOMAIN s \ {id} : r[i] = s[i]
  PROVE  StoreTyped(r)
  <1>1. IsFiniteSet(DOMAIN s \cup {id})
    BY FS_AddElement DEF StoreTyped
  <1> QED BY <1>1 DEF StoreTyped

LEMMA StoreChanges ==
  ASSUME StoreTyped(store), NEW id
  PROVE  /\ StoreTyped(InStore(id, Edited)) /\ DOMAIN InStore(id, Edited) = DOMAIN store
         /\ StoreTyped(InStore(id, PinToggled)) /\ DOMAIN InStore(id, PinToggled) = DOMAIN store
         /\ StoreTyped(InStore(id, Delivered)) /\ DOMAIN InStore(id, Delivered) = DOMAIN store
  <1>0. \A i \in DOMAIN store : store[i] \in StoredMessages
    BY DEF StoreTyped
  <1>1. StoreTyped(InStore(id, Edited)) /\ DOMAIN InStore(id, Edited) = DOMAIN store
    <2> DEFINE r == InStore(id, Edited)
    <2>1. DOMAIN r = DOMAIN store /\ \A i \in DOMAIN store :
            r[i] = store[i] \/ r[i] = Edited(store[i])
      BY DEF InStore, Stored
    <2> HIDE DEF r
    <2>2. StoreTyped(r)
      BY <1>0, <2>1, StoredChangesKeepType, MessagesChange
    <2> QED BY <2>1, <2>2 DEF r
  <1>2. StoreTyped(InStore(id, PinToggled)) /\ DOMAIN InStore(id, PinToggled) = DOMAIN store
    <2> DEFINE r == InStore(id, PinToggled)
    <2>1. DOMAIN r = DOMAIN store /\ \A i \in DOMAIN store :
            r[i] = store[i] \/ r[i] = PinToggled(store[i])
      BY DEF InStore, Stored
    <2> HIDE DEF r
    <2>2. StoreTyped(r)
      BY <1>0, <2>1, StoredChangesKeepType, MessagesChange
    <2> QED BY <2>1, <2>2 DEF r
  <1>3. StoreTyped(InStore(id, Delivered)) /\ DOMAIN InStore(id, Delivered) = DOMAIN store
    <2> DEFINE r == InStore(id, Delivered)
    <2>1. DOMAIN r = DOMAIN store /\ \A i \in DOMAIN store :
            r[i] = store[i] \/ r[i] = Delivered(store[i])
      BY DEF InStore, Stored
    <2> HIDE DEF r
    <2>2. StoreTyped(r)
      BY <1>0, <2>1, StoredChangesKeepType, MessagesChange
    <2> QED BY <2>1, <2>2 DEF r
  <1> QED BY <1>1, <1>2, <1>3

LEMMA StoreReactions ==
  ASSUME StoreTyped(store), NEW id, NEW user \in Both, NEW emoji \in Emojis
  PROVE  LET r == InStore(id, LAMBDA m : Reacted(m, user, emoji))
         IN  StoreTyped(r) /\ DOMAIN r = DOMAIN store
  <1> DEFINE r == InStore(id, LAMBDA m : Reacted(m, user, emoji))
  <1>1. DOMAIN r = DOMAIN store /\ \A i \in DOMAIN store :
          r[i] = store[i] \/ r[i] = Reacted(store[i], user, emoji)
    BY DEF InStore, Stored
  <1> HIDE DEF r
  <1>2. \A i \in DOMAIN store : store[i] \in StoredMessages
    BY DEF StoreTyped
  <1>3. \A i \in DOMAIN store : /\ Reacted(store[i], user, emoji) \in StoredMessages
                               /\ Reacted(store[i], user, emoji).author = store[i].author
    BY <1>2, StoredChangesKeepType
  <1>4. StoreTyped(r)
    BY <1>1, <1>3, MessagesChange
  <1> QED BY <1>1, <1>4 DEF r

-----------------------------------------------------------------------------
LEMMA ShownIdsAreIds == ShownIds = IdsOf(shown)
  BY DEF ShownIds, IdsOf

LEMMA IdsAreMirrorIds ==
  ASSUME NEW list \in Seq(Row)
  PROVE  IdsOf(list) \subseteq MirrorIds
  <1>1. \A i \in DOMAIN list : list[i] \in Row
    BY LenProperties, ElementOfSeq
  <1> QED BY <1>1 DEF IdsOf, Row

LEMMA MirrorInitInv == MirrorInit => MirrorInv
  <1> SUFFICES ASSUME MirrorInit PROVE MirrorInv
    OBVIOUS
  <1> USE MirrorAssumption DEF MirrorInit
  <1>1. DOMAIN store = {} /\ IsFiniteSet({})
    BY FS_EmptySet
  <1>2. StoreTyped(store)
    BY <1>1 DEF StoreTyped
  <1>3. IdsOf(shown) = {} /\ News = {}
    BY DEF IdsOf, News, Announced
  <1>4. shown \in Seq(Row) /\ events \in Seq(WindowEvent)
    BY EmptySeq
  <1>5. MirrorTyped
    <2>1. commands \in 0..MaxCommands
      OBVIOUS
    <2>2. raced \in BOOLEAN /\ hidden \subseteq MirrorIds /\ mirrorTasks \subseteq MirrorTask
      OBVIOUS
    <2>3. deleted \subseteq MirrorIds /\ DOMAIN store \cap deleted = {}
      OBVIOUS
    <2>4. window \in {"closed", "loaded", "open"} /\ unannounced \in PeerIds \cup {"none"}
      OBVIOUS
    <2> QED BY <1>2, <1>3, <1>4, <2>1, <2>2, <2>3, <2>4, Zenon DEF MirrorTyped
  <1>6. KnownToDatabase /\ NewsIsNew
    BY <1>3 DEF KnownToDatabase, NewsIsNew
  <1> QED BY <1>5, <1>6 DEF MirrorInv

(* A command deletes messages the window shows and adds one it never had.  *)
LEMMA CommandKeeps ==
  ASSUME MirrorInv,
         NEW list \in Seq(Row), NEW task \in SUBSET MirrorTask, NEW gone \in SUBSET IdsOf(shown),
         IdsOf(list) \subseteq (IdsOf(shown) \ gone) \cup (WindowIds \ (IdsOf(shown) \cup hidden)),
         \A t \in task : /\ t.do = "send" => t.id \in StoreIds \ Had
                         /\ t.do = "delete" => t.id \in WindowIds \cup Had,
         Command(list, task, gone)
  PROVE  MirrorInv'
  <1> USE DEF Command, databaseVars
  <1>1. News' = News /\ Had' = Had
    BY DEF News, Had
  <1>2. shown' = list /\ window' = "open" /\ hidden' = hidden \cup gone /\ raced' = raced
    OBVIOUS
  <1>3. IdsOf(shown)' = IdsOf(list)
    BY <1>2
  <1>4. MirrorTyped'
    <2>1. gone \subseteq MirrorIds
      BY IdsAreMirrorIds DEF MirrorInv, MirrorTyped
    <2>2. commands' \in 0..MaxCommands
      BY MirrorAssumption DEF MirrorInv, MirrorTyped
    <2> QED BY <1>2, <2>1, <2>2 DEF MirrorInv, MirrorTyped
  <1>5. KnownToDatabase'
    BY <1>1, <1>2, <1>3 DEF MirrorInv, KnownToDatabase
  <1>6. NewsIsNew'
    <2>1. (News \cup {unannounced}) \cap WindowIds = {}
      BY MirrorAssumption DEF MirrorInv, MirrorTyped, KnownToDatabase
    <2> QED BY <1>1, <1>2, <1>3, <2>1 DEF MirrorInv, NewsIsNew
  <1> QED BY <1>4, <1>5, <1>6 DEF MirrorInv

(* A task changes the database only.  It may bring a message in only if    *)
(* it is the last to send that message.                                    *)
LEMMA RanKeeps ==
  ASSUME MirrorInv, NEW task, Ran(task),
         StoreTyped(store'), deleted' \subseteq MirrorIds, DOMAIN store' \cap deleted' = {},
         Had \subseteq Had',
         \A t \in mirrorTasks' : t.do = "send" => t.id \notin Had',
         raced' \in BOOLEAN, raced => raced'
  PROVE  MirrorInv'
  <1> USE DEF Ran
  <1>1. News' = News /\ IdsOf(shown)' = IdsOf(shown)
    BY DEF News
  <1>2. MirrorTyped'
    BY <1>1 DEF MirrorInv, MirrorTyped
  <1>3. KnownToDatabase'
    BY <1>1 DEF MirrorInv, KnownToDatabase
  <1>4. NewsIsNew'
    BY <1>1 DEF MirrorInv, NewsIsNew
  <1> QED BY <1>2, <1>3, <1>4 DEF MirrorInv

(* A step of the poll loop brings in nothing but messages of the peer that *)
(* the database never had, and announces only what it brings in.           *)
LEMMA PollKeeps ==
  ASSUME MirrorInv, Listening,
         StoreTyped(store'), deleted' \subseteq MirrorIds, DOMAIN store' \cap deleted' = {},
         Had \subseteq Had', Had' \ Had \subseteq PeerIds,
         raced' \in BOOLEAN, raced => raced',
         events' \in Seq(WindowEvent), News' = News,
         unannounced' \in {"none"} \cup (PeerIds \cap (Had' \ Had))
  PROVE  MirrorInv'
  <1> USE DEF Listening
  <1>1. IdsOf(shown)' = IdsOf(shown)
    OBVIOUS
  <1>2. MirrorTyped'
    BY <1>1 DEF MirrorInv, MirrorTyped
  <1>3. KnownToDatabase'
    BY <1>1, MirrorAssumption DEF MirrorInv, KnownToDatabase
  <1>4. NewsIsNew'
    <2>1. unannounced' \notin IdsOf(shown) \cup hidden \cup News
      <3>1. IdsOf(shown) \cup hidden \cup News \subseteq MirrorIds
        BY IdsAreMirrorIds DEF MirrorInv, MirrorTyped, KnownToDatabase, MirrorIds
      <3>2. CASE unannounced' = "none"
        BY <3>1, <3>2, MirrorAssumption DEF MirrorIds
      <3>3. CASE unannounced' \in PeerIds \ Had
        BY <3>3, MirrorAssumption DEF MirrorInv, KnownToDatabase
      <3> QED BY <3>2, <3>3
    <2> QED BY <1>1, <2>1 DEF MirrorInv, NewsIsNew
  <1> QED BY <1>2, <1>3, <1>4 DEF MirrorInv

(* SetToSeq lists each element of a finite set once.                       *)
LEMMA SetToSeqLists ==
  ASSUME NEW S, IsFiniteSet(S)
  PROVE  /\ SetToSeq(S) \in [1..Cardinality(S) -> S]
         /\ \A i, j \in 1..Cardinality(S) : SetToSeq(S)[i] = SetToSeq(S)[j] => i = j
         /\ \A x \in S : \E i \in 1..Cardinality(S) : SetToSeq(S)[i] = x
  <1> DEFINE n == Cardinality(S)
             q == SetToSeq(S)
  <1>1. n \in Nat /\ ExistsBijection(1..n, S)
    BY FS_CardinalityType
  <1>2. q \in [1..n -> S] /\ IsInjective(q)
    <2>1. \E f \in [1..n -> S] : IsInjective(f)
      BY <1>1 DEF ExistsBijection, Bijection, Injection
    <2> QED BY <2>1 DEF SetToSeq
  <1> HIDE DEF q
  <1>3. \A i, j \in 1..n : q[i] = q[j] => i = j
    BY <1>2 DEF IsInjective
  <1>4. ASSUME NEW x \in S PROVE \E i \in 1..n : q[i] = x
    <2> SUFFICES ASSUME \A i \in 1..n : q[i] # x PROVE FALSE
      OBVIOUS
    <2>1. q \in [1..n -> S \ {x}]
      BY <1>2
    <2>2. IsFiniteSet(S \ {x}) /\ Cardinality(S \ {x}) = n - 1
      BY FS_RemoveElement
    <2>3. IsFiniteSet(1..n) /\ Cardinality(1..n) = n
      BY <1>1, FS_Interval
    <2>4. Cardinality(S \ {x}) < Cardinality(1..n)
      BY <1>1, <2>2, <2>3
    <2>5. \E i, j \in 1..n : i # j /\ q[i] = q[j]
      <3> DEFINE A == 1..n
                 B == S \ {x}
      <3>1. q \in [A -> B] /\ IsFiniteSet(A) /\ IsFiniteSet(B) /\ Cardinality(B) < Cardinality(A)
        BY <2>1, <2>2, <2>3, <2>4
      <3> HIDE DEF A, B
      <3>2. \E i, j \in A : i # j /\ q[i] = q[j]
        BY <3>1, FS_PigeonHole
      <3> QED BY <3>2 DEF A
    <2> QED BY <1>3, <2>5
  <1> QED BY <1>2, <1>3, <1>4 DEF q

-----------------------------------------------------------------------------
(* The window's steps. *)
LEMMA OpenWindowInv == MirrorInv /\ OpenWindow => MirrorInv'
  <1> SUFFICES ASSUME MirrorInv, OpenWindow PROVE MirrorInv'
    OBVIOUS
  <1> USE DEF OpenWindow, databaseVars
  <1> DEFINE q == SetToSeq(DOMAIN store)
             n == Cardinality(DOMAIN store)
             r == [i \in DOMAIN q |-> ShownEntry(q[i], store[q[i]])]
  <1>0. StoreTyped(store) /\ Had' = Had /\ News' = News
    BY DEF MirrorInv, MirrorTyped, Had, News
  <1>1. n \in Nat /\ q \in [1..n -> DOMAIN store]
    BY <1>0, FS_CardinalityType, SetToSeqLists DEF StoreTyped
  <1> HIDE DEF q, n
  <1>2. DOMAIN q = 1..n /\ \A i \in 1..n : q[i] \in DOMAIN store
    BY <1>1
  <1>3. \A i \in 1..n : r[i] = ShownEntry(q[i], store[q[i]])
    BY <1>2
  <1>4. \A i \in 1..n : r[i] \in Row /\ r[i].id \in DOMAIN store
    BY <1>0, <1>2, <1>3 DEF Row, ShownEntry, StoreTyped, StoredMessages, MirrorIds
  <1>5. shown' = r /\ DOMAIN r = 1..n
    BY <1>2 DEF q
  <1> HIDE DEF r
  <1>6. r \in Seq(Row)
    <2>1. r \in [1..n -> Row]
      BY <1>4, <1>5
    <2> QED BY <1>1, <2>1, FunctionIsSeq
  <1>7. IdsOf(shown)' = IdsOf(r) /\ IdsOf(r) \subseteq DOMAIN store
    BY <1>4, <1>5 DEF IdsOf
  <1>8. MirrorTyped'
    BY <1>0, <1>5, <1>6 DEF MirrorInv, MirrorTyped
  <1>9. KnownToDatabase'
    BY <1>0, <1>7 DEF MirrorInv, MirrorTyped, KnownToDatabase, Had
  <1>10. NewsIsNew'
    <2>1. ~raced' => News = {} /\ unannounced = "none"
      <3>1. raced' <=> (unannounced # "none" \/ events # <<>>)
        BY Zenon
      <3>2. events = <<>> => News = {}
        BY DEF News, Announced
      <3> QED BY <3>1, <3>2, Zenon
    <2>2. "none" \notin IdsOf(r)
      BY <1>0, <1>7, MirrorAssumption DEF StoreTyped
    <2>3. hidden' = {}
      BY DEF MirrorInv, MirrorTyped
    <2> QED BY <1>0, <1>7, <2>1, <2>2, <2>3 DEF NewsIsNew
  <1> QED BY <1>8, <1>9, <1>10 DEF MirrorInv

LEMMA CloseWindowInv == MirrorInv /\ CloseWindow => MirrorInv'
  <1> SUFFICES ASSUME MirrorInv, CloseWindow PROVE MirrorInv'
    OBVIOUS
  <1> USE DEF CloseWindow
  <1>1. Had' = Had /\ News' = {} /\ IdsOf(shown)' = {}
    BY DEF Had, News, Announced, IdsOf
  <1>2. shown' \in Seq(Row) /\ events' \in Seq(WindowEvent)
    BY EmptySeq
  <1>3. MirrorTyped'
    BY <1>1, <1>2 DEF MirrorInv, MirrorTyped
  <1>4. KnownToDatabase' /\ NewsIsNew'
    BY <1>1 DEF MirrorInv, KnownToDatabase, NewsIsNew
  <1> QED BY <1>3, <1>4 DEF MirrorInv

LEMMA HandleIncomingEventsInv == MirrorInv /\ HandleIncomingEvents => MirrorInv'
  <1> SUFFICES ASSUME MirrorInv, HandleIncomingEvents PROVE MirrorInv'
    OBVIOUS
  <1> USE DEF HandleIncomingEvents, databaseVars
  <1> DEFINE r == FoldLeft(EventHandled, shown, events)
  <1>1. Had' = Had /\ News' = {} /\ shown' = r
    BY DEF Had, News, Announced
  <1>2. shown \in Seq(Row) /\ events \in Seq(WindowEvent)
    BY DEF MirrorInv, MirrorTyped
  <1>3. /\ r \in Seq(Row)
        /\ \A x \in IdsOf(r) :
             x \in IdsOf(shown) \/ \E k \in 1..Len(events) : events[k].type = "received" /\ x = events[k].id
    BY <1>2, EventsHandled
  <1> HIDE DEF r
  <1>4. IdsOf(shown)' = IdsOf(r) /\ IdsOf(r) \subseteq IdsOf(shown) \cup News
    <2>1. DOMAIN events = 1..Len(events)
      BY <1>2, LenProperties
    <2> QED BY <1>1, <1>3, <2>1 DEF News, Announced
  <1>5. MirrorTyped'
    <2>1. events' \in Seq(WindowEvent)
      BY EmptySeq
    <2> QED BY <1>1, <1>3, <2>1 DEF MirrorInv, MirrorTyped
  <1>6. KnownToDatabase'
    BY <1>1, <1>4 DEF MirrorInv, KnownToDatabase
  <1>7. NewsIsNew'
    BY <1>1, <1>4 DEF MirrorInv, NewsIsNew
  <1> QED BY <1>5, <1>6, <1>7 DEF MirrorInv

LEMMA SendMessageInv ==
  ASSUME MirrorInv, NEW id \in WindowIds, NEW own \in StoreIds, NEW saved \in BOOLEAN,
         SendMessage(id, own, saved)
  PROVE  MirrorInv'
  <1> DEFINE row == ShownEntry(id, MirrorMessage("me", saved))
             list == Append(shown, row)
             task == IF saved THEN {} ELSE {[do |-> "send", id |-> own]}
  <1>1. shown \in Seq(Row)
    BY DEF MirrorInv, MirrorTyped
  <1>2. row \in Row /\ row.id = id
    <2>1. MirrorMessage("me", saved) \in Messages
      BY NewMessageTyped DEF Both, StoredMessages
    <2> QED BY <2>1 DEF ShownEntry, Row, MirrorIds
  <1>3. id \notin IdsOf(shown) \cup hidden /\ own \notin Had /\ Command(list, task, {})
    BY ShownIdsAreIds DEF SendMessage, Stored, Had
  <1> HIDE DEF row
  <1>4. list \in Seq(Row) /\ IdsOf(list) = IdsOf(shown) \cup {id}
    BY <1>1, <1>2, RowAppended
  <1>5. task \in SUBSET MirrorTask
    BY DEF MirrorTask, MirrorIds
  <1>6. \A t \in task : t.do = "send" /\ t.id = own
    OBVIOUS
  <1>7. {} \in SUBSET IdsOf(shown)
    OBVIOUS
  <1> DEFINE gone == {}
  <1>8. /\ IdsOf(list) \subseteq (IdsOf(shown) \ gone) \cup (WindowIds \ (IdsOf(shown) \cup hidden))
        /\ \A t \in task : /\ t.do = "send" => t.id \in StoreIds \ Had
                           /\ t.do = "delete" => t.id \in WindowIds \cup Had
    BY <1>3, <1>4, <1>6
  <1> HIDE DEF list, task
  <1> QED BY <1>3, <1>4, <1>5, <1>7, <1>8, CommandKeeps

LEMMA ReactMessageInv ==
  ASSUME MirrorInv, NEW id \in MirrorIds, NEW emoji \in Emojis, ReactMessage(id, emoji)
  PROVE  MirrorInv'
  <1> DEFINE list == InList(shown, id, LAMBDA m : Toggled(m, emoji))
             task == {[do |-> "react", id |-> id, emoji |-> emoji]}
             gone == {}
  <1>1. shown \in Seq(Row)
    BY DEF MirrorInv, MirrorTyped
  <1>2. Command(list, task, gone)
    BY DEF ReactMessage
  <1>3. list \in Seq(Row) /\ IdsOf(list) = IdsOf(shown)
    BY <1>1, RowsToggled
  <1>4. task \in SUBSET MirrorTask /\ \A t \in task : t.do = "react"
    BY DEF MirrorTask
  <1>5. /\ IdsOf(list) \subseteq (IdsOf(shown) \ gone) \cup (WindowIds \ (IdsOf(shown) \cup hidden))
        /\ \A t \in task : /\ t.do = "send" => t.id \in StoreIds \ Had
                           /\ t.do = "delete" => t.id \in WindowIds \cup Had
    BY <1>3, <1>4
  <1>6. gone \in SUBSET IdsOf(shown)
    OBVIOUS
  <1> HIDE DEF list, task, gone
  <1> QED BY <1>2, <1>3, <1>4, <1>5, <1>6, CommandKeeps

LEMMA EditMessageInv ==
  ASSUME MirrorInv, NEW id \in MirrorIds, EditMessage(id)
  PROVE  MirrorInv'
  <1> DEFINE list == InList(shown, id, Edited)
             task == {[do |-> "edit", id |-> id]}
             gone == {}
  <1>1. shown \in Seq(Row)
    BY DEF MirrorInv, MirrorTyped
  <1>2. Command(list, task, gone)
    BY DEF EditMessage
  <1>3. list \in Seq(Row) /\ IdsOf(list) = IdsOf(shown)
    BY <1>1, RowsEdited
  <1>4. task \in SUBSET MirrorTask /\ \A t \in task : t.do = "edit"
    BY DEF MirrorTask
  <1>5. /\ IdsOf(list) \subseteq (IdsOf(shown) \ gone) \cup (WindowIds \ (IdsOf(shown) \cup hidden))
        /\ \A t \in task : /\ t.do = "send" => t.id \in StoreIds \ Had
                           /\ t.do = "delete" => t.id \in WindowIds \cup Had
    BY <1>3, <1>4
  <1>6. gone \in SUBSET IdsOf(shown)
    OBVIOUS
  <1> HIDE DEF list, task, gone
  <1> QED BY <1>2, <1>3, <1>4, <1>5, <1>6, CommandKeeps

LEMMA PinMessageInv ==
  ASSUME MirrorInv, NEW id \in MirrorIds, PinMessage(id)
  PROVE  MirrorInv'
  <1> DEFINE list == InList(shown, id, PinToggled)
             task == {[do |-> "pin", id |-> id, step |-> commands]}
             gone == {}
  <1>1. shown \in Seq(Row) /\ commands \in 0..MaxCommands
    BY DEF MirrorInv, MirrorTyped
  <1>2. Command(list, task, gone)
    BY DEF PinMessage
  <1>3. list \in Seq(Row) /\ IdsOf(list) = IdsOf(shown)
    BY <1>1, RowsPinned
  <1>4. task \in SUBSET MirrorTask /\ \A t \in task : t.do = "pin"
    BY <1>1 DEF MirrorTask
  <1>5. /\ IdsOf(list) \subseteq (IdsOf(shown) \ gone) \cup (WindowIds \ (IdsOf(shown) \cup hidden))
        /\ \A t \in task : /\ t.do = "send" => t.id \in StoreIds \ Had
                           /\ t.do = "delete" => t.id \in WindowIds \cup Had
    BY <1>3, <1>4
  <1>6. gone \in SUBSET IdsOf(shown)
    OBVIOUS
  <1> HIDE DEF list, task, gone
  <1> QED BY <1>2, <1>3, <1>4, <1>5, <1>6, CommandKeeps

(* Both kinds of deletion take the message out of the list and hand the    *)
(* database a task that deletes it.                                        *)
LEMMA DeletionInv ==
  ASSUME MirrorInv, NEW id \in MirrorIds, DeleteMessage(id) \/ DeleteEveryone(id)
  PROVE  MirrorInv'
  <1> DEFINE list == Without(shown, {id})
             delete == [do |-> "delete", id |-> id]
             everyone == [do |-> "everyone", id |-> id]
             gone == {id}
  <1>1. shown \in Seq(Row)
    BY DEF MirrorInv, MirrorTyped
  <1>2. PICK task \in SUBSET {delete, everyone} : Command(list, task, gone)
    BY DEF DeleteMessage, DeleteEveryone
  <1>3. list \in Seq(Row) /\ IdsOf(list) = IdsOf(shown) \ gone
    BY <1>1, RowsRemoved
  <1>4. id \in IdsOf(shown)
    BY ShownIdsAreIds DEF DeleteMessage, DeleteEveryone
  <1>5. task \in SUBSET MirrorTask /\ \A t \in task : t.do \in {"delete", "everyone"} /\ t.id = id
    BY DEF MirrorTask
  <1>6. id \in WindowIds \cup Had
    BY <1>4 DEF MirrorInv, KnownToDatabase
  <1>7. /\ IdsOf(list) \subseteq (IdsOf(shown) \ gone) \cup (WindowIds \ (IdsOf(shown) \cup hidden))
        /\ \A t \in task : /\ t.do = "send" => t.id \in StoreIds \ Had
                           /\ t.do = "delete" => t.id \in WindowIds \cup Had
    BY <1>3, <1>5, <1>6
  <1>8. gone \in SUBSET IdsOf(shown)
    BY <1>4
  <1> HIDE DEF list, gone
  <1> QED BY <1>2, <1>3, <1>5, <1>7, <1>8, CommandKeeps

LEMMA ClearHistoryInv ==
  ASSUME MirrorInv, ClearHistory
  PROVE  MirrorInv'
  <1> DEFINE list == <<>>
             task == {[do |-> "clear", id |-> "none", seen |-> hidden \cup ShownIds]}
             gone == IdsOf(shown)
  <1>1. Command(list, task, gone)
    BY ShownIdsAreIds DEF ClearHistory
  <1>2. list \in Seq(Row) /\ IdsOf(list) = {}
    BY EmptySeq DEF IdsOf
  <1>3. hidden \cup ShownIds \in SUBSET MirrorIds
    BY ShownIdsAreIds, IdsAreMirrorIds DEF MirrorInv, MirrorTyped
  <1>4. task \in SUBSET MirrorTask /\ \A t \in task : t.do = "clear"
    BY <1>3 DEF MirrorTask
  <1>5. /\ IdsOf(list) \subseteq (IdsOf(shown) \ gone) \cup (WindowIds \ (IdsOf(shown) \cup hidden))
        /\ \A t \in task : /\ t.do = "send" => t.id \in StoreIds \ Had
                           /\ t.do = "delete" => t.id \in WindowIds \cup Had
    BY <1>2, <1>4
  <1>6. gone \in SUBSET IdsOf(shown)
    OBVIOUS
  <1> HIDE DEF list, task, gone
  <1> QED BY <1>1, <1>2, <1>4, <1>5, <1>6, CommandKeeps

-----------------------------------------------------------------------------
(* The tasks. *)
LEMMA SendsDiffer ==
  ASSUME NEW t \in MirrorTask, NEW u \in MirrorTask, t.do = "send", u.do = "send", t # u
  PROVE  t.id # u.id
  BY DEF MirrorTask

LEMMA RunSendInv ==
  ASSUME MirrorInv, NEW task \in mirrorTasks, NEW dropped \in BOOLEAN, RunSend(task, dropped)
  PROVE  MirrorInv'
  <1> DEFINE r == [i \in DOMAIN store \cup {task.id} |->
                     IF i = task.id THEN MirrorMessage("me", FALSE) ELSE store[i]]
  <1>1. /\ Ran(task) /\ task.do = "send"
        /\ store' = (IF dropped THEN store ELSE r)
        /\ deleted' = deleted /\ raced' = raced
    BY DEF RunSend
  <1>2. task.id \in StoreIds \ Had
    BY <1>1 DEF MirrorInv, KnownToDatabase
  <1>3. StoreTyped(store)
    BY DEF MirrorInv, MirrorTyped
  <1>4. StoreTyped(r) /\ DOMAIN r = DOMAIN store \cup {task.id}
    <2> DEFINE m == MirrorMessage("me", FALSE)
               id == task.id
    <2>1. m \in StoredMessages
      BY NewMessageTyped DEF Both
    <2>2. id \in StoreIds \cup PeerIds /\ id \notin PeerIds
      BY <1>2, MirrorAssumption
    <2>3. /\ DOMAIN r = DOMAIN store \cup {id} /\ r[id] = m
          /\ \A i \in DOMAIN store \ {id} : r[i] = store[i]
      OBVIOUS
    <2> HIDE DEF r, m, id
    <2>4. StoreTyped(r)
      BY <1>3, <2>1, <2>2, <2>3, MessageAdded
    <2> QED BY <2>3, <2>4 DEF id
  <1> HIDE DEF r
  <1>5. StoreTyped(store') /\ Had \subseteq Had' /\ Had' \subseteq Had \cup {task.id}
    BY <1>1, <1>3, <1>4 DEF Had
  <1>6. deleted' \subseteq MirrorIds /\ DOMAIN store' \cap deleted' = {}
    BY <1>1, <1>2, <1>4 DEF MirrorInv, MirrorTyped, Had
  <1>7. ASSUME NEW t \in mirrorTasks', t.do = "send" PROVE t.id \notin Had'
    <2>1. t \in mirrorTasks /\ t # task
      BY <1>1 DEF Ran
    <2>2. t.id # task.id
      BY <1>1, <1>7, <2>1, SendsDiffer DEF MirrorInv, MirrorTyped
    <2> QED BY <1>5, <1>7, <2>1, <2>2 DEF MirrorInv, KnownToDatabase
  <1>8. raced' \in BOOLEAN /\ (raced => raced')
    BY <1>1 DEF MirrorInv, MirrorTyped
  <1> QED BY <1>1, <1>5, <1>6, <1>7, <1>8, RanKeeps

(* The tasks that bring no message in. *)
LEMMA OtherTaskKeeps ==
  ASSUME MirrorInv, NEW task \in mirrorTasks, Ran(task),
         StoreTyped(store'), deleted' \subseteq MirrorIds, DOMAIN store' \cap deleted' = {},
         Had \subseteq Had', Had' \subseteq Had \cup WindowIds,
         raced' \in BOOLEAN, raced => raced'
  PROVE  MirrorInv'
  <1>1. \A t \in mirrorTasks' : t.do = "send" => t.id \notin Had'
    BY MirrorAssumption DEF Ran, MirrorInv, KnownToDatabase
  <1> QED BY <1>1, RanKeeps

LEMMA RunChangeInv ==
  ASSUME MirrorInv, NEW task \in mirrorTasks, RunChange(task)
  PROVE  MirrorInv'
  <1> USE DEF RunChange
  <1>0. StoreTyped(store) /\ Ran(task) /\ task \in MirrorTask
    BY DEF MirrorInv, MirrorTyped
  <1>1. StoreTyped(store') /\ DOMAIN store' = DOMAIN store
    <2>1. CASE task.do = "edit"
      <3>1. store' = InStore(task.id, Edited)
        BY <2>1
      <3> QED BY <1>0, <3>1, StoreChanges
    <2>2. CASE task.do = "pin"
      <3>1. store' = InStore(task.id, PinToggled)
        BY <2>2
      <3> QED BY <1>0, <3>1, StoreChanges
    <2>3. CASE task.do = "react"
      <3>1. store' = InStore(task.id, LAMBDA m : Reacted(m, "me", task.emoji))
        BY <2>3
      <3>2. task.emoji \in Emojis
        BY <1>0, <2>3 DEF MirrorTask
      <3> QED BY <1>0, <3>1, <3>2, StoreReactions DEF Both
    <2> QED BY <2>1, <2>2, <2>3
  <1>2. /\ deleted' \subseteq MirrorIds /\ DOMAIN store' \cap deleted' = {}
        /\ Had' = Had
        /\ raced' \in BOOLEAN /\ (raced => raced')
    BY <1>1 DEF MirrorInv, MirrorTyped, Had
  <1> QED BY <1>0, <1>1, <1>2, OtherTaskKeeps

LEMMA RunDeleteInv ==
  ASSUME MirrorInv, NEW task \in mirrorTasks, RunDelete(task)
  PROVE  MirrorInv'
  <1> USE DEF RunDelete
  <1>0. StoreTyped(store) /\ Ran(task) /\ task.id \in WindowIds \cup Had
    BY DEF MirrorInv, MirrorTyped, KnownToDatabase
  <1>1. StoreTyped(store') /\ DOMAIN store' = DOMAIN store \ {task.id}
    BY <1>0, MessagesKept
  <1>2. /\ deleted' \subseteq MirrorIds /\ DOMAIN store' \cap deleted' = {}
        /\ Had \subseteq Had' /\ Had' \subseteq Had \cup WindowIds
    BY <1>0, <1>1 DEF MirrorInv, MirrorTyped, StoreTyped, Had, MirrorIds
  <1>3. raced' \in BOOLEAN /\ (raced => raced')
    BY DEF MirrorInv, MirrorTyped
  <1> QED BY <1>0, <1>1, <1>2, <1>3, OtherTaskKeeps

LEMMA RunDeleteEveryoneInv ==
  ASSUME MirrorInv, NEW task \in mirrorTasks, RunDeleteEveryone(task)
  PROVE  MirrorInv'
  <1> DEFINE own == {id \in {task.id} \cap DOMAIN store : store[id].author = "me"}
  <1>0. /\ Ran(task) /\ deleted' = deleted \cup own
        /\ store' = Keeping(store, DOMAIN store \ own) /\ raced' = raced
    BY DEF RunDeleteEveryone
  <1>1. StoreTyped(store) /\ own \subseteq DOMAIN store
    BY DEF MirrorInv, MirrorTyped
  <1> HIDE DEF own
  <1>2. StoreTyped(store') /\ DOMAIN store' = DOMAIN store \ own
    BY <1>0, <1>1, MessagesKept
  <1>3. /\ deleted' \subseteq MirrorIds /\ DOMAIN store' \cap deleted' = {}
        /\ Had' = Had
    BY <1>0, <1>1, <1>2 DEF MirrorInv, MirrorTyped, StoreTyped, Had, MirrorIds
  <1>4. raced' \in BOOLEAN /\ (raced => raced')
    BY <1>0 DEF MirrorInv, MirrorTyped
  <1> QED BY <1>0, <1>2, <1>3, <1>4, OtherTaskKeeps

LEMMA RunClearInv ==
  ASSUME MirrorInv, NEW task \in mirrorTasks, RunClear(task)
  PROVE  MirrorInv'
  <1> USE DEF RunClear
  <1>0. StoreTyped(store) /\ Ran(task) /\ DOMAIN store' = {}
    BY DEF MirrorInv, MirrorTyped
  <1>1. StoreTyped(store')
    <2>1. IsFiniteSet({})
      BY FS_EmptySet
    <2> QED BY <1>0, <2>1 DEF StoreTyped
  <1>2. /\ deleted' \subseteq MirrorIds /\ DOMAIN store' \cap deleted' = {}
        /\ Had' = Had
    BY <1>0 DEF MirrorInv, MirrorTyped, StoreTyped, Had, MirrorIds
  <1>3. raced' \in BOOLEAN /\ (raced => raced')
    <2>1. raced' = (raced \/ ~(DOMAIN store \subseteq task.seen)) /\ raced \in BOOLEAN
      BY DEF MirrorInv, MirrorTyped
    <2> QED BY <2>1, Zenon
  <1> QED BY <1>0, <1>1, <1>2, <1>3, OtherTaskKeeps

-----------------------------------------------------------------------------
(* The poll loop. *)
LEMMA PollMessageInv ==
  ASSUME MirrorInv, NEW id \in StoreIds \cup PeerIds, PollMessage(id)
  PROVE  MirrorInv'
  <1> USE DEF PollMessage
  <1> DEFINE m == MirrorMessage("peer", TRUE)
  <1>0. StoreTyped(store) /\ Listening
    BY DEF MirrorInv, MirrorTyped
  <1>1. m \in StoredMessages /\ m.author = "peer"
    BY NewMessageTyped DEF Both
  <1>2. /\ DOMAIN store' = DOMAIN store \cup {id} /\ store'[id] = m
        /\ \A i \in DOMAIN store \ {id} : store'[i] = store[i]
    OBVIOUS
  <1> HIDE DEF m
  <1>3. StoreTyped(store')
    BY <1>0, <1>1, <1>2, MessageAdded
  <1>4. /\ deleted' \subseteq MirrorIds /\ DOMAIN store' \cap deleted' = {}
        /\ Had \subseteq Had' /\ Had' \ Had \subseteq PeerIds
        /\ events' \in Seq(WindowEvent)
    BY <1>2 DEF MirrorInv, MirrorTyped, Had, KnownToPeer, Stored
  <1>5. unannounced' \in {"none"} \cup (PeerIds \cap (Had' \ Had))
    BY <1>2 DEF Had, Stored, KnownToPeer
  <1>6. raced' \in BOOLEAN /\ (raced => raced')
    <2>1. raced' = (raced \/ Replaced(id)) /\ raced \in BOOLEAN
      BY DEF MirrorInv, MirrorTyped
    <2>2. Replaced(id) \in BOOLEAN
      BY DEF Replaced
    <2> QED BY <2>1, <2>2, Zenon
  <1>7. News' = News
    BY DEF News
  <1> QED BY <1>0, <1>3, <1>4, <1>5, <1>6, <1>7, PollKeeps

LEMMA AnnounceInv ==
  ASSUME MirrorInv, Announce
  PROVE  MirrorInv'
  <1> USE DEF Announce, windowVars
  <1> DEFINE e == [type |-> "received", id |-> unannounced, message |-> MirrorMessage("peer", TRUE)]
  <1>1. Had' = Had /\ IdsOf(shown)' = IdsOf(shown)
    BY DEF Had
  <1>2. unannounced \in PeerIds /\ events' = Append(events, e)
    BY DEF MirrorInv, MirrorTyped, Tell
  <1>3. e \in WindowEvent /\ e.type = "received" /\ e.id = unannounced
    <2>1. MirrorMessage("peer", TRUE) \in Messages
      BY NewMessageTyped DEF Both, StoredMessages
    <2> QED BY <1>2, <2>1 DEF WindowEvent, Received
  <1> HIDE DEF e
  <1>4. events' \in Seq(WindowEvent) /\ News' = News \cup {unannounced}
    BY <1>2, <1>3, EventAppended DEF MirrorInv, MirrorTyped, News
  <1>5. MirrorTyped'
    BY <1>1, <1>4 DEF MirrorInv, MirrorTyped
  <1>6. KnownToDatabase'
    BY <1>1, <1>2, <1>4 DEF MirrorInv, KnownToDatabase
  <1>7. NewsIsNew'
    <2>1. "none" \notin IdsOf(shown) \cup hidden \cup News \cup {unannounced}
      BY <1>2, IdsAreMirrorIds, MirrorAssumption
         DEF MirrorInv, MirrorTyped, KnownToDatabase, MirrorIds
    <2> QED BY <1>1, <1>4, <2>1 DEF MirrorInv, NewsIsNew
  <1> QED BY <1>5, <1>6, <1>7 DEF MirrorInv

(* The other polled messages bring nothing in.                             *)
LEMMA PolledKeeps ==
  ASSUME MirrorInv, Polled, StoreTyped(store'), deleted' \subseteq MirrorIds,
         DOMAIN store' \cap deleted' = {}, Had' = Had, unannounced' = unannounced,
         NEW e \in WindowEvent, e.type # "received",
         events' = events \/ events' = Append(events, e)
  PROVE  MirrorInv'
  <1>1. Listening /\ raced' = raced
    BY DEF Polled
  <1>2. events' \in Seq(WindowEvent) /\ News' = News
    BY EventAppended DEF MirrorInv, MirrorTyped, News
  <1>3. unannounced' = "none" /\ raced' \in BOOLEAN
    BY <1>1 DEF Listening, MirrorInv, MirrorTyped
  <1> QED BY <1>1, <1>2, <1>3, PollKeeps

LEMMA PollEditInv ==
  ASSUME MirrorInv, NEW id \in MirrorIds, PollEdit(id)
  PROVE  MirrorInv'
  <1> USE DEF PollEdit
  <1> DEFINE e == [type |-> "edited", id |-> id]
  <1>1. StoreTyped(store) /\ Polled /\ events' = Append(events, e)
    BY DEF MirrorInv, MirrorTyped, Tell
  <1>2. StoreTyped(store') /\ DOMAIN store' = DOMAIN store
    BY <1>1, StoreChanges
  <1>3. e \in WindowEvent /\ e.type # "received"
    BY DEF WindowEvent
  <1> HIDE DEF e
  <1>4. deleted' \subseteq MirrorIds /\ DOMAIN store' \cap deleted' = {} /\ Had' = Had
    BY <1>2 DEF MirrorInv, MirrorTyped, Had
  <1> QED BY <1>1, <1>2, <1>3, <1>4, PolledKeeps

LEMMA PollReceiptInv ==
  ASSUME MirrorInv, NEW id \in MirrorIds, PollReceipt(id)
  PROVE  MirrorInv'
  <1> USE DEF PollReceipt
  <1> DEFINE e == [type |-> "delivered", id |-> id]
  <1>1. StoreTyped(store) /\ Polled /\ events' = Append(events, e)
    BY DEF MirrorInv, MirrorTyped, Tell
  <1>2. StoreTyped(store') /\ DOMAIN store' = DOMAIN store
    BY <1>1, StoreChanges
  <1>3. e \in WindowEvent /\ e.type # "received"
    BY DEF WindowEvent
  <1> HIDE DEF e
  <1>4. deleted' \subseteq MirrorIds /\ DOMAIN store' \cap deleted' = {} /\ Had' = Had
    BY <1>2 DEF MirrorInv, MirrorTyped, Had
  <1> QED BY <1>1, <1>2, <1>3, <1>4, PolledKeeps

LEMMA PollReactionInv ==
  ASSUME MirrorInv, NEW id \in MirrorIds, NEW emoji \in Emojis, PollReaction(id, emoji)
  PROVE  MirrorInv'
  <1> USE DEF PollReaction
  <1> DEFINE e == [type |-> "reaction", id |-> id, emoji |-> emoji]
  <1>1. StoreTyped(store) /\ Polled /\ events' = Append(events, e)
    BY DEF MirrorInv, MirrorTyped, Tell
  <1>2. StoreTyped(store') /\ DOMAIN store' = DOMAIN store
    BY <1>1, StoreReactions DEF Both
  <1>3. e \in WindowEvent /\ e.type # "received"
    BY DEF WindowEvent
  <1> HIDE DEF e
  <1>4. deleted' \subseteq MirrorIds /\ DOMAIN store' \cap deleted' = {} /\ Had' = Had
    BY <1>2 DEF MirrorInv, MirrorTyped, Had
  <1> QED BY <1>1, <1>2, <1>3, <1>4, PolledKeeps

LEMMA PollTombstoneInv ==
  ASSUME MirrorInv, NEW id \in MirrorIds, PollTombstone(id)
  PROVE  MirrorInv'
  <1> DEFINE e == [type |-> "deleted", id |-> id]
             gone == DeletedByAuthor({id})
  <1>1. StoreTyped(store) /\ Polled /\ (events' = events \/ events' = Append(events, e))
    BY DEF PollTombstone, MirrorInv, MirrorTyped, Tell
  <1>2. gone \subseteq DOMAIN store
    BY DEF DeletedByAuthor
  <1>3. e \in WindowEvent /\ e.type # "received"
    BY DEF WindowEvent
  <1>4. /\ store' = Keeping(store, DOMAIN store \ gone) /\ deleted' = deleted \cup gone
        /\ unannounced' = unannounced
    BY DEF PollTombstone
  <1> HIDE DEF e, gone
  <1>5. StoreTyped(store') /\ DOMAIN store' = DOMAIN store \ gone
    BY <1>1, <1>4, MessagesKept
  <1>6. deleted' \subseteq MirrorIds /\ DOMAIN store' \cap deleted' = {} /\ Had' = Had
    BY <1>1, <1>2, <1>4, <1>5 DEF MirrorInv, MirrorTyped, StoreTyped, Had, MirrorIds
  <1> QED BY <1>1, <1>3, <1>4, <1>5, <1>6, PolledKeeps

LEMMA PollStepInv == MirrorInv /\ PollStep => MirrorInv'
  <1> SUFFICES ASSUME MirrorInv, PollStep PROVE MirrorInv'
    OBVIOUS
  <1>1. PICK id \in StoreIds \cup PeerIds :
               \/ PollMessage(id) \/ PollEdit(id) \/ PollReceipt(id) \/ PollTombstone(id)
               \/ \E emoji \in Emojis : PollReaction(id, emoji)
    BY DEF PollStep
  <1>2. id \in MirrorIds
    BY DEF MirrorIds
  <1> QED BY <1>1, <1>2, PollMessageInv, PollEditInv, PollReceiptInv, PollTombstoneInv,
             PollReactionInv

-----------------------------------------------------------------------------
LEMMA MirrorStepInv == MirrorInv /\ [MirrorNext]_mirrorVars => MirrorInv'
  <1> SUFFICES ASSUME MirrorInv, [MirrorNext]_mirrorVars PROVE MirrorInv'
    OBVIOUS
  <1>1. CASE UNCHANGED mirrorVars
    BY <1>1 DEF mirrorVars, MirrorInv, MirrorTyped, KnownToDatabase, NewsIsNew, Had, News
  <1>2. CASE OpenWindow
    BY <1>2, OpenWindowInv
  <1>3. CASE CloseWindow
    BY <1>3, CloseWindowInv
  <1>4. CASE HandleIncomingEvents
    BY <1>4, HandleIncomingEventsInv
  <1>5. CASE ClearHistory
    BY <1>5, ClearHistoryInv
  <1>6. CASE \E id \in WindowIds, own \in StoreIds, saved \in BOOLEAN : SendMessage(id, own, saved)
    BY <1>6, SendMessageInv
  <1>7. CASE \E id \in MirrorIds, emoji \in Emojis : ReactMessage(id, emoji)
    BY <1>7, ReactMessageInv
  <1>8. CASE \E id \in MirrorIds :
               EditMessage(id) \/ PinMessage(id) \/ DeleteMessage(id) \/ DeleteEveryone(id)
    BY <1>8, EditMessageInv, PinMessageInv, DeletionInv
  <1>9. CASE \E task \in mirrorTasks :
               \/ \E dropped \in BOOLEAN : RunSend(task, dropped)
               \/ RunChange(task) \/ RunDelete(task) \/ RunDeleteEveryone(task) \/ RunClear(task)
    BY <1>9, RunSendInv, RunChangeInv, RunDeleteInv, RunDeleteEveryoneInv, RunClearInv
  <1>10. CASE Announce
    BY <1>10, AnnounceInv
  <1>11. CASE PollStep
    BY <1>11, PollStepInv
  <1> QED BY <1>1, <1>2, <1>3, <1>4, <1>5, <1>6, <1>7, <1>8, <1>9, <1>10, <1>11 DEF MirrorNext

LEMMA MirrorInvHolds == MirrorSpec => []MirrorInv
  <1>1. MirrorInit => MirrorInv
    BY MirrorInitInv
  <1>2. MirrorInv /\ [MirrorNext]_mirrorVars => MirrorInv'
    BY MirrorStepInv
  <1> QED BY <1>1, <1>2, PTL DEF MirrorSpec

(* The list holds messages only, and the database no message it deleted.   *)
THEOREM MirrorTypeCorrect == MirrorSpec => []MirrorTypeOK
  <1>1. MirrorInv => MirrorTypeOK
    <2> SUFFICES ASSUME MirrorInv PROVE MirrorTypeOK
      OBVIOUS
    <2>1. ShownIds \subseteq MirrorIds
      BY ShownIdsAreIds, IdsAreMirrorIds DEF MirrorInv, MirrorTyped
    <2> QED BY <2>1 DEF MirrorInv, MirrorTyped, MirrorTypeOK, StoreTyped, StoredMessages, Both
  <1> QED BY <1>1, MirrorInvHolds, PTL

(* What the user deleted does not come back into the open window.          *)
THEOREM DeletedStaysHiddenHolds == MirrorSpec => []DeletedStaysHidden
  <1>1. MirrorInv => DeletedStaysHidden
    BY ShownIdsAreIds DEF MirrorInv, MirrorTyped, NewsIsNew, DeletedStaysHidden
  <1> QED BY <1>1, MirrorInvHolds, PTL

(* Nothing the peer sends deletes a message of the user, rewords it or     *)
(* gives it another author, but a message of its own with the same         *)
(* identifier.                                                             *)
THEOREM PeerLeavesMineAloneHolds == MirrorSpec => PeerLeavesMineAlone
  <1> DEFINE Mine(id) == /\ id \in DOMAIN store' /\ store'[id].author = "me"
                         /\ store'[id].text = store[id].text
             Alone == \A id \in DOMAIN store :
                        store[id].author = "me" =>
                          \/ PollMessage(id)
                          \/ /\ id \in DOMAIN store' /\ store'[id].author = "me"
                             /\ store'[id].text = store[id].text
  <1>1. MirrorInv /\ PollStep => Alone
    <2> SUFFICES ASSUME MirrorInv, PollStep, NEW id \in DOMAIN store, store[id].author = "me"
                 PROVE  PollMessage(id) \/ Mine(id)
      OBVIOUS
    <2>0. store[id] \in Messages /\ StoreTyped(store)
      BY DEF MirrorInv, MirrorTyped, StoreTyped, StoredMessages
    <2>1. ASSUME NEW i, PollMessage(i), i # id
          PROVE  id \in DOMAIN store' /\ store'[id] = store[id]
      BY <2>1 DEF PollMessage
    <2>2. ASSUME NEW i, PollEdit(i)
          PROVE  id \in DOMAIN store' /\ store'[id] = store[id]
      <3>1. id # i /\ store' = InStore(i, Edited)
        BY <2>2 DEF PollEdit, EditByAuthor
      <3> QED BY <3>1 DEF InStore
    <2>3. ASSUME NEW i, PollReceipt(i)
          PROVE  Mine(id)
      <3>1. store' = InStore(i, Delivered)
        BY <2>3 DEF PollReceipt
      <3>2. Delivered(store[id]).text = store[id].text /\ Delivered(store[id]).author = "me"
        BY <2>0 DEF Messages, Delivered
      <3> QED BY <3>1, <3>2 DEF InStore
    <2>4. ASSUME NEW i, NEW emoji, PollReaction(i, emoji)
          PROVE  Mine(id)
      <3>1. store' = InStore(i, LAMBDA m : Reacted(m, "peer", emoji))
        BY <2>4 DEF PollReaction
      <3>2. /\ Reacted(store[id], "peer", emoji).text = store[id].text
            /\ Reacted(store[id], "peer", emoji).author = "me"
        BY <2>0 DEF Messages, Reacted
      <3> QED BY <3>1, <3>2 DEF InStore
    <2>5. ASSUME NEW i, PollTombstone(i)
          PROVE  id \in DOMAIN store' /\ store'[id] = store[id]
      <3>1. id \notin DeletedByAuthor({i})
        BY DEF DeletedByAuthor
      <3>2. store' = Keeping(store, DOMAIN store \ DeletedByAuthor({i}))
        BY <2>5 DEF PollTombstone
      <3> QED BY <2>0, <3>1, <3>2, MessagesKept
    <2> QED BY <2>1, <2>2, <2>3, <2>4, <2>5 DEF PollStep
  <1>2. MirrorInv /\ [MirrorNext]_mirrorVars => [PollStep => Alone]_mirrorVars
    BY <1>1
  <1> QED BY <1>2, MirrorInvHolds, PTL DEF MirrorSpec, PeerLeavesMineAlone

(***************************************************************************)
(* What the window shows of the peer's messages.  The window lags behind   *)
(* the database by the events that wait and is ahead of it by the tasks    *)
(* that do, so neither is compared with the other as it stands: the list   *)
(* is run through the events, one view of the message after each (a        *)
(* course), and the last view agrees with the database but for the pins    *)
(* that tasks have yet to turn, counted modulo two, and for what they have *)
(* yet to delete.                                                          *)
(***************************************************************************)
(* What the window shows of a message of the peer: nothing, or one row     *)
(* with its text and its pin.                                              *)
View == [here : BOOLEAN, text : {"sent", "edited"}, pinned : BOOLEAN]
Alike(m, w) == m.text = w.text /\ m.pinned = w.pinned /\ m.author = "peer"
RowShows(row, p, w) == row.id = p /\ Alike(row.message, w)
Shows(list, p, w) ==
  IF w.here
  THEN \E i \in DOMAIN list : RowShows(list[i], p, w) /\ \A j \in DOMAIN list : list[j].id = p => j = i
  ELSE \A j \in DOMAIN list : list[j].id # p

Turned(w) == [w EXCEPT !.pinned = ~@]
Vanished(w) == [w EXCEPT !.here = FALSE]
Reworded(w) == [w EXCEPT !.text = "edited"]

(* What it shows after an event, and after each of those that wait; an     *)
(* announcement finds nothing and brings in the message as it was sent.    *)
ViewAfter(w, e, p) ==
  IF e.id # p THEN w
  ELSE CASE e.type = "received" -> [here |-> TRUE, text |-> "sent", pinned |-> FALSE]
         [] e.type = "edited"   -> Reworded(w)
         [] e.type = "deleted"  -> Vanished(w)
         [] OTHER               -> w
Proper(w, e, p) ==
  e.id = p /\ e.type = "received" => ~w.here /\ e.message = MirrorMessage("peer", TRUE)
Course(v, list, q, p) ==
  /\ v \in [0..Len(q) -> View]
  /\ Shows(list, p, v[0])
  /\ \A k \in 1..Len(q) : v[k] = ViewAfter(v[k-1], q[k], p) /\ Proper(v[k-1], q[k], p)

(* The rows InList changes: the first that has the identifier. *)
FirstRow(list, id) ==
  {i \in DOMAIN list : list[i].id = id /\ \A j \in 1..(i - 1) : list[j].id # id}

LEMMA RowMessages ==
  ASSUME NEW list \in Seq(Row)
  PROVE  /\ DOMAIN list = 1..Len(list) /\ Len(list) \in Nat
         /\ \A i \in DOMAIN list : list[i] \in Row /\ list[i].message \in Messages
  <1>1. DOMAIN list = 1..Len(list) /\ Len(list) \in Nat
    BY LenProperties
  <1>2. \A i \in DOMAIN list : list[i] \in Row
    BY <1>1, ElementOfSeq
  <1> QED BY <1>1, <1>2 DEF Row

(* r is the list with the messages g in the rows of id; these are alike u. *)
Rewritten(r, list, id, g) ==
  /\ DOMAIN r = DOMAIN list
  /\ \A i \in DOMAIN list : r[i] = IF i \in FirstRow(list, id)
                                 THEN [list[i] EXCEPT !.message = g[i]] ELSE list[i]
Become(list, w, g, u) == \A i \in DOMAIN list : Alike(list[i].message, w) => Alike(g[i], u)

LEMMA ListChanged ==
  ASSUME NEW list \in Seq(Row), NEW id, NEW p, NEW w \in View, NEW u \in View,
         Shows(list, p, w), u.here = w.here, NEW g,
         NEW r, Rewritten(r, list, id, g),
         id # p => u = w, id = p => Become(list, w, g, u)
  PROVE  Shows(r, p, u)
  <1>1. DOMAIN r = DOMAIN list /\ DOMAIN list = 1..Len(list) /\ Len(list) \in Nat
    BY RowMessages DEF Rewritten
  <1>2. ASSUME NEW i \in DOMAIN list
        PROVE  /\ r[i].id = list[i].id
               /\ i \in FirstRow(list, id) => r[i].message = g[i]
               /\ i \notin FirstRow(list, id) => r[i] = list[i]
    <2>1. list[i] \in Row
      BY RowMessages
    <2> QED BY <2>1 DEF Row, Rewritten
  <1>3. CASE ~w.here
    BY <1>1, <1>2, <1>3 DEF Shows
  <1>4. CASE w.here
    <2>1. PICK i \in DOMAIN list :
            RowShows(list[i], p, w) /\ \A j \in DOMAIN list : list[j].id = p => j = i
      BY <1>4 DEF Shows
    <2>2. RowShows(r[i], p, u)
      <3>1. CASE id = p
        <4>1. list[i].id = p /\ \A j \in 1..(i - 1) : list[j].id # p
          BY <1>1, <2>1 DEF RowShows
        <4>2. i \in FirstRow(list, id)
          BY <3>1, <4>1 DEF FirstRow
        <4>3. Alike(g[i], u)
          BY <2>1, <3>1 DEF RowShows, Become
        <4> QED BY <1>2, <3>1, <4>1, <4>2, <4>3 DEF RowShows
      <3>2. CASE id # p
        <4>1. i \notin FirstRow(list, id)
          BY <2>1, <3>2 DEF FirstRow, RowShows
        <4> QED BY <1>2, <2>1, <3>2, <4>1
      <3> QED BY <3>1, <3>2
    <2>3. \A j \in DOMAIN r : r[j].id = p => j = i
      BY <1>1, <1>2, <2>1
    <2> QED BY <1>1, <1>4, <2>2, <2>3 DEF Shows
  <1> QED BY <1>3, <1>4

LEMMA EditedShows ==
  ASSUME NEW list \in Seq(Row), NEW id, NEW p, NEW w \in View, Shows(list, p, w)
  PROVE  Shows(InList(list, id, Edited), p, IF id = p THEN Reworded(w) ELSE w)
  <1> DEFINE g == [i \in DOMAIN list |-> Edited(list[i].message)]
             r == InList(list, id, Edited)
             u == IF id = p THEN Reworded(w) ELSE w
  <1>1. u \in View /\ u.here = w.here /\ u.pinned = w.pinned /\ (id # p => u = w)
        /\ (id = p => u.text = "edited")
    BY DEF View, Reworded
  <1>2. Rewritten(r, list, id, g)
    BY DEF InList, FirstRow, Rewritten
  <1>3. ASSUME NEW i \in DOMAIN list, id = p, Alike(list[i].message, w)
        PROVE  Alike(g[i], u)
    <2>1. list[i].message \in Messages
      BY RowMessages
    <2>2. Edited(list[i].message).author = list[i].message.author
          /\ Edited(list[i].message).text = "edited"
          /\ Edited(list[i].message).pinned = list[i].message.pinned
      BY <2>1 DEF Messages, Edited
    <2> QED BY <1>1, <1>3, <2>2 DEF Alike
  <1> HIDE DEF g, r, u
  <1>4. id = p => Become(list, w, g, u)
    BY <1>3 DEF Become
  <1>5. Shows(r, p, u)
    BY <1>1, <1>2, <1>4, ListChanged
  <1> QED BY <1>5 DEF r, u

LEMMA PinnedShows ==
  ASSUME NEW list \in Seq(Row), NEW id, NEW p, NEW w \in View, Shows(list, p, w)
  PROVE  Shows(InList(list, id, PinToggled), p, IF id = p THEN Turned(w) ELSE w)
  <1> DEFINE g == [i \in DOMAIN list |-> PinToggled(list[i].message)]
             r == InList(list, id, PinToggled)
             u == IF id = p THEN Turned(w) ELSE w
  <1>1. u \in View /\ u.here = w.here /\ u.text = w.text /\ (id # p => u = w)
        /\ (id = p => u.pinned = ~w.pinned)
    BY DEF View, Turned
  <1>2. Rewritten(r, list, id, g)
    BY DEF InList, FirstRow, Rewritten
  <1>3. ASSUME NEW i \in DOMAIN list, id = p, Alike(list[i].message, w)
        PROVE  Alike(g[i], u)
    <2>1. list[i].message \in Messages
      BY RowMessages
    <2>2. PinToggled(list[i].message).author = list[i].message.author
          /\ PinToggled(list[i].message).text = list[i].message.text
          /\ PinToggled(list[i].message).pinned = ~list[i].message.pinned
      BY <2>1 DEF Messages, PinToggled
    <2> QED BY <1>1, <1>3, <2>2 DEF Alike
  <1> HIDE DEF g, r, u
  <1>4. id = p => Become(list, w, g, u)
    BY <1>3 DEF Become
  <1>5. Shows(r, p, u)
    BY <1>1, <1>2, <1>4, ListChanged
  <1> QED BY <1>5 DEF r, u

LEMMA DeliveredShows ==
  ASSUME NEW list \in Seq(Row), NEW id, NEW p, NEW w \in View, Shows(list, p, w)
  PROVE  Shows(InList(list, id, Delivered), p, w)
  <1> DEFINE g == [i \in DOMAIN list |-> Delivered(list[i].message)]
             r == InList(list, id, Delivered)
  <1>2. Rewritten(r, list, id, g)
    BY DEF InList, FirstRow, Rewritten
  <1>3. ASSUME NEW i \in DOMAIN list, Alike(list[i].message, w)
        PROVE  Alike(g[i], w)
    <2>1. list[i].message \in Messages
      BY RowMessages
    <2> QED BY <1>3, <2>1 DEF Alike, Messages, Delivered
  <1> HIDE DEF g, r
  <1>4. Become(list, w, g, w)
    BY <1>3 DEF Become
  <1>5. Shows(r, p, w)
    BY <1>2, <1>4, ListChanged
  <1> QED BY <1>5 DEF r

LEMMA ReactedShows ==
  ASSUME NEW list \in Seq(Row), NEW id, NEW p, NEW w \in View, Shows(list, p, w), NEW emoji \in Emojis
  PROVE  /\ Shows(InList(list, id, LAMBDA m : PeerReacted(m, emoji)), p, w)
         /\ Shows(InList(list, id, LAMBDA m : Toggled(m, emoji)), p, w)
  <1> DEFINE g == [i \in DOMAIN list |-> PeerReacted(list[i].message, emoji)]
             h == [i \in DOMAIN list |-> Toggled(list[i].message, emoji)]
             r == InList(list, id, LAMBDA m : PeerReacted(m, emoji))
             s == InList(list, id, LAMBDA m : Toggled(m, emoji))
  <1>1. Rewritten(r, list, id, g)
    BY DEF InList, FirstRow, Rewritten
  <1>2. Rewritten(s, list, id, h)
    BY DEF InList, FirstRow, Rewritten
  <1>3. ASSUME NEW i \in DOMAIN list, Alike(list[i].message, w)
        PROVE  Alike(g[i], w) /\ Alike(h[i], w)
    <2>1. list[i].message \in Messages
      BY RowMessages
    <2>2. Alike(g[i], w)
      BY <1>3, <2>1 DEF Alike, Messages, PeerReacted
    <2>3. Alike(h[i], w)
      BY <1>3, <2>1 DEF Alike, Messages, Toggled
    <2> QED BY <2>2, <2>3
  <1> HIDE DEF g, h, r, s
  <1>4. Become(list, w, g, w) /\ Become(list, w, h, w)
    BY <1>3 DEF Become
  <1>5. Shows(r, p, w) /\ Shows(s, p, w)
    BY <1>1, <1>2, <1>4, ListChanged
  <1> QED BY <1>5 DEF r, s

LEMMA AppendedShows ==
  ASSUME NEW list \in Seq(Row), NEW row \in Row, NEW p, NEW w \in View, Shows(list, p, w),
         NEW u \in View, row.id = p => ~w.here /\ u.here /\ RowShows(row, p, u),
         row.id # p => u = w
  PROVE  Shows(Append(list, row), p, u)
  <1> DEFINE a == Append(list, row)
             n == Len(list)
  <1>1. n \in Nat /\ DOMAIN list = 1..n
    BY LenProperties
  <1>2. /\ DOMAIN a = 1..(n + 1)
        /\ \A i \in 1..n : a[i] = list[i]
        /\ a[n + 1] = row
    BY AppendProperties, LenProperties
  <1> HIDE DEF a, n
  <1>3. n + 1 \in DOMAIN a /\ 1..n \subseteq DOMAIN a
        /\ \A j \in DOMAIN a : j \in 1..n \/ j = n + 1
    BY <1>1, <1>2
  <1>4. CASE row.id = p
    <2>1. \A j \in 1..n : list[j].id # p
      BY <1>1, <1>4 DEF Shows
    <2>2. \A j \in DOMAIN a : a[j].id = p => j = n + 1
      BY <1>2, <1>3, <2>1
    <2> QED BY <1>2, <1>3, <1>4, <2>2 DEF Shows, a
  <1>5. CASE row.id # p /\ w.here
    <2>1. PICK i \in 1..n : RowShows(list[i], p, w) /\ \A j \in 1..n : list[j].id = p => j = i
      BY <1>1, <1>5 DEF Shows
    <2>2. RowShows(a[i], p, w) /\ \A j \in DOMAIN a : a[j].id = p => j = i
      BY <1>2, <1>3, <1>5, <2>1
    <2> QED BY <1>3, <1>5, <2>2 DEF Shows, a
  <1>6. CASE row.id # p /\ ~w.here
    <2>1. \A j \in DOMAIN a : a[j].id # p
      BY <1>1, <1>2, <1>3, <1>6 DEF Shows
    <2> QED BY <1>6, <2>1 DEF Shows, a
  <1> QED BY <1>4, <1>5, <1>6

LEMMA WithoutShows ==
  ASSUME NEW list \in Seq(Row), NEW ids, NEW p, NEW w \in View, Shows(list, p, w)
  PROVE  Shows(Without(list, ids), p, IF p \in ids THEN Vanished(w) ELSE w)
  <1> DEFINE S == {entry \in ToSet(list) : entry.id \notin ids}
             q == Picked(list, S)
             n == Len(list)
             O == {row \in Row : row.id = p}
  <1>1. n \in Nat /\ DOMAIN list = 1..n /\ \A i \in 1..n : list[i] \in Row
    BY LenProperties, ElementOfSeq
  <1>2. \A i \in 1..n : list[i] \in S <=> list[i].id \notin ids
    BY <1>1 DEF ToSet
  <1>3. \A e \in S : e.id \notin ids
    OBVIOUS
  <1> HIDE DEF S
  <1>4. /\ q \in Seq(Row)
        /\ \A i \in 1..Len(q) : q[i] \in S /\ \E j \in 1..n : list[j] = q[i]
        /\ \A j \in 1..n : list[j] \in S => \E i \in 1..Len(q) : q[i] = list[j]
    BY PickedProperties
  <1>5. ASSUME \A i, j \in 1..n : list[i].id = p /\ list[j].id = p => i = j
        PROVE  \A i, j \in 1..Len(q) : q[i].id = p /\ q[j].id = p => i = j
    <2>1. \A i, j \in 1..n : list[i] \in O /\ list[j] \in O => i = j
      BY <1>5
    <2>2. \A i, j \in 1..Len(q) : q[i] \in O /\ q[j] \in O => i = j
      <3> HIDE DEF O
      <3> QED BY <2>1, PickedOnce
    <2>3. \A i \in 1..Len(q) : q[i] \in Row
      BY <1>4, ElementOfSeq
    <2> QED BY <2>2, <2>3
  <1>6. Without(list, ids) = q
    BY DEF Without, S
  <1> HIDE DEF q, n, O
  <1>7. DOMAIN q = 1..Len(q)
    BY <1>4, LenProperties
  <1>8. CASE p \in ids
    <2>1. \A i \in DOMAIN q : q[i].id # p
      BY <1>3, <1>4, <1>7, <1>8
    <2>2. ~Vanished(w).here
      BY DEF View, Vanished
    <2> QED BY <1>6, <1>8, <2>1, <2>2 DEF Shows
  <1>9. CASE p \notin ids /\ w.here
    <2>1. PICK i \in 1..n : RowShows(list[i], p, w) /\ \A j \in 1..n : list[j].id = p => j = i
      BY <1>1, <1>9 DEF Shows
    <2>2. PICK k \in 1..Len(q) : q[k] = list[i]
      BY <1>2, <1>4, <1>9, <2>1 DEF RowShows
    <2>3. \A k1, k2 \in 1..Len(q) : q[k1].id = p /\ q[k2].id = p => k1 = k2
      BY <1>5, <2>1
    <2>4. RowShows(q[k], p, w) /\ \A j \in DOMAIN q : q[j].id = p => j = k
      BY <1>7, <2>1, <2>2, <2>3 DEF RowShows
    <2> QED BY <1>6, <1>7, <1>9, <2>4 DEF Shows
  <1>10. CASE p \notin ids /\ ~w.here
    <2>1. \A j \in 1..n : list[j].id # p
      BY <1>1, <1>10 DEF Shows
    <2>2. \A i \in DOMAIN q : q[i].id # p
      BY <1>4, <1>7, <2>1
    <2> QED BY <1>6, <1>10, <2>2 DEF Shows
  <1> QED BY <1>8, <1>9, <1>10

LEMMA ViewAfterTyped ==
  ASSUME NEW w \in View, NEW e, NEW p
  PROVE  /\ ViewAfter(w, e, p) \in View
         /\ e.id # p => ViewAfter(w, e, p) = w
         /\ e.id = p =>
              /\ e.type = "received" =>
                   ViewAfter(w, e, p) = [here |-> TRUE, text |-> "sent", pinned |-> FALSE]
              /\ e.type = "edited" => ViewAfter(w, e, p) = Reworded(w)
              /\ e.type = "deleted" => ViewAfter(w, e, p) = Vanished(w)
              /\ e.type \notin {"received", "edited", "deleted"} => ViewAfter(w, e, p) = w
  BY DEF View, ViewAfter, Reworded, Vanished

(* An event changes what is shown of a message as the views say. *)
LEMMA HandledShows ==
  ASSUME NEW list \in Seq(Row), NEW e \in WindowEvent, NEW p \in PeerIds, NEW w \in View,
         Shows(list, p, w), Proper(w, e, p)
  PROVE  Shows(EventHandled(list, e), p, ViewAfter(w, e, p))
  <1> DEFINE u == ViewAfter(w, e, p)
             r == EventHandled(list, e)
  <1>1. /\ u \in View /\ (e.id # p => u = w)
        /\ e.id = p =>
             /\ e.type = "received" => u = [here |-> TRUE, text |-> "sent", pinned |-> FALSE]
             /\ e.type = "edited" => u = Reworded(w)
             /\ e.type = "deleted" => u = Vanished(w)
             /\ e.type \notin {"received", "edited", "deleted"} => u = w
    BY ViewAfterTyped
  <1>2. e.type \in {"received", "delivered", "edited", "deleted", "reaction"}
    BY DEF WindowEvent, Received
  <1> HIDE DEF u
  <1>3. CASE e.type = "received"
    <2> DEFINE row == ShownEntry(e.id, e.message)
    <2>1. r = Append(list, row)
      BY <1>3 DEF EventHandled
    <2>2. e \in Received
      BY <1>3 DEF WindowEvent
    <2>3. row \in Row /\ row.id = e.id /\ row.message = e.message
      BY <2>2 DEF ShownEntry, Received, Row, MirrorIds
    <2> HIDE DEF row, r
    <2>4. e.id = p => ~w.here /\ u.here /\ RowShows(row, p, u)
      <3> SUFFICES ASSUME e.id = p PROVE ~w.here /\ u.here /\ RowShows(row, p, u)
        OBVIOUS
      <3>1. ~w.here /\ row.message = MirrorMessage("peer", TRUE)
        BY <1>3, <2>3 DEF Proper
      <3>2. u = [here |-> TRUE, text |-> "sent", pinned |-> FALSE]
        BY <1>1, <1>3
      <3> QED BY <2>3, <3>1, <3>2 DEF RowShows, Alike, MirrorMessage
    <2>5. Shows(Append(list, row), p, u)
      BY <1>1, <2>3, <2>4, AppendedShows
    <2> QED BY <2>1, <2>5 DEF r, u
  <1>4. CASE e.type = "delivered"
    <2>1. r = InList(list, e.id, Delivered) /\ u = w
      BY <1>1, <1>4 DEF EventHandled
    <2>2. Shows(InList(list, e.id, Delivered), p, w)
      BY DeliveredShows
    <2> QED BY <2>1, <2>2 DEF u
  <1>5. CASE e.type = "edited"
    <2>1. r = InList(list, e.id, Edited) /\ u = (IF e.id = p THEN Reworded(w) ELSE w)
      BY <1>1, <1>5 DEF EventHandled
    <2>2. Shows(InList(list, e.id, Edited), p, IF e.id = p THEN Reworded(w) ELSE w)
      BY EditedShows
    <2> HIDE DEF r
    <2>3. Shows(r, p, u)
      BY <2>1, <2>2, Zenon
    <2> QED BY <2>3 DEF r, u
  <1>6. CASE e.type = "deleted"
    <2>1. r = Without(list, {e.id}) /\ u = (IF p \in {e.id} THEN Vanished(w) ELSE w)
      BY <1>1, <1>6 DEF EventHandled
    <2>2. Shows(Without(list, {e.id}), p, IF p \in {e.id} THEN Vanished(w) ELSE w)
      BY WithoutShows
    <2> HIDE DEF r
    <2>3. Shows(r, p, u)
      BY <2>1, <2>2, Zenon
    <2> QED BY <2>3 DEF r, u
  <1>7. CASE e.type = "reaction"
    <2>1. r = InList(list, e.id, LAMBDA m : PeerReacted(m, e.emoji)) /\ u = w
      BY <1>1, <1>7 DEF EventHandled
    <2>2. e.emoji \in Emojis
      BY <1>7 DEF WindowEvent, Received
    <2>3. Shows(InList(list, e.id, LAMBDA m : PeerReacted(m, e.emoji)), p, w)
      BY <2>2, ReactedShows
    <2> QED BY <2>1, <2>3 DEF u
  <1> QED BY <1>2, <1>3, <1>4, <1>5, <1>6, <1>7 DEF u

(* After the frame, the window shows what the course of the events says.   *)
LEMMA CourseEnds ==
  ASSUME NEW list \in Seq(Row), NEW q \in Seq(WindowEvent), NEW p \in PeerIds,
         NEW v, Course(v, list, q, p)
  PROVE  Shows(FoldLeft(EventHandled, list, q), p, v[Len(q)])
  <1>1. PICK c : /\ c[0] = list
                 /\ \A k \in 1..Len(q) : c[k] = EventHandled(c[k-1], q[k])
                 /\ FoldLeft(EventHandled, list, q) = c[Len(q)]
    BY EventsUnfold
  <1> DEFINE n == Len(q)
             Good(k) == c[k] \in Seq(Row) /\ Shows(c[k], p, v[k])
             T == {k \in 0..n : Good(k)}
  <1>2. n \in Nat /\ \A k \in 1..n : q[k] \in WindowEvent
    BY LenProperties, ElementOfSeq
  <1>3. 0 \in T
    BY <1>1, <1>2 DEF Course
  <1>4. ASSUME NEW k \in 0..(n-1), k \in T PROVE k + 1 \in T
    <2>1. k + 1 \in 0..n /\ k + 1 \in 1..n /\ (k + 1) - 1 = k /\ k \in 0..n
      BY <1>2
    <2>2. c[k+1] = EventHandled(c[k], q[k+1]) /\ q[k+1] \in WindowEvent
      BY <1>1, <1>2, <2>1
    <2>3. v[k+1] = ViewAfter(v[k], q[k+1], p) /\ Proper(v[k], q[k+1], p) /\ v[k] \in View
      BY <2>1 DEF Course
    <2>4. c[k] \in Seq(Row) /\ Shows(c[k], p, v[k])
      BY <1>4
    <2>5. c[k+1] \in Seq(Row)
      BY <2>2, <2>4, EventHandledProperties
    <2>6. Shows(c[k+1], p, v[k+1])
      BY <2>2, <2>3, <2>4, HandledShows
    <2> QED BY <2>1, <2>5, <2>6
  <1> HIDE DEF T
  <1>5. 0..n \subseteq T
    BY <1>2, <1>3, <1>4, ReachesAll
  <1>6. n \in T
    BY <1>2, <1>5
  <1> QED BY <1>1, <1>6 DEF T

(* Nothing waits: what is shown is what there is. *)
LEMMA CourseEmpty ==
  ASSUME NEW list, NEW p, NEW w \in View, Shows(list, p, w)
  PROVE  \E v : Course(v, list, <<>>, p) /\ v[Len(<<>>)] = w
  <1> DEFINE v == [k \in 0..0 |-> w]
  <1>1. Len(<<>>) = 0
    OBVIOUS
  <1>2. v \in [0..0 -> View] /\ v[0] = w
    OBVIOUS
  <1> HIDE DEF v
  <1>3. Course(v, list, <<>>, p) /\ v[Len(<<>>)] = w
    BY <1>1, <1>2 DEF Course
  <1> QED BY <1>3

(* One event more. *)
LEMMA CourseLonger ==
  ASSUME NEW list, NEW q \in Seq(WindowEvent), NEW e \in WindowEvent, NEW p,
         NEW v, Course(v, list, q, p), Proper(v[Len(q)], e, p)
  PROVE  \E u : /\ Course(u, list, Append(q, e), p)
                /\ u[Len(Append(q, e))] = ViewAfter(v[Len(q)], e, p)
  <1> DEFINE a == Append(q, e)
             n == Len(q)
             u == [k \in 0..(n + 1) |-> IF k = n + 1 THEN ViewAfter(v[n], e, p) ELSE v[k]]
  <1>1. n \in Nat /\ \A k \in 1..n : k \in 0..n /\ k - 1 \in 0..n
    BY LenProperties
  <1>2. Len(a) = n + 1 /\ (\A i \in 1..n : a[i] = q[i]) /\ a[n + 1] = e
    BY AppendProperties
  <1>3. /\ v \in [0..n -> View] /\ Shows(list, p, v[0]) /\ Proper(v[n], e, p)
        /\ \A k \in 1..n : v[k] = ViewAfter(v[k-1], q[k], p) /\ Proper(v[k-1], q[k], p)
    BY DEF Course
  <1> HIDE DEF a, n
  <1>4. u \in [0..(n + 1) -> View]
    <2>1. ViewAfter(v[n], e, p) \in View
      BY <1>1, <1>3, ViewAfterTyped
    <2>2. \A k \in 0..(n+1) : k # n + 1 => k \in 0..n
      BY <1>1
    <2> QED BY <1>3, <2>1, <2>2
  <1>5. (\A k \in 0..n : u[k] = v[k]) /\ u[n + 1] = ViewAfter(v[n], e, p)
    BY <1>1
  <1> HIDE DEF u
  <1>6. ASSUME NEW k \in 1..(n + 1)
        PROVE  u[k] = ViewAfter(u[k-1], a[k], p) /\ Proper(u[k-1], a[k], p)
    <2>1. CASE k \in 1..n
      BY <1>1, <1>2, <1>3, <1>5, <2>1
    <2>2. CASE k = n + 1
      <3>1. k - 1 = n /\ n \in 0..n
        BY <1>1, <2>2
      <3> QED BY <1>2, <1>3, <1>5, <2>2, <3>1
    <2> QED BY <1>1, <2>1, <2>2
  <1>7. Shows(list, p, u[0])
    BY <1>1, <1>3, <1>5
  <1>8. Course(u, list, a, p)
    BY <1>2, <1>4, <1>6, <1>7 DEF Course
  <1> QED BY <1>2, <1>5, <1>8 DEF a, n

(* A change of a message commutes with its pinning and with its going.     *)
LEMMA ViewsCommute ==
  ASSUME NEW w \in View, NEW e, NEW p, ~(e.type = "received" /\ e.id = p)
  PROVE  /\ ViewAfter(Turned(w), e, p) = Turned(ViewAfter(w, e, p))
         /\ ViewAfter(Vanished(w), e, p) = Vanished(ViewAfter(w, e, p))
  <1> DEFINE x == Turned(w)
             y == Vanished(w)
  <1>1. x \in View /\ y \in View
    BY DEF View, Turned, Vanished, Reworded
  <1>2. Reworded(x) = Turned(Reworded(w))
    BY DEF View, Turned, Vanished, Reworded
  <1>3. Reworded(y) = Vanished(Reworded(w))
    BY DEF View, Turned, Vanished, Reworded
  <1>4. Vanished(x) = Turned(Vanished(w))
    BY DEF View, Turned, Vanished, Reworded
  <1>5. Vanished(y) = Vanished(Vanished(w))
    BY DEF View, Turned, Vanished, Reworded
  <1>6. x = Turned(w) /\ y = Vanished(w)
    OBVIOUS
  <1> HIDE DEF x, y
  <1>7. ASSUME e.id = p, e.type = "edited"
        PROVE  \A u \in View : ViewAfter(u, e, p) = Reworded(u)
    BY <1>7, ViewAfterTyped
  <1>8. ASSUME e.id = p, e.type = "deleted"
        PROVE  \A u \in View : ViewAfter(u, e, p) = Vanished(u)
    BY <1>8, ViewAfterTyped
  <1>9. ASSUME e.id # p \/ e.type \notin {"received", "edited", "deleted"}
        PROVE  \A u \in View : ViewAfter(u, e, p) = u
    BY <1>9, ViewAfterTyped
  <1>10. /\ ViewAfter(x, e, p) = Turned(ViewAfter(w, e, p))
         /\ ViewAfter(y, e, p) = Vanished(ViewAfter(w, e, p))
    <2>1. CASE e.id = p /\ e.type = "edited"
      BY <1>1, <1>2, <1>3, <1>7, <2>1, Zenon
    <2>2. CASE e.id = p /\ e.type = "deleted"
      BY <1>1, <1>4, <1>5, <1>8, <2>2, Zenon
    <2>3. CASE e.id # p \/ e.type \notin {"received", "edited", "deleted"}
      BY <1>1, <1>6, <1>9, <2>3, Zenon
    <2> QED BY <2>1, <2>2, <2>3
  <1> QED BY <1>6, <1>10, Zenon

(* A command changes what is shown of p: its pin is toggled, or it goes.   *)
LEMMA CoursePinned ==
  ASSUME NEW list, NEW q \in Seq(WindowEvent), NEW p, NEW v, Course(v, list, q, p),
         p \notin Announced(q), NEW r, Shows(r, p, Turned(v[0]))
  PROVE  \E u : Course(u, r, q, p) /\ u[Len(q)] = Turned(v[Len(q)])
  <1> DEFINE n == Len(q)
             u == [k \in 0..n |-> Turned(v[k])]
  <1>1. n \in Nat /\ DOMAIN q = 1..n /\ \A k \in 1..n : k \in 0..n /\ k - 1 \in 0..n
    BY LenProperties
  <1>2. /\ v \in [0..n -> View]
        /\ \A k \in 1..n : v[k] = ViewAfter(v[k-1], q[k], p)
    BY DEF Course
  <1>3. \A k \in 1..n : q[k].type = "received" => q[k].id # p
    BY <1>1 DEF Announced
  <1> HIDE DEF n
  <1>4. \A k \in 0..n : u[k] = Turned(v[k])
    BY <1>1
  <1>5. u \in [0..n -> View]
    BY <1>2 DEF View, Turned, Vanished
  <1>6. ASSUME NEW k \in 1..n
        PROVE  u[k] = ViewAfter(u[k-1], q[k], p) /\ Proper(u[k-1], q[k], p)
    <2>1. /\ u[k] = Turned(v[k]) /\ u[k-1] = Turned(v[k-1])
          /\ v[k-1] \in View
      BY <1>1, <1>2, <1>4
    <2>2. v[k] = ViewAfter(v[k-1], q[k], p) /\ ~(q[k].type = "received" /\ q[k].id = p)
      BY <1>2, <1>3
    <2> HIDE DEF u
    <2>3. ASSUME NEW w \in View, w = v[k-1]
          PROVE  u[k] = ViewAfter(u[k-1], q[k], p)
      <3>1. ViewAfter(Turned(w), q[k], p) = Turned(ViewAfter(w, q[k], p))
        BY <2>2, ViewsCommute
      <3> QED BY <2>1, <2>2, <2>3, <3>1, Zenon
    <2> QED BY <2>1, <2>2, <2>3 DEF Proper
  <1>7. 0 \in 0..n /\ n \in 0..n
    BY <1>1
  <1>8. u[0] = Turned(v[0]) /\ u[n] = Turned(v[n])
    BY <1>7
  <1> HIDE DEF u
  <1>9. Course(u, r, q, p)
    BY <1>5, <1>6, <1>8 DEF Course, n
  <1> QED BY <1>8, <1>9 DEF n

LEMMA CourseGone ==
  ASSUME NEW list, NEW q \in Seq(WindowEvent), NEW p, NEW v, Course(v, list, q, p),
         p \notin Announced(q), NEW r, Shows(r, p, Vanished(v[0]))
  PROVE  \E u : Course(u, r, q, p) /\ u[Len(q)] = Vanished(v[Len(q)])
  <1> DEFINE n == Len(q)
             u == [k \in 0..n |-> Vanished(v[k])]
  <1>1. n \in Nat /\ DOMAIN q = 1..n /\ \A k \in 1..n : k \in 0..n /\ k - 1 \in 0..n
    BY LenProperties
  <1>2. /\ v \in [0..n -> View]
        /\ \A k \in 1..n : v[k] = ViewAfter(v[k-1], q[k], p)
    BY DEF Course
  <1>3. \A k \in 1..n : q[k].type = "received" => q[k].id # p
    BY <1>1 DEF Announced
  <1> HIDE DEF n
  <1>4. \A k \in 0..n : u[k] = Vanished(v[k])
    BY <1>1
  <1>5. u \in [0..n -> View]
    BY <1>2 DEF View, Turned, Vanished
  <1>6. ASSUME NEW k \in 1..n
        PROVE  u[k] = ViewAfter(u[k-1], q[k], p) /\ Proper(u[k-1], q[k], p)
    <2>1. /\ u[k] = Vanished(v[k]) /\ u[k-1] = Vanished(v[k-1])
          /\ v[k-1] \in View
      BY <1>1, <1>2, <1>4
    <2>2. v[k] = ViewAfter(v[k-1], q[k], p) /\ ~(q[k].type = "received" /\ q[k].id = p)
      BY <1>2, <1>3
    <2> HIDE DEF u
    <2>3. ASSUME NEW w \in View, w = v[k-1]
          PROVE  u[k] = ViewAfter(u[k-1], q[k], p)
      <3>1. ViewAfter(Vanished(w), q[k], p) = Vanished(ViewAfter(w, q[k], p))
        BY <2>2, ViewsCommute
      <3> QED BY <2>1, <2>2, <2>3, <3>1, Zenon
    <2> QED BY <2>1, <2>2, <2>3 DEF Proper
  <1>7. 0 \in 0..n /\ n \in 0..n
    BY <1>1
  <1>8. u[0] = Vanished(v[0]) /\ u[n] = Vanished(v[n])
    BY <1>7
  <1> HIDE DEF u
  <1>9. Course(u, r, q, p)
    BY <1>5, <1>6, <1>8 DEF Course, n
  <1> QED BY <1>8, <1>9 DEF n

LEMMA CourseSame ==
  ASSUME NEW list, NEW q, NEW p, NEW v, Course(v, list, q, p), NEW r, Shows(r, p, v[0])
  PROVE  Course(v, r, q, p)
  BY DEF Course

(* The tasks that will still turn the pin of p in the database.            *)
Pins(p) == {t \in mirrorTasks : t.do = "pin" /\ t.id = p}
Even(S) == Cardinality(S) % 2 = 0

(* What the window will show of p, once it has handled the events, and     *)
(* what the database has: the same, but for what tasks have yet to do and  *)
(* what is yet to be announced.                                            *)
Agrees(p, w) ==
  /\ p \notin DOMAIN store => ~w.here /\ unannounced # p
  /\ p \in DOMAIN store /\ p \in hidden =>
       /\ ~w.here
       /\ \E t \in mirrorTasks : t.do = "clear" \/ (t.do = "delete" /\ t.id = p)
  /\ p \in DOMAIN store /\ p \notin hidden /\ p = unannounced =>
       /\ ~w.here
       /\ store[p].text = "sent" /\ store[p].pinned = FALSE
       /\ Pins(p) = {}
  /\ p \in DOMAIN store /\ p \notin hidden /\ p # unannounced =>
       /\ w.here
       /\ w.text = store[p].text
       /\ (w.pinned = store[p].pinned) <=> Even(Pins(p))
Foreseen(p) == \E v : Course(v, shown, events, p) /\ Agrees(p, v[Len(events)])

TasksKnown ==
  /\ IsFiniteSet(mirrorTasks)
  /\ window = "closed" => mirrorTasks = {}
  /\ \A t \in mirrorTasks : t.do = "pin" => t.id \in WindowIds \cup Had /\ t.step < commands
TasksMirrored ==
  window # "closed" /\ ~raced =>
    \A t \in mirrorTasks :
      /\ t.do = "delete" => t.id \in hidden
      /\ t.do = "clear" => t.seen \subseteq hidden
      /\ t.do = "edit" => t.id \notin PeerIds
AllForeseen == window # "closed" /\ ~raced => \A p \in PeerIds : Foreseen(p)
ReflectInv == TasksKnown /\ TasksMirrored /\ AllForeseen

(* The same messages of the peer with the same texts and pins. *)
SameFor(p) ==
  /\ p \in DOMAIN store' <=> p \in DOMAIN store
  /\ p \in DOMAIN store => store'[p].text = store[p].text /\ store'[p].pinned = store[p].pinned

LEMMA CourseViews ==
  ASSUME NEW v, NEW list, NEW q \in Seq(WindowEvent), NEW p, Course(v, list, q, p)
  PROVE  v[0] \in View /\ v[Len(q)] \in View /\ Shows(list, p, v[0])
  <1>1. Len(q) \in Nat
    BY LenProperties
  <1> QED BY <1>1 DEF Course

LEMMA AgreesKept ==
  ASSUME NEW p, NEW w, Agrees(p, w), SameFor(p), Pins(p)' = Pins(p), hidden' = hidden,
         unannounced' = unannounced,
         \A t \in mirrorTasks : t.do = "clear" \/ (t.do = "delete" /\ t.id = p) => t \in mirrorTasks'
  PROVE  Agrees(p, w)'
  BY DEF Agrees, SameFor

LEMMA EvenMore ==
  ASSUME NEW S, IsFiniteSet(S), NEW x, x \notin S
  PROVE  Even(S \cup {x}) <=> ~Even(S)
  <1>1. Cardinality(S) \in Nat /\ Cardinality(S \cup {x}) = Cardinality(S) + 1
    BY FS_AddElement, FS_CardinalityType
  <1> QED BY <1>1 DEF Even

LEMMA EvenLess ==
  ASSUME NEW S, IsFiniteSet(S), NEW x \in S
  PROVE  Even(S \ {x}) <=> ~Even(S)
  <1> DEFINE R == S \ {x}
  <1>1. IsFiniteSet(R) /\ x \notin R /\ S = R \cup {x}
    BY FS_RemoveElement
  <1> HIDE DEF R
  <1>2. Even(R \cup {x}) <=> ~Even(R)
    BY <1>1, EvenMore
  <1> QED BY <1>1, <1>2 DEF R

-----------------------------------------------------------------------------
(* The tasks. *)
LEMMA TaskReflects ==
  ASSUME ReflectInv, NEW task \in mirrorTasks, Ran(task), raced => raced', Had \subseteq Had',
         ASSUME ~raced', window # "closed", NEW p \in PeerIds, NEW w \in View, Agrees(p, w)
         PROVE  Agrees(p, w)',
         events \in Seq(WindowEvent)
  PROVE  ReflectInv'
  <1> USE DEF Ran
  <1>1. TasksKnown'
    <2>1. IsFiniteSet(mirrorTasks')
      BY FS_RemoveElement DEF ReflectInv, TasksKnown
    <2> QED BY <2>1 DEF ReflectInv, TasksKnown
  <1>2. TasksMirrored'
    BY DEF ReflectInv, TasksMirrored
  <1>3. AllForeseen'
    <2> SUFFICES ASSUME window # "closed", ~raced', NEW p \in PeerIds PROVE Foreseen(p)'
      BY DEF AllForeseen
    <2>1. PICK v : Course(v, shown, events, p) /\ Agrees(p, v[Len(events)])
      BY DEF ReflectInv, AllForeseen, Foreseen
    <2>2. v[Len(events)] \in View
      BY <2>1, CourseViews
    <2>3. Agrees(p, v[Len(events)])'
      BY <2>1, <2>2
    <2> QED BY <2>1, <2>3 DEF Foreseen
  <1> QED BY <1>1, <1>2, <1>3 DEF ReflectInv

LEMMA RunSendReflects ==
  ASSUME MirrorInv, ReflectInv, NEW task \in mirrorTasks, NEW dropped \in BOOLEAN, RunSend(task, dropped)
  PROVE  ReflectInv'
  <1>1. Ran(task) /\ task.do = "send" /\ raced' = raced /\ events \in Seq(WindowEvent)
    BY DEF RunSend, MirrorInv, MirrorTyped
  <1>2. task.id \in StoreIds
    BY <1>1 DEF MirrorInv, KnownToDatabase
  <1>3. ASSUME NEW p \in PeerIds PROVE SameFor(p)
    <2>1. p # task.id
      BY <1>2, MirrorAssumption
    <2> QED BY <2>1 DEF RunSend, SameFor
  <1>4. Had \subseteq Had'
    BY DEF RunSend, Had
  <1>5. ASSUME NEW p \in PeerIds, NEW w \in View, Agrees(p, w) PROVE Agrees(p, w)'
    <2>1. Pins(p)' = Pins(p) /\ hidden' = hidden /\ unannounced' = unannounced
      BY <1>1 DEF Ran, Pins
    <2>2. \A t \in mirrorTasks : t.do \in {"clear", "delete"} => t \in mirrorTasks'
      BY <1>1 DEF Ran
    <2> QED BY <1>3, <1>5, <2>1, <2>2, AgreesKept
  <1> QED BY <1>1, <1>4, <1>5, TaskReflects

LEMMA RunChangeReflects ==
  ASSUME MirrorInv, ReflectInv, NEW task \in mirrorTasks, RunChange(task)
  PROVE  ReflectInv'
  <1>1. /\ Ran(task) /\ task.do \in {"edit", "react", "pin"} /\ raced' = raced
        /\ events \in Seq(WindowEvent) /\ deleted' = deleted /\ StoreTyped(store)
    BY DEF RunChange, MirrorInv, MirrorTyped
  <1>2. /\ task.do = "edit" => store' = InStore(task.id, Edited)
        /\ task.do = "react" => store' = InStore(task.id, LAMBDA m : Reacted(m, "me", task.emoji))
        /\ task.do = "pin" => store' = InStore(task.id, PinToggled)
    BY DEF RunChange
  <1>3. DOMAIN store' = DOMAIN store
    BY <1>1, <1>2 DEF InStore, Stored
  <1>4. Had' = Had
    BY <1>1, <1>3 DEF Had
  <1>5. ASSUME NEW p \in DOMAIN store PROVE store[p] \in Messages
    BY <1>1 DEF StoreTyped, StoredMessages
  <1>6. ASSUME NEW p \in PeerIds, task.do = "edit" => task.id # p, task.do = "pin" => task.id # p
        PROVE  SameFor(p)
    <2>1. CASE task.do = "react"
      <3>1. p \in DOMAIN store =>
              store'[p] = store[p] \/ store'[p] = Reacted(store[p], "me", task.emoji)
        BY <1>2, <2>1 DEF InStore, Stored
      <3>2. p \in DOMAIN store =>
              /\ Reacted(store[p], "me", task.emoji).text = store[p].text
              /\ Reacted(store[p], "me", task.emoji).pinned = store[p].pinned
        BY <1>5 DEF Messages, Reacted
      <3> QED BY <1>3, <3>1, <3>2 DEF SameFor
    <2>2. CASE task.do \in {"edit", "pin"}
      <3>1. p \in DOMAIN store => store'[p] = store[p]
        BY <1>2, <1>6, <2>2 DEF InStore, Stored
      <3> QED BY <1>3, <3>1 DEF SameFor
    <2> QED BY <1>1, <2>1, <2>2
  <1>7. ASSUME ~raced', window # "closed", NEW p \in PeerIds, NEW w \in View, Agrees(p, w)
        PROVE  Agrees(p, w)'
    <2>1. \A t \in mirrorTasks : t.do \in {"clear", "delete"} => t \in mirrorTasks'
      BY <1>1 DEF Ran
    <2>2. hidden' = hidden /\ unannounced' = unannounced /\ mirrorTasks' = mirrorTasks \ {task}
      BY <1>1 DEF Ran
    <2>3. task.do = "edit" => task.id # p
      BY <1>1, <1>7 DEF ReflectInv, TasksMirrored
    <2>4. CASE task.do = "pin" /\ task.id = p
      <3>1. task \in Pins(p) /\ Pins(p)' = Pins(p) \ {task} /\ IsFiniteSet(Pins(p))
        <4>1. IsFiniteSet(mirrorTasks)
          BY DEF ReflectInv, TasksKnown
        <4>2. IsFiniteSet(Pins(p))
          BY <4>1, FS_Subset DEF Pins
        <4> QED BY <2>2, <2>4, <4>2 DEF Pins
      <3>2. Even(Pins(p)') <=> ~Even(Pins(p))
        BY <3>1, EvenLess
      <3>3. ASSUME p \in DOMAIN store
            PROVE  store'[p].text = store[p].text /\ store'[p].pinned = ~store[p].pinned
        <4>1. store'[p] = PinToggled(store[p])
          BY <1>2, <2>4, <3>3 DEF InStore, Stored
        <4>2. PinToggled(store[p]).text = store[p].text /\ PinToggled(store[p]).pinned = ~store[p].pinned
          BY <1>5, <3>3 DEF Messages, PinToggled
        <4> QED BY <4>1, <4>2
      <3>4. ASSUME p \in DOMAIN store PROVE store[p].pinned \in BOOLEAN /\ w.pinned \in BOOLEAN
        BY <1>5, <3>4 DEF Messages, View
      <3>5. ASSUME p \in DOMAIN store, p \notin hidden, p # unannounced
            PROVE  /\ w.here /\ w.text = store'[p].text
                   /\ (w.pinned = store'[p].pinned) <=> Even(Pins(p)')
        <4>1. w.here /\ w.text = store[p].text /\ ((w.pinned = store[p].pinned) <=> Even(Pins(p)))
          BY <1>7, <3>5 DEF Agrees
        <4>2. (w.pinned = ~store[p].pinned) <=> ~(w.pinned = store[p].pinned)
          BY <3>4, <3>5
        <4> QED BY <3>2, <3>3, <3>5, <4>1, <4>2
      <3>6. ~(p \in DOMAIN store /\ p \notin hidden /\ p = unannounced)
        BY <1>7, <3>1 DEF Agrees
      <3> QED BY <1>3, <1>7, <2>1, <2>2, <3>5, <3>6 DEF Agrees
    <2>5. CASE ~(task.do = "pin" /\ task.id = p)
      <3>1. Pins(p)' = Pins(p)
        BY <2>2, <2>5 DEF Pins
      <3>2. SameFor(p)
        BY <1>6, <2>3, <2>5
      <3> QED BY <1>7, <2>1, <2>2, <3>1, <3>2, AgreesKept
    <2> QED BY <2>4, <2>5
  <1> QED BY <1>1, <1>4, <1>7, TaskReflects

LEMMA RunDeleteReflects ==
  ASSUME MirrorInv, ReflectInv, NEW task \in mirrorTasks, RunDelete(task)
  PROVE  ReflectInv'
  <1>1. /\ Ran(task) /\ task.do = "delete" /\ raced' = raced /\ StoreTyped(store)
        /\ deleted' = deleted \cup {task.id}
        /\ store' = Keeping(store, DOMAIN store \ {task.id})
        /\ events \in Seq(WindowEvent)
    BY DEF RunDelete, MirrorInv, MirrorTyped
  <1>2. /\ DOMAIN store' = DOMAIN store \ {task.id}
        /\ \A id \in DOMAIN store \ {task.id} : store'[id] = store[id]
    BY <1>1, MessagesKept
  <1>3. Had \subseteq Had'
    BY <1>1, <1>2 DEF Had
  <1>4. hidden' = hidden /\ unannounced' = unannounced /\ mirrorTasks' = mirrorTasks \ {task}
    BY <1>1 DEF Ran
  <1>5. ASSUME ~raced', window # "closed", NEW p \in PeerIds, NEW w \in View, Agrees(p, w)
        PROVE  Agrees(p, w)'
    <2>1. CASE p = task.id
      <3>1. p \in hidden /\ p # unannounced
        BY <1>1, <1>5, <2>1 DEF ReflectInv, TasksMirrored, MirrorInv, NewsIsNew
      <3>2. ~w.here
        BY <1>5, <3>1 DEF Agrees
      <3> QED BY <1>2, <1>4, <2>1, <3>1, <3>2 DEF Agrees
    <2>2. CASE p # task.id
      <3>1. SameFor(p)
        BY <1>2, <2>2 DEF SameFor
      <3>2. Pins(p)' = Pins(p)
        BY <1>1, <1>4 DEF Pins
      <3>3. \A t \in mirrorTasks : t.do = "clear" \/ (t.do = "delete" /\ t.id = p) => t \in mirrorTasks'
        BY <1>1, <1>4, <2>2
      <3> QED BY <1>4, <1>5, <3>1, <3>2, <3>3, AgreesKept
    <2> QED BY <2>1, <2>2
  <1> QED BY <1>1, <1>3, <1>5, TaskReflects

LEMMA RunDeleteEveryoneReflects ==
  ASSUME MirrorInv, ReflectInv, NEW task \in mirrorTasks, RunDeleteEveryone(task)
  PROVE  ReflectInv'
  <1> DEFINE own == {id \in {task.id} \cap DOMAIN store : store[id].author = "me"}
  <1>1. /\ Ran(task) /\ task.do = "everyone" /\ raced' = raced /\ StoreTyped(store)
        /\ deleted' = deleted \cup own
        /\ store' = Keeping(store, DOMAIN store \ own)
        /\ events \in Seq(WindowEvent)
    BY DEF RunDeleteEveryone, MirrorInv, MirrorTyped
  <1>2. own \cap PeerIds = {}
    BY <1>1 DEF StoreTyped
  <1> HIDE DEF own
  <1>3. /\ DOMAIN store' = DOMAIN store \ own
        /\ \A id \in DOMAIN store \ own : store'[id] = store[id]
    BY <1>1, MessagesKept
  <1>4. Had \subseteq Had'
    BY <1>1, <1>3 DEF Had
  <1>5. hidden' = hidden /\ unannounced' = unannounced /\ mirrorTasks' = mirrorTasks \ {task}
    BY <1>1 DEF Ran
  <1>6. ASSUME NEW p \in PeerIds, NEW w \in View, Agrees(p, w) PROVE Agrees(p, w)'
    <2>1. SameFor(p)
      BY <1>2, <1>3 DEF SameFor
    <2>2. Pins(p)' = Pins(p)
      BY <1>1, <1>5 DEF Pins
    <2>3. \A t \in mirrorTasks : t.do = "clear" \/ (t.do = "delete" /\ t.id = p) => t \in mirrorTasks'
      BY <1>1, <1>5
    <2> QED BY <1>5, <1>6, <2>1, <2>2, <2>3, AgreesKept
  <1> QED BY <1>1, <1>4, <1>6, TaskReflects

LEMMA RunClearReflects ==
  ASSUME MirrorInv, ReflectInv, NEW task \in mirrorTasks, RunClear(task)
  PROVE  ReflectInv'
  <1>1. /\ Ran(task) /\ task.do = "clear" /\ DOMAIN store' = {}
        /\ deleted' = deleted \cup DOMAIN store
        /\ events \in Seq(WindowEvent)
    BY DEF RunClear, MirrorInv, MirrorTyped
  <1>2. Had \subseteq Had'
    BY <1>1 DEF Had
  <1>3. (raced => raced') /\ (~raced' => DOMAIN store \subseteq task.seen)
    <2>1. raced' = (raced \/ ~(DOMAIN store \subseteq task.seen)) /\ raced \in BOOLEAN
      BY DEF RunClear, MirrorInv, MirrorTyped
    <2> QED BY <2>1, Zenon
  <1>4. hidden' = hidden /\ unannounced' = unannounced
    BY <1>1 DEF Ran
  <1>5. ASSUME ~raced', window # "closed", NEW p \in PeerIds, NEW w \in View, Agrees(p, w)
        PROVE  Agrees(p, w)'
    <2>1. DOMAIN store \subseteq hidden
      BY <1>1, <1>3, <1>5 DEF ReflectInv, TasksMirrored
    <2>2. p \in hidden => p # unannounced
      BY <1>3, <1>5 DEF MirrorInv, NewsIsNew
    <2>3. ~w.here /\ p # unannounced
      BY <1>5, <2>1, <2>2 DEF Agrees
    <2> QED BY <1>1, <1>4, <2>3 DEF Agrees
  <1> QED BY <1>1, <1>2, <1>3, <1>5, TaskReflects

(* The poll loop: the window is as it was, and one event more may wait.    *)
LEMMA PollReflects ==
  ASSUME ReflectInv, UNCHANGED <<window, shown, mirrorTasks, hidden, commands>>,
         raced => raced', Had \subseteq Had',
         events \in Seq(WindowEvent), NEW e \in WindowEvent,
         ASSUME ~raced', window # "closed", NEW p \in PeerIds, NEW w \in View, Agrees(p, w)
         PROVE  \/ events' = events /\ Agrees(p, w)'
                \/ /\ events' = Append(events, e) /\ Proper(w, e, p)
                   /\ \A u \in View : u = ViewAfter(w, e, p) => Agrees(p, u)'
  PROVE  ReflectInv'
  <1>1. TasksKnown'
    BY DEF ReflectInv, TasksKnown
  <1>2. TasksMirrored'
    BY DEF ReflectInv, TasksMirrored
  <1>3. AllForeseen'
    <2> SUFFICES ASSUME window # "closed", ~raced', NEW p \in PeerIds PROVE Foreseen(p)'
      BY DEF AllForeseen
    <2>1. PICK v : Course(v, shown, events, p) /\ Agrees(p, v[Len(events)])
      BY DEF ReflectInv, AllForeseen, Foreseen
    <2>2. v[Len(events)] \in View
      BY <2>1, CourseViews
    <2>3. PICK w \in View : w = v[Len(events)]
      BY <2>2
    <2>4. Agrees(p, w)
      BY <2>1, <2>3
    <2>5. CASE events' = events /\ Agrees(p, w)'
      BY <2>1, <2>3, <2>5 DEF Foreseen
    <2>6. CASE /\ events' = Append(events, e) /\ Proper(w, e, p)
               /\ \A u \in View : u = ViewAfter(w, e, p) => Agrees(p, u)'
      <3>1. PICK u : /\ Course(u, shown, Append(events, e), p)
                     /\ u[Len(Append(events, e))] = ViewAfter(w, e, p)
        BY <2>1, <2>3, <2>6, CourseLonger
      <3>2. ViewAfter(w, e, p) \in View
        BY ViewAfterTyped
      <3>3. PICK x \in View : x = ViewAfter(w, e, p)
        BY <3>2
      <3>4. Agrees(p, x)'
        BY <2>6, <3>3
      <3>5. Course(u, shown, events, p)' /\ (u[Len(events)])' = x
        BY <2>6, <3>1, <3>3
      <3> QED BY <3>4, <3>5 DEF Foreseen
    <2> QED BY <2>4, <2>5, <2>6
  <1> QED BY <1>1, <1>2, <1>3 DEF ReflectInv

LEMMA PollMessageReflects ==
  ASSUME MirrorInv, ReflectInv, NEW id \in StoreIds \cup PeerIds, PollMessage(id)
  PROVE  ReflectInv'
  <1> DEFINE m == MirrorMessage("peer", TRUE)
  <1>1. /\ unannounced = "none" /\ UNCHANGED <<window, shown, mirrorTasks, hidden, commands>>
        /\ id \notin deleted /\ deleted' = deleted /\ events' = events
        /\ events \in Seq(WindowEvent)
    BY DEF PollMessage, Listening, MirrorInv, MirrorTyped
  <1>2. m.text = "sent" /\ m.pinned = FALSE
    BY DEF MirrorMessage
  <1>3. /\ DOMAIN store' = DOMAIN store \cup {id} /\ store'[id] = m
        /\ \A i \in DOMAIN store \ {id} : store'[i] = store[i]
    BY DEF PollMessage
  <1> HIDE DEF m
  <1>4. unannounced' = IF id \in DOMAIN store THEN "none" ELSE id
    BY DEF PollMessage, Stored
  <1>5. /\ raced => raced'
        /\ ~raced' /\ id \in PeerIds \cap DOMAIN store => store'[id] = store[id]
    <2>1. raced' = (raced \/ Replaced(id)) /\ raced \in BOOLEAN
      BY DEF PollMessage, MirrorInv, MirrorTyped
    <2> QED BY <2>1 DEF Replaced, Stored
  <1>6. Had \subseteq Had'
    BY <1>1, <1>3 DEF Had
  <1>7. "none" \notin PeerIds
    BY MirrorAssumption
  <1>8. ASSUME ~raced', NEW p \in PeerIds, NEW w \in View, Agrees(p, w)
        PROVE  Agrees(p, w)'
    <2>1. Pins(p)' = Pins(p)
      BY <1>1 DEF Pins
    <2>2. CASE p # id \/ id \in DOMAIN store
      <3>1. unannounced' # p /\ unannounced # p
        BY <1>1, <1>4, <1>7, <2>2
      <3>2. SameFor(p)
        BY <1>3, <1>5, <1>8, <2>2 DEF SameFor
      <3>3. p \in DOMAIN store' <=> p \in DOMAIN store
        BY <3>2 DEF SameFor
      <3> QED BY <1>1, <1>8, <2>1, <3>1, <3>2, <3>3 DEF Agrees, SameFor
    <2>3. CASE p = id /\ id \notin DOMAIN store
      <3>1. p \notin Had /\ p \notin WindowIds
        BY <1>1, <2>3, MirrorAssumption DEF Had
      <3>2. p \notin hidden
        BY <3>1 DEF MirrorInv, KnownToDatabase
      <3>3. Pins(p) = {}
        BY <3>1 DEF ReflectInv, TasksKnown, Pins
      <3>4. ~w.here
        BY <1>8, <2>3 DEF Agrees
      <3>5. unannounced' = p /\ p \in DOMAIN store' /\ store'[p].text = "sent"
            /\ store'[p].pinned = FALSE
        BY <1>2, <1>3, <1>4, <2>3
      <3> QED BY <1>1, <2>1, <3>2, <3>3, <3>4, <3>5 DEF Agrees
    <2> QED BY <2>2, <2>3
  <1>9. PICK e : e = [type |-> "edited", id |-> id]
    OBVIOUS
  <1>10. e \in WindowEvent
    BY <1>9 DEF WindowEvent, MirrorIds
  <1> QED BY <1>1, <1>5, <1>6, <1>8, <1>10, PollReflects

LEMMA AnnounceReflects ==
  ASSUME MirrorInv, ReflectInv, Announce
  PROVE  ReflectInv'
  <1> DEFINE e == [type |-> "received", id |-> unannounced, message |-> MirrorMessage("peer", TRUE)]
  <1>1. /\ unannounced \in PeerIds /\ events' = Append(events, e) /\ unannounced' = "none"
        /\ UNCHANGED <<window, shown, mirrorTasks, hidden, commands, raced, store, deleted>>
        /\ events \in Seq(WindowEvent)
    BY DEF Announce, windowVars, MirrorInv, MirrorTyped, Tell
  <1>2. e \in WindowEvent /\ e.type = "received" /\ e.id = unannounced
        /\ e.message = MirrorMessage("peer", TRUE)
    <2>1. MirrorMessage("peer", TRUE) \in Messages
      BY NewMessageTyped DEF Both, StoredMessages
    <2> QED BY <1>1, <2>1 DEF WindowEvent, Received
  <1>3. PICK x : x = e
    OBVIOUS
  <1>4. x \in WindowEvent /\ x.type = "received" /\ x.id = unannounced
        /\ x.message = MirrorMessage("peer", TRUE) /\ events' = Append(events, x)
    BY <1>1, <1>2, <1>3
  <1> HIDE DEF e
  <1>5. Had' = Had
    BY <1>1 DEF Had
  <1>6. ASSUME ~raced', window # "closed", NEW p \in PeerIds, NEW w \in View, Agrees(p, w)
        PROVE  /\ Proper(w, x, p)
               /\ \A u \in View : u = ViewAfter(w, x, p) => Agrees(p, u)'
    <2>1. Pins(p)' = Pins(p) /\ "none" \notin PeerIds
      BY <1>1, MirrorAssumption DEF Pins
    <2>2. CASE p # unannounced
      <3>1. ViewAfter(w, x, p) = w /\ Proper(w, x, p)
        BY <1>4, <2>2, ViewAfterTyped DEF Proper
      <3>2. Agrees(p, w)'
        BY <1>1, <1>6, <2>1, <2>2 DEF Agrees
      <3> QED BY <3>1, <3>2
    <2>3. CASE p = unannounced
      <3>1. p \in DOMAIN store /\ p \notin hidden
        BY <1>1, <1>6, <2>3 DEF Agrees, MirrorInv, NewsIsNew
      <3>2. ~w.here /\ store[p].text = "sent" /\ store[p].pinned = FALSE /\ Pins(p) = {}
        BY <1>6, <2>3, <3>1 DEF Agrees
      <3>3. Proper(w, x, p)
        BY <1>4, <3>2 DEF Proper
      <3>4. ViewAfter(w, x, p) = [here |-> TRUE, text |-> "sent", pinned |-> FALSE]
        BY <1>4, <2>3, ViewAfterTyped
      <3>5. Even({})
        BY FS_EmptySet DEF Even
      <3>6. ASSUME NEW u \in View, u = ViewAfter(w, x, p) PROVE Agrees(p, u)'
        <4>1. u.here = TRUE /\ u.text = "sent" /\ u.pinned = FALSE
          BY <3>4, <3>6
        <4> QED BY <1>1, <2>1, <3>1, <3>2, <3>5, <4>1 DEF Agrees
      <3> QED BY <3>3, <3>6
    <2> QED BY <2>2, <2>3
  <1> QED BY <1>1, <1>4, <1>5, <1>6, PollReflects

(* An event that changes what is shown as the database was changed.        *)
LEMMA PolledReflects ==
  ASSUME MirrorInv, ReflectInv, Polled, Had' = Had, unannounced' = unannounced,
         NEW e \in WindowEvent, e.type # "received",
         events' = events \/ events' = Append(events, e),
         \A p \in PeerIds : p # e.id \/ events' = events => SameFor(p),
         e.id \in PeerIds /\ events' = Append(events, e) =>
           /\ e.id \in DOMAIN store' => e.id \in DOMAIN store
           /\ \A w \in View :
                /\ w.here /\ w.text = store[e.id].text
                /\ e.id \in DOMAIN store /\ e.id \in DOMAIN store'
                => /\ store'[e.id].pinned = store[e.id].pinned
                   /\ ViewAfter(w, e, e.id).text = store'[e.id].text
                   /\ ViewAfter(w, e, e.id).here
           /\ e.id \notin DOMAIN store' => \A w \in View : ~ViewAfter(w, e, e.id).here
  PROVE  ReflectInv'
  <1>1. /\ unannounced = "none" /\ UNCHANGED <<window, shown, mirrorTasks, hidden, commands, raced>>
        /\ events \in Seq(WindowEvent) /\ "none" \notin PeerIds
    BY MirrorAssumption DEF Polled, Listening, MirrorInv, MirrorTyped
  <1>2. ASSUME NEW p \in PeerIds, NEW w \in View, Agrees(p, w)
        PROVE  \/ events' = events /\ Agrees(p, w)'
               \/ /\ events' = Append(events, e) /\ Proper(w, e, p)
                  /\ \A u \in View : u = ViewAfter(w, e, p) => Agrees(p, u)'
    <2>1. Pins(p)' = Pins(p)
      BY <1>1 DEF Pins
    <2>2. ASSUME p # e.id \/ events' = events PROVE Agrees(p, w)'
      <3>1. SameFor(p)
        BY <2>2
      <3> QED BY <1>1, <1>2, <2>1, <3>1, AgreesKept
    <2>3. CASE events' = events
      BY <2>2, <2>3
    <2>4. CASE events' = Append(events, e) /\ p # e.id
      <3>1. ViewAfter(w, e, p) = w /\ Proper(w, e, p)
        BY <2>4, ViewAfterTyped DEF Proper
      <3> QED BY <2>2, <2>4, <3>1
    <2>5. CASE events' = Append(events, e) /\ p = e.id
      <3>1. Proper(w, e, p)
        BY DEF Proper
      <3>2. ASSUME NEW u \in View, u = ViewAfter(w, e, p) PROVE Agrees(p, u)'
        <4>1. ~w.here => ~u.here
          BY <2>5, <3>2, ViewAfterTyped DEF View, Reworded, Vanished
        <4>2. u.here => u.pinned = w.pinned
          BY <2>5, <3>2, ViewAfterTyped DEF View, Reworded, Vanished
        <4>3. CASE p \notin DOMAIN store'
          BY <1>1, <2>5, <3>2, <4>3 DEF Agrees
        <4>4. CASE p \in DOMAIN store' /\ p \in hidden
          BY <1>1, <1>2, <2>5, <4>1, <4>4 DEF Agrees
        <4>5. CASE p \in DOMAIN store' /\ p \notin hidden
          <5>1. p \in DOMAIN store /\ p # unannounced
            BY <1>1, <2>5, <4>5
          <5>2. /\ w.here /\ w.text = store[p].text
                /\ (w.pinned = store[p].pinned) <=> Even(Pins(p))
            BY <1>2, <4>5, <5>1 DEF Agrees
          <5>3. store'[p].pinned = store[p].pinned /\ u.text = store'[p].text /\ u.here
            BY <2>5, <3>2, <4>5, <5>1, <5>2
          <5> QED BY <1>1, <2>1, <4>2, <4>5, <5>1, <5>2, <5>3 DEF Agrees
        <4> QED BY <4>3, <4>4, <4>5
      <3> QED BY <2>5, <3>1, <3>2
    <2> QED BY <2>3, <2>4, <2>5
  <1> QED BY <1>1, <1>2, PollReflects

LEMMA PollEditReflects ==
  ASSUME MirrorInv, ReflectInv, NEW id \in MirrorIds, PollEdit(id)
  PROVE  ReflectInv'
  <1> DEFINE e == [type |-> "edited", id |-> id]
  <1>1. /\ Polled /\ events' = Append(events, e) /\ unannounced' = unannounced
        /\ StoreTyped(store) /\ id \in DOMAIN store /\ deleted' = deleted
    BY DEF PollEdit, Tell, EditByAuthor, Stored, MirrorInv, MirrorTyped
  <1>2. e \in WindowEvent /\ e.type = "edited" /\ e.id = id
    BY DEF WindowEvent
  <1> HIDE DEF e
  <1>3. /\ DOMAIN store' = DOMAIN store /\ store'[id] = Edited(store[id])
        /\ \A i \in DOMAIN store \ {id} : store'[i] = store[i]
    BY DEF PollEdit, InStore, EditByAuthor, Stored
  <1>4. Edited(store[id]).text = "edited" /\ Edited(store[id]).pinned = store[id].pinned
    BY <1>1 DEF StoreTyped, StoredMessages, Messages, Edited
  <1>5. Had' = Had
    BY <1>1, <1>3 DEF Had
  <1>6. ASSUME NEW w \in View
        PROVE  ViewAfter(w, e, id).text = "edited" /\ ViewAfter(w, e, id).here = w.here
    BY <1>2, ViewAfterTyped DEF View, Reworded
  <1>7. \A p \in PeerIds : p # id => SameFor(p)
    BY <1>3 DEF SameFor
  <1>8. events' # events
    <2>1. Len(events') = Len(events) + 1 /\ Len(events) \in Nat
      BY <1>1, <1>2, AppendProperties, LenProperties DEF MirrorInv, MirrorTyped
    <2> QED BY <2>1
  <1> QED BY <1>1, <1>2, <1>3, <1>4, <1>5, <1>6, <1>7, <1>8, PolledReflects

LEMMA PollReceiptReflects ==
  ASSUME MirrorInv, ReflectInv, NEW id \in MirrorIds, PollReceipt(id)
  PROVE  ReflectInv'
  <1> DEFINE e == [type |-> "delivered", id |-> id]
  <1>1. /\ Polled /\ events' = Append(events, e) /\ unannounced' = unannounced
        /\ StoreTyped(store) /\ id \in DOMAIN store /\ store[id].author = "me" /\ deleted' = deleted
    BY DEF PollReceipt, Tell, Stored, MirrorInv, MirrorTyped
  <1>2. e \in WindowEvent /\ e.type = "delivered" /\ e.id = id
    BY DEF WindowEvent
  <1> HIDE DEF e
  <1>3. /\ DOMAIN store' = DOMAIN store
        /\ \A i \in DOMAIN store \ {id} : store'[i] = store[i]
    BY DEF PollReceipt, InStore, Stored
  <1>4. id \notin PeerIds
    BY <1>1 DEF StoreTyped
  <1>5. Had' = Had
    BY <1>1, <1>3 DEF Had
  <1>6. \A p \in PeerIds : SameFor(p)
    BY <1>3, <1>4 DEF SameFor
  <1> QED BY <1>1, <1>2, <1>4, <1>5, <1>6, PolledReflects

LEMMA PollReactionReflects ==
  ASSUME MirrorInv, ReflectInv, NEW id \in MirrorIds, NEW emoji \in Emojis, PollReaction(id, emoji)
  PROVE  ReflectInv'
  <1> DEFINE e == [type |-> "reaction", id |-> id, emoji |-> emoji]
  <1>1. /\ Polled /\ events' = Append(events, e) /\ unannounced' = unannounced
        /\ StoreTyped(store) /\ id \in DOMAIN store /\ deleted' = deleted
    BY DEF PollReaction, Tell, Stored, MirrorInv, MirrorTyped
  <1>2. e \in WindowEvent /\ e.type = "reaction" /\ e.id = id
    BY DEF WindowEvent
  <1> HIDE DEF e
  <1>3. /\ DOMAIN store' = DOMAIN store /\ store'[id] = Reacted(store[id], "peer", emoji)
        /\ \A i \in DOMAIN store \ {id} : store'[i] = store[i]
    BY DEF PollReaction, InStore, Stored
  <1>4. Reacted(store[id], "peer", emoji).text = store[id].text
        /\ Reacted(store[id], "peer", emoji).pinned = store[id].pinned
    BY <1>1 DEF StoreTyped, StoredMessages, Messages, Reacted
  <1>5. Had' = Had
    BY <1>1, <1>3 DEF Had
  <1>6. \A w \in View : ViewAfter(w, e, id) = w
    BY <1>2, ViewAfterTyped
  <1>7. \A p \in PeerIds : SameFor(p)
    BY <1>3, <1>4 DEF SameFor
  <1> QED BY <1>1, <1>2, <1>3, <1>4, <1>5, <1>6, <1>7, PolledReflects

LEMMA PollTombstoneReflects ==
  ASSUME MirrorInv, ReflectInv, NEW id \in MirrorIds, PollTombstone(id)
  PROVE  ReflectInv'
  <1> DEFINE e == [type |-> "deleted", id |-> id]
             gone == DeletedByAuthor({id})
  <1>1. /\ Polled /\ unannounced' = unannounced /\ StoreTyped(store)
        /\ events' = events \/ events' = Append(events, e)
        /\ gone = {} => events' = events
        /\ store' = Keeping(store, DOMAIN store \ gone) /\ deleted' = deleted \cup gone
    BY DEF PollTombstone, Tell, MirrorInv, MirrorTyped
  <1>2. e \in WindowEvent /\ e.type = "deleted" /\ e.id = id
    BY DEF WindowEvent
  <1>3. /\ gone \subseteq DOMAIN store /\ gone \subseteq {id}
        /\ id \in PeerIds \cap DOMAIN store => gone = {id}
    BY <1>1 DEF DeletedByAuthor, StoreTyped
  <1>4. gone # {} => events' # events
    <2>1. ASSUME gone # {} PROVE events' = Append(events, e)
      BY <2>1 DEF PollTombstone, Tell
    <2>2. Len(Append(events, e)) = Len(events) + 1 /\ Len(events) \in Nat
      BY <1>2, AppendProperties, LenProperties DEF MirrorInv, MirrorTyped
    <2> HIDE DEF e, gone
    <2>3. Append(events, e) # events
      BY <2>2
    <2> QED BY <2>1, <2>3
  <1> HIDE DEF e, gone
  <1>5. /\ DOMAIN store' = DOMAIN store \ gone
        /\ \A i \in DOMAIN store \ gone : store'[i] = store[i]
    BY <1>1, MessagesKept
  <1>6. Had' = Had
    BY <1>1, <1>3, <1>5 DEF Had
  <1>7. \A w \in View : ~ViewAfter(w, e, id).here
    BY <1>2, ViewAfterTyped DEF View, Vanished
  <1>8. \A p \in PeerIds : p # id \/ events' = events => SameFor(p)
    BY <1>3, <1>4, <1>5 DEF SameFor
  <1>9. id \in PeerIds => id \notin DOMAIN store'
    BY <1>3, <1>5
  <1> QED BY <1>1, <1>2, <1>6, <1>7, <1>8, <1>9, PolledReflects

(* What a command makes of the course of p.                                *)
Redrawn(p, list) ==
  \E u : Course(u, list, events, p) /\ \A w \in View : w = u[Len(events)] => Agrees(p, w)'

LEMMA CommandReflects ==
  ASSUME MirrorInv, ReflectInv, NEW list, NEW task, NEW gone \in SUBSET IdsOf(shown),
         Command(list, task, gone), IsFiniteSet(task),
         \A t \in task : /\ t.do = "pin" => t.id \in WindowIds \cup Had /\ t.step = commands
                         /\ ~raced =>
                              /\ t.do = "delete" => t.id \in hidden \cup gone
                              /\ t.do = "clear" => t.seen \subseteq hidden \cup gone
                              /\ t.do = "edit" => t.id \notin PeerIds,
         ASSUME ~raced, NEW p \in PeerIds, NEW v, Course(v, shown, events, p),
                Agrees(p, v[Len(events)])
         PROVE  Redrawn(p, list)
  PROVE  ReflectInv'
  <1>1. /\ window = "open" /\ window' = "open" /\ shown' = list /\ events' = events
        /\ mirrorTasks' = mirrorTasks \cup task /\ hidden' = hidden \cup gone
        /\ commands' = commands + 1 /\ commands \in 0..MaxCommands
        /\ raced' = raced /\ store' = store /\ deleted' = deleted
        /\ events \in Seq(WindowEvent)
    BY DEF Command, databaseVars, MirrorInv, MirrorTyped
  <1>2. Had' = Had
    BY <1>1 DEF Had
  <1>3. TasksKnown'
    <2>1. IsFiniteSet(mirrorTasks')
      BY <1>1, FS_Union DEF ReflectInv, TasksKnown
    <2>2. ASSUME NEW t \in mirrorTasks, t.do = "pin"
          PROVE  t.step < commands /\ t \in MirrorTask
      BY <2>2 DEF ReflectInv, TasksKnown, MirrorInv, MirrorTyped
    <2>3. ASSUME NEW t \in mirrorTasks, t.do = "pin" PROVE t.step < commands'
      <3>1. t.step \in 0..MaxCommands
        BY <2>2, <2>3 DEF MirrorTask
      <3> QED BY <1>1, <2>2, <2>3, <3>1, MirrorAssumption
    <2>4. ASSUME NEW t \in task, t.do = "pin" PROVE t.step < commands'
      BY <1>1, <2>4, MirrorAssumption
    <2> QED BY <1>1, <1>2, <2>1, <2>3, <2>4 DEF ReflectInv, TasksKnown
  <1>4. TasksMirrored'
    BY <1>1 DEF ReflectInv, TasksMirrored
  <1>5. AllForeseen'
    <2> SUFFICES ASSUME ~raced, NEW p \in PeerIds PROVE Foreseen(p)'
      BY <1>1 DEF AllForeseen
    <2>1. PICK v : Course(v, shown, events, p) /\ Agrees(p, v[Len(events)])
      BY <1>1 DEF ReflectInv, AllForeseen, Foreseen
    <2>2. Redrawn(p, list)
      BY <2>1
    <2>3. PICK u : Course(u, list, events, p) /\ \A w \in View : w = u[Len(events)] => Agrees(p, w)'
      BY <2>2 DEF Redrawn
    <2>4. PICK w \in View : w = u[Len(events)]
      BY <1>1, <2>3, CourseViews
    <2>5. Agrees(p, w)'
      BY <2>3, <2>4
    <2>6. Course(u, shown, events, p)' /\ (u[Len(events)])' = w
      BY <1>1, <2>3, <2>4
    <2> QED BY <2>5, <2>6 DEF Foreseen
  <1> QED BY <1>3, <1>4, <1>5 DEF ReflectInv

(* The command is not about p: it is shown as before.                      *)
LEMMA Unmoved ==
  ASSUME NEW list, NEW task, NEW gone, Command(list, task, gone), NEW p, p \notin gone,
         \A t \in task : ~(t.do = "pin" /\ t.id = p),
         NEW v, Course(v, shown, events, p), Agrees(p, v[Len(events)]), Shows(list, p, v[0])
  PROVE  Redrawn(p, list)
  <1>1. /\ mirrorTasks' = mirrorTasks \cup task /\ hidden' = hidden \cup gone
        /\ store' = store /\ unannounced' = unannounced
    BY DEF Command, databaseVars
  <1>2. Course(v, list, events, p)
    BY CourseSame
  <1>3. Pins(p)' = Pins(p)
    BY <1>1 DEF Pins
  <1>4. ASSUME NEW w \in View, w = v[Len(events)] PROVE Agrees(p, w)'
    <2>1. Agrees(p, w)
      BY <1>4
    <2> QED BY <1>1, <1>3, <2>1 DEF Agrees
  <1> QED BY <1>2, <1>4 DEF Redrawn

(* It takes p out of the list: p was in it, and is not announced again.    *)
LEMMA Taken ==
  ASSUME MirrorInv, ~raced, NEW list, NEW task, NEW gone \in SUBSET IdsOf(shown),
         Command(list, task, gone), NEW p \in gone,
         \E t \in task : t.do = "clear" \/ (t.do = "delete" /\ t.id = p),
         NEW v, Course(v, shown, events, p), Agrees(p, v[Len(events)]), Shows(list, p, Vanished(v[0]))
  PROVE  Redrawn(p, list)
  <1>1. /\ mirrorTasks' = mirrorTasks \cup task /\ hidden' = hidden \cup gone
        /\ store' = store /\ unannounced' = unannounced /\ window = "open"
    BY DEF Command, databaseVars
  <1>2. p \notin Announced(events) /\ p # unannounced
    BY <1>1 DEF MirrorInv, NewsIsNew, News
  <1>3. events \in Seq(WindowEvent)
    BY DEF MirrorInv, MirrorTyped
  <1>4. PICK u : Course(u, list, events, p) /\ u[Len(events)] = Vanished(v[Len(events)])
    BY <1>2, <1>3, CourseGone
  <1>5. ASSUME NEW w \in View, w = u[Len(events)] PROVE Agrees(p, w)'
    <2>1. v[Len(events)] \in View
      BY <1>3, CourseViews
    <2>2. ~w.here
      BY <1>4, <1>5, <2>1 DEF View, Vanished
    <2> QED BY <1>1, <1>2, <2>2 DEF Agrees
  <1> QED BY <1>4, <1>5 DEF Redrawn

-----------------------------------------------------------------------------
LEMMA SendMessageReflects ==
  ASSUME MirrorInv, ReflectInv, NEW id \in WindowIds, NEW own \in StoreIds, NEW saved \in BOOLEAN,
         SendMessage(id, own, saved)
  PROVE  ReflectInv'
  <1> DEFINE row == ShownEntry(id, MirrorMessage("me", saved))
             list == Append(shown, row)
             task == IF saved THEN {} ELSE {[do |-> "send", id |-> own]}
             gone == {}
  <1>1. shown \in Seq(Row) /\ events \in Seq(WindowEvent)
    BY DEF MirrorInv, MirrorTyped
  <1>2. row \in Row /\ row.id = id
    <2>1. MirrorMessage("me", saved) \in Messages
      BY NewMessageTyped DEF Both, StoredMessages
    <2> QED BY <2>1 DEF ShownEntry, Row, MirrorIds
  <1>3. Command(list, task, gone)
    BY DEF SendMessage
  <1>4. IsFiniteSet(task) /\ \A t \in task : t.do = "send"
    <2>1. IsFiniteSet(task)
      BY FS_EmptySet, FS_Singleton
    <2>2. \A t \in task : t.do = "send"
      OBVIOUS
    <2> QED BY <2>1, <2>2
  <1> HIDE DEF row, task
  <1>5. gone \in SUBSET IdsOf(shown) /\ \A p : p \notin gone
    OBVIOUS
  <1>6. ASSUME NEW p \in PeerIds, NEW v, Course(v, shown, events, p), Agrees(p, v[Len(events)])
        PROVE  Redrawn(p, list)
    <2>1. v[0] \in View /\ Shows(shown, p, v[0])
      BY <1>1, <1>6, CourseViews
    <2>2. row.id # p
      BY <1>2, MirrorAssumption
    <2>3. Shows(list, p, v[0])
      BY <1>1, <1>2, <2>1, <2>2, AppendedShows
    <2>4. p \notin gone /\ \A t \in task : ~(t.do = "pin" /\ t.id = p)
      BY <1>4
    <2> HIDE DEF list, gone
    <2> QED BY <1>3, <1>6, <2>3, <2>4, Unmoved
  <1> HIDE DEF list, gone
  <1> QED BY <1>3, <1>4, <1>5, <1>6, CommandReflects

LEMMA ReactMessageReflects ==
  ASSUME MirrorInv, ReflectInv, NEW id \in MirrorIds, NEW emoji \in Emojis, ReactMessage(id, emoji)
  PROVE  ReflectInv'
  <1> DEFINE list == InList(shown, id, LAMBDA m : Toggled(m, emoji))
             task == {[do |-> "react", id |-> id, emoji |-> emoji]}
             gone == {}
  <1>1. shown \in Seq(Row) /\ events \in Seq(WindowEvent)
    BY DEF MirrorInv, MirrorTyped
  <1>2. Command(list, task, gone)
    BY DEF ReactMessage
  <1>3. IsFiniteSet(task) /\ \A t \in task : t.do = "react"
    <2>1. IsFiniteSet(task)
      BY FS_Singleton
    <2>2. \A t \in task : t.do = "react"
      OBVIOUS
    <2> QED BY <2>1, <2>2
  <1>4. gone \in SUBSET IdsOf(shown) /\ \A p : p \notin gone
    OBVIOUS
  <1>5. ASSUME NEW p \in PeerIds, NEW v, Course(v, shown, events, p), Agrees(p, v[Len(events)])
        PROVE  Redrawn(p, list)
    <2>1. v[0] \in View /\ Shows(shown, p, v[0])
      BY <1>1, <1>5, CourseViews
    <2>2. Shows(list, p, v[0])
      BY <1>1, <2>1, ReactedShows
    <2>3. p \notin gone /\ \A t \in task : ~(t.do = "pin" /\ t.id = p)
      BY <1>3
    <2> HIDE DEF list, task, gone
    <2> QED BY <1>2, <1>5, <2>2, <2>3, Unmoved
  <1> HIDE DEF list, task, gone
  <1> QED BY <1>2, <1>3, <1>4, <1>5, CommandReflects

(* A message the user can edit is not the peer's. *)
LEMMA OwnIsNotPeers ==
  ASSUME MirrorInv, NEW id \in ShownIds, ShownFor(id).message.author = "me",
         NEW v, Course(v, shown, events, id)
  PROVE  id \notin PeerIds
  <1>1. shown \in Seq(Row) /\ events \in Seq(WindowEvent)
    BY DEF MirrorInv, MirrorTyped
  <1>2. PICK k \in DOMAIN shown : shown[k].id = id
    BY DEF ShownIds
  <1>3. v[0] \in View /\ Shows(shown, id, v[0])
    BY <1>1, CourseViews
  <1>4. PICK i \in DOMAIN shown :
          RowShows(shown[i], id, v[0]) /\ \A j \in DOMAIN shown : shown[j].id = id => j = i
    BY <1>2, <1>3 DEF Shows
  <1>5. ShownFor(id) = shown[i]
    <2>1. DOMAIN shown = 1..Len(shown) /\ Len(shown) \in Nat
      BY <1>1, LenProperties
    <2>2. shown[i].id = id /\ \A j \in 1..(i - 1) : shown[j].id # id
      BY <1>4, <2>1 DEF RowShows
    <2> QED BY <1>4, <2>2 DEF ShownFor
  <1> QED BY <1>4, <1>5 DEF RowShows, Alike

LEMMA EditMessageReflects ==
  ASSUME MirrorInv, ReflectInv, NEW id \in MirrorIds, EditMessage(id)
  PROVE  ReflectInv'
  <1> DEFINE list == InList(shown, id, Edited)
             task == {[do |-> "edit", id |-> id]}
             gone == {}
  <1>1. shown \in Seq(Row) /\ events \in Seq(WindowEvent)
    BY DEF MirrorInv, MirrorTyped
  <1>2. Command(list, task, gone)
    BY DEF EditMessage
  <1>3. IsFiniteSet(task) /\ \A t \in task : t.do = "edit" /\ t.id = id
    <2>1. IsFiniteSet(task)
      BY FS_Singleton
    <2>2. \A t \in task : t.do = "edit" /\ t.id = id
      OBVIOUS
    <2> QED BY <2>1, <2>2
  <1>4. gone \in SUBSET IdsOf(shown) /\ \A p : p \notin gone
    OBVIOUS
  <1>5. ~raced => id \notin PeerIds
    <2> SUFFICES ASSUME ~raced, id \in PeerIds PROVE FALSE
      OBVIOUS
    <2>1. window # "closed"
      BY <1>2 DEF Command
    <2>2. PICK v : Course(v, shown, events, id)
      BY <2>1 DEF ReflectInv, AllForeseen, Foreseen
    <2>3. id \in ShownIds /\ ShownFor(id).message.author = "me"
      BY DEF EditMessage
    <2> QED BY <2>2, <2>3, OwnIsNotPeers
  <1>6. ASSUME ~raced, NEW p \in PeerIds, NEW v, Course(v, shown, events, p),
               Agrees(p, v[Len(events)])
        PROVE  Redrawn(p, list)
    <2>1. v[0] \in View /\ Shows(shown, p, v[0])
      BY <1>1, <1>6, CourseViews
    <2>2. Shows(list, p, IF id = p THEN Reworded(v[0]) ELSE v[0])
      BY <1>1, <2>1, EditedShows
    <2> HIDE DEF list, task, gone
    <2>3. Shows(list, p, v[0])
      BY <1>5, <1>6, <2>2
    <2>4. p \notin gone /\ \A t \in task : ~(t.do = "pin" /\ t.id = p)
      BY <1>3, <1>4
    <2> QED BY <1>2, <1>6, <2>3, <2>4, Unmoved
  <1> HIDE DEF list, task, gone
  <1> QED BY <1>2, <1>3, <1>4, <1>5, <1>6, CommandReflects

LEMMA PinMessageReflects ==
  ASSUME MirrorInv, ReflectInv, NEW id \in MirrorIds, PinMessage(id)
  PROVE  ReflectInv'
  <1> DEFINE list == InList(shown, id, PinToggled)
             turning == [do |-> "pin", id |-> id, step |-> commands]
             task == {turning}
             gone == {}
  <1>1. shown \in Seq(Row) /\ events \in Seq(WindowEvent) /\ commands \in Nat
    BY DEF MirrorInv, MirrorTyped
  <1>2. Command(list, task, gone)
    BY DEF PinMessage
  <1>3. turning.do = "pin" /\ turning.id = id /\ turning.step = commands
    OBVIOUS
  <1>4. gone \in SUBSET IdsOf(shown) /\ \A p : p \notin gone
    OBVIOUS
  <1>5. id \in IdsOf(shown) /\ id \in WindowIds \cup Had
    BY ShownIdsAreIds DEF PinMessage, MirrorInv, KnownToDatabase
  <1>6. turning \notin mirrorTasks
    <2>1. \A t \in mirrorTasks : t.do = "pin" => t.step < commands
      BY DEF ReflectInv, TasksKnown
    <2> QED BY <1>1, <1>3, <2>1
  <1>7. /\ mirrorTasks' = mirrorTasks \cup {turning} /\ hidden' = hidden
        /\ store' = store /\ unannounced' = unannounced /\ window = "open"
    BY DEF PinMessage, Command, databaseVars
  <1> HIDE DEF turning
  <1>8. IsFiniteSet(task)
    BY FS_Singleton
  <1>9. ASSUME ~raced, NEW p \in PeerIds, NEW v, Course(v, shown, events, p),
               Agrees(p, v[Len(events)])
        PROVE  Redrawn(p, list)
    <2>1. v[0] \in View /\ v[Len(events)] \in View /\ Shows(shown, p, v[0])
      BY <1>1, <1>9, CourseViews
    <2>2. Shows(list, p, IF id = p THEN Turned(v[0]) ELSE v[0])
      BY <1>1, <2>1, PinnedShows
    <2> HIDE DEF list, gone
    <2>3. CASE id # p
      <3>1. Shows(list, p, v[0])
        BY <2>2, <2>3
      <3>2. \A t \in task : ~(t.do = "pin" /\ t.id = p)
        BY <1>3, <2>3
      <3> HIDE DEF task
      <3> QED BY <1>2, <1>4, <1>9, <3>1, <3>2, Unmoved
    <2>4. CASE id = p
      <3>1. p \notin Announced(events) /\ p # unannounced /\ p \notin hidden
        BY <1>5, <1>7, <1>9, <2>4 DEF MirrorInv, NewsIsNew, News
      <3>2. Shows(list, p, Turned(v[0]))
        BY <2>2, <2>4
      <3>3. PICK u : Course(u, list, events, p) /\ u[Len(events)] = Turned(v[Len(events)])
        BY <1>1, <1>9, <3>1, <3>2, CoursePinned
      <3>4. Pins(p)' = Pins(p) \cup {turning} /\ turning \notin Pins(p) /\ IsFiniteSet(Pins(p))
        <4>1. IsFiniteSet(mirrorTasks)
          BY DEF ReflectInv, TasksKnown
        <4>2. IsFiniteSet(Pins(p))
          BY <4>1, FS_Subset DEF Pins
        <4> QED BY <1>3, <1>6, <1>7, <2>4, <4>2 DEF Pins
      <3>5. Even(Pins(p)') <=> ~Even(Pins(p))
        BY <3>4, EvenMore
      <3>6. ASSUME NEW w \in View, w = u[Len(events)] PROVE Agrees(p, w)'
        <4>1. PICK x \in View : x = v[Len(events)]
          BY <2>1
        <4>2. Agrees(p, x) /\ w = Turned(x)
          BY <1>9, <3>3, <3>6, <4>1
        <4>3. w.here = x.here /\ w.text = x.text /\ w.pinned = ~x.pinned /\ x.pinned \in BOOLEAN
          BY <4>2 DEF View, Turned
        <4>4. CASE p \notin DOMAIN store
          BY <1>7, <4>2, <4>3, <4>4 DEF Agrees
        <4>5. CASE p \in DOMAIN store
          <5>1. /\ x.here /\ x.text = store[p].text
                /\ (x.pinned = store[p].pinned) <=> Even(Pins(p))
            BY <3>1, <4>2, <4>5 DEF Agrees
          <5>2. store[p].pinned \in BOOLEAN
            BY <4>5 DEF MirrorInv, MirrorTyped, StoreTyped, StoredMessages, Messages
          <5>3. (w.pinned = store[p].pinned) <=> ~(x.pinned = store[p].pinned)
            BY <4>3, <5>2
          <5> QED BY <1>7, <3>1, <3>5, <4>3, <4>5, <5>1, <5>3 DEF Agrees
        <4> QED BY <4>4, <4>5
      <3> QED BY <3>3, <3>6 DEF Redrawn
    <2> QED BY <2>3, <2>4
  <1>10. \A t \in task : t.do = "pin" /\ t.id = id /\ t.step = commands
    BY <1>3
  <1> HIDE DEF list, task, gone
  <1> QED BY <1>2, <1>4, <1>5, <1>8, <1>9, <1>10, CommandReflects

LEMMA DeletionReflects ==
  ASSUME MirrorInv, ReflectInv, NEW id \in MirrorIds, DeleteMessage(id) \/ DeleteEveryone(id)
  PROVE  ReflectInv'
  <1> DEFINE list == Without(shown, {id})
             delete == [do |-> "delete", id |-> id]
             everyone == [do |-> "everyone", id |-> id]
             gone == {id}
  <1>1. shown \in Seq(Row) /\ events \in Seq(WindowEvent)
    BY DEF MirrorInv, MirrorTyped
  <1>2. PICK task : task \in {{delete}, {delete, everyone}} /\ Command(list, task, gone)
    BY DEF DeleteMessage, DeleteEveryone
  <1>3. gone \in SUBSET IdsOf(shown)
    BY ShownIdsAreIds DEF DeleteMessage, DeleteEveryone
  <1>4. /\ \A t \in task : t.do \in {"delete", "everyone"} /\ t.id = id
        /\ \E t \in task : t.do = "delete" /\ t.id = id
    <2>1. delete.do = "delete" /\ delete.id = id /\ everyone.do = "everyone" /\ everyone.id = id
      OBVIOUS
    <2> HIDE DEF delete, everyone
    <2>2. delete \in task /\ task \subseteq {delete, everyone}
      BY <1>2
    <2> QED BY <2>1, <2>2
  <1>5. IsFiniteSet(task)
    <2> HIDE DEF delete, everyone
    <2>1. IsFiniteSet({delete})
      BY FS_Singleton
    <2>2. IsFiniteSet({delete} \cup {everyone})
      BY <2>1, FS_AddElement
    <2> QED BY <1>2, <2>1, <2>2
  <1>6. ASSUME ~raced, NEW p \in PeerIds, NEW v, Course(v, shown, events, p),
               Agrees(p, v[Len(events)])
        PROVE  Redrawn(p, list)
    <2>1. v[0] \in View /\ Shows(shown, p, v[0])
      BY <1>1, <1>6, CourseViews
    <2>2. Shows(list, p, IF p \in {id} THEN Vanished(v[0]) ELSE v[0])
      BY <1>1, <2>1, WithoutShows
    <2> HIDE DEF list
    <2>3. CASE p = id
      <3>1. Shows(list, p, Vanished(v[0]))
        BY <2>2, <2>3
      <3>2. p \in gone
        BY <2>3
      <3> HIDE DEF gone
      <3> QED BY <1>2, <1>3, <1>4, <1>6, <2>3, <3>1, <3>2, Taken
    <2>4. CASE p # id
      <3>1. Shows(list, p, v[0])
        BY <2>2, <2>4
      <3>2. p \notin gone /\ \A t \in task : ~(t.do = "pin" /\ t.id = p)
        BY <1>4, <2>4
      <3> HIDE DEF gone
      <3> QED BY <1>2, <1>6, <3>1, <3>2, Unmoved
    <2> QED BY <2>3, <2>4
  <1>7. id \in gone
    OBVIOUS
  <1> HIDE DEF list, gone
  <1> QED BY <1>2, <1>3, <1>4, <1>5, <1>6, <1>7, CommandReflects

LEMMA ClearHistoryReflects ==
  ASSUME MirrorInv, ReflectInv, ClearHistory
  PROVE  ReflectInv'
  <1> DEFINE list == <<>>
             task == {[do |-> "clear", id |-> "none", seen |-> hidden \cup ShownIds]}
             gone == IdsOf(shown)
  <1>1. Command(list, task, gone) /\ events \in Seq(WindowEvent) /\ shown \in Seq(Row)
    BY ShownIdsAreIds DEF ClearHistory, MirrorInv, MirrorTyped
  <1>2. \A t \in task : t.do = "clear" /\ t.seen = hidden \cup gone
    BY ShownIdsAreIds
  <1>3. IsFiniteSet(task) /\ \E t \in task : TRUE
    BY FS_Singleton
  <1>4. ASSUME ~raced, NEW p \in PeerIds, NEW v, Course(v, shown, events, p),
               Agrees(p, v[Len(events)])
        PROVE  Redrawn(p, list)
    <2>1. v[0] \in View /\ Shows(shown, p, v[0])
      BY <1>1, <1>4, CourseViews
    <2>2. \A w : ~w.here => Shows(list, p, w)
      BY DEF Shows
    <2>3. p \in gone <=> v[0].here
      BY <2>1 DEF Shows, IdsOf, RowShows
    <2> HIDE DEF list, task
    <2>4. CASE p \in gone
      <3>1. ~Vanished(v[0]).here
        BY <2>1 DEF View, Vanished
      <3>2. Shows(list, p, Vanished(v[0]))
        BY <2>2, <3>1
      <3>3. gone \in SUBSET IdsOf(shown)
        OBVIOUS
      <3> HIDE DEF gone
      <3> QED BY <1>1, <1>2, <1>3, <1>4, <2>4, <3>2, <3>3, Taken
    <2>5. CASE p \notin gone
      <3>1. Shows(list, p, v[0])
        BY <2>2, <2>3, <2>5
      <3>2. \A t \in task : ~(t.do = "pin" /\ t.id = p)
        BY <1>2
      <3> HIDE DEF gone
      <3> QED BY <1>1, <1>4, <2>5, <3>1, <3>2, Unmoved
    <2> QED BY <2>4, <2>5
  <1>5. gone \in SUBSET IdsOf(shown)
    OBVIOUS
  <1> HIDE DEF list, task, gone
  <1> QED BY <1>1, <1>2, <1>3, <1>4, <1>5, CommandReflects

LEMMA OpenWindowReflects ==
  ASSUME MirrorInv, ReflectInv, OpenWindow
  PROVE  ReflectInv'
  <1> DEFINE q == SetToSeq(DOMAIN store)
             n == Cardinality(DOMAIN store)
             r == [i \in DOMAIN q |-> ShownEntry(q[i], store[q[i]])]
  <1>1. StoreTyped(store) /\ Had' = Had /\ mirrorTasks' = mirrorTasks
        /\ hidden' = {} /\ mirrorTasks = {} /\ store' = store /\ unannounced' = unannounced
        /\ events' = events /\ commands' = commands /\ shown' = r
    BY DEF OpenWindow, databaseVars, MirrorInv, MirrorTyped, Had, ReflectInv, TasksKnown
  <1>2. /\ q \in [1..n -> DOMAIN store]
        /\ \A i, j \in 1..n : q[i] = q[j] => i = j
        /\ \A x \in DOMAIN store : \E i \in 1..n : q[i] = x
    BY <1>1, SetToSeqLists DEF StoreTyped
  <1> HIDE DEF q, n
  <1>3. DOMAIN q = 1..n
    BY <1>2
  <1>4. DOMAIN r = 1..n /\ \A i \in 1..n : r[i].id = q[i] /\ r[i].message = store[q[i]]
    BY <1>2, <1>3 DEF ShownEntry
  <1> HIDE DEF r
  <1>5. TasksKnown' /\ TasksMirrored'
    BY <1>1 DEF TasksMirrored, ReflectInv, TasksKnown
  <1>6. AllForeseen'
    <2> SUFFICES ASSUME ~raced', NEW p \in PeerIds PROVE Foreseen(p)'
      BY DEF AllForeseen
    <2>1. unannounced = "none" /\ events = <<>>
      BY DEF OpenWindow
    <2>2. "none" \notin PeerIds /\ Pins(p)' = {} /\ Even({})
      BY <1>1, FS_EmptySet, MirrorAssumption DEF Pins, Even
    <2>3. PICK w \in View :
            /\ w.here <=> p \in DOMAIN store
            /\ p \in DOMAIN store => w.text = store[p].text /\ w.pinned = store[p].pinned
      <3>1. CASE p \in DOMAIN store
        <4>1. [here |-> TRUE, text |-> store[p].text, pinned |-> store[p].pinned] \in View
          BY <1>1, <3>1 DEF View, StoreTyped, StoredMessages, Messages
        <4> QED BY <3>1, <4>1
      <3>2. CASE p \notin DOMAIN store
        <4>1. [here |-> FALSE, text |-> "sent", pinned |-> FALSE] \in View
          BY DEF View
        <4> QED BY <3>2, <4>1
      <3> QED BY <3>1, <3>2
    <2>4. Shows(r, p, w)
      <3>1. CASE p \in DOMAIN store
        <4>1. PICK i \in 1..n : q[i] = p
          BY <1>2, <3>1
        <4>2. store[p].author = "peer"
          BY <1>1, <3>1 DEF StoreTyped
        <4>3. RowShows(r[i], p, w)
          BY <1>4, <2>3, <3>1, <4>1, <4>2 DEF RowShows, Alike
        <4>4. \A j \in DOMAIN r : r[j].id = p => j = i
          BY <1>2, <1>4, <4>1
        <4> QED BY <1>4, <2>3, <3>1, <4>3, <4>4 DEF Shows
      <3>2. CASE p \notin DOMAIN store
        <4>1. \A j \in DOMAIN r : r[j].id # p
          BY <1>2, <1>4, <3>2
        <4> QED BY <2>3, <3>2, <4>1 DEF Shows
      <3> QED BY <3>1, <3>2
    <2>5. Agrees(p, w)'
      BY <1>1, <2>1, <2>2, <2>3 DEF Agrees
    <2>6. PICK v : Course(v, r, <<>>, p) /\ v[Len(<<>>)] = w
      BY <2>4, CourseEmpty
    <2>7. Course(v, shown, events, p)' /\ (v[Len(events)])' = w
      BY <1>1, <2>1, <2>6
    <2> QED BY <2>5, <2>7 DEF Foreseen
  <1> QED BY <1>5, <1>6 DEF ReflectInv

LEMMA CloseWindowReflects ==
  ASSUME ReflectInv, CloseWindow
  PROVE  ReflectInv'
  BY FS_EmptySet DEF CloseWindow, ReflectInv, TasksKnown, TasksMirrored, AllForeseen

LEMMA HandleIncomingEventsReflects ==
  ASSUME MirrorInv, ReflectInv, HandleIncomingEvents
  PROVE  ReflectInv'
  <1> DEFINE r == FoldLeft(EventHandled, shown, events)
  <1>1. /\ Had' = Had /\ mirrorTasks' = mirrorTasks /\ hidden' = hidden /\ store' = store
        /\ unannounced' = unannounced /\ events' = <<>> /\ commands' = commands /\ shown' = r
        /\ raced' = raced /\ window # "closed" /\ window' # "closed"
        /\ shown \in Seq(Row) /\ events \in Seq(WindowEvent)
    BY DEF HandleIncomingEvents, databaseVars, MirrorInv, MirrorTyped, Had
  <1>2. TasksKnown' /\ TasksMirrored'
    BY <1>1 DEF TasksMirrored, ReflectInv, TasksKnown
  <1>3. AllForeseen'
    <2> SUFFICES ASSUME ~raced, NEW p \in PeerIds PROVE Foreseen(p)'
      BY <1>1 DEF AllForeseen
    <2>1. PICK v : Course(v, shown, events, p) /\ Agrees(p, v[Len(events)])
      BY <1>1 DEF ReflectInv, AllForeseen, Foreseen
    <2>2. PICK w \in View : w = v[Len(events)]
      BY <1>1, <2>1, CourseViews
    <2>3. Shows(r, p, w)
      BY <1>1, <2>1, <2>2, CourseEnds
    <2> HIDE DEF r
    <2>4. PICK u : Course(u, r, <<>>, p) /\ u[Len(<<>>)] = w
      BY <2>3, CourseEmpty
    <2>5. Pins(p)' = Pins(p)
      BY <1>1 DEF Pins
    <2>6. Agrees(p, w)
      BY <2>1, <2>2
    <2>7. Agrees(p, w)'
      BY <1>1, <2>5, <2>6 DEF Agrees
    <2>8. Course(u, shown, events, p)' /\ (u[Len(events)])' = w
      BY <1>1, <2>4
    <2> QED BY <2>7, <2>8 DEF Foreseen
  <1> QED BY <1>2, <1>3 DEF ReflectInv

LEMMA ReflectInitInv == MirrorInit => ReflectInv
  BY FS_EmptySet DEF MirrorInit, ReflectInv, TasksKnown, TasksMirrored, AllForeseen

LEMMA ReflectStepInv == MirrorInv /\ ReflectInv /\ [MirrorNext]_mirrorVars => ReflectInv'
  <1> SUFFICES ASSUME MirrorInv, ReflectInv, [MirrorNext]_mirrorVars PROVE ReflectInv'
    OBVIOUS
  <1>1. CASE OpenWindow \/ CloseWindow \/ HandleIncomingEvents \/ ClearHistory \/ Announce
    BY <1>1, OpenWindowReflects, CloseWindowReflects, HandleIncomingEventsReflects,
       ClearHistoryReflects, AnnounceReflects
  <1>2. CASE \E id \in WindowIds, own \in StoreIds, saved \in BOOLEAN : SendMessage(id, own, saved)
    BY <1>2, SendMessageReflects
  <1>3. CASE \E id \in MirrorIds, e \in Emojis : ReactMessage(id, e)
    BY <1>3, ReactMessageReflects
  <1>4. CASE \E id \in MirrorIds :
               EditMessage(id) \/ PinMessage(id) \/ DeleteMessage(id) \/ DeleteEveryone(id)
    BY <1>4, EditMessageReflects, PinMessageReflects, DeletionReflects
  <1>5. CASE \E task \in mirrorTasks :
               \/ \E dropped \in BOOLEAN : RunSend(task, dropped)
               \/ RunChange(task) \/ RunDelete(task) \/ RunDeleteEveryone(task) \/ RunClear(task)
    <2> PICK task \in mirrorTasks :
               \/ \E dropped \in BOOLEAN : RunSend(task, dropped)
               \/ RunChange(task) \/ RunDelete(task) \/ RunDeleteEveryone(task) \/ RunClear(task)
      BY <1>5
    <2>1. CASE \E dropped \in BOOLEAN : RunSend(task, dropped)
      BY <2>1, RunSendReflects
    <2>2. CASE RunChange(task)
      BY <2>2, RunChangeReflects
    <2>3. CASE RunDelete(task)
      BY <2>3, RunDeleteReflects
    <2>4. CASE RunDeleteEveryone(task)
      BY <2>4, RunDeleteEveryoneReflects
    <2>5. CASE RunClear(task)
      BY <2>5, RunClearReflects
    <2> QED BY <2>1, <2>2, <2>3, <2>4, <2>5
  <1>6. CASE PollStep
    <2>1. StoreIds \cup PeerIds \subseteq MirrorIds
      BY DEF MirrorIds
    <2> QED BY <1>6, <2>1, PollMessageReflects, PollEditReflects, PollReceiptReflects,
               PollReactionReflects, PollTombstoneReflects DEF PollStep
  <1>7. CASE UNCHANGED mirrorVars
    <2>1. UNCHANGED <<store, deleted, unannounced, events, window, shown, mirrorTasks, hidden,
                      raced, commands>>
      BY <1>7 DEF mirrorVars
    <2>2. Had' = Had /\ \A p : Pins(p)' = Pins(p)
      BY <2>1 DEF Had, Pins
    <2>3. TasksKnown' /\ TasksMirrored'
      BY <2>1, <2>2 DEF ReflectInv, TasksKnown, TasksMirrored
    <2>4. \A p, w : Agrees(p, w)' <=> Agrees(p, w)
      BY <2>1, <2>2 DEF Agrees
    <2>5. AllForeseen'
      BY <2>1, <2>4 DEF ReflectInv, AllForeseen, Foreseen
    <2> QED BY <2>3, <2>5 DEF ReflectInv
  <1> QED BY <1>1, <1>2, <1>3, <1>4, <1>5, <1>6, <1>7 DEF MirrorNext

LEMMA ReflectInvHolds == MirrorSpec => [](MirrorInv /\ ReflectInv)
  <1>1. MirrorInit => MirrorInv /\ ReflectInv
    BY MirrorInitInv, ReflectInitInv
  <1>2. MirrorInv /\ ReflectInv /\ [MirrorNext]_mirrorVars => (MirrorInv /\ ReflectInv)'
    BY MirrorStepInv, ReflectStepInv
  <1> QED BY <1>1, <1>2, PTL DEF MirrorSpec

(* Once no event and no task is left, the window shows the received        *)
(* messages the database has, each once, with its text and its pin.        *)
THEOREM MirrorsReceivedHolds == MirrorSpec => []MirrorsReceived
  <1>1. MirrorInv /\ ReflectInv => MirrorsReceived
    <2> SUFFICES ASSUME MirrorInv, ReflectInv, window = "open", events = <<>>, mirrorTasks = {},
                        unannounced = "none", ~raced
                 PROVE  /\ ShownIds \cap PeerIds = DOMAIN store \cap PeerIds
                        /\ \A id \in ShownIds \cap PeerIds :
                             /\ ShownFor(id).message.text = store[id].text
                             /\ ShownFor(id).message.pinned = store[id].pinned
                             /\ Cardinality({i \in DOMAIN shown : shown[i].id = id}) = 1
      BY DEF MirrorsReceived
    <2>1. ASSUME NEW p \in PeerIds
          PROVE  \E w \in View : Shows(shown, p, w) /\ Agrees(p, w)
      <3>1. PICK v : Course(v, shown, events, p) /\ Agrees(p, v[Len(events)])
        BY DEF ReflectInv, AllForeseen, Foreseen
      <3>2. v[0] \in View /\ Shows(shown, p, v[0])
        BY <3>1, CourseViews DEF MirrorInv, MirrorTyped
      <3>3. Len(events) = 0
        OBVIOUS
      <3> QED BY <3>1, <3>2, <3>3
    <2>2. ASSUME NEW p \in PeerIds, NEW w \in View, Agrees(p, w)
          PROVE  /\ w.here <=> p \in DOMAIN store
                 /\ w.here => w.text = store[p].text /\ w.pinned = store[p].pinned
      <3>1. Pins(p) = {} /\ Even({}) /\ p # unannounced
        BY FS_EmptySet, MirrorAssumption DEF Pins, Even
      <3> QED BY <2>2, <3>1 DEF Agrees
    <2>3. ASSUME NEW p \in PeerIds, NEW w \in View, Shows(shown, p, w)
          PROVE  /\ w.here <=> p \in ShownIds
                 /\ w.here =>
                      /\ ShownFor(p).message.text = w.text
                      /\ ShownFor(p).message.pinned = w.pinned
                      /\ Cardinality({i \in DOMAIN shown : shown[i].id = p}) = 1
      <3>1. CASE ~w.here
        BY <2>3, <3>1 DEF Shows, ShownIds
      <3>2. CASE w.here
        <4>1. PICK i \in DOMAIN shown :
                RowShows(shown[i], p, w) /\ \A j \in DOMAIN shown : shown[j].id = p => j = i
          BY <2>3, <3>2 DEF Shows
        <4>2. shown[i].id = p /\ p \in ShownIds
          BY <4>1 DEF RowShows, ShownIds
        <4>3. ShownFor(p) = shown[i]
          <5>1. DOMAIN shown = 1..Len(shown) /\ Len(shown) \in Nat
            BY LenProperties DEF MirrorInv, MirrorTyped
          <5>2. \A j \in 1..(i - 1) : shown[j].id # p
            BY <4>1, <5>1
          <5> QED BY <4>1, <4>2, <5>2 DEF ShownFor
        <4>4. {j \in DOMAIN shown : shown[j].id = p} = {i}
          BY <4>1, <4>2
        <4>5. Cardinality({i}) = 1
          BY FS_Singleton
        <4> QED BY <3>2, <4>1, <4>2, <4>3, <4>4, <4>5 DEF RowShows, Alike
      <3> QED BY <3>1, <3>2
    <2>4. ASSUME NEW p \in PeerIds
          PROVE  /\ p \in ShownIds <=> p \in DOMAIN store
                 /\ p \in ShownIds =>
                      /\ ShownFor(p).message.text = store[p].text
                      /\ ShownFor(p).message.pinned = store[p].pinned
                      /\ Cardinality({i \in DOMAIN shown : shown[i].id = p}) = 1
      <3>1. PICK w \in View : Shows(shown, p, w) /\ Agrees(p, w)
        BY <2>1
      <3>2. /\ w.here <=> p \in DOMAIN store
            /\ w.here => w.text = store[p].text /\ w.pinned = store[p].pinned
        BY <2>2, <3>1
      <3>3. /\ w.here <=> p \in ShownIds
            /\ w.here =>
                 /\ ShownFor(p).message.text = w.text
                 /\ ShownFor(p).message.pinned = w.pinned
                 /\ Cardinality({i \in DOMAIN shown : shown[i].id = p}) = 1
        BY <2>3, <3>1
      <3> QED BY <3>2, <3>3
    <2> QED BY <2>4
  <1> QED BY <1>1, ReflectInvHolds, PTL

(***************************************************************************)
(* The client as a whole.                                                  *)
(***************************************************************************)
(* What a step of one component does is a step of its specification, and   *)
(* no other component moves.                                               *)
THEOREM ClientComponentsKeepTheirSpecs ==
  ClientSpec =>
    /\ Spec
    /\ KeyStoreSpec
    /\ CallsSpec
    /\ AudioSpec
    /\ MirrorSpec
    /\ SessionSpec
  <1>1. ClientInit =>
          Init /\ KeyStoreInit /\ CallsInit /\ AudioInit /\ MirrorInit /\ SessionInit
    BY DEF ClientInit
  <1>2. [ClientNext]_clientVars =>
          /\ [Next]_vars /\ [KeyStoreNext]_keyVars /\ [CallsNext]_callVars
          /\ [AudioNext]_audioVars /\ [MirrorNext]_mirrorVars /\ [SessionNext]_sessionVars
    BY DEF ClientNext, clientVars, OutboxSteps, KeysSteps, CallsSteps, AudioSteps, MirrorSteps,
      SessionSteps
  <1> QED
    BY <1>1, <1>2, PTL DEF ClientSpec, Spec, KeyStoreSpec, CallsSpec, AudioSpec, MirrorSpec,
      SessionSpec

(* Every variable of the client has its type.                              *)
THEOREM ClientTyped == ClientSpec => []ClientTypeOK
  <1> QED
    BY ClientComponentsKeepTheirSpecs, TypeCorrect, KeyStoreTyped, CallsTyped, AudioTyped,
      MirrorTypeCorrect, SessionTyped, PTL DEF ClientTypeOK

(* The window mirrors the database: once nothing is under way it shows the *)
(* messages that came under the peer's own identifiers as they are there,  *)
(* and nothing the peer sends deletes or rewords one of the user's, but a  *)
(* message of its own with the same identifier.                            *)
THEOREM WindowMirrorsHolds == ClientSpec => WindowMirrors
  <1> QED
    BY ClientComponentsKeepTheirSpecs, MirrorsReceivedHolds, PeerLeavesMineAloneHolds, PTL
       DEF WindowMirrors

(* What the components promise holds of the client.                        *)
THEOREM ClientKeepsPromises ==
  ClientSpec =>
    /\ [](/\ NoSilentDrop /\ AccountIsReadable /\ CallsAgree /\ PlayedInOrder
          /\ DeletedStaysHidden /\ AwayMeansLocked)
    /\ WindowMirrors
  <1> QED
    BY ClientComponentsKeepTheirSpecs, NoSilentDropHolds, AccountIsReadableHolds, CallsAgreeHolds,
      PlayedInOrderHolds, DeletedStaysHiddenHolds, AwayMeansLockedHolds,
      WindowMirrorsHolds, PTL
=============================================================================
