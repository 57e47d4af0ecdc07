-------------------------------- MODULE Mirror --------------------------------
(***************************************************************************)
(* One conversation as the desktop window shows it and as the messenger    *)
(* keeps it.  The window (app.rs) holds a list of messages of its own,     *)
(* loaded once from the file; a command changes that list at once and      *)
(* spawns a task that repeats the change in the database (db.rs), and the  *)
(* poll loop (messenger.rs) changes the database and tells the window by   *)
(* an event.  Tasks run in any order; events are handled in order, all of  *)
(* them at the start of a frame.                                           *)
(*                                                                         *)
(* A message sent in the window gets one identifier there (WindowIds) and  *)
(* another in the messenger (StoreIds); a received one has the identifier  *)
(* its sender chose.                                                       *)
(***************************************************************************)
EXTENDS Integers, Sequences, FiniteSets, SequencesExt, Filters

CONSTANTS WindowIds, StoreIds, PeerIds, Emojis,
          MaxCommands, \* bound: the commands a user gives
          MaxEvents    \* bound: the events waiting for the next frame

(* Identifiers are random: no two parties draw the same one.               *)
ASSUME MirrorAssumption ==
  /\ WindowIds \cap StoreIds = {}
  /\ WindowIds \cap PeerIds = {}
  /\ StoreIds \cap PeerIds = {}
  /\ "none" \notin WindowIds \cup StoreIds \cup PeerIds
  /\ MaxCommands \in Nat /\ MaxEvents \in Nat

VARIABLES
  store,       \* the messages of the database: id -> message
  deleted,     \* its deleted_message_ids
  pendingTombstones, \* identifiers the peer deleted, arrived or not
  unannounced, \* the received message stored and not yet sent as an event
  events,      \* the channel to the window
  window,      \* "closed", "loaded" (no frame drawn yet) or "open"
  shown,       \* the window's list
  mirrorTasks, \* the spawned tasks that have not run
  retracted,   \* the messages a tombstone was sent to the peer for
  hidden,      \* history: what the user deleted in this window
  raced,       \* history: the window loaded, or cleared, past an event, or
               \* a copy replaced a received message that had changed
  commands     \* bound: commands given

mirrorVars == <<store, deleted, pendingTombstones, unannounced, events, window, shown,
                mirrorTasks, retracted, hidden, raced, commands>>

MirrorIds == WindowIds \cup StoreIds \cup PeerIds
NoReaction == [user \in {"me", "peer"} |-> {}]
MirrorMessage(author, done) ==
  [author |-> author, text |-> "sent", delivered |-> done, pinned |-> FALSE,
   reactions |-> NoReaction]
Stored(id) == id \in DOMAIN store
ShownIds == {shown[i].id : i \in DOMAIN shown}
ShownFor(id) == shown[CHOOSE i \in DOMAIN shown :
                        shown[i].id = id /\ \A j \in 1..(i - 1) : shown[j].id # id]
ShownEntry(id, message) == [id |-> id, message |-> message]

(* iter_mut().find(|m| m.id == id) and a change of what it found           *)
InList(list, id, Changed(_)) ==
  LET first == {i \in DOMAIN list : list[i].id = id /\ \A j \in 1..(i - 1) : list[j].id # id}
  IN  [i \in DOMAIN list |->
         IF i \in first THEN [list[i] EXCEPT !.message = Changed(@)] ELSE list[i]]
InStore(id, Changed(_)) == IF Stored(id) THEN [store EXCEPT ![id] = Changed(@)] ELSE store
Keeping(f, ids) == [id \in DOMAIN f \cap ids |-> f[id]]
Without(list, ids) == Picked(list, {entry \in ToSet(list) : entry.id \notin ids})

Edited(m) == [m EXCEPT !.text = "edited"]
PinToggled(m) == [m EXCEPT !.pinned = ~@]
Delivered(m) == [m EXCEPT !.delivered = TRUE]
(* One reaction of a user per message; the window only adds the peer's.    *)
Reacted(m, user, emoji) == [m EXCEPT !.reactions[user] = {emoji}]
Toggled(m, emoji) == [m EXCEPT !.reactions["me"] = IF emoji \in @ THEN {} ELSE {emoji}]
PeerReacted(m, emoji) == [m EXCEPT !.reactions["peer"] = @ \cup {emoji}]

MirrorTypeOK ==
  /\ DOMAIN store \subseteq StoreIds \cup PeerIds
  /\ deleted \subseteq MirrorIds
  /\ DOMAIN store \cap deleted = {}
  /\ \A id \in DOMAIN store : \A user \in {"me", "peer"} :
       Cardinality(store[id].reactions[user]) <= 1
  /\ unannounced \in PeerIds \cup {"none"}
  /\ window \in {"closed", "loaded", "open"}
  /\ ShownIds \subseteq MirrorIds
  /\ commands \in 0..MaxCommands

MirrorInit ==
  /\ store = << >> /\ deleted = {} /\ pendingTombstones = {}
  /\ unannounced = "none" /\ events = << >>
  /\ window = "closed" /\ shown = << >> /\ mirrorTasks = {}
  /\ retracted = {} /\ hidden = {} /\ raced = FALSE /\ commands = 0

databaseVars == <<store, deleted, pendingTombstones, unannounced, retracted>>
windowVars == <<window, shown, mirrorTasks, hidden, raced, commands>>

---------------------------------------------------------------------------
(* The window *)

(* NodeXApp::new, after the poll loop was started with the channel         *)
OpenWindow ==
  /\ window = "closed"
  /\ window' = "loaded"
  /\ shown' = [i \in DOMAIN SetToSeq(DOMAIN store) |->
                 ShownEntry(SetToSeq(DOMAIN store)[i], store[SetToSeq(DOMAIN store)[i]])]
  /\ raced' = (unannounced # "none" \/ events # << >>)
  /\ UNCHANGED <<databaseVars, events, mirrorTasks, hidden, commands>>

(* Process end: the list, the channel and the unfinished tasks are gone.   *)
CloseWindow ==
  /\ window # "closed"
  /\ window' = "closed" /\ shown' = << >> /\ events' = << >> /\ mirrorTasks' = {}
  /\ unannounced' = "none" /\ hidden' = {} /\ raced' = FALSE
  /\ UNCHANGED <<store, deleted, pendingTombstones, retracted, commands>>

(* A fault to detect: a deleted message stays in the list.                 *)
EventHandledKeepingDeleted(list, event) ==
  CASE event.type = "received"  -> Append(list, ShownEntry(event.id, event.message))
    [] event.type = "edited"    -> InList(list, event.id, Edited)
    [] OTHER -> list

(* One event of handle_incoming_events                                     *)
EventHandled(list, event) ==
  CASE event.type = "received"  -> Append(list, ShownEntry(event.id, event.message))
    [] event.type = "delivered" -> InList(list, event.id, Delivered)
    [] event.type = "edited"    -> InList(list, event.id, Edited)
    [] event.type = "deleted"   -> Without(list, {event.id})
    [] event.type = "reaction"  ->
         InList(list, event.id, LAMBDA m : PeerReacted(m, event.emoji))

HandleIncomingEvents ==
  /\ window # "closed"
  /\ events # << >> \/ window = "loaded"
  /\ window' = "open"
  /\ shown' = FoldLeft(EventHandled, shown, events)
  /\ events' = << >>
  /\ UNCHANGED <<databaseVars, mirrorTasks, hidden, raced, commands>>

(* A command of the chat view: the list changes now, the task runs later.  *)
Command(list, task, gone) ==
  /\ window = "open" /\ commands < MaxCommands
  /\ commands' = commands + 1
  /\ shown' = list
  /\ mirrorTasks' = mirrorTasks \cup task
  /\ hidden' = hidden \cup gone
  /\ UNCHANGED <<databaseVars, events, window, raced>>

(* SendMessage, SendVoiceNote and SendFile: a message to Saved Messages is *)
(* delivered at once and no task is spawned for it.                        *)
SendMessage(id, own, saved) ==
  /\ id \notin ShownIds \cup hidden
  /\ ~Stored(own) /\ own \notin deleted /\ \A t \in mirrorTasks : t.id # own
  /\ Command(Append(shown, ShownEntry(id, MirrorMessage("me", saved))),
             IF saved THEN {} ELSE {[do |-> "send", id |-> own]}, {})

ReactMessage(id, emoji) ==
  /\ id \in ShownIds
  /\ Command(InList(shown, id, LAMBDA m : Toggled(m, emoji)),
             {[do |-> "react", id |-> id, emoji |-> emoji]}, {})

EditMessage(id) ==
  /\ id \in ShownIds /\ ShownFor(id).message.author = "me"
  /\ Command(InList(shown, id, Edited), {[do |-> "edit", id |-> id]}, {})

(* The step number keeps two tasks of the same kind apart.                 *)
PinMessage(id) ==
  /\ id \in ShownIds
  /\ Command(InList(shown, id, PinToggled), {[do |-> "pin", id |-> id, step |-> commands]}, {})

DeleteMessage(id) ==
  /\ id \in ShownIds
  /\ Command(Without(shown, {id}), {[do |-> "delete", id |-> id]}, {id})

(* Two tasks, one for the database and one for the peer.                   *)
DeleteEveryone(id) ==
  /\ id \in ShownIds
  /\ Command(Without(shown, {id}),
             {[do |-> "delete", id |-> id], [do |-> "everyone", id |-> id]}, {id})

(* ClearHistory and DeleteChat of the sidebar                              *)
ClearHistory ==
  Command(<< >>, {[do |-> "clear", id |-> "none", seen |-> hidden \cup ShownIds]}, ShownIds)

---------------------------------------------------------------------------
(* The tasks, in the messenger *)

Ran(task) ==
  /\ task \in mirrorTasks
  /\ mirrorTasks' = mirrorTasks \ {task}
  /\ UNCHANGED <<pendingTombstones, unannounced, events, window, shown, hidden, commands>>

(* send_message: refused when the contact is blocked or has no key         *)
RunSend(task, refused) ==
  /\ task.do = "send" /\ Ran(task)
  /\ store' = IF refused THEN store
              ELSE [i \in DOMAIN store \cup {task.id} |->
                      IF i = task.id THEN MirrorMessage("me", FALSE) ELSE store[i]]
  /\ UNCHANGED <<deleted, retracted, raced>>

RunChange(task) ==
  /\ task.do \in {"edit", "react", "pin"} /\ Ran(task)
  /\ store' = CASE task.do = "edit" -> InStore(task.id, Edited)
                [] task.do = "react" -> InStore(task.id, LAMBDA m : Reacted(m, "me", task.emoji))
                [] task.do = "pin" -> InStore(task.id, PinToggled)
  /\ UNCHANGED <<deleted, retracted, raced>>

(* delete_message                                                          *)
RunDelete(task) ==
  /\ task.do = "delete" /\ Ran(task)
  /\ deleted' = deleted \cup {task.id}
  /\ store' = Keeping(store, DOMAIN store \ {task.id})
  /\ UNCHANGED <<retracted, raced>>

(* delete_messages_for_everyone: deletes what it finds and authored, and   *)
(* sends a tombstone for that                                              *)
RunDeleteEveryone(task) ==
  LET own == {id \in {task.id} \cap DOMAIN store : store[id].author = "me"}
  IN  /\ task.do = "everyone" /\ Ran(task)
      /\ deleted' = deleted \cup own
      /\ store' = Keeping(store, DOMAIN store \ own)
      /\ retracted' = retracted \cup own
      /\ UNCHANGED raced

(* clear_chat                                                              *)
RunClear(task) ==
  /\ task.do = "clear" /\ Ran(task)
  /\ deleted' = deleted \cup DOMAIN store
  /\ store' = << >>
  /\ raced' = (raced \/ ~(DOMAIN store \subseteq task.seen))
  /\ UNCHANGED retracted

---------------------------------------------------------------------------
(* The poll loop *)

Listening == unannounced = "none" /\ UNCHANGED <<window, shown, mirrorTasks, hidden, commands, retracted>>
Polled == Listening /\ UNCHANGED raced
Tell(event) == Len(events) < MaxEvents /\ events' = Append(events, event)

(* The identifier of a message is the peer's choice: one of its own, or    *)
(* one the user's messages came to it with.                                *)
KnownToPeer(id) == id \in PeerIds \/ Stored(id)

(* A copy replaced a received message that had changed.                    *)
Replaced(id) == id \in PeerIds /\ Stored(id) /\ store'[id] # store[id]

(* A fault to detect: a copy of a message is announced like a new one.     *)
PollMessageAnnouncingCopies(id) ==
  /\ Listening
  /\ KnownToPeer(id) /\ id \notin deleted \cup pendingTombstones
  /\ store' = [i \in DOMAIN store \cup {id} |->
                 IF i = id THEN MirrorMessage("peer", TRUE) ELSE store[i]]
  /\ unannounced' = id
  /\ raced' = (raced \/ Replaced(id))
  /\ UNCHANGED <<deleted, pendingTombstones, events>>

(* A message, or a copy of it that the sender's outbox sent again:         *)
(* db.add_message puts it in the place of the one with its identifier,     *)
(* whoever wrote that, so that an edit, a pin and the reactions are lost;  *)
(* it is only announced when the database has a message more.              *)
PollMessage(id) ==
  /\ Listening
  /\ KnownToPeer(id) /\ id \notin deleted \cup pendingTombstones
  /\ store' = [i \in DOMAIN store \cup {id} |->
                 IF i = id THEN MirrorMessage("peer", TRUE) ELSE store[i]]
  /\ unannounced' = IF Stored(id) THEN "none" ELSE id
  /\ raced' = (raced \/ Replaced(id))
  /\ UNCHANGED <<deleted, pendingTombstones, events>>

Announce ==
  /\ unannounced # "none"
  /\ Tell([type |-> "received", id |-> unannounced, message |-> MirrorMessage("peer", TRUE)])
  /\ unannounced' = "none"
  /\ UNCHANGED <<store, deleted, pendingTombstones, retracted, windowVars>>

(* edit_message_by_author                                                  *)
(* A fault to detect: the author of an edit is not compared.               *)
EditByAnyone(id) == Stored(id)

EditByAuthor(id) == Stored(id) /\ store[id].author = "peer"
PollEdit(id) ==
  /\ Polled /\ EditByAuthor(id)
  /\ store' = InStore(id, Edited)
  /\ Tell([type |-> "edited", id |-> id])
  /\ UNCHANGED <<deleted, pendingTombstones, unannounced>>

(* add_reaction: one reaction of a user per message                        *)
PollReaction(id, emoji) ==
  /\ Polled /\ Stored(id)
  /\ store' = InStore(id, LAMBDA m : Reacted(m, "peer", emoji))
  /\ Tell([type |-> "reaction", id |-> id, emoji |-> emoji])
  /\ UNCHANGED <<deleted, pendingTombstones, unannounced>>

PollReceipt(id) ==
  /\ Polled /\ Stored(id) /\ store[id].author = "me" /\ ~store[id].delivered
  /\ store' = InStore(id, Delivered)
  /\ Tell([type |-> "delivered", id |-> id])
  /\ UNCHANGED <<deleted, pendingTombstones, unannounced>>

(* A tombstone: delete_messages_by_author, register_pending_tombstones     *)
DeletedByAuthor(ids) == {id \in ids \cap DOMAIN store : store[id].author = "peer"}
PollTombstone(id) ==
  LET gone == DeletedByAuthor({id})
  IN  /\ Polled /\ id \notin pendingTombstones
      /\ deleted' = deleted \cup gone
      /\ store' = Keeping(store, DOMAIN store \ gone)
      /\ pendingTombstones' = pendingTombstones \cup {id}
      /\ IF gone = {} THEN UNCHANGED events ELSE Tell([type |-> "deleted", id |-> id])
      /\ UNCHANGED unannounced

PollStep ==
  \E id \in StoreIds \cup PeerIds :
    \/ PollMessage(id) \/ PollEdit(id) \/ PollReceipt(id) \/ PollTombstone(id)
    \/ \E e \in Emojis : PollReaction(id, e)

MirrorNext ==
  \/ OpenWindow \/ CloseWindow \/ HandleIncomingEvents \/ ClearHistory
  \/ \E id \in WindowIds, own \in StoreIds, saved \in BOOLEAN : SendMessage(id, own, saved)
  \/ \E id \in MirrorIds, e \in Emojis : ReactMessage(id, e)
  \/ \E id \in MirrorIds :
       EditMessage(id) \/ PinMessage(id) \/ DeleteMessage(id) \/ DeleteEveryone(id)
  \/ \E task \in mirrorTasks :
       \/ \E refused \in BOOLEAN : RunSend(task, refused)
       \/ RunChange(task) \/ RunDelete(task) \/ RunDeleteEveryone(task) \/ RunClear(task)
  \/ Announce
  \/ PollStep

MirrorSpec == MirrorInit /\ [][MirrorNext]_mirrorVars

---------------------------------------------------------------------------
(* What the user deleted does not come back into the open window, whatever *)
(* copies, edits and events of it are still under way; after a window that *)
(* loaded the file past an event, or a clear that ran past one, it may.    *)
DeletedStaysHidden == ~raced => ShownIds \cap hidden = {}

(* Once no event and no task is left, the window shows the messages that   *)
(* came under the peer's own identifiers and are in the database, each     *)
(* once, with its text and its pin.                                        *)
MirrorsReceived ==
  (window = "open" /\ events = << >> /\ mirrorTasks = {} /\ unannounced = "none" /\ ~raced) =>
    /\ ShownIds \cap PeerIds = DOMAIN store \cap PeerIds
    /\ \A id \in ShownIds \cap PeerIds :
         /\ ShownFor(id).message.text = store[id].text
         /\ ShownFor(id).message.pinned = store[id].pinned
         /\ Cardinality({i \in DOMAIN shown : shown[i].id = id}) = 1

(* Nothing the peer sends deletes a message of the user, rewords it or     *)
(* gives it another author, but a message of its own with the same         *)
(* identifier: no edit, tombstone, receipt or reaction, in whatever order  *)
(* they come (edit_message_by_author, delete_messages_by_author).          *)
PeerLeavesMineAlone ==
  [][PollStep => \A id \in DOMAIN store :
       store[id].author = "me" =>
         \/ PollMessage(id)
         \/ /\ id \in DOMAIN store' /\ store'[id].author = "me"
            /\ store'[id].text = store[id].text]_mirrorVars

(* Once no event and no task is left, the window and the database name the *)
(* same author of a message: not so once a peer's message took the place   *)
(* of the user's, which no event tells the window.                         *)
AuthorsMirrored ==
  (window = "open" /\ events = << >> /\ mirrorTasks = {} /\ unannounced = "none" /\ ~raced) =>
    \A id \in ShownIds \cap DOMAIN store : ShownFor(id).message.author = store[id].author

(* A message of the user in the database that the user deleted "for        *)
(* everyone" is retracted once the tasks are done: its tombstone was sent. *)
EveryoneIsTold ==
  [][\A task \in mirrorTasks :
       (task.do = "everyone" /\ task \notin mirrorTasks' /\ window' = "open" /\ task.id \in StoreIds)
         => task.id \in retracted']_mirrorVars
=============================================================================
