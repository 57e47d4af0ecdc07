------------------------------ MODULE Session ------------------------------
(***************************************************************************)
(* The desktop window around the messenger: onboarding with its recovery   *)
(* words, the PIN lock and its timer, and the identity the window shows.   *)
(* Each frame runs the same program: the timer is checked, then activity   *)
(* is noted, then one screen is drawn and, on top of it, every window that *)
(* is open, locked or not; the user may click on the screen or a window.   *)
(* Of the windows, the recovery phrase and the settings change this state; *)
(* the others, and the toasts with the text of new messages, do not and    *)
(* are left out.  Nothing opens the profile window.                        *)
(* A phrase is a number, and the identity derived from it the same number. *)
(***************************************************************************)
EXTENDS Naturals

CONSTANTS
  AUTO_LOCK,    \* the minutes of the timer
  MaxPhrases,   \* bounds the phrases that are generated
  MaxStarts     \* bounds the starts of the program

ASSUME SessionAssumption ==
  /\ AUTO_LOCK \in Nat
  /\ MaxPhrases \in Nat \ {0}
  /\ MaxStarts \in Nat

Account == 1    \* the phrase in the messenger's database
Phrase == 0 .. MaxPhrases
None == 0

VARIABLES
  starts,      \* how often the program was started, 0 before the first
  ready,       \* nodex_account_<port>.ready exists
  messenger,   \* the messenger could be started
  onboarded, step, confirmedSeed,
  seed,        \* mnemonic_seed, the phrase the window shows
  me,          \* my_node_id, the identity the window takes for its own
  pin, timer, locked,
  modals,      \* the windows that are open: show_mnemonic_modal, show_settings
  idle,        \* minutes since last_active
  frame,       \* where the frame stands: "between", "timed", "draw"
  input,       \* the frame was caused by the user
  drawn,       \* ghost: the screen drawn last and how long nobody was there
  noted,       \* ghost: the phrase the user wrote down, None before
  generated    \* how many phrases were generated

sessionVars ==
  <<starts, messenger, ready, onboarded, step, confirmedSeed, seed, me, pin, timer,
    locked, modals, idle, frame, input, drawn, noted, generated>>

account == <<ready, onboarded, step, confirmedSeed, seed, me, noted, generated>>
lock == <<pin, timer, locked>>
program == <<starts, messenger>>

Modals == {"phrase", "settings"}
Screens == {"none", "lock", "onboarding", "chat"}

SessionFlags ==
  /\ ready \in BOOLEAN /\ onboarded \in BOOLEAN /\ confirmedSeed \in BOOLEAN
  /\ pin \in BOOLEAN /\ timer \in BOOLEAN /\ locked \in BOOLEAN /\ input \in BOOLEAN
  /\ messenger \in BOOLEAN

SessionData ==
  /\ starts \in 0 .. MaxStarts
  /\ step \in 0 .. 3
  /\ seed \in Phrase /\ me \in Phrase /\ noted \in Phrase
  /\ idle \in 0 .. AUTO_LOCK + 1
  /\ frame \in {"between", "timed", "draw"}
  /\ drawn \in [screen : Screens, idle : 0 .. AUTO_LOCK + 1, guarded : BOOLEAN]
  /\ generated \in 1 .. MaxPhrases
  /\ modals \subseteq Modals

SessionTypeOK == SessionFlags /\ SessionData

SessionInit ==
  /\ starts = 0
  /\ messenger = FALSE
  /\ ready = FALSE
  /\ onboarded = FALSE
  /\ step = 0
  /\ confirmedSeed = FALSE
  /\ seed = None
  /\ me = None
  /\ pin = FALSE
  /\ timer = FALSE
  /\ locked = FALSE
  /\ modals = {}
  /\ idle = 0
  /\ frame = "between"
  /\ input = FALSE
  /\ drawn = [screen |-> "none", idle |-> 0, guarded |-> FALSE]
  /\ noted = None
  /\ generated = Account
-----------------------------------------------------------------------------
(* A phrase nobody has seen is shown.                                      *)
NewPhrase ==
  /\ generated < MaxPhrases
  /\ generated' = generated + 1
  /\ seed' = generated'

(* The program starts: AppState::new forgets the PIN and makes up a phrase,*)
(* which gives way to the messenger's when that one starts.                *)
Start ==
  /\ starts < MaxStarts
  /\ frame = "between"
  /\ starts' = starts + 1
  /\ onboarded' = ready
  /\ step' = 0
  /\ confirmedSeed' = FALSE
  /\ pin' = FALSE
  /\ timer' = FALSE
  /\ locked' = FALSE
  /\ modals' = {}
  /\ idle' = 0
  /\ drawn' = [screen |-> "none", idle |-> 0, guarded |-> FALSE]
  /\ \/ messenger' = TRUE /\ seed' = Account /\ UNCHANGED generated
     \/ messenger' = FALSE /\ NewPhrase
  /\ me' = seed'
  /\ UNCHANGED <<ready, frame, input, noted>>

(* A minute without a frame or an event.                                   *)
Wait ==
  /\ frame = "between"
  /\ idle <= AUTO_LOCK
  /\ idle' = idle + 1
  /\ UNCHANGED <<program, account, lock, modals, frame, input, drawn>>

(* A fault to detect: the input counts before the timer is looked at.      *)
BeginFrameActive(byUser, ctrlL) ==
  /\ starts > 0
  /\ frame = "between"
  /\ input' = byUser
  /\ locked' = \/ locked
               \/ byUser /\ ctrlL /\ pin
               \/ timer /\ pin /\ ~ byUser /\ idle > AUTO_LOCK
  /\ frame' = "timed"
  /\ UNCHANGED <<program, account, pin, timer, modals, idle, drawn>>

(* A frame begins, for an input or to animate something: Ctrl+L locks, and *)
(* so does the timer, before the input counts as activity.                 *)
BeginFrame(byUser, ctrlL) ==
  /\ starts > 0
  /\ frame = "between"
  /\ input' = byUser
  /\ locked' = \/ locked
               \/ byUser /\ ctrlL /\ pin
               \/ timer /\ pin /\ idle > AUTO_LOCK
  /\ frame' = "timed"
  /\ UNCHANGED <<program, account, pin, timer, modals, idle, drawn>>

Screen == IF locked THEN "lock" ELSE IF onboarded THEN "chat" ELSE "onboarding"

NoteActivity ==
  /\ frame = "timed"
  /\ drawn' = [screen |-> Screen, idle |-> idle, guarded |-> timer /\ pin]
  /\ idle' = IF input THEN 0 ELSE idle
  /\ frame' = "draw"
  /\ UNCHANGED <<program, account, lock, modals, input>>

NoClick ==
  /\ frame = "draw"
  /\ frame' = "between"
  /\ UNCHANGED <<program, account, lock, modals, idle, input, drawn>>

(* A click on the screen.                                                  *)
Click(screen) ==
  /\ frame = "draw"
  /\ input
  /\ drawn.screen = screen
  /\ frame' = "between"
  /\ UNCHANGED <<program, input, drawn>>

(* A click in a window on top of it; the settings need a messenger.        *)
ClickIn(modal) ==
  /\ frame = "draw"
  /\ input
  /\ modal \in modals
  /\ modal = "settings" => messenger
  /\ frame' = "between"
  /\ UNCHANGED <<program, input, drawn>>
-----------------------------------------------------------------------------
(* The lock screen.                                                        *)
Unlock ==
  /\ Click("lock")
  /\ locked' = FALSE
  /\ idle' = 0
  /\ UNCHANGED <<account, pin, timer, modals>>

ForgotPin ==
  /\ Click("lock")
  /\ step' = 3
  /\ onboarded' = FALSE
  /\ locked' = FALSE
  /\ UNCHANGED <<ready, confirmedSeed, seed, me, noted, generated, pin, timer, modals, idle>>

(* Onboarding.                                                             *)
Onboarding(s) ==
  /\ Click("onboarding")
  /\ step = s
  /\ UNCHANGED <<lock, modals, idle>>

CreateAccount ==
  /\ Onboarding(0)
  /\ NewPhrase
  /\ step' = 1
  /\ UNCHANGED <<ready, onboarded, confirmedSeed, me, noted>>

Proceed ==
  /\ Onboarding(1)
  /\ step' = 2
  /\ UNCHANGED <<ready, onboarded, confirmedSeed, seed, me, noted, generated>>

(* Another length or another phrase; a confirmation given before stays.    *)
Regenerate ==
  /\ Onboarding(1) \/ Onboarding(2)
  /\ NewPhrase
  /\ UNCHANGED <<ready, onboarded, step, confirmedSeed, me, noted>>

Confirm ==
  /\ Onboarding(2)
  /\ confirmedSeed' = ~ confirmedSeed
  /\ noted' = IF confirmedSeed' THEN seed ELSE noted
  /\ UNCHANGED <<ready, onboarded, step, seed, me, generated>>

FinishAccount ==
  /\ Onboarding(2)
  /\ confirmedSeed
  /\ me' = seed
  /\ ready' = TRUE
  /\ onboarded' = TRUE
  /\ UNCHANGED <<step, confirmedSeed, seed, noted, generated>>

GoTo(s) ==
  /\ \/ s = 0 /\ (Onboarding(1) \/ Onboarding(3))
     \/ s = 1 /\ Onboarding(2)
     \/ s = 3 /\ Onboarding(0)
  /\ step' = s
  /\ UNCHANGED <<ready, onboarded, confirmedSeed, seed, me, noted, generated>>

CancelOnboarding ==
  /\ Onboarding(1) \/ Onboarding(2) \/ Onboarding(3)
  /\ ready
  /\ onboarded' = TRUE
  /\ UNCHANGED <<ready, step, confirmedSeed, seed, me, noted, generated>>

(* Any valid phrase becomes what the window shows; the messenger's own     *)
(* restore_mnemonic is not called.                                         *)
RestoreAccount(p) ==
  /\ Onboarding(3)
  /\ p # None
  /\ seed' = p
  /\ me' = p
  /\ ready' = TRUE
  /\ onboarded' = TRUE
  /\ UNCHANGED <<step, confirmedSeed, noted, generated>>

(* The navigation rail and the settings open windows.                      *)
OpenModal(modal) ==
  /\ Click("chat") \/ (modal = "phrase" /\ ClickIn("settings"))
  /\ modals' = modals \cup {modal}
  /\ UNCHANGED <<account, lock, idle>>

CloseModal(modal) ==
  /\ ClickIn(modal)
  /\ modals' = modals \ {modal}
  /\ UNCHANGED <<account, lock, idle>>

(* The recovery-phrase window replaces the phrase it shows.                *)
ModalRegenerate ==
  /\ ClickIn("phrase")
  /\ NewPhrase
  /\ UNCHANGED <<ready, onboarded, step, confirmedSeed, me, noted, lock, modals, idle>>

(* The privacy settings.                                                   *)
SetPin(on) ==
  /\ ClickIn("settings")
  /\ pin # on
  /\ pin' = on
  /\ UNCHANGED <<account, timer, locked, modals, idle>>

SetTimer(on) ==
  /\ ClickIn("settings")
  /\ timer' = on
  /\ UNCHANGED <<account, pin, locked, modals, idle>>

(* The quick-lock button, and the one of the settings, which closes them.  *)
LockNow ==
  /\ \/ Click("chat") /\ UNCHANGED modals
     \/ ClickIn("settings") /\ modals' = modals \ {"settings"}
  /\ pin
  /\ locked' = TRUE
  /\ UNCHANGED <<account, pin, timer, idle>>

SessionNext ==
  \/ Start
  \/ Wait
  \/ \E u, c \in BOOLEAN : BeginFrame(u, c)
  \/ NoteActivity
  \/ NoClick
  \/ Unlock
  \/ ForgotPin
  \/ CreateAccount
  \/ Proceed
  \/ Regenerate
  \/ Confirm
  \/ FinishAccount
  \/ \E s \in {0, 1, 3} : GoTo(s)
  \/ CancelOnboarding
  \/ \E p \in 1 .. generated : RestoreAccount(p)
  \/ \E m \in Modals : OpenModal(m) \/ CloseModal(m)
  \/ ModalRegenerate
  \/ \E on \in BOOLEAN : SetPin(on) \/ SetTimer(on)
  \/ LockNow

SessionSpec == SessionInit /\ [][SessionNext]_sessionVars
-----------------------------------------------------------------------------
(* The screen of a session whose timer has run out is the lock screen, and *)
(* neither the chats nor the onboarding, also in the frame the returning   *)
(* user's own input causes, whatever was locked, unlocked and set before,  *)
(* in the settings over a locked screen, too.  The windows left open stay. *)
AwayMeansLocked ==
  drawn.guarded /\ drawn.idle > AUTO_LOCK => drawn.screen = "lock"

(* A locked window shows the lock screen and nothing over it: not so, for  *)
(* the windows are drawn whatever is_app_locked says.                      *)
LockedShowsLockOnly == frame = "draw" /\ drawn.screen = "lock" => modals = {}

(* What the program tells its user: the words written down to create the   *)
(* account are the key to the account the messenger uses.                  *)
WordsAreTheAccount == onboarded /\ confirmedSeed => noted = Account

(* What the window assumes when it sorts messages into sent and received.  *)
WindowIsTheMessenger == onboarded /\ starts > 0 => me = Account
=============================================================================
