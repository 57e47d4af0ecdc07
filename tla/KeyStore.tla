------------------------------ MODULE KeyStore ------------------------------
(***************************************************************************)
(* The database file of the messenger, its backup and its key file (db.rs  *)
(* of nodex-messenger), with the in-memory cache of keys, saves that fail  *)
(* or are cut short by a crash, and wipe_local_data (messenger.rs).        *)
(*                                                                         *)
(* A database file is absent, empty, torn or [key, version].  The database *)
(* path is relative, as every client passes it: the cache knows it under   *)
(* its canonical form while the file exists and as it is otherwise.        *)
(***************************************************************************)
EXTENDS Integers, FiniteSets

CONSTANTS
  MaxKeys,       \* keys that are generated
  MaxVersion,    \* changes of the database that are saved
  RenameMayFail  \* BOOLEAN: a rename over an existing file can fail

ASSUME KeyStoreAssumption == MaxKeys \in Nat /\ MaxVersion \in Nat

VARIABLES
  dbFile, bakFile, keyFile,   \* the disk
  keyCache,                   \* INSTANCE_KEY_CACHE: path -> key
  process,                    \* "running", "down" or "refused" to start
  version,                    \* the contents in memory
  saver,                      \* the save under way: [at, path, key, fresh]
  wiper,                      \* where wipe_local_data is
  keysMade,                   \* keys generated so far
  lastSaved,                  \* the version of the last save that returned Ok
  wiped, cut                  \* history: a wipe began; the last copy over the
                              \*   database was cut short and no save ended since

keyVars == <<dbFile, bakFile, keyFile, keyCache, process, version, saver, wiper,
             keysMade, lastSaved, wiped, cut>>
keyFiles == <<dbFile, bakFile, keyFile>>
keyHistory == <<wiped, cut>>

Absent == 0
Torn == -1
Empty == -2
NoFile == [key |-> Absent, version |-> Absent]
EmptyFile == [key |-> Empty, version |-> Absent]
TornFile == [key |-> Torn, version |-> Absent]
IdleSaver == [at |-> "idle", path |-> "raw", key |-> Absent, fresh |-> FALSE]
NoKeys == [p \in {"raw", "canonical"} |-> Absent]

Exists(f) == f # NoFile
CachePath == IF Exists(dbFile) THEN "canonical" ELSE "raw"

KeyStoreInit ==
  /\ dbFile = NoFile /\ bakFile = NoFile /\ keyFile = Absent
  /\ keyCache = NoKeys
  /\ process = "down"
  /\ version = 0
  /\ saver = IdleSaver
  /\ wiper = "idle"
  /\ keysMade = 0
  /\ lastSaved = 0
  /\ wiped = FALSE /\ cut = FALSE

----------------------------------------------------------------------------
(* get_or_create_instance_key                                              *)

(* The cached key is used, and its file re-created if it is gone; then the *)
(* file counts; a fresh key is only made without a database.               *)
UseCached ==
  /\ keyCache[CachePath] # Absent
  /\ saver' = [at |-> IF keyFile = Absent THEN "write_key" ELSE "backup",
               path |-> CachePath, key |-> keyCache[CachePath], fresh |-> FALSE]
  /\ UNCHANGED <<keyCache, keysMade>>

ReadKeyFile ==
  /\ keyCache[CachePath] = Absent
  /\ keyFile > 0
  /\ keyCache' = [keyCache EXCEPT ![CachePath] = keyFile]
  /\ saver' = [at |-> "backup", path |-> CachePath, key |-> keyFile, fresh |-> FALSE]
  /\ UNCHANGED keysMade

Generate ==
  /\ keysMade < MaxKeys
  /\ keysMade' = keysMade + 1
  /\ saver' = [at |-> "write_key", path |-> CachePath, key |-> keysMade + 1, fresh |-> TRUE]
  /\ UNCHANGED keyCache

FreshKey ==
  /\ keyCache[CachePath] = Absent
  /\ keyFile <= 0
  /\ dbFile \in {NoFile, EmptyFile}
  /\ Generate

NoKey ==
  /\ keyCache[CachePath] = Absent
  /\ keyFile <= 0
  /\ dbFile \notin {NoFile, EmptyFile}

----------------------------------------------------------------------------
(* save_to_file; the database lock lets one save run at a time.            *)

BeginSave ==
  /\ process = "running"
  /\ saver.at = "idle"
  /\ UseCached \/ ReadKeyFile \/ FreshKey
  /\ UNCHANGED <<keyFiles, process, version, wiper, lastSaved, keyHistory>>

(* The program changes the database in memory before it saves.             *)
Change ==
  /\ process = "running"
  /\ saver.at = "idle"
  /\ version < MaxVersion
  /\ version' = version + 1
  /\ UNCHANGED <<keyFiles, keyCache, process, saver, wiper, keysMade, lastSaved, keyHistory>>

(* fs::write of the key file: truncated, then written.                     *)
TruncateKey ==
  /\ saver.at = "write_key"
  /\ keyFile' = Torn
  /\ saver' = [saver EXCEPT !.at = "finish_key"]
  /\ UNCHANGED <<dbFile, bakFile, keyCache, process, version, wiper, keysMade, lastSaved,
                 keyHistory>>

FinishKey ==
  /\ saver.at = "finish_key"
  /\ keyFile' = saver.key
  /\ keyCache' = IF saver.fresh THEN [keyCache EXCEPT ![saver.path] = saver.key]
                                ELSE keyCache
  /\ saver' = [saver EXCEPT !.at = "backup"]
  /\ UNCHANGED <<dbFile, bakFile, process, version, wiper, keysMade, lastSaved, keyHistory>>

(* A fault to detect: the error is ignored for a fresh key, too.            *)
KeyWriteFailsIgnored ==
  /\ saver.at = "finish_key"
  /\ saver' = [saver EXCEPT !.at = "backup"]
  /\ UNCHANGED <<keyFiles, keyCache, process, version, wiper, keysMade, lastSaved, keyHistory>>

(* The write fails: an error for a fresh key, ignored for a cached one.    *)
KeyWriteFails ==
  /\ saver.at = "finish_key"
  /\ saver' = IF saver.fresh THEN IdleSaver ELSE [saver EXCEPT !.at = "backup"]
  /\ UNCHANGED <<keyFiles, keyCache, process, version, wiper, keysMade, lastSaved, keyHistory>>

(* A backup older than a minute, or none, is replaced by a copy of the     *)
(* database as it is, a torn one included; the copy's error is ignored.    *)
BackUp ==
  /\ saver.at = "backup"
  /\ \/ Exists(dbFile) /\ bakFile' \in {dbFile, EmptyFile, TornFile}
     \/ UNCHANGED bakFile
  /\ saver' = [saver EXCEPT !.at = "replace"]
  /\ UNCHANGED <<dbFile, keyFile, keyCache, process, version, wiper, keysMade, lastSaved,
                 keyHistory>>

Written == [key |-> saver.key, version |-> version]

(* The temporary file cannot be written, or can neither be renamed nor, for *)
(* want of access to the database, be copied; or it is renamed over it.    *)
SaveFails ==
  /\ saver.at = "replace"
  /\ saver' = IdleSaver
  /\ UNCHANGED <<keyFiles, keyCache, process, version, wiper, keysMade, lastSaved, keyHistory>>

Rename ==
  /\ saver.at = "replace"
  /\ dbFile' = Written
  /\ lastSaved' = version
  /\ saver' = IdleSaver
  /\ cut' = FALSE
  /\ UNCHANGED <<bakFile, keyFile, keyCache, process, version, wiper, keysMade, wiped>>

(* The fallback copies over the database: truncated, then written.         *)
BeginCopy ==
  /\ RenameMayFail
  /\ saver.at = "replace"
  /\ dbFile' \in {EmptyFile, TornFile}
  /\ saver' = [saver EXCEPT !.at = "copying"]
  /\ UNCHANGED <<bakFile, keyFile, keyCache, process, version, wiper, keysMade, lastSaved,
                 keyHistory>>

EndCopy ==
  /\ saver.at = "copying"
  /\ dbFile' = Written
  /\ lastSaved' = version
  /\ saver' = IdleSaver
  /\ cut' = FALSE
  /\ UNCHANGED <<bakFile, keyFile, keyCache, process, version, wiper, keysMade, wiped>>

(* The copy's error is returned, and the program runs on.                  *)
CopyFails ==
  /\ saver.at = "copying"
  /\ saver' = IdleSaver
  /\ cut' = TRUE
  /\ UNCHANGED <<keyFiles, keyCache, process, version, wiper, keysMade, lastSaved, wiped>>

----------------------------------------------------------------------------
(* wipe_local_data: the contents go under the database lock; then the      *)
(* files go, and the cache forgets the key under the path as it is by then.*)
WipeMemory ==
  /\ process = "running"
  /\ wiper = "idle"
  /\ saver.at = "idle"
  /\ version' = 0
  /\ wiper' = "database"
  /\ wiped' = TRUE
  /\ UNCHANGED <<keyFiles, keyCache, process, saver, keysMade, lastSaved, cut>>

WipeDatabase ==
  /\ wiper = "database"
  /\ dbFile' = NoFile
  /\ wiper' = "key"
  /\ UNCHANGED <<bakFile, keyFile, keyCache, process, version, saver, keysMade, lastSaved,
                 keyHistory>>

WipeKey ==
  /\ wiper = "key"
  /\ keyFile' = Absent
  /\ wiper' = "cache"
  /\ UNCHANGED <<dbFile, bakFile, keyCache, process, version, saver, keysMade, lastSaved,
                 keyHistory>>

ForgetInstanceKey ==
  /\ wiper = "cache"
  /\ saver.at \in {"write_key", "finish_key"} => saver.fresh   \* else the cache is locked
  /\ keyCache' = [p \in DOMAIN keyCache |->
       IF p \in {CachePath, "raw"} THEN Absent ELSE keyCache[p]]
  /\ wiper' = "idle"
  /\ UNCHANGED <<keyFiles, process, version, saver, keysMade, lastSaved, keyHistory>>

----------------------------------------------------------------------------
Crash ==
  /\ process = "running"
  /\ process' = "down"
  /\ keyCache' = NoKeys
  /\ version' = 0
  /\ saver' = IdleSaver
  /\ wiper' = "idle"
  /\ cut' = (cut \/ saver.at = "copying")
  /\ UNCHANGED <<keyFiles, keysMade, lastSaved, wiped>>

(* KadMessenger::start: without a database, or with an empty one, it       *)
(* starts afresh; a database is decrypted with the key, or refused.        *)
StartFresh ==
  /\ process = "down"
  /\ dbFile \in {NoFile, EmptyFile}
  /\ process' = "running"
  /\ UNCHANGED <<keyFiles, keyCache, version, saver, wiper, keysMade, lastSaved, keyHistory>>

Readable(f) == f.key > 0 /\ f.key = keyFile

StartLoading ==
  /\ process = "down"
  /\ Readable(dbFile)
  /\ process' = "running"
  /\ version' = dbFile.version
  /\ keyCache' = [keyCache EXCEPT !["canonical"] = keyFile]
  /\ UNCHANGED <<keyFiles, saver, wiper, keysMade, lastSaved, keyHistory>>

RefuseToStart ==
  /\ process = "down"
  /\ dbFile \notin {NoFile, EmptyFile}
  /\ NoKey \/ ~Readable(dbFile)
  /\ process' = "refused"
  /\ UNCHANGED <<keyFiles, keyCache, version, saver, wiper, keysMade, lastSaved, keyHistory>>

KeyStoreNext ==
  \/ BeginSave \/ Change \/ TruncateKey \/ FinishKey \/ KeyWriteFails \/ BackUp
  \/ SaveFails \/ Rename \/ BeginCopy \/ EndCopy \/ CopyFails
  \/ WipeMemory \/ WipeDatabase \/ WipeKey \/ ForgetInstanceKey
  \/ Crash \/ StartFresh \/ StartLoading \/ RefuseToStart

KeyStoreSpec == KeyStoreInit /\ [][KeyStoreNext]_keyVars

----------------------------------------------------------------------------
File == [key : -2..MaxKeys, version : 0..MaxVersion]
SaverSteps == {"idle", "write_key", "finish_key", "backup", "replace", "copying"}

KeyStoreTypeOK ==
  /\ {dbFile, bakFile} \subseteq File
  /\ keyFile \in -1..MaxKeys
  /\ keyCache \in [{"raw", "canonical"} -> 0..MaxKeys]
  /\ saver \in [at : SaverSteps, path : {"raw", "canonical"}, key : 0..MaxKeys,
                fresh : BOOLEAN]
  /\ process \in {"running", "down", "refused"}
  /\ wiper \in {"idle", "database", "key", "cache"}
  /\ {version, lastSaved} \subseteq 0..MaxVersion
  /\ keysMade \in 0..MaxKeys
  /\ {wiped, cut} \subseteq BOOLEAN

(* Until it is wiped, what a save that returned Ok wrote stays there and   *)
(* can be decrypted with the key file, wherever a step fails or the process *)
(* dies, except for the copy that replaces a failed rename: while it runs, *)
(* and when it failed or the process died in it, until the next save ends. *)
SavedIsReadable ==
  lastSaved > 0 /\ ~wiped /\ ~cut /\ saver.at # "copying" =>
    Readable(dbFile) /\ dbFile.version >= lastSaved

(* The program never locks itself out: it refuses to start only after a    *)
(* wipe, or when its last copy over the database was cut short by an error *)
(* or by a crash and no save ended since.                                  *)
NeverLockedOut == process = "refused" => wiped \/ cut

(* Whatever fails or is cut short, the account can be read back and is not *)
(* refused, unless a wipe began or the last copy over it was cut short.    *)
AccountIsReadable == SavedIsReadable /\ NeverLockedOut

(* The key file opens the database next to it.                             *)
KeyFileMatches ==
  saver.at = "idle" /\ wiper = "idle" /\ keyFile > 0 /\ dbFile.key > 0 => Readable(dbFile)
=============================================================================
