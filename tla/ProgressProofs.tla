---------------------------- MODULE ProgressProofs ----------------------------
(***************************************************************************)
(* Proofs about the components that run side by side in MCProgress, for    *)
(* every value of their constants: the replay cache, the programs of one   *)
(* machine, the peer that moves, and that the composition keeps the types  *)
(* of all five.                                                            *)
(***************************************************************************)
EXTENDS MCProgress, KademliaProofs

(***************************************************************************)
(* The replay cache for any set of envelopes, any window and any limit:    *)
(* it stays within its limit, and although it forgets, what it forgets can *)
(* never be accepted again, because the clock does not go back.            *)
(***************************************************************************)
(* What was accepted in this lifetime is in the cache, or its timestamp    *)
(* has left the window for good.                                           *)
AcceptedIsRemembered ==
  \A e \in Envelopes :
    accepted[e] > 0 => e \in seenHashes \/ now - e.ts > MAX_REPLAY_WINDOW

InboxInv ==
  /\ InboxTypeOK
  /\ IsFiniteSet(seenHashes)
  /\ CacheBounded
  /\ AcceptedIsRemembered
  /\ AcceptedOnce

LEMMA InboxInitInv == InboxInit => InboxInv
<1> SUFFICES ASSUME InboxInit PROVE InboxInv
  OBVIOUS
<1> USE InboxAssumption DEF InboxInit
<1>1. InboxTypeOK
  BY DEF InboxTypeOK
<1>2. IsFiniteSet(seenHashes) /\ Cardinality(seenHashes) = 0
  BY FS_EmptySet
<1>3. CacheBounded
  BY <1>2 DEF CacheBounded
<1>4. AcceptedIsRemembered /\ AcceptedOnce
  BY DEF AcceptedIsRemembered, AcceptedOnce
<1> QED
  BY <1>1, <1>2, <1>3, <1>4 DEF InboxInv

(* What the cache retains at the present time.                             *)
LEMMA RetainedFacts ==
  ASSUME InboxInv
  PROVE  /\ IsFiniteSet(Retained(now))
         /\ Retained(now) \subseteq seenHashes
         /\ Cardinality(Retained(now)) \in Nat
         /\ Cardinality(Retained(now)) <= MAX_REPLAY_CACHE_ENTRIES
         /\ \A e \in Envelopes :
              accepted[e] > 0 => e \in Retained(now) \/ now - e.ts > MAX_REPLAY_WINDOW
<1> USE InboxAssumption DEF InboxInv
<1>1. Retained(now) \subseteq seenHashes
  BY DEF Retained
<1>2. IsFiniteSet(Retained(now)) /\ Cardinality(Retained(now)) <= Cardinality(seenHashes)
  BY <1>1, FS_Subset
<1>3. Cardinality(Retained(now)) \in Nat /\ Cardinality(seenHashes) \in Nat
  BY <1>2, FS_CardinalityType
<1>4. Cardinality(Retained(now)) <= MAX_REPLAY_CACHE_ENTRIES
  BY <1>2, <1>3 DEF CacheBounded
<1>5. ASSUME NEW e \in Envelopes, accepted[e] > 0
      PROVE  e \in Retained(now) \/ now - e.ts > MAX_REPLAY_WINDOW
  <2>1. e.ts \in Nat /\ now \in Nat
    BY DEF InboxTypeOK
  <2>2. CASE e \in seenHashes
    BY <2>1, <2>2 DEF Retained
  <2>3. CASE e \notin seenHashes
    BY <1>5, <2>3 DEF AcceptedIsRemembered
  <2> QED
    BY <2>2, <2>3
<1> QED
  BY <1>1, <1>2, <1>3, <1>4, <1>5

(* Accepting: the envelope was not accepted before, since the cache would  *)
(* still have it.                                                          *)
LEMMA AcceptInv ==
  ASSUME InboxInv, NEW e \in Envelopes, Accept(e)
  PROVE  InboxInv'
<1> USE InboxAssumption
<1>1. /\ InWindow(e, now)
      /\ e \notin Retained(now)
      /\ Cardinality(Retained(now)) < MAX_REPLAY_CACHE_ENTRIES
  BY DEF Accept, Admits
<1>2. /\ accepted \in [Envelopes -> 0..2]
      /\ e.ts \in Nat /\ now \in Nat
  BY DEF InboxInv, InboxTypeOK
<1>3. accepted[e] = 0
  BY <1>1, <1>2, RetainedFacts DEF InWindow
<1>4. /\ seenHashes' = Retained(now) \cup {e}
      /\ accepted' = [accepted EXCEPT ![e] = @ + 1]
      /\ dbTimes' = dbTimes \cup {e.ts}
      /\ batches' = batches \ {e}
      /\ UNCHANGED <<now, mailboxes, tick>>
  BY DEF Accept
<1>5. /\ accepted' \in [Envelopes -> 0..2]
      /\ accepted'[e] = 1
      /\ \A f \in Envelopes \ {e} : accepted'[f] = accepted[f]
  BY <1>2, <1>3, <1>4
<1>6. InboxTypeOK'
  <2>1. seenHashes' \subseteq Envelopes
    BY <1>4, RetainedFacts DEF InboxInv, InboxTypeOK
  <2> QED
    BY <1>2, <1>4, <1>5, <2>1 DEF InboxInv, InboxTypeOK
<1>7. /\ IsFiniteSet(seenHashes')
      /\ Cardinality(seenHashes') = Cardinality(Retained(now)) + 1
  BY <1>1, <1>4, RetainedFacts, FS_AddElement
<1>8. CacheBounded'
  <2>1. Cardinality(seenHashes') <= MAX_REPLAY_CACHE_ENTRIES
    BY <1>1, <1>7, RetainedFacts
  <2>2. ASSUME NEW f \in seenHashes' PROVE accepted'[f] > 0
    <3>1. CASE f = e
      BY <1>5, <3>1
    <3>2. CASE f # e
      <4>1. f \in seenHashes /\ f \in Envelopes
        BY <1>4, <2>2, <3>2, RetainedFacts DEF InboxInv, InboxTypeOK
      <4> QED
        BY <1>5, <3>2, <4>1 DEF InboxInv, CacheBounded
    <3> QED
      BY <3>1, <3>2
  <2> QED
    BY <2>1, <2>2 DEF CacheBounded
<1>9. AcceptedIsRemembered'
  BY <1>4, <1>5, RetainedFacts DEF AcceptedIsRemembered
<1>10. AcceptedOnce'
  BY <1>5 DEF InboxInv, AcceptedOnce
<1> QED
  BY <1>6, <1>7, <1>8, <1>9, <1>10 DEF InboxInv

(* Rejecting may drop from the cache what has left the window.             *)
LEMMA RejectInv ==
  ASSUME InboxInv, NEW e \in Envelopes, Reject(e)
  PROVE  InboxInv'
<1> USE InboxAssumption
<1>1. /\ seenHashes' \in {Retained(now), seenHashes}
      /\ batches' = batches \ {e}
      /\ UNCHANGED <<now, mailboxes, tick, dbTimes, accepted>>
  BY DEF Reject
<1>2. CASE seenHashes' = seenHashes
  BY <1>1, <1>2 DEF InboxInv, InboxTypeOK, CacheBounded, AcceptedIsRemembered,
      AcceptedOnce
<1>3. CASE seenHashes' = Retained(now)
  <2>1. InboxTypeOK'
    BY <1>1, <1>3, RetainedFacts DEF InboxInv, InboxTypeOK
  <2>2. IsFiniteSet(seenHashes')
    BY <1>3, RetainedFacts
  <2>3. CacheBounded'
    <3>1. Cardinality(seenHashes') <= MAX_REPLAY_CACHE_ENTRIES
      BY <1>3, RetainedFacts
    <3>2. \A f \in seenHashes' : accepted'[f] > 0
      BY <1>1, <1>3, RetainedFacts DEF InboxInv, CacheBounded
    <3> QED
      BY <3>1, <3>2 DEF CacheBounded
  <2>4. AcceptedIsRemembered'
    BY <1>1, <1>3, RetainedFacts DEF AcceptedIsRemembered
  <2>5. AcceptedOnce'
    BY <1>1 DEF InboxInv, AcceptedOnce
  <2> QED
    BY <2>1, <2>2, <2>3, <2>4, <2>5 DEF InboxInv
<1> QED
  BY <1>1, <1>2, <1>3

(* The clock only makes more of what was accepted too old.                 *)
LEMMA InboxTickInv == InboxInv /\ InboxTick => InboxInv'
<1> SUFFICES ASSUME InboxInv, InboxTick PROVE InboxInv'
  OBVIOUS
<1> USE InboxAssumption DEF InboxInv, InboxTick
<1>1. InboxTypeOK'
  BY DEF InboxTypeOK
<1>2. CacheBounded' /\ AcceptedOnce' /\ IsFiniteSet(seenHashes')
  BY DEF CacheBounded, AcceptedOnce
<1>3. AcceptedIsRemembered'
  BY DEF AcceptedIsRemembered, InboxTypeOK
<1> QED
  BY <1>1, <1>2, <1>3

(* After a restart nothing was accepted and nothing is remembered.         *)
LEMMA InboxRestartInv == InboxInv /\ InboxRestart => InboxInv'
<1> SUFFICES ASSUME InboxInv, InboxRestart PROVE InboxInv'
  OBVIOUS
<1> USE InboxAssumption DEF InboxRestart
<1>1. InboxTypeOK'
  BY DEF InboxInv, InboxTypeOK
<1>2. IsFiniteSet(seenHashes') /\ Cardinality(seenHashes') = 0
  BY FS_EmptySet
<1>3. CacheBounded'
  BY <1>2 DEF CacheBounded
<1>4. AcceptedIsRemembered' /\ AcceptedOnce'
  BY DEF AcceptedIsRemembered, AcceptedOnce
<1> QED
  BY <1>1, <1>2, <1>3, <1>4 DEF InboxInv

LEMMA InboxStepInv == InboxInv /\ [InboxNext]_inboxVars => InboxInv'
<1> SUFFICES ASSUME InboxInv, [InboxNext]_inboxVars PROVE InboxInv'
  OBVIOUS
<1> USE InboxAssumption
<1>1. ASSUME NEW e \in Envelopes, SealAndDeposit(e) \/ Appear(e) PROVE InboxInv'
  BY <1>1 DEF SealAndDeposit, Appear, InboxInv, InboxTypeOK, CacheBounded,
     AcceptedIsRemembered, AcceptedOnce
<1>2. ASSUME NEW e \in Envelopes, Accept(e) PROVE InboxInv'
  BY <1>2, AcceptInv
<1>3. ASSUME NEW e \in Envelopes, Reject(e) PROVE InboxInv'
  BY <1>3, RejectInv
<1>4. CASE Poll
  <2>1. /\ tick' = (tick + 1) % SLOW
        /\ batches' \subseteq mailboxes
        /\ UNCHANGED <<now, mailboxes, seenHashes, dbTimes, accepted>>
    BY <1>4 DEF Poll
  <2>2. tick' \in 0..(SLOW - 1)
    BY <2>1 DEF InboxInv, InboxTypeOK
  <2> QED
    BY <2>1, <2>2 DEF InboxInv, InboxTypeOK, CacheBounded, AcceptedIsRemembered,
        AcceptedOnce
<1>5. CASE InboxTick
  BY <1>5, InboxTickInv
<1>6. CASE InboxRestart
  BY <1>6, InboxRestartInv
<1>7. CASE UNCHANGED inboxVars
  BY <1>7 DEF inboxVars, InboxInv, InboxTypeOK, CacheBounded, AcceptedIsRemembered,
     AcceptedOnce
<1> QED
  BY <1>1, <1>2, <1>3, <1>4, <1>5, <1>6, <1>7 DEF InboxNext

LEMMA InboxInvariance == InboxSpec => []InboxInv
  BY InboxInitInv, InboxStepInv, PTL DEF InboxSpec

-----------------------------------------------------------------------------
(* No envelope is accepted twice in one lifetime, whatever the cache has   *)
(* dropped by then (check_and_insert).                                     *)
THEOREM AcceptedOnceHolds == InboxSpec => []AcceptedOnce
<1>1. InboxInv => AcceptedOnce
  BY DEF InboxInv
<1> QED
  BY <1>1, InboxInvariance, PTL

(* The cache holds at most MAX_REPLAY_CACHE_ENTRIES signatures, all of     *)
(* envelopes it let pass (check_and_insert).                               *)
THEOREM CacheBoundedHolds == InboxSpec => []CacheBounded
<1>1. InboxInv => CacheBounded
  BY DEF InboxInv
<1> QED
  BY <1>1, InboxInvariance, PTL

-----------------------------------------------------------------------------
(***************************************************************************)
(* The programs of one machine, for any programs, ports and launches.  The *)
(* port a program is bound to is its own, the account it opened is the one *)
(* in the file of that port, and no two files hold the same account.       *)
(***************************************************************************)
PortsOwned ==
  \A p, q \in Programs : p # q /\ Up(p) /\ Up(q) => port[p] # port[q]

AccountOfPort ==
  \A p \in Programs : Up(p) => account[p] = accounts[port[p]] /\ account[p] # 0

AccountsDistinct ==
  /\ \A n \in Ports : accounts[n] <= launches
  /\ \A m, n \in Ports : m # n /\ accounts[m] # 0 => accounts[m] # accounts[n]

StartupInv ==
  /\ StartupTypeOK
  /\ PortsOwned
  /\ AccountOfPort
  /\ AccountsDistinct

LEMMA PortsPositive == Ports \subseteq Nat \ {0}
  BY StartupAssumption DEF Ports

LEMMA StartupInitInv == StartupInit => StartupInv
<1> SUFFICES ASSUME StartupInit PROVE StartupInv
  OBVIOUS
<1> USE StartupAssumption DEF StartupInit
<1>1. StartupTypeOK
  BY DEF StartupTypeOK, NoState
<1>2. PortsOwned /\ AccountOfPort /\ AccountsDistinct
  BY DEF PortsOwned, AccountOfPort, AccountsDistinct, Up
<1> QED
  BY <1>1, <1>2 DEF StartupInv

(* bind_auto and the daemon take a port that nobody has.                   *)
LEMMA BindableIsFree ==
  ASSUME NEW p \in Programs, NEW n \in Bindable(p)
  PROVE  n \in Ports \ InUse
<1> DEFINE free == Ports \ InUse
<1>1. CASE p \notin Gui
  BY <1>1 DEF Bindable
<1>2. CASE p \in Gui
  <2>1. free # {} /\ n = Min(free)
    BY <1>2 DEF Bindable
  <2>2. free \subseteq Nat
    BY PortsPositive
  <2>3. PICK m \in free : \A k \in free : m <= k
    BY <2>1, <2>2, LeastNatural
  <2>4. Min(free) \in free
    BY <2>3 DEF Min
  <2> QED
    BY <2>1, <2>4
<1> QED
  BY <1>1, <1>2

(* A program that starts opens the account of a port nobody else has.      *)
LEMMA LaunchInv ==
  ASSUME StartupInv, NEW p \in Programs, Launch(p)
  PROVE  StartupInv'
<1> USE StartupAssumption, PortsPositive
<1>1. PICK n \in Bindable(p) :
        /\ port' = [port EXCEPT ![p] = n]
        /\ accounts' = [accounts EXCEPT ![n] = IF @ = 0 THEN launches' ELSE @]
        /\ account' = [account EXCEPT ![p] = accounts'[n]]
  BY DEF Launch
<1>2. n \in Ports /\ n \notin InUse
  BY <1>1, BindableIsFree
<1>3. StartupTypeOK
  BY DEF StartupInv
<1>4. /\ ~Up(p) /\ launches < MaxLaunches /\ launches' = launches + 1
      /\ launches \in 0..MaxLaunches
      /\ nodeId' = [nodeId EXCEPT ![p] = LoadedId]
      /\ table' = [table EXCEPT ![p] = LoadedContacts \ {p}]
      /\ joining' = joining \cup {p}
      /\ UNCHANGED <<health, stateFile, taken, seedUp>>
  BY <1>3 DEF Launch, world, StartupTypeOK
<1>5. /\ accounts \in [Ports -> 0..MaxLaunches]
      /\ account \in [Programs -> 0..MaxLaunches]
      /\ port \in [Programs -> Ports \cup {0}]
  BY <1>3 DEF StartupTypeOK
<1>6. /\ accounts' \in [Ports -> 0..MaxLaunches]
      /\ accounts'[n] = IF accounts[n] = 0 THEN launches + 1 ELSE accounts[n]
      /\ \A m \in Ports \ {n} : accounts'[m] = accounts[m]
  BY <1>1, <1>2, <1>4, <1>5
<1>7. /\ account' \in [Programs -> 0..MaxLaunches]
      /\ port' \in [Programs -> Ports \cup {0}]
      /\ account'[p] = accounts'[n] /\ port'[p] = n
      /\ \A q \in Programs \ {p} : account'[q] = account[q] /\ port'[q] = port[q]
  BY <1>1, <1>2, <1>5, <1>6
<1>8. StartupTypeOK'
  <2>1. LoadedId \in 0..MaxLaunches
    BY <1>3, <1>4 DEF LoadedId, StartupTypeOK
  <2>2. LoadedContacts \subseteq Programs \cup {"seed"}
    BY <1>3 DEF LoadedContacts, StartupTypeOK
  <2>3. /\ nodeId' \in [Programs -> 0..MaxLaunches]
        /\ table' \in [Programs -> SUBSET (Programs \cup {"seed"})]
    BY <1>3, <1>4, <2>1, <2>2 DEF StartupTypeOK
  <2>4. launches' \in 0..MaxLaunches /\ joining' \subseteq Programs
    BY <1>3, <1>4 DEF StartupTypeOK
  <2> QED
    BY <1>3, <1>4, <1>6, <1>7, <2>3, <2>4 DEF StartupTypeOK
<1>9. \A q \in Programs \ {p} : Up(q) => port[q] # n
  BY <1>2 DEF InUse
<1>10. PortsOwned'
  BY <1>7, <1>9 DEF StartupInv, PortsOwned, Up
<1>11. AccountOfPort'
  <2>1. ASSUME NEW q \in Programs, Up(q)'
        PROVE  account'[q] = accounts'[port'[q]] /\ account'[q] # 0
    <3>1. CASE q = p
      BY <1>4, <1>6, <1>7, <3>1
    <3>2. CASE q # p
      <4>1. Up(q) /\ port[q] # n /\ port[q] \in Ports
        BY <1>5, <1>7, <1>9, <2>1, <3>2 DEF Up
      <4>2. accounts'[port'[q]] = accounts[port[q]] /\ account'[q] = account[q]
        BY <1>6, <1>7, <3>2, <4>1
      <4> QED
        BY <4>1, <4>2 DEF StartupInv, AccountOfPort
    <3> QED
      BY <3>1, <3>2
  <2> QED
    BY <2>1 DEF AccountOfPort
<1>12. AccountsDistinct'
  <2>1. \A m \in Ports : accounts'[m] <= launches'
    BY <1>4, <1>5, <1>6 DEF StartupInv, AccountsDistinct
  <2>2. ASSUME NEW m \in Ports, NEW k \in Ports, m # k, accounts'[m] # 0
        PROVE  accounts'[m] # accounts'[k]
    BY <1>4, <1>5, <1>6, <2>2 DEF StartupInv, AccountsDistinct
  <2> QED
    BY <2>1, <2>2 DEF AccountsDistinct
<1> QED
  BY <1>8, <1>10, <1>11, <1>12 DEF StartupInv

(* Ending a program, with or without a save, frees its port.               *)
LEMMA StoppedInv ==
  ASSUME StartupInv, NEW p \in Programs, Stopped(p),
         stateFile' \in [kind : {"none", "torn", "saved"}, id : 0..MaxLaunches,
                         contacts : SUBSET (Programs \cup {"seed"})]
  PROVE  StartupInv'
<1>1. /\ port' = [port EXCEPT ![p] = 0]
      /\ table' = [table EXCEPT ![p] = {}]
      /\ joining' = joining \ {p}
      /\ UNCHANGED <<account, nodeId, health, accounts, taken, seedUp, launches>>
  BY DEF Stopped, world
<1>2. StartupTypeOK'
  BY <1>1 DEF StartupInv, StartupTypeOK, Ports
<1>3. PortsOwned' /\ AccountOfPort'
  BY <1>1 DEF StartupInv, StartupTypeOK, PortsOwned, AccountOfPort, Up
<1>4. AccountsDistinct'
  BY <1>1 DEF StartupInv, AccountsDistinct, Ports
<1> QED
  BY <1>2, <1>3, <1>4 DEF StartupInv

(* What a step leaves as it is when it binds and opens nothing.            *)
LEMMA NothingOpened ==
  ASSUME StartupInv, StartupTypeOK', UNCHANGED <<port, account, accounts, launches>>
  PROVE  StartupInv'
  BY DEF StartupInv, PortsOwned, AccountOfPort, AccountsDistinct, Up, Ports

LEMMA StartupStepInv == StartupInv /\ [StartupNext]_startupVars => StartupInv'
<1> SUFFICES ASSUME StartupInv, [StartupNext]_startupVars PROVE StartupInv'
  OBVIOUS
<1> USE StartupAssumption
<1>t. StartupTypeOK
  BY DEF StartupInv
<1>s. \A p \in Programs :
        Save(p) => stateFile' \in [kind : {"none", "torn", "saved"}, id : 0..MaxLaunches,
                                   contacts : SUBSET (Programs \cup {"seed"})]
  BY <1>t DEF Save, StartupTypeOK
<1>l. ASSUME NEW p \in Programs, NEW found \in SUBSET (Programs \cup {"seed"}),
             Learns(p, found)
      PROVE  table' \in [Programs -> SUBSET (Programs \cup {"seed"})]
  BY <1>t, <1>l DEF Learns, StartupTypeOK
<1>1. ASSUME NEW p \in Programs, Launch(p) PROVE StartupInv'
  BY <1>1, LaunchInv
<1>2. ASSUME NEW p \in Programs, Quit(p) PROVE StartupInv'
  <2>1. stateFile' \in [kind : {"none", "torn", "saved"}, id : 0..MaxLaunches,
                        contacts : SUBSET (Programs \cup {"seed"})]
    BY <1>2, <1>t, <1>s DEF Quit, StartupTypeOK
  <2> QED
    BY <1>2, <2>1, StoppedInv DEF Quit
<1>3. ASSUME NEW p \in Programs, SaveState(p) PROVE StartupInv'
  <2>1. StartupTypeOK'
    BY <1>3, <1>t, <1>s DEF SaveState, world, StartupTypeOK, Ports
  <2> QED
    BY <1>3, <2>1, NothingOpened DEF SaveState
<1>4. ASSUME NEW p \in Programs, CrashProgram(p) PROVE StartupInv'
  <2>1. stateFile' \in [kind : {"none", "torn", "saved"}, id : 0..MaxLaunches,
                        contacts : SUBSET (Programs \cup {"seed"})]
    BY <1>4, <1>t DEF CrashProgram, NoState, StartupTypeOK
  <2> QED
    BY <1>4, <2>1, StoppedInv DEF CrashProgram
<1>5. ASSUME NEW p \in Programs, TryBootstrap(p) PROVE StartupInv'
  <2>1. table' \in [Programs -> SUBSET (Programs \cup {"seed"})]
    <3>1. {"seed"} \cup SeedKnows \in SUBSET (Programs \cup {"seed"})
      BY DEF SeedKnows
    <3> QED
      BY <1>5, <1>t, <1>l, <3>1 DEF TryBootstrap, StartupTypeOK
  <2>2. StartupTypeOK'
    BY <1>5, <1>t, <2>1 DEF TryBootstrap, joined, disks, world, StartupTypeOK, Ports
  <2> QED
    BY <1>5, <2>2, NothingOpened DEF TryBootstrap, joined, disks
<1>6. ASSUME NEW p \in Programs, Supervise(p) PROVE StartupInv'
  <2>1. table' \in [Programs -> SUBSET (Programs \cup {"seed"})]
    <3>1. {"seed"} \cup SeedKnows \in SUBSET (Programs \cup {"seed"})
      BY DEF SeedKnows
    <3> QED
      BY <1>6, <1>t, <1>l, <3>1 DEF Supervise, StartupTypeOK
  <2>2. health' \in [Programs -> {"Connecting", "Online", "Degraded"}]
    BY <1>6, <1>t DEF Supervise, StartupTypeOK
  <2>3. StartupTypeOK'
    BY <1>6, <1>t, <2>1, <2>2 DEF Supervise, joined, disks, world, StartupTypeOK, Ports
  <2> QED
    BY <1>6, <2>3, NothingOpened DEF Supervise, joined, disks
<1>7. ASSUME NEW p \in Programs, NEW q \in Programs, LocalDiscovery(p, q)
      PROVE  StartupInv'
  <2>1. table' \in [Programs -> SUBSET (Programs \cup {"seed"})]
    <3>1. {q} \cup table[q] \in SUBSET (Programs \cup {"seed"})
      BY <1>t DEF StartupTypeOK
    <3> QED
      BY <1>7, <1>l, <3>1 DEF LocalDiscovery
  <2>2. StartupTypeOK'
    BY <1>7, <1>t, <2>1 DEF LocalDiscovery, joined, disks, world, StartupTypeOK, Ports
  <2> QED
    BY <1>7, <2>2, NothingOpened DEF LocalDiscovery, joined, disks
<1>8. CASE SeedChanges
  <2>1. StartupTypeOK'
    BY <1>8, <1>t DEF SeedChanges, disks, StartupTypeOK, Ports
  <2> QED
    BY <1>8, <2>1, NothingOpened DEF SeedChanges, disks
<1>9. ASSUME NEW n \in Ports, PortTaken(n) \/ PortFreed(n) PROVE StartupInv'
  <2>1. StartupTypeOK'
    BY <1>9, <1>t DEF PortTaken, PortFreed, disks, StartupTypeOK, Ports
  <2> QED
    BY <1>9, <2>1, NothingOpened DEF PortTaken, PortFreed, disks
<1>10. CASE UNCHANGED startupVars
  <2>1. StartupTypeOK'
    BY <1>10, <1>t DEF startupVars, StartupTypeOK, Ports
  <2> QED
    BY <1>10, <2>1, NothingOpened DEF startupVars
<1> QED
  BY <1>1, <1>2, <1>3, <1>4, <1>5, <1>6, <1>7, <1>8, <1>9, <1>10 DEF StartupNext

LEMMA StartupInvariance == StartupSpec => []StartupInv
  BY StartupInitInv, StartupStepInv, PTL DEF StartupSpec

LEMMA OwnPortOwnAccount == StartupInv => OneProgramPerAccount
<1> SUFFICES ASSUME StartupInv, NEW p \in Programs, NEW q \in Programs,
                    p # q, Up(p), Up(q)
             PROVE  account[p] # account[q]
  BY DEF OneProgramPerAccount
<1>1. port[p] \in Ports /\ port[q] \in Ports
  BY DEF StartupInv, StartupTypeOK, Up
<1> QED
  BY <1>1 DEF StartupInv, PortsOwned, AccountOfPort, AccountsDistinct

(* No two programs that run write the same database: bind_auto and the     *)
(* daemon keep a port while they run, and the account is that of the port. *)
THEOREM OneProgramPerAccountHolds == StartupSpec => []OneProgramPerAccount
  BY OwnPortOwnAccount, StartupInvariance, PTL

-----------------------------------------------------------------------------
(***************************************************************************)
(* A peer that moves, for any number of moves and renames.  It numbers its *)
(* addresses as it gets them, so no card shows one it has not had yet.     *)
(***************************************************************************)
AddressesAscend ==
  \A i, j \in Cards : i <= j => profile[i].addr <= profile[j].addr

PresenceInv ==
  /\ PresenceTypeOK
  /\ profile # <<>>
  /\ AddressesAscend

Profiles == [addr : 0..MaxPeerMoves, name : 0..MaxRenames]

LEMMA PresenceInitInv == PresenceInit => PresenceInv
<1> SUFFICES ASSUME PresenceInit PROVE PresenceInv
  OBVIOUS
<1> USE PresenceAssumption DEF PresenceInit
<1>1. /\ profile \in Seq(Profiles) /\ profile # <<>> /\ Len(profile) = 1
      /\ PeerAddr = 0
  BY DEF PeerAddr, Last, Profiles
<1>2. PresenceTypeOK
  <2>1. contact.key = FALSE /\ contact.addr = -1
    BY DEF NoContact, UnknownAddr
  <2>2. contact.addr \in -1..PeerAddr
    BY <1>1, <2>1
  <2>3. {mailbox, astray, read} \subseteq BOOLEAN
    OBVIOUS
  <2> QED
    BY <1>1, <2>1, <2>2, <2>3 DEF PresenceTypeOK, NoCard, Profiles
<1>3. AddressesAscend
  BY <1>1 DEF AddressesAscend, Cards
<1> QED
  BY <1>1, <1>2, <1>3 DEF PresenceInv

(* The last entry of the profile has the latest address.                   *)
LEMMA CardAddresses ==
  ASSUME PresenceInv
  PROVE  /\ profile \in Seq(Profiles) /\ Len(profile) \in Nat \ {0}
         /\ Last(profile) = profile[Len(profile)]
         /\ PeerAddr \in 0..MaxPeerMoves
         /\ \A v \in Cards : profile[v] \in Profiles /\ profile[v].addr \in 0..PeerAddr
<1> USE PresenceAssumption
<1>1. profile \in Seq(Profiles) /\ profile # <<>>
  BY DEF PresenceInv, PresenceTypeOK, Profiles
<1>2. Len(profile) \in Nat \ {0}
  BY <1>1
<1>3. \A v \in Cards : profile[v] \in Profiles
  BY <1>1, <1>2 DEF Cards
<1>4. Len(profile) \in Cards /\ \A v \in Cards : v <= Len(profile)
  BY <1>2 DEF Cards
<1>5. PeerAddr = profile[Len(profile)].addr
  BY DEF PeerAddr, Last
<1>6. \A v \in Cards : profile[v].addr <= PeerAddr
  BY <1>4, <1>5 DEF PresenceInv, AddressesAscend
<1>7. \A v \in Cards : profile[v].addr \in 0..MaxPeerMoves
  BY <1>3 DEF Profiles
<1> QED
  BY <1>1, <1>2, <1>3, <1>4, <1>5, <1>6, <1>7 DEF Last

(* PeerMoves and PeerRenames: a new entry, with an address no smaller.     *)
LEMMA ProfileGrows ==
  ASSUME PresenceInv, NEW entry \in Profiles, entry.addr >= PeerAddr,
         profile' = Append(profile, entry),
         UNCHANGED <<strangers, network, record, contact, mailbox, astray, read>>
  PROVE  PresenceInv'
<1> USE PresenceAssumption
<1>1. /\ profile \in Seq(Profiles) /\ Len(profile) \in Nat \ {0}
      /\ PeerAddr \in 0..MaxPeerMoves
      /\ \A v \in Cards : profile[v] \in Profiles /\ profile[v].addr \in 0..PeerAddr
  BY CardAddresses
<1>2. /\ profile' \in Seq(Profiles)
      /\ Len(profile') = Len(profile) + 1
      /\ profile'[Len(profile')] = entry
      /\ \A v \in Cards : profile'[v] = profile[v]
  BY <1>1 DEF Cards
<1>3. PeerAddr' = entry.addr /\ entry.addr \in 0..MaxPeerMoves
  BY <1>2 DEF PeerAddr, Last, Profiles
<1>4. Cards' = Cards \cup {Len(profile')}
  BY <1>1, <1>2 DEF Cards
<1>5. PresenceTypeOK'
  <2>1. /\ strangers \subseteq 0..(PeerAddr - 1)
        /\ network \subseteq Cards /\ record \in Cards \cup {NoCard}
        /\ contact.key => contact.known
        /\ contact.addr \in -1..PeerAddr
        /\ {mailbox, astray, read} \subseteq BOOLEAN
    BY DEF PresenceInv, PresenceTypeOK
  <2>2. 0..(PeerAddr - 1) \subseteq 0..(PeerAddr' - 1) /\ -1..PeerAddr \subseteq -1..PeerAddr'
    BY <1>1, <1>3
  <2>3. /\ strangers' \subseteq 0..(PeerAddr' - 1)
        /\ contact'.key => contact'.known
        /\ contact'.addr \in -1..PeerAddr'
    BY <2>1, <2>2
  <2>4. network' \subseteq Cards' /\ record' \in Cards' \cup {NoCard}
    BY <1>4, <2>1
  <2>5. profile' \in Seq([addr : 0..MaxPeerMoves, name : 0..MaxRenames])
    BY <1>2 DEF Profiles
  <2>6. {mailbox', astray', read'} \subseteq BOOLEAN
    BY <2>1
  <2> QED
    BY <2>3, <2>4, <2>5, <2>6 DEF PresenceTypeOK, NoCard
<1>6. AddressesAscend'
  <2> SUFFICES ASSUME NEW i \in Cards', NEW j \in Cards', i <= j
               PROVE  profile'[i].addr <= profile'[j].addr
    BY DEF AddressesAscend
  <2>1. CASE j \in Cards
    <3>1. i \in Cards
      BY <1>1, <1>2, <1>4, <2>1 DEF Cards
    <3> QED
      BY <1>2, <2>1, <3>1 DEF PresenceInv, AddressesAscend
  <2>2. CASE j = Len(profile')
    <3>1. profile'[j].addr = entry.addr /\ entry.addr \in Nat
      BY <1>2, <1>3, <2>2
    <3>2. CASE i = Len(profile')
      BY <1>2, <3>1, <3>2
    <3>3. CASE i \in Cards
      <4>1. profile'[i].addr = profile[i].addr /\ profile[i].addr \in 0..PeerAddr
        BY <1>1, <1>2, <3>3
      <4> QED
        BY <1>1, <3>1, <4>1
    <3> QED
      BY <1>4, <3>2, <3>3
  <2> QED
    BY <1>4, <2>1, <2>2
<1> QED
  BY <1>2, <1>5, <1>6, <1>1 DEF PresenceInv

(* Every other step leaves the profile alone.                              *)
LEMMA ProfileKept ==
  ASSUME PresenceInv, UNCHANGED profile,
         strangers' \subseteq 0..(PeerAddr - 1), network' \subseteq Cards,
         record' \in Cards \cup {NoCard},
         contact'.key => contact'.known, contact'.addr \in -1..PeerAddr,
         {mailbox', astray', read'} \subseteq BOOLEAN
  PROVE  PresenceInv'
<1>1. PeerAddr' = PeerAddr /\ Cards' = Cards
  BY DEF PeerAddr, Cards
<1>2. PresenceTypeOK'
  BY <1>1 DEF PresenceInv, PresenceTypeOK, NoCard
<1>3. AddressesAscend'
  BY <1>1 DEF PresenceInv, AddressesAscend
<1> QED
  BY <1>2, <1>3 DEF PresenceInv

(* The contact takes the address of a card.                                *)
LEMMA ContactFromCard ==
  ASSUME PresenceInv, NEW v \in Cards, contact' = ContactOf(v)
  PROVE  (contact'.key => contact'.known) /\ contact'.addr \in -1..PeerAddr
<1>1. profile[v].addr \in 0..PeerAddr /\ PeerAddr \in Nat
  BY CardAddresses, PresenceAssumption
<1>2. contact'.known = TRUE /\ contact'.addr = profile[v].addr
  BY DEF ContactOf
<1> QED
  BY <1>1, <1>2

LEMMA PresenceStepInv == PresenceInv /\ [PresenceNext]_presenceVars => PresenceInv'
<1> SUFFICES ASSUME PresenceInv, [PresenceNext]_presenceVars PROVE PresenceInv'
  OBVIOUS
<1> USE PresenceAssumption
<1>a. /\ profile \in Seq(Profiles) /\ Len(profile) \in Nat \ {0}
      /\ Last(profile) = profile[Len(profile)]
      /\ PeerAddr \in 0..MaxPeerMoves
      /\ \A v \in Cards : profile[v] \in Profiles /\ profile[v].addr \in 0..PeerAddr
  BY CardAddresses
<1>t. /\ strangers \subseteq 0..(PeerAddr - 1)
      /\ network \subseteq Cards /\ record \in Cards \cup {NoCard}
      /\ contact.key => contact.known
      /\ contact.addr \in -1..PeerAddr
      /\ mailbox \in BOOLEAN /\ astray \in BOOLEAN /\ read \in BOOLEAN
  BY DEF PresenceInv, PresenceTypeOK
<1>n. Last(profile) \in Profiles /\ PeerAddr = Last(profile).addr /\ Len(profile) \in Cards
  BY <1>a DEF PeerAddr, Cards
<1>c. CardsFound \subseteq Cards
  BY <1>t DEF CardsFound
<1>d. \A addr : Cascade(addr) => mailbox' \in BOOLEAN /\ astray' \in BOOLEAN /\ read' \in BOOLEAN
  BY <1>t DEF Cascade, DirectStore, Deposit
<1>1. CASE PeerMoves
  <2> DEFINE entry == [Last(profile) EXCEPT !.addr = @ + 1]
  <2>1. PeerAddr < MaxPeerMoves /\ profile' = Append(profile, entry)
        /\ UNCHANGED <<strangers, network, record, contact, mailbox, astray, read>>
    BY <1>1 DEF PeerMoves, message
  <2>2. Last(profile) \in [addr : 0..MaxPeerMoves, name : 0..MaxRenames]
    BY <1>n DEF Profiles
  <2>3. entry = [addr |-> PeerAddr + 1, name |-> Last(profile).name]
    BY <1>n, <2>2
  <2>4. PeerAddr + 1 \in 0..MaxPeerMoves
    BY <1>a, <2>1
  <2>5. entry \in Profiles
    BY <2>2, <2>3, <2>4 DEF Profiles
  <2>6. entry.addr >= PeerAddr
    BY <1>a, <2>3
  <2> QED
    BY <2>1, <2>5, <2>6, ProfileGrows
<1>2. CASE PeerRenames
  <2> DEFINE entry == [Last(profile) EXCEPT !.name = @ + 1]
  <2>1. Last(profile).name < MaxRenames /\ profile' = Append(profile, entry)
        /\ UNCHANGED <<strangers, network, record, contact, mailbox, astray, read>>
    BY <1>2 DEF PeerRenames, message
  <2>2. entry \in Profiles /\ entry.addr >= PeerAddr
    BY <1>a, <1>n, <2>1 DEF Profiles
  <2> QED
    BY <2>1, <2>2, ProfileGrows
<1>3. CASE PeerReads
  BY <1>3, <1>t, ProfileKept DEF PeerReads, finding
<1>4. ASSUME NEW old \in SUBSET network, PublishPresence(old) PROVE PresenceInv'
  BY <1>4, <1>t, <1>n, ProfileKept DEF PublishPresence, message
<1>5. ASSUME NEW v \in Cards, CardExpires(v) PROVE PresenceInv'
  BY <1>5, <1>t, ProfileKept DEF CardExpires, message
<1>6. ASSUME NEW v \in Cards, DiscoverPeer(v) PROVE PresenceInv'
  <2>1. (contact'.key => contact'.known) /\ contact'.addr \in -1..PeerAddr
    BY <1>6, ContactFromCard DEF DiscoverPeer
  <2> QED
    BY <1>6, <1>t, <2>1, ProfileKept DEF DiscoverPeer, message
<1>7. ASSUME NEW v \in Cards, AddContactByInvite(v) PROVE PresenceInv'
  <2>1. contact'.known = TRUE /\ contact'.addr = profile[v].addr
    BY <1>7 DEF AddContactByInvite
  <2>2. (contact'.key => contact'.known) /\ contact'.addr \in -1..PeerAddr
    BY <1>a, <2>1
  <2> QED
    BY <1>7, <1>t, <2>2, ProfileKept DEF AddContactByInvite, finding, message
<1>8. ASSUME NEW addr \in 0..MaxPeerMoves, StrangerComes(addr) \/ StrangerLeaves(addr)
      PROVE  PresenceInv'
  BY <1>8, <1>t, ProfileKept DEF StrangerComes, StrangerLeaves, message
<1>9. CASE AddSender \/ AddPlaceholder
  <2>1. contact'.known = TRUE /\ contact'.addr = -1
    BY <1>9 DEF AddSender, AddPlaceholder, UnknownAddr
  <2>2. (contact'.key => contact'.known) /\ contact'.addr \in -1..PeerAddr
    BY <1>a, <2>1
  <2> QED
    BY <1>9, <1>t, <2>2, ProfileKept DEF AddSender, AddPlaceholder, finding, message
<1>10. CASE TryDeliverPayload
  <2>1. CASE Usable /\ Cascade(contact.addr) /\ UNCHANGED <<finding, contact>>
    BY <2>1, <1>d, <1>t, ProfileKept DEF finding
  <2>2. ASSUME NEW v \in CardsFound, record' = v, contact' = ContactOf(v),
               Cascade(profile[v].addr), UNCHANGED <<profile, strangers, network>>
        PROVE  PresenceInv'
    <3>1. v \in Cards
      BY <1>c
    <3>2. (contact'.key => contact'.known) /\ contact'.addr \in -1..PeerAddr
      BY <2>2, <3>1, ContactFromCard
    <3> QED
      BY <2>2, <1>d, <1>t, <3>1, <3>2, ProfileKept
  <2> QED
    BY <1>10, <2>1, <2>2 DEF TryDeliverPayload
<1>11. CASE UNCHANGED presenceVars
  BY <1>11, <1>t, ProfileKept DEF presenceVars
<1> QED
  BY <1>1, <1>2, <1>3, <1>4, <1>5, <1>6, <1>7, <1>8, <1>9, <1>10, <1>11 DEF PresenceNext

-----------------------------------------------------------------------------
(***************************************************************************)
(* The composition: a step is a step of one component, and the others      *)
(* stand still.                                                            *)
(***************************************************************************)
ProgressInv ==
  /\ RpcInv
  /\ InboxInv
  /\ LookupInv
  /\ StartupInv
  /\ PresenceInv

LEMMA ProgressInitInv == ProgressInit => ProgressInv
  BY RpcInitInv, InboxInitInv, LookupInitially, StartupInitInv, PresenceInitInv
  DEF ProgressInit, ProgressInv

LEMMA ProgressStepsAreTheirs ==
  [ProgressNext]_progressVars =>
    /\ [RpcNext]_rpcVars
    /\ [InboxNext]_inboxVars
    /\ [LookupNext]_lookupVars
    /\ [StartupNext]_startupVars
    /\ [PresenceNext]_presenceVars
  BY DEF ProgressNext, progressVars, RpcSteps, InboxSteps, LookupSteps, StartupSteps,
         PresenceSteps

LEMMA ProgressStepInv == ProgressInv /\ [ProgressNext]_progressVars => ProgressInv'
<1> SUFFICES ASSUME ProgressInv, [ProgressNext]_progressVars PROVE ProgressInv'
  OBVIOUS
<1>1. RpcInv' /\ InboxInv'
  BY ProgressStepsAreTheirs, RpcStepInv, InboxStepInv DEF ProgressInv
<1>2. LookupInv' /\ StartupInv' /\ PresenceInv'
  BY ProgressStepsAreTheirs, LookupInductive, StartupStepInv, PresenceStepInv DEF ProgressInv
<1> QED
  BY <1>1, <1>2 DEF ProgressInv

LEMMA ProgressInvariance == ProgressSpec => []ProgressInv
  BY ProgressInitInv, ProgressStepInv, PTL DEF ProgressSpec

(* Whatever calls, envelopes, lookups, programs and moves there are, every *)
(* variable keeps its type, the cache of check_and_insert its limit, and   *)
(* every program that runs an account of its own.                          *)
THEOREM ProgressTyped == ProgressSpec => []ProgressTypeOK
<1>1. ProgressInv => ProgressTypeOK
  <2> SUFFICES ASSUME ProgressInv PROVE ProgressTypeOK
    OBVIOUS
  <2>1. RpcTypeOK
    BY DEF ProgressInv, RpcInv
  <2>2. InboxTypeOK /\ CacheBounded
    BY DEF ProgressInv, InboxInv
  <2>3. LookupTypeOK
    BY DEF ProgressInv, LookupInv
  <2>4. StartupTypeOK /\ OneProgramPerAccount
    BY OwnPortOwnAccount DEF ProgressInv, StartupInv
  <2>5. PresenceTypeOK
    BY DEF ProgressInv, PresenceInv
  <2> QED
    BY <2>1, <2>2, <2>3, <2>4, <2>5 DEF ProgressTypeOK
<1> QED
  BY <1>1, ProgressInvariance, PTL

(* Beside the other components, too, no envelope is accepted twice in one  *)
(* lifetime (check_and_insert).                                            *)
THEOREM ProgressAcceptsOnce == ProgressSpec => []AcceptedOnce
<1>1. ProgressInv => AcceptedOnce
  BY DEF ProgressInv, InboxInv
<1> QED
  BY <1>1, ProgressInvariance, PTL
=============================================================================
