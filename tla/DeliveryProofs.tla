--------------------------- MODULE DeliveryProofs ---------------------------
(***************************************************************************)
(* What holds of Delivery for every number of messages, envelopes,         *)
(* deposits, crashes and failed writes: the bound of the mailbox records;  *)
(* what R promises about receipts, notifications and deletions of every    *)
(* message its file did not make it forget; and that all of it implements  *)
(* DeliverySpec.                                                           *)
(***************************************************************************)
EXTENDS Delivery, SequenceLemmas, FiniteSetTheorems

DbStates == {"absent", "original", "edited", "deleted"}

-----------------------------------------------------------------------------
(* Mailbox records *)

(* f is what the loop of merge_store_value has after 0, 1, ..., n envelopes.*)
After(old, new, f, n) == f = [k \in 0..n |-> IF k = 0 THEN old ELSE Pushed(f[k-1], new[k])]

(* There is such a function, so the recursive definition of Merged is one: *)
(* for every n a longer prefix extends a shorter one by one push.          *)
LEMMA MergedUnfolds ==
  ASSUME NEW S, NEW old, NEW new \in Seq(S)
  PROVE  \E f : After(old, new, f, Len(new)) /\ Merged(old, new) = f[Len(new)]
  <1> DEFINE T == {m \in Nat : \E f : After(old, new, f, m)}
  <1>1. 0 \in T
    <2>1. After(old, new, [k \in 0..0 |-> old], 0)
      BY DEF After
    <2> QED BY <2>1
  <1>2. ASSUME NEW m \in Nat, m \in T
        PROVE  m + 1 \in T
    <2>1. PICK f : After(old, new, f, m)
      BY <1>2
    <2> DEFINE g == [k \in 0..(m+1) |-> IF k = m + 1 THEN Pushed(f[m], new[m+1]) ELSE f[k]]
    <2>2. ASSUME NEW k \in 0..(m+1)
          PROVE  g[k] = IF k = 0 THEN old ELSE Pushed(g[k-1], new[k])
      <3>1. CASE k = 0
        BY <2>1, <3>1 DEF After
      <3>2. CASE k \in 1..m
        <4>1. k - 1 \in 0..m /\ k \in 0..m /\ k # m + 1 /\ k - 1 # m + 1 /\ k # 0
          BY <3>2
        <4>2. f[k] = Pushed(f[k-1], new[k])
          BY <2>1, <4>1 DEF After
        <4>3. g[k] = f[k] /\ g[k-1] = f[k-1]
          BY <4>1
        <4> QED BY <4>1, <4>2, <4>3
      <3>3. CASE k = m + 1
        <4>1. m \in 0..(m+1) /\ m # m + 1 /\ k # 0 /\ k - 1 = m
          BY <3>3
        <4> QED BY <3>3, <4>1
      <3> QED BY <3>1, <3>2, <3>3
    <2>3. After(old, new, g, m + 1)
      BY <2>2 DEF After
    <2> QED BY <2>3
  <1>3. Len(new) \in Nat
    BY LenProperties
  <1>4. 0..Len(new) \subseteq T
    BY <1>1, <1>2, <1>3, ReachesAll
  <1>5. \E f : After(old, new, f, Len(new))
    BY <1>3, <1>4
  <1> QED
    BY <1>5 DEF After, Merged

(* A record with no envelope in it twice. *)
Distinct(s) == \A i, j \in 1..Len(s) : s[i] = s[j] => i = j

(* Pushing keeps a record free of duplicates.                              *)
LEMMA PushedDistinct ==
  ASSUME NEW S, NEW s \in Seq(S), Distinct(s), NEW e \in S
  PROVE  /\ Pushed(s, e) \in Seq(S) /\ Distinct(Pushed(s, e))
         /\ Len(Pushed(s, e)) \in Len(s)..(Len(s) + 1)
  <1>1. Len(s) \in Nat
    BY LenProperties
  <1>2. CASE e \in ToSet(s)
    BY <1>1, <1>2 DEF Pushed
  <1>3. CASE e \notin ToSet(s)
    <2>1. /\ Append(s, e) \in Seq(S) /\ Len(Append(s, e)) = Len(s) + 1
          /\ \A i \in 1..Len(s) : Append(s, e)[i] = s[i]
          /\ Append(s, e)[Len(s) + 1] = e
      BY AppendProperties
    <2>2. \A i \in 1..Len(s) : s[i] # e
      BY <1>3 DEF ToSet
    <2>3. Distinct(Append(s, e))
      BY <1>1, <2>1, <2>2 DEF Distinct
    <2> QED BY <1>1, <1>3, <2>1, <2>3 DEF Pushed
  <1> QED BY <1>2, <1>3

(* So does the whole loop, whatever the incoming value is.                 *)
LEMMA MergedDistinct ==
  ASSUME NEW S, NEW old \in Seq(S), NEW new \in Seq(S), Distinct(old)
  PROVE  Merged(old, new) \in Seq(S) /\ Distinct(Merged(old, new))
  <1>1. PICK f : After(old, new, f, Len(new)) /\ Merged(old, new) = f[Len(new)]
    BY MergedUnfolds
  <1> DEFINE T == {k \in 0..Len(new) : f[k] \in Seq(S) /\ Distinct(f[k])}
  <1>2. Len(new) \in Nat
    BY LenProperties
  <1>3. 0 \in T
    BY <1>1, <1>2 DEF After
  <1>4. ASSUME NEW k \in 0..(Len(new) - 1), k \in T
        PROVE  k + 1 \in T
    <2>1. k + 1 \in 1..Len(new) /\ (k + 1) - 1 = k
      BY <1>2
    <2>2. f[k+1] = Pushed(f[k], new[k+1])
      BY <1>1, <2>1 DEF After
    <2>3. new[k+1] \in S
      BY <2>1, ElementOfSeq
    <2>4. f[k+1] \in Seq(S) /\ Distinct(f[k+1])
      BY <1>4, <2>2, <2>3, PushedDistinct
    <2> QED BY <2>1, <2>4
  <1> HIDE DEF T
  <1>5. 0..Len(new) \subseteq T
    BY <1>2, <1>3, <1>4, ReachesAll
  <1> QED BY <1>1, <1>2, <1>5 DEF T

(* So does dropping the oldest, and it keeps the bound.                    *)
LEMMA YoungestDistinct ==
  ASSUME NEW S, NEW s \in Seq(S), Distinct(s), NEW k \in Nat
  PROVE  /\ Youngest(s, k) \in Seq(S) /\ Distinct(Youngest(s, k))
         /\ Len(Youngest(s, k)) <= k
  <1>1. Len(s) \in Nat
    BY LenProperties
  <1>2. CASE Len(s) <= k
    BY <1>2 DEF Youngest
  <1>3. CASE ~(Len(s) <= k)
    <2> DEFINE t == SubSeq(s, Len(s) - k + 1, Len(s))
    <2>1. /\ t \in Seq(S) /\ Len(t) = k
          /\ \A i \in 1..k : t[i] = s[Len(s) - k + i]
      <3> DEFINE m == Len(s) - k + 1
      <3>1. m \in 1..(Len(s) + 1) /\ Len(s) \in (m - 1)..Len(s) /\ Len(s) - m + 1 = k
        BY <1>1, <1>3
      <3>2. \A i \in 1..k : m + i - 1 = Len(s) - k + i
        BY <1>1
      <3> HIDE DEF m
      <3>3. /\ SubSeq(s, m, Len(s)) \in Seq(S) /\ Len(SubSeq(s, m, Len(s))) = Len(s) - m + 1
            /\ \A i \in 1..(Len(s) - m + 1) : SubSeq(s, m, Len(s))[i] = s[m + i - 1]
        <4>1. m \in Int /\ Len(s) \in Int /\ \A i \in m..Len(s) : s[i] \in S
          BY <1>1, <3>1, ElementOfSeq
        <4>2. (IF m <= Len(s) THEN Len(s) - m + 1 ELSE 0) = Len(s) - m + 1
          BY <1>1, <3>1
        <4> QED BY <4>1, <4>2, SubSeqProperties
      <3> QED BY <3>1, <3>2, <3>3 DEF m
    <2>2. Youngest(s, k) = t
      BY <1>3 DEF Youngest
    <2> HIDE DEF t
    <2>3. ASSUME NEW i \in 1..k, NEW j \in 1..k, t[i] = t[j]
          PROVE  i = j
      <3>1. s[Len(s) - k + i] = s[Len(s) - k + j]
        BY <2>1, <2>3
      <3>2. Len(s) - k + i \in 1..Len(s) /\ Len(s) - k + j \in 1..Len(s)
        BY <1>1, <1>3
      <3>3. Len(s) - k + i = Len(s) - k + j
        BY <3>1, <3>2 DEF Distinct
      <3> QED BY <1>1, <3>3
    <2>4. Distinct(t)
      BY <2>1, <2>3 DEF Distinct
    <2> QED BY <2>1, <2>2, <2>4
  <1> QED BY <1>2, <1>3

(* A record without duplicates has as many members as places.              *)
LEMMA DistinctCounted ==
  ASSUME NEW S, NEW s \in Seq(S), Distinct(s)
  PROVE  Cardinality(ToSet(s)) = Len(s)
  <1>1. Len(s) \in Nat /\ s \in [1..Len(s) -> S]
    BY LenProperties
  <1>2. IsFiniteSet(1..Len(s)) /\ Cardinality(1..Len(s)) = Len(s)
    BY <1>1, FS_Interval
  <1>3. s \in Bijection(1..Len(s), ToSet(s))
    BY <1>1 DEF Distinct, ToSet, Bijection, Injection, Surjection, IsInjective
  <1>4. ExistsBijection(1..Len(s), ToSet(s))
    BY <1>3 DEF ExistsBijection
  <1> QED BY <1>2, <1>4, FS_Bijection

(* What a record may be: no longer than the larger bound, nothing twice.   *)
MaxLen == IF MAX_DEPOSIT > MAX_MAILBOX_ENVELOPES THEN MAX_DEPOSIT ELSE MAX_MAILBOX_ENVELOPES
Proper(s) == s \in Seq(Envelope) /\ Distinct(s) /\ Len(s) <= MaxLen

(* The types in parts: of the sender, of the poll loop, of the recipient.  *)
SenderTypes ==
  /\ aDb \in [Msgs -> {"sent", "delivered", "deleted"}]
  /\ aEdited \subseteq Msgs
  /\ aDisk \in [db : [Msgs -> {"sent", "delivered", "deleted"}], edited : SUBSET aEdited]
  /\ qEdited \subseteq aDisk.edited
  /\ sends \in [Msgs -> 0..MaxSends]
  /\ sent \subseteq Envelope
  /\ dep \subseteq [env : sent, value : Seq(Envelope), done : BOOLEAN]
  /\ stores \subseteq [to : Nodes, value : Seq(Envelope)]
  /\ crashes \in 0..MaxCrashes

PollTypes ==
  /\ rpc \in {"idle", "cache", "process"}
  /\ batch \in Seq(Envelope)
  /\ seen \subseteq Envelope

RecipientTypes ==
  /\ receipts \subseteq Msgs
  /\ db \in [Msgs -> DbStates]
  /\ tombs \subseteq Msgs
  /\ disk \in [db : [Msgs -> DbStates], tombs : SUBSET Msgs]
  /\ acks \subseteq Msgs
  /\ notified \in [Msgs -> 0..2]
  /\ erased \subseteq Msgs /\ forgotten \subseteq Msgs
  /\ saveFailures \in 0..MaxSaveFailures

(* Every record, and every copy of one that may replace it.                *)
Records ==
  /\ box \in [Nodes -> Seq(Envelope)]
  /\ \A n \in Nodes : Proper(box[n])
  /\ Proper(found)
  /\ \A d \in dep : Distinct(d.value)

(* The inductive invariant behind the bound: a cached answer or a deposit  *)
(* writes a copy read some steps earlier, so the copies obey it too.       *)
RecordInv == SenderTypes /\ PollTypes /\ RecipientTypes /\ Records

(* TypeOK is what its parts say.                                           *)
LEMMA TypesInParts == TypeOK <=> SenderTypes /\ PollTypes /\ RecipientTypes /\
     box \in [Nodes -> Seq(Envelope)] /\ found \in Seq(Envelope)
  BY DEF TypeOK, SenderTypes, PollTypes, RecipientTypes, DbStates

(* No envelope and a single one (TcpStore) are records.                    *)
LEMMA ShortIsProper ==
  /\ Proper(<<>>)
  /\ \A s \in Seq(Envelope) : Len(s) = 1 => Proper(s)
  <1>1. MaxLen \in Nat /\ MaxLen >= 1
    BY DeliveryConstants DEF MaxLen
  <1>2. <<>> \in Seq(Envelope) /\ Len(<<>>) = 0
    OBVIOUS
  <1>3. Proper(<<>>)
    BY <1>1, <1>2 DEF Proper, Distinct
  <1>4. ASSUME NEW s \in Seq(Envelope), Len(s) = 1
        PROVE  Proper(s)
    BY <1>1, <1>4 DEF Proper, Distinct
  <1> QED BY <1>3, <1>4

(* A merge makes a record of a record and any value.                       *)
LEMMA MergeProper ==
  ASSUME NEW old, Proper(old), NEW new \in Seq(Envelope)
  PROVE  Proper(MergeStoreValue(old, new))
  <1>1. MAX_MAILBOX_ENVELOPES \in Nat /\ MAX_DEPOSIT \in Nat
    BY DeliveryConstants
  <1>2. Merged(old, new) \in Seq(Envelope) /\ Distinct(Merged(old, new))
    BY MergedDistinct DEF Proper
  <1>3. /\ MergeStoreValue(old, new) \in Seq(Envelope) /\ Distinct(MergeStoreValue(old, new))
        /\ Len(MergeStoreValue(old, new)) <= MAX_MAILBOX_ENVELOPES
    BY <1>1, <1>2, YoungestDistinct DEF MergeStoreValue
  <1>4. Len(MergeStoreValue(old, new)) \in Nat
    BY <1>3, LenProperties
  <1> QED BY <1>1, <1>3, <1>4 DEF Proper, MaxLen

(* A deposit puts a record.                                                *)
LEMMA DepositProper ==
  ASSUME NEW v \in Seq(Envelope), Distinct(v), NEW e \in Envelope
  PROVE  Proper(Youngest(Pushed(v, e), MAX_DEPOSIT))
  <1>1. MAX_MAILBOX_ENVELOPES \in Nat /\ MAX_DEPOSIT \in Nat
    BY DeliveryConstants
  <1>2. Pushed(v, e) \in Seq(Envelope) /\ Distinct(Pushed(v, e))
    BY PushedDistinct
  <1> DEFINE y == Youngest(Pushed(v, e), MAX_DEPOSIT)
  <1>3. y \in Seq(Envelope) /\ Distinct(y) /\ Len(y) <= MAX_DEPOSIT
    BY <1>1, <1>2, YoungestDistinct
  <1>4. Len(y) \in Nat
    BY <1>3, LenProperties
  <1> HIDE DEF y
  <1>5. Proper(y)
    BY <1>1, <1>3, <1>4 DEF Proper, MaxLen
  <1> QED BY <1>5 DEF y

(* One place of box, and deposits, change.                                 *)
LEMMA BoxChanges ==
  ASSUME Records, NEW n \in Nodes, NEW s, Proper(s),
         box' = [box EXCEPT ![n] = s], found' = found \/ Proper(found'),
         \A d \in dep' : d \in dep \/ Distinct(d.value)
  PROVE  Records'
  BY DEF Records, Proper

(* Initially there are no envelopes.                                       *)
LEMMA RecordInit == Init => RecordInv
  <1> SUFFICES ASSUME Init PROVE RecordInv
    OBVIOUS
  <1>1. SenderTypes /\ PollTypes
    BY DeliveryConstants DEF Init, SenderTypes, PollTypes
  <1>2. RecipientTypes
    BY DeliveryConstants DEF Init, RecipientTypes, DbStates
  <1>3. Records
    BY ShortIsProper DEF Init, Records, Proper
  <1> QED BY <1>1, <1>2, <1>3 DEF RecordInv

(* A save leaves a well-formed file of A. *)
LEMMA SenderSaveTypes ==
  ASSUME SenderTypes, UNCHANGED qEdited, UNCHANGED aDisk \/ SaveA,
         aDb' \in [Msgs -> {"sent", "delivered", "deleted"}],
         aEdited' \subseteq Msgs, aEdited \subseteq aEdited'
  PROVE  /\ aDisk' \in [db : [Msgs -> {"sent", "delivered", "deleted"}], edited : SUBSET aEdited']
         /\ qEdited' \subseteq aDisk'.edited
  <1>1. CASE UNCHANGED aDisk
    BY <1>1 DEF SenderTypes
  <1>2. CASE aDisk' = [db |-> aDb', edited |-> aEdited']
    BY <1>2 DEF SenderTypes
  <1> QED BY <1>1, <1>2 DEF SaveA

(* Tiers 1 and 2 send well-formed STOREs.                                  *)
LEMMA CascadeTypes ==
  ASSUME SenderTypes, NEW e \in Envelope, Cascade(e), UNCHANGED <<qEdited, dep, crashes>>,
         aDb' \in [Msgs -> {"sent", "delivered", "deleted"}],
         aEdited' \subseteq Msgs, aEdited \subseteq aEdited', sends' \in [Msgs -> 0..MaxSends],
         UNCHANGED aDisk \/ SaveA
  PROVE  SenderTypes'
  <1>1. <<e>> \in Seq(Envelope) /\ "R" \in Nodes
    BY DEF Nodes
  <1> DEFINE request == [to |-> "R", value |-> <<e>>]
  <1>2. stores' \subseteq [to : Nodes, value : Seq(Envelope)]
    <2>1. request \in [to : Nodes, value : Seq(Envelope)]
      BY <1>1
    <2>2. stores' = stores \cup {request}
      BY DEF Cascade
    <2> HIDE DEF request
    <2> QED BY <2>1, <2>2 DEF SenderTypes
  <1>3. dep' \subseteq [env : sent', value : Seq(Envelope), done : BOOLEAN]
    BY DEF SenderTypes, Cascade
  <1>4. /\ aDisk' \in [db : [Msgs -> {"sent", "delivered", "deleted"}], edited : SUBSET aEdited']
        /\ qEdited' \subseteq aDisk'.edited
    BY SenderSaveTypes
  <1> QED BY <1>2, <1>3, <1>4 DEF SenderTypes, Cascade

(* A save leaves a well-formed file. *)
LEMMA SaveTypes ==
  ASSUME RecipientTypes, Save, db' \in [Msgs -> DbStates], tombs' \subseteq Msgs
  PROVE  /\ disk' \in [db : [Msgs -> DbStates], tombs : SUBSET Msgs]
         /\ saveFailures' \in 0..MaxSaveFailures
  BY DeliveryConstants DEF RecipientTypes, Save

(* A step of A that leaves R alone, but for the count of failed saves. *)
LEMMA SenderLeavesRecipient ==
  ASSUME RecipientTypes, SaveA \/ UNCHANGED saveFailures,
         UNCHANGED <<receipts, rVars, acks, notified, erased, forgotten>>
  PROVE  RecipientTypes'
  <1>1. saveFailures' \in 0..MaxSaveFailures
    BY DeliveryConstants DEF RecipientTypes, SaveA
  <1> QED BY <1>1 DEF RecipientTypes, rVars

(* A sends, edits or deletes.                                              *)
LEMMA SenderStep ==
  ASSUME RecordInv, NEW m \in Msgs, SendMessage(m) \/ EditMessage(m) \/ DeleteForEveryone(m)
  PROVE  RecordInv'
  <1>1. PollTypes' /\ Records'
    BY DEF RecordInv, SendMessage, EditMessage, DeleteForEveryone, PollTypes, Records, pollVars
  <1>2. RecipientTypes'
    <2>1. UNCHANGED <<receipts, rVars, acks, notified, erased, forgotten>>
      BY DEF SendMessage, EditMessage, DeleteForEveryone, dbVars, lives
    <2>2. SaveA \/ UNCHANGED saveFailures
      BY DEF SendMessage, EditMessage, DeleteForEveryone, dbVars
    <2> QED BY <2>1, <2>2, SenderLeavesRecipient DEF RecordInv
  <1>3. CASE SendMessage(m)
    <2> DEFINE e == [kind |-> IF m \in qEdited THEN "edit" ELSE "chat", id |-> m, n |-> sends[m] + 1]
    <2>1. e \in Envelope /\ sends' \in [Msgs -> 0..MaxSends]
      BY <1>3, DeliveryConstants DEF SendMessage, RecordInv, SenderTypes, Envelope
    <2>2. Cascade(e) /\ UNCHANGED <<aDb, aEdited, aDisk, qEdited, dep, crashes>>
      BY <1>3 DEF SendMessage, lives
    <2> HIDE DEF e
    <2> QED BY <1>1, <1>2, <2>1, <2>2, CascadeTypes DEF RecordInv, SenderTypes
  <1>4. CASE EditMessage(m) \/ DeleteForEveryone(m)
    <2>1. EditOf(m) \in Envelope /\ TombstoneOf(m) \in Envelope
      BY DeliveryConstants DEF Envelope, EditOf, TombstoneOf
    <2>2. CASE EditMessage(m)
      BY <1>1, <1>2, <2>1, <2>2, CascadeTypes DEF EditMessage, RecordInv, SenderTypes, lives
    <2>3. CASE DeleteForEveryone(m)
      BY <1>1, <1>2, <2>1, <2>3, CascadeTypes DEF DeleteForEveryone, RecordInv, SenderTypes, lives
    <2> QED BY <1>4, <2>2, <2>3
  <1> QED BY <1>3, <1>4

(* A accepts a receipt, or some other call of A or R writes a file. *)
LEMMA FileStep ==
  ASSUME RecordInv, ASavesElsewhere \/ RSavesElsewhere \/ \E m \in Msgs : AcceptReceipt(m)
  PROVE  RecordInv'
  <1>1. PollTypes' /\ Records'
    BY DEF RecordInv, AcceptReceipt, ASavesElsewhere, RSavesElsewhere, PollTypes, Records,
       pollVars, aVars
  <1>2. RecipientTypes'
    <2>1. CASE RSavesElsewhere
      BY <2>1 DEF RSavesElsewhere, RecordInv, RecipientTypes, lives
    <2>2. CASE ASavesElsewhere \/ \E m \in Msgs : AcceptReceipt(m)
      <3>1. UNCHANGED <<receipts, rVars, acks, notified, erased, forgotten>>
        BY <2>2 DEF ASavesElsewhere, AcceptReceipt, dbVars, lives
      <3>2. SaveA \/ UNCHANGED saveFailures
        BY <2>2 DEF ASavesElsewhere, AcceptReceipt, dbVars
      <3> QED BY <3>1, <3>2, SenderLeavesRecipient DEF RecordInv
    <2> QED BY <2>1, <2>2
  <1>3. SenderTypes'
    <2>1. CASE RSavesElsewhere
      BY <2>1 DEF RSavesElsewhere, RecordInv, SenderTypes, aVars, lives
    <2>2. CASE ASavesElsewhere
      BY <2>2 DEF ASavesElsewhere, RecordInv, SenderTypes, lives
    <2>3. ASSUME NEW m \in Msgs, AcceptReceipt(m) PROVE SenderTypes'
      <3>1. /\ aDb' \in [Msgs -> {"sent", "delivered", "deleted"}] /\ aEdited' = aEdited
            /\ SaveA /\ UNCHANGED <<qEdited, sends, sent, dep, stores, crashes>>
        BY <2>3 DEF AcceptReceipt, RecordInv, SenderTypes, lives
      <3>2. /\ aDisk' \in [db : [Msgs -> {"sent", "delivered", "deleted"}], edited : SUBSET aEdited']
            /\ qEdited' \subseteq aDisk'.edited
        BY <3>1, SenderSaveTypes DEF RecordInv, SenderTypes
      <3> QED BY <3>1, <3>2 DEF RecordInv, SenderTypes
    <2> QED BY <2>1, <2>2, <2>3
  <1> QED BY <1>1, <1>2, <1>3 DEF RecordInv

(* A deposit reads the record.                                             *)
LEMMA DepositReadStep ==
  ASSUME RecordInv, NEW e \in sent, DepositRead(e)
  PROVE  RecordInv'
  <1>1. PICK v \in {box["A"], box["D"], box["R"], <<>>} :
          /\ dep' = dep \cup {[env |-> e, value |-> v, done |-> FALSE]}
          /\ box' = [box EXCEPT !["A"] = v]
    BY DEF DepositRead
  <1>2. Proper(v)
    BY <1>1, ShortIsProper DEF RecordInv, Records, Nodes
  <1>3. Records'
    <2>1. found' = found /\ \A d \in dep' : d \in dep \/ Distinct(d.value)
      BY <1>1, <1>2 DEF DepositRead, pollVars, Proper
    <2>2. "A" \in Nodes
      BY DEF Nodes
    <2> QED BY <1>1, <1>2, <2>1, <2>2, BoxChanges DEF RecordInv
  <1>4. SenderTypes'
    <2> DEFINE d == [env |-> e, value |-> v, done |-> FALSE]
    <2>1. d \in [env : sent, value : Seq(Envelope), done : BOOLEAN]
      BY <1>2 DEF Proper
    <2>2. dep' = dep \cup {d}
      BY <1>1
    <2>3. UNCHANGED <<aDb, aEdited, aDisk, qEdited, sends, sent, stores, crashes>>
      BY DEF DepositRead, lives
    <2> HIDE DEF d
    <2> QED BY <2>1, <2>2, <2>3 DEF RecordInv, SenderTypes
  <1>5. PollTypes' /\ RecipientTypes'
    BY DEF DepositRead, RecordInv, PollTypes, RecipientTypes, pollVars, dbVars, rVars, lives
  <1> QED BY <1>3, <1>4, <1>5 DEF RecordInv

(* A deposit that is done keeps its envelope and drops the record. *)
LEMMA DepositDone ==
  ASSUME NEW E, NEW V, NEW d \in [env : E, value : V, done : BOOLEAN], NEW v \in V
  PROVE  /\ [d EXCEPT !.value = v, !.done = TRUE] \in [env : E, value : V, done : BOOLEAN]
         /\ [d EXCEPT !.value = v, !.done = TRUE].value = v
  OBVIOUS

(* A deposit writes it back.                                               *)
LEMMA DepositPutStep ==
  ASSUME RecordInv, NEW d \in dep, DepositPut(d)
  PROVE  RecordInv'
  <1>1. /\ d \in [env : sent, value : Seq(Envelope), done : BOOLEAN]
        /\ d.env \in Envelope /\ d.value \in Seq(Envelope) /\ Distinct(d.value)
    BY DEF RecordInv, SenderTypes, Records
  <1> DEFINE v == Youngest(Pushed(d.value, d.env), MAX_DEPOSIT)
             done == [d EXCEPT !.value = <<>>, !.done = TRUE]
  <1>2. Proper(v)
    BY <1>1, DepositProper
  <1>3. /\ dep' = (dep \ {d}) \cup {done}
        /\ box' = [box EXCEPT !["A"] = v]
        /\ stores' = stores \cup {[to |-> n, value |-> v] : n \in {"D", "R"}}
        /\ UNCHANGED <<aDb, aEdited, aDisk, qEdited, sends, sent, receipts, pollVars, seen, dbVars,
                       acks, notified, erased, lives>>
    BY DEF DepositPut
  <1>4. /\ done \in [env : sent, value : Seq(Envelope), done : BOOLEAN]
        /\ done.value = <<>>
    <2>1. <<>> \in Seq(Envelope)
      OBVIOUS
    <2> QED BY <1>1, <2>1, DepositDone
  <1> HIDE DEF v, done
  <1>5. Records'
    <2>1. found' = found /\ \A b \in dep' : b \in dep \/ Distinct(b.value)
      BY <1>3, <1>4, ShortIsProper DEF pollVars, Proper
    <2>2. "A" \in Nodes
      BY DEF Nodes
    <2> QED BY <1>2, <1>3, <2>1, <2>2, BoxChanges DEF RecordInv
  <1>6. SenderTypes'
    <2>1. dep' \subseteq [env : sent', value : Seq(Envelope), done : BOOLEAN]
      BY <1>3, <1>4 DEF RecordInv, SenderTypes
    <2>2. stores' \subseteq [to : Nodes, value : Seq(Envelope)]
      BY <1>2, <1>3 DEF RecordInv, SenderTypes, Nodes, Proper
    <2> QED BY <1>3, <2>1, <2>2 DEF RecordInv, SenderTypes, lives
  <1>7. PollTypes' /\ RecipientTypes'
    BY <1>3 DEF RecordInv, PollTypes, RecipientTypes, pollVars, dbVars, rVars, lives
  <1> QED BY <1>5, <1>6, <1>7 DEF RecordInv

(* A STORE is merged, or put in place of the record.                       *)
LEMMA StoreStep ==
  ASSUME RecordInv, NEW s \in stores, HandleStore(s) \/ TcpStore(s)
  PROVE  RecordInv'
  <1>1. s.to \in Nodes /\ s.value \in Seq(Envelope)
    BY DEF RecordInv, SenderTypes
  <1>2. UNCHANGED <<aVars, stores, receipts, pollVars, seen, dbVars, acks, notified, erased, lives>>
    BY DEF HandleStore, TcpStore
  <1>3. SenderTypes' /\ PollTypes' /\ RecipientTypes'
    BY <1>2 DEF RecordInv, SenderTypes, PollTypes, RecipientTypes, aVars, pollVars, dbVars, rVars,
       lives
  <1>4. PICK v : Proper(v) /\ box' = [box EXCEPT ![s.to] = v]
    <2>1. CASE HandleStore(s)
      BY <1>1, <2>1, MergeProper DEF HandleStore, RecordInv, Records
    <2>2. CASE TcpStore(s)
      BY <1>1, <2>2, ShortIsProper DEF TcpStore
    <2> QED BY <2>1, <2>2
  <1>5. Records'
    BY <1>1, <1>2, <1>4, BoxChanges DEF RecordInv, aVars, pollVars
  <1> QED BY <1>3, <1>5 DEF RecordInv

(* R reads, caches and drains its record.                                  *)
LEMMA PollReadStep ==
  ASSUME RecordInv, PollLocal \/ PollLookup \/ PollCache \/ Drain
  PROVE  RecordInv'
  <1>1. SenderTypes' /\ RecipientTypes'
    BY DEF PollLocal, PollLookup, PollCache, Drain, RecordInv, SenderTypes, RecipientTypes, aVars,
       dbVars, rVars, lives
  <1>2. "R" \in Nodes /\ Proper(<<>>)
    BY ShortIsProper DEF Nodes
  <1>3. \A n \in Nodes : Proper(box[n]) /\ box[n] \in Seq(Envelope)
    BY DEF RecordInv, Records
  <1>4. UNCHANGED <<seen, dep>>
    BY DEF PollLocal, PollLookup, PollCache, Drain, aVars
  <1>5. PollTypes'
    <2>1. batch' \in Seq(Envelope)
      BY <1>2, <1>3 DEF PollLocal, PollLookup, PollCache, Drain, RecordInv, PollTypes, Records, Proper
    <2> QED BY <1>4, <2>1 DEF PollLocal, PollLookup, PollCache, Drain, RecordInv, PollTypes
  <1>6. Records'
    <2>1. CASE PollLocal \/ PollLookup
      BY <1>3, <1>4, <2>1 DEF PollLocal, PollLookup, RecordInv, Records, Nodes
    <2>2. CASE PollCache
      <3>1. Proper(found) /\ box' = [box EXCEPT !["R"] = found] /\ Proper(found')
        BY <1>2, <2>2 DEF PollCache, RecordInv, Records
      <3> QED BY <1>2, <1>4, <3>1, BoxChanges DEF RecordInv
    <2>3. CASE Drain
      BY <1>2, <1>4, <2>3, BoxChanges DEF Drain, RecordInv
    <2> QED BY <2>1, <2>2, <2>3
  <1> QED BY <1>1, <1>5, <1>6 DEF RecordInv

(* R processes an envelope.                                                *)
LEMMA ProcessStep ==
  ASSUME RecordInv, SkipReplayed \/ ProcessChat \/ ProcessEdit \/ ProcessTombstone
  PROVE  RecordInv'
  <1>1. UNCHANGED <<rpc, found, aVars, stores, receipts, box, lives>>
    BY DEF SkipReplayed, ProcessChat, ProcessEdit, ProcessTombstone, Accept, pollVars
  <1>2. SenderTypes' /\ Records'
    BY <1>1 DEF RecordInv, SenderTypes, Records, aVars, lives
  <1>3. PollTypes'
    <2>1. batch # <<>> /\ batch' = Tail(batch) /\ seen' \subseteq seen \cup Envelope
      BY DEF SkipReplayed, ProcessChat, ProcessEdit, ProcessTombstone, Accept
    <2> QED BY <1>1, <2>1 DEF RecordInv, PollTypes
  <1>4. CASE SkipReplayed
    BY <1>1, <1>2, <1>3, <1>4 DEF SkipReplayed, RecordInv, RecipientTypes, dbVars, rVars, lives
  <1>5. ASSUME NEW e \in Envelope, Chat(e.id) \/ Edit(e.id) \/ Tombstone(e.id)
        PROVE  RecipientTypes'
    <2>1. e.id \in Msgs
      BY DEF Envelope
    <2>2. db' \in [Msgs -> DbStates] /\ tombs' \subseteq Msgs
      BY <1>5, <2>1 DEF Chat, Edit, Tombstone, RecordInv, RecipientTypes, DbStates, dbVars, rVars
    <2>3. acks' \subseteq Msgs /\ erased' \subseteq Msgs /\ notified' \in [Msgs -> 0..2]
      BY <1>5, <2>1 DEF Chat, Edit, Tombstone, RecordInv, RecipientTypes, dbVars
    <2>4. Save \/ UNCHANGED <<disk, saveFailures>>
      BY <1>5 DEF Chat, Edit, Tombstone, dbVars, rVars
    <2>5. /\ disk' \in [db : [Msgs -> DbStates], tombs : SUBSET Msgs]
          /\ saveFailures' \in 0..MaxSaveFailures
      BY <2>2, <2>4, SaveTypes DEF RecordInv, RecipientTypes
    <2> QED BY <1>1, <2>2, <2>3, <2>5 DEF RecordInv, RecipientTypes, lives
  <1>6. CASE ProcessChat \/ ProcessEdit \/ ProcessTombstone
    <2>1. RecipientTypes'
      BY <1>5, <1>6 DEF ProcessChat, ProcessEdit, ProcessTombstone
    <2> QED BY <1>2, <1>3, <2>1 DEF RecordInv
  <1> QED BY <1>4, <1>6

(* R's user deletes a message or clears the chat.                          *)
LEMMA UserStep ==
  ASSUME RecordInv, ClearChat \/ \E m \in Msgs : DeleteMessage(m)
  PROVE  RecordInv'
  <1>1. SenderTypes' /\ PollTypes'
    BY DEF ClearChat, DeleteMessage, RecordInv, SenderTypes, PollTypes, aVars, pollVars, lives
  <1>2. db' \in [Msgs -> DbStates] /\ tombs' \subseteq Msgs /\ Save
    BY DEF ClearChat, DeleteMessage, RecordInv, RecipientTypes, DbStates
  <1>3. RecipientTypes'
    BY <1>2, SaveTypes DEF ClearChat, DeleteMessage, RecordInv, RecipientTypes, lives
  <1>4. Records'
    <2>1. CASE ClearChat
      <3>1. "R" \in Nodes /\ dep' = dep /\ found' = found /\ box' = [box EXCEPT !["R"] = <<>>]
        BY <2>1 DEF ClearChat, Nodes, aVars, pollVars
      <3> QED BY <3>1, ShortIsProper, BoxChanges DEF RecordInv
    <2>2. CASE \E m \in Msgs : DeleteMessage(m)
      BY <2>2 DEF DeleteMessage, RecordInv, Records, aVars, pollVars
    <2> QED BY <2>1, <2>2
  <1> QED BY <1>1, <1>3, <1>4 DEF RecordInv

(* A process dies.                                                         *)
LEMMA CrashStep ==
  ASSUME RecordInv, CrashR \/ CrashA \/ CrashD
  PROVE  RecordInv'
  <1>1. crashes' \in 0..MaxCrashes
    BY DeliveryConstants DEF CrashR, CrashA, CrashD, Crash, RecordInv, SenderTypes
  <1>2. SenderTypes'
    <2>1. dep' \in {dep, {}} /\ UNCHANGED <<aDisk, sends, sent, stores>>
      BY DEF CrashR, CrashA, CrashD, aVars
    <2>2. \/ UNCHANGED <<aDb, aEdited, qEdited>>
          \/ aDb' = aDisk.db /\ aEdited' = aDisk.edited /\ qEdited' = aDisk.edited
      BY DEF CrashR, CrashA, CrashD, aVars
    <2> QED BY <1>1, <2>1, <2>2 DEF RecordInv, SenderTypes
  <1>3. PollTypes'
    <2>1. rpc' \in {"idle", rpc} /\ batch' \in {<<>>, batch} /\ seen' \in {{}, seen}
      BY DEF CrashR, CrashA, CrashD, pollVars
    <2>2. <<>> \in Seq(Envelope)
      OBVIOUS
    <2> QED BY <2>1, <2>2 DEF RecordInv, PollTypes
  <1>4. RecipientTypes'
    <2>1. CASE CrashR
      <3>1. disk.db \in [Msgs -> DbStates] /\ disk.tombs \subseteq Msgs
        BY DEF RecordInv, RecipientTypes
      <3>2. /\ db' = disk.db /\ tombs' = disk.tombs /\ acks' = {}
            /\ UNCHANGED <<receipts, disk, saveFailures, notified, erased>>
            /\ forgotten' \subseteq forgotten \cup Msgs
        BY <2>1 DEF CrashR
      <3> QED BY <3>1, <3>2 DEF RecordInv, RecipientTypes
    <2>2. CASE CrashA \/ CrashD
      BY <2>2 DEF CrashA, CrashD, RecordInv, RecipientTypes, dbVars, rVars
    <2> QED BY <2>1, <2>2
  <1>5. Records'
    <2>1. \E n \in Nodes : box' = [box EXCEPT ![n] = <<>>]
      BY DEF CrashR, CrashA, CrashD, Nodes
    <2>2. found' \in {found, <<>>} /\ dep' \in {dep, {}}
      BY DEF CrashR, CrashA, CrashD, aVars, pollVars
    <2> QED BY <2>1, <2>2, ShortIsProper, BoxChanges DEF RecordInv
  <1> QED BY <1>2, <1>3, <1>4, <1>5 DEF RecordInv

(* Every step preserves the invariant.                                     *)
LEMMA RecordStep == RecordInv /\ [Next]_vars => RecordInv'
  <1> SUFFICES ASSUME RecordInv, [Next]_vars PROVE RecordInv'
    OBVIOUS
  <1>1. ASSUME NEW m \in Msgs, SendDeliveryReceipt(m)
        PROVE  RecordInv'
    BY <1>1 DEF SendDeliveryReceipt, RecordInv, SenderTypes, PollTypes, RecipientTypes, Records,
       aVars, pollVars, dbVars, rVars, lives
  <1>2. CASE UNCHANGED vars
    BY <1>2 DEF vars, RecordInv, SenderTypes, PollTypes, RecipientTypes, Records, aVars, pollVars,
       dbVars, rVars, lives
  <1> QED
    BY <1>1, <1>2, SenderStep, FileStep, DepositReadStep, DepositPutStep, StoreStep, PollReadStep,
       ProcessStep, UserStep, CrashStep DEF Next, PollStep

(* The types of Delivery hold, whether or not saves fail.                  *)
THEOREM TypeCorrect == Spec => []TypeOK
  <1>1. RecordInv => TypeOK
    BY TypesInParts DEF RecordInv, Records, Proper
  <1> QED BY <1>1, RecordInit, RecordStep, PTL DEF Spec

(* A mailbox record never holds an envelope twice and never outgrows the   *)
(* larger of the two bounds, however merges of STOREs (merge_store_value), *)
(* deposits, the TCP bridge, caching and drains interleave.                *)
THEOREM RecordsBoundedHolds == Spec => []RecordsBounded
  <1>1. RecordInv => RecordsBounded
    BY DistinctCounted DEF RecordInv, Records, Proper, MaxLen, RecordsBounded
  <1> QED BY <1>1, RecordInit, RecordStep, PTL DEF Spec

-----------------------------------------------------------------------------
(* Receipts, notifications and deletions *)
(* The types of the variables the argument is about. *)
EndsTypeOK ==
  /\ aDb \in [Msgs -> {"sent", "delivered", "deleted"}]
  /\ aDisk.db \in [Msgs -> {"sent", "delivered", "deleted"}]
  /\ db \in [Msgs -> DbStates]
  /\ tombs \subseteq Msgs
  /\ acks \subseteq Msgs /\ receipts \subseteq Msgs
  /\ notified \in [Msgs -> 0..2]
  /\ erased \subseteq Msgs /\ forgotten \subseteq Msgs
  /\ saveFailures \in Nat

(* What the files have: what the memory has, before the first failed save; *)
(* and of A's messages an older state than the memory, never a newer one.  *)
RFileInv == saveFailures = 0 => disk = [db |-> db, tombs |-> tombs] /\ forgotten = {}

AFileInv ==
  /\ \A m \in Msgs : /\ aDb[m] = "delivered" => m \in receipts
                     /\ aDisk.db[m] = "delivered" => m \in receipts
                     /\ aDisk.db[m] # aDb[m] => /\ saveFailures > 0
                                                /\ aDisk.db[m] # "deleted"

(* A receipt, wherever it is, is about a row R has or had. *)
ReceiptsHaveRows ==
  \A m \in Msgs \ forgotten :
    m \in acks \cup receipts \/ aDb[m] = "delivered" => db[m] # "absent"

(* A message R was told of has left the state "absent" for good. *)
NotifiedHaveRows ==
  \A m \in Msgs \ forgotten : notified[m] <= 1 /\ (notified[m] = 1 => db[m] # "absent")

(* A message that is stored or being acknowledged was announced. *)
AcksAnnounced == \A m \in Msgs \ forgotten : m \in acks \/ Stored(m) => notified[m] > 0

(* A message that was erased is known as such to is_tombstoned. *)
ErasedAreTombstoned == \A m \in erased \ forgotten : IsTombstoned(m) /\ ~Stored(m)

(* The inductive invariant: a crash of R changes db and tombs only of the  *)
(* messages it adds to forgotten, so what was true of the others stays so. *)
IInv ==
  /\ EndsTypeOK
  /\ RFileInv
  /\ AFileInv
  /\ ReceiptsHaveRows
  /\ NotifiedHaveRows
  /\ AcksAnnounced
  /\ ErasedAreTombstoned

-----------------------------------------------------------------------------
(* Initially there are no rows, receipts, notifications or deletions. *)
LEMMA InitIInv == Init => IInv
  BY DEF Init, IInv, EndsTypeOK, RFileInv, AFileInv, ReceiptsHaveRows, NotifiedHaveRows,
         AcksAnnounced, ErasedAreTombstoned, DbStates, Stored

(* A save of R. *)
LEMMA SaveCounts ==
  ASSUME saveFailures \in Nat, RFileInv, Save, forgotten' = forgotten
  PROVE  RFileInv' /\ saveFailures' \in {saveFailures, saveFailures + 1}
  BY DEF Save, RFileInv

(* A chat message, new or a copy. *)
LEMMA ChatStep ==
  ASSUME IInv, NEW m \in Msgs, Chat(m), UNCHANGED <<aDb, aDisk, receipts, forgotten>>
  PROVE  IInv'
  <1>1. CASE IsTombstoned(m)
    BY <1>1 DEF Chat, IInv, EndsTypeOK, RFileInv, AFileInv, ReceiptsHaveRows, AcksAnnounced,
       NotifiedHaveRows, ErasedAreTombstoned, IsTombstoned, Stored, dbVars, rVars
  <1>2. CASE ~IsTombstoned(m)
    <2>1. /\ db' = [db EXCEPT ![m] = "original"] /\ UNCHANGED <<tombs, erased>>
          /\ acks' = acks \cup {m} /\ Save
          /\ notified' = [notified EXCEPT ![m] =
                            IF Stored(m) \/ @ = 2 THEN @ ELSE @ + 1]
      BY <1>2 DEF Chat
    <2>2. RFileInv' /\ saveFailures' \in {saveFailures, saveFailures + 1}
      BY <2>1, SaveCounts DEF IInv, EndsTypeOK
    <2>3. /\ Stored(m) \/ db[m] = "absent"
          /\ m \notin forgotten /\ db[m] = "absent" => notified[m] = 0
      BY <1>2 DEF IInv, EndsTypeOK, NotifiedHaveRows, Stored, IsTombstoned, DbStates
    <2>4. notified' \in [Msgs -> 0..2] /\ (m \notin forgotten => notified'[m] <= 1)
          /\ \A k \in Msgs \ {m} : notified'[k] = notified[k]
      BY <2>1, <2>3 DEF IInv, EndsTypeOK, NotifiedHaveRows
    <2>5. m \notin erased \ forgotten
      BY <1>2 DEF IInv, ErasedAreTombstoned
    <2>6. EndsTypeOK' /\ AFileInv'
      BY <2>1, <2>2, <2>4 DEF IInv, EndsTypeOK, AFileInv, DbStates
    <2>7. ReceiptsHaveRows' /\ NotifiedHaveRows'
      BY <2>1, <2>4 DEF IInv, EndsTypeOK, ReceiptsHaveRows, NotifiedHaveRows
    <2>8. ErasedAreTombstoned'
      BY <2>1, <2>5 DEF IInv, EndsTypeOK, ErasedAreTombstoned, IsTombstoned, Stored
    <2>9. m \notin forgotten => notified'[m] > 0
      BY <2>1, <2>3 DEF IInv, EndsTypeOK, AcksAnnounced
    <2>10. AcksAnnounced'
      BY <2>1, <2>4, <2>9 DEF IInv, EndsTypeOK, AcksAnnounced, Stored
    <2> QED BY <2>2, <2>6, <2>7, <2>8, <2>10 DEF IInv
  <1> QED BY <1>1, <1>2

(* An edit of a row that exists, or of none. *)
LEMMA EditStep ==
  ASSUME IInv, NEW m \in Msgs, Edit(m), UNCHANGED <<aDb, aDisk, receipts, forgotten>>
  PROVE  IInv'
  <1>1. CASE Stored(m)
    <2>1. /\ db' = [db EXCEPT ![m] = "edited"]
          /\ UNCHANGED <<tombs, acks, notified, erased>> /\ Save
      BY <1>1 DEF Edit
    <2>2. RFileInv' /\ saveFailures' \in {saveFailures, saveFailures + 1}
      BY <2>1, SaveCounts DEF IInv, EndsTypeOK
    <2>3. m \notin erased \ forgotten
      BY <1>1 DEF IInv, ErasedAreTombstoned
    <2>4. AcksAnnounced'
      <3>1. \A k \in Msgs : Stored(k)' <=> Stored(k)
        BY <1>1, <2>1 DEF IInv, EndsTypeOK, Stored
      <3> QED BY <2>1, <3>1 DEF IInv, AcksAnnounced
    <2>5. EndsTypeOK' /\ AFileInv' /\ ReceiptsHaveRows' /\ NotifiedHaveRows'
      BY <2>1, <2>2 DEF IInv, EndsTypeOK, AFileInv, ReceiptsHaveRows, NotifiedHaveRows, DbStates
    <2>6. ErasedAreTombstoned'
      BY <2>1, <2>3 DEF IInv, EndsTypeOK, ErasedAreTombstoned, IsTombstoned, Stored
    <2> QED BY <2>2, <2>4, <2>5, <2>6 DEF IInv
  <1>2. CASE ~Stored(m)
    BY <1>2 DEF Edit, IInv, EndsTypeOK, RFileInv, AFileInv, ReceiptsHaveRows, AcksAnnounced,
       NotifiedHaveRows, ErasedAreTombstoned, IsTombstoned, Stored, dbVars, rVars
  <1> QED BY <1>1, <1>2

(* A tombstone of a row that exists, or that comes before its message, and *)
(* the deletions of R's user.                                              *)
LEMMA ErasingStep ==
  ASSUME IInv, NEW S \in SUBSET Msgs, NEW T \in SUBSET S, Save,
         \A m \in S : Stored(m) \/ m \in T,
         db' = [m \in Msgs |-> IF m \in S /\ Stored(m) THEN "deleted" ELSE db[m]],
         tombs' = tombs \cup T, erased' = erased \cup S,
         UNCHANGED <<aDb, aDisk, receipts, acks, notified, forgotten>>
  PROVE  IInv'
  <1>1. RFileInv' /\ saveFailures' \in {saveFailures, saveFailures + 1}
    BY SaveCounts DEF IInv, EndsTypeOK
  <1>2. EndsTypeOK' /\ AFileInv' /\ ReceiptsHaveRows' /\ NotifiedHaveRows'
    BY <1>1 DEF IInv, EndsTypeOK, AFileInv, ReceiptsHaveRows, NotifiedHaveRows, DbStates, Stored
  <1>3. AcksAnnounced' /\ ErasedAreTombstoned'
    BY DEF IInv, EndsTypeOK, AcksAnnounced, ErasedAreTombstoned, IsTombstoned, Stored
  <1> QED BY <1>1, <1>2, <1>3 DEF IInv

(* The three ways to delete are such steps. *)
LEMMA TombstoneErases ==
  ASSUME IInv, NEW m \in Msgs, Tombstone(m)
  PROVE  /\ \A k \in {m} : Stored(k) \/ k \in {m}
         /\ db' = [k \in Msgs |-> IF k \in {m} /\ Stored(k) THEN "deleted" ELSE db[k]]
         /\ tombs' = tombs \cup {m} /\ erased' = erased \cup {m} /\ Save
         /\ UNCHANGED <<acks, notified>>
  BY DEF Tombstone, IInv, EndsTypeOK

LEMMA DeleteErases ==
  ASSUME IInv, NEW m \in Msgs, DeleteMessage(m)
  PROVE  /\ \A k \in {m} : Stored(k) \/ k \in {}
         /\ db' = [k \in Msgs |-> IF k \in {m} /\ Stored(k) THEN "deleted" ELSE db[k]]
         /\ tombs' = tombs \cup {} /\ erased' = erased \cup {m} /\ Save
         /\ UNCHANGED <<aDb, aDisk, receipts, acks, notified, forgotten>>
  BY DEF DeleteMessage, IInv, EndsTypeOK, aVars, lives

LEMMA ClearErases ==
  ASSUME IInv, ClearChat
  PROVE  LET S == {m \in Msgs : Stored(m)}
         IN  /\ \A k \in S : Stored(k) \/ k \in {}
             /\ db' = [k \in Msgs |-> IF k \in S /\ Stored(k) THEN "deleted" ELSE db[k]]
             /\ tombs' = tombs \cup {} /\ erased' = erased \cup S /\ Save
             /\ UNCHANGED <<aDb, aDisk, receipts, acks, notified, forgotten>>
  BY DEF ClearChat, IInv, EndsTypeOK, aVars, lives

(* A's own steps: R's rows stay, and A's file follows or falls behind. *)
LEMMA AuthorStep ==
  ASSUME IInv, aDb' \in [Msgs -> {"sent", "delivered", "deleted"}], SaveA,
         UNCHANGED <<receipts, rVars, acks, notified, erased, forgotten>>,
         \A m \in Msgs : aDb'[m] # aDb[m] => \/ aDb'[m] = "deleted"
                                             \/ m \in receipts /\ aDb[m] = "sent"
  PROVE  IInv'
  <1>1. saveFailures' \in Nat /\ (saveFailures' = 0 => saveFailures = 0)
    BY DEF SaveA, IInv, EndsTypeOK
  <1>2. CASE aDisk' = [db |-> aDb', edited |-> aEdited']
    <2>1. aDisk'.db = aDb'
      BY <1>2
    <2> QED BY <1>1, <2>1 DEF IInv, EndsTypeOK, RFileInv, AFileInv, ReceiptsHaveRows,
            NotifiedHaveRows, AcksAnnounced, ErasedAreTombstoned, IsTombstoned, Stored, rVars
  <1>3. CASE aDisk' = aDisk /\ saveFailures' = saveFailures + 1
    <2>1. saveFailures' > 0
      BY <1>3 DEF IInv, EndsTypeOK
    <2>2. \A m \in Msgs : aDisk.db[m] = "deleted" => aDb[m] = "deleted"
      BY DEF IInv, AFileInv
    <2>3. AFileInv'
      BY <1>3, <2>1, <2>2 DEF IInv, EndsTypeOK, AFileInv
    <2>4. EndsTypeOK' /\ RFileInv' /\ ReceiptsHaveRows'
      BY <1>1, <1>3, <2>1 DEF IInv, EndsTypeOK, AFileInv, RFileInv, ReceiptsHaveRows, rVars
    <2>5. NotifiedHaveRows' /\ AcksAnnounced' /\ ErasedAreTombstoned'
      BY DEF IInv, NotifiedHaveRows, AcksAnnounced, ErasedAreTombstoned, IsTombstoned, Stored, rVars
    <2> QED BY <2>3, <2>4, <2>5 DEF IInv
  <1> QED BY <1>2, <1>3 DEF SaveA

(* What leaves A's and R's rows, files and receipts alone. *)
LEMMA OtherStep ==
  ASSUME IInv, UNCHANGED <<aDb, aDisk, receipts, dbVars, acks, notified, erased, forgotten>>
  PROVE  IInv'
  BY DEF IInv, EndsTypeOK, RFileInv, AFileInv, ReceiptsHaveRows, NotifiedHaveRows, AcksAnnounced,
         ErasedAreTombstoned, IsTombstoned, Stored, dbVars, rVars

(* R goes back to its file. *)
LEMMA CrashRStep ==
  ASSUME IInv, RecordInv, CrashR
  PROVE  IInv'
  <1>1. /\ db' = disk.db /\ tombs' = disk.tombs /\ acks' = {} /\ disk' = disk
        /\ disk.db \in [Msgs -> DbStates] /\ disk.tombs \subseteq Msgs
        /\ forgotten' = forgotten \cup
             {m \in Msgs : disk.db[m] # db[m] \/ (m \in disk.tombs) # (m \in tombs)}
        /\ UNCHANGED <<aDb, aDisk, receipts, saveFailures, notified, erased>>
    BY DEF CrashR, aVars, RecordInv, RecipientTypes
  <1>2. \A m \in Msgs \ forgotten' : /\ m \notin forgotten /\ db'[m] = db[m]
                                     /\ m \in tombs' <=> m \in tombs
    BY <1>1
  <1>3. EndsTypeOK' /\ AFileInv'
    BY <1>1 DEF IInv, EndsTypeOK, AFileInv
  <1>4. RFileInv'
    <2> SUFFICES ASSUME saveFailures' = 0
                 PROVE  disk' = [db |-> db', tombs |-> tombs'] /\ forgotten' = {}
      BY DEF RFileInv
    <2>1. disk = [db |-> db, tombs |-> tombs] /\ forgotten = {}
      BY <1>1 DEF IInv, RFileInv
    <2>2. disk.db = db /\ disk.tombs = tombs
      BY <2>1
    <2> QED BY <1>1, <2>1, <2>2
  <1>5. ReceiptsHaveRows' /\ NotifiedHaveRows'
    BY <1>1, <1>2 DEF IInv, ReceiptsHaveRows, NotifiedHaveRows
  <1>6. AcksAnnounced' /\ ErasedAreTombstoned'
    <2>1. \A m \in Msgs \ forgotten' : /\ Stored(m)' <=> Stored(m)
                                       /\ IsTombstoned(m)' <=> IsTombstoned(m)
      BY <1>2 DEF Stored, IsTombstoned
    <2>2. erased \subseteq Msgs
      BY DEF IInv, EndsTypeOK
    <2> QED BY <1>1, <1>2, <2>1, <2>2 DEF IInv, AcksAnnounced, ErasedAreTombstoned
  <1> QED BY <1>3, <1>4, <1>5, <1>6 DEF IInv

(* A goes back to its file. *)
LEMMA CrashAStep ==
  ASSUME IInv, CrashA
  PROVE  IInv'
  <1>1. /\ aDb' = aDisk.db /\ aDisk' = aDisk
        /\ UNCHANGED <<receipts, dbVars, acks, notified, erased, forgotten>>
    BY DEF CrashA
  <1>2. EndsTypeOK' /\ RFileInv' /\ AFileInv'
    BY <1>1 DEF IInv, EndsTypeOK, RFileInv, AFileInv, dbVars, rVars
  <1>3. ReceiptsHaveRows' /\ NotifiedHaveRows' /\ AcksAnnounced' /\ ErasedAreTombstoned'
    BY <1>1 DEF IInv, EndsTypeOK, AFileInv, ReceiptsHaveRows, NotifiedHaveRows, AcksAnnounced,
       ErasedAreTombstoned, IsTombstoned, Stored, dbVars, rVars
  <1> QED BY <1>2, <1>3 DEF IInv

(* Every step preserves the invariant. *)
LEMMA NextIInv ==
  ASSUME IInv, RecordInv, [Next]_vars
  PROVE  IInv'
  <1>1. ASSUME NEW m \in Msgs, SendMessage(m) PROVE IInv'
    BY <1>1, OtherStep DEF SendMessage, lives
  <1>2. ASSUME NEW m \in Msgs, EditMessage(m) \/ DeleteForEveryone(m) \/ AcceptReceipt(m)
        PROVE  IInv'
    <2>1. /\ aDb' \in [Msgs -> {"sent", "delivered", "deleted"}] /\ SaveA
          /\ UNCHANGED <<receipts, rVars, acks, notified, erased, forgotten>>
          /\ \A k \in Msgs : aDb'[k] # aDb[k] => \/ aDb'[k] = "deleted"
                                                 \/ k \in receipts /\ aDb[k] = "sent"
      BY <1>2 DEF EditMessage, DeleteForEveryone, AcceptReceipt, IInv, EndsTypeOK, lives
    <2> QED BY <2>1, AuthorStep
  <1>3. CASE ASavesElsewhere
    <2>1. aDb' = aDb /\ SaveA
          /\ UNCHANGED <<receipts, rVars, acks, notified, erased, forgotten>>
      BY <1>3 DEF ASavesElsewhere, SaveA, dbVars, lives
    <2> QED BY <2>1, AuthorStep DEF IInv, EndsTypeOK
  <1>4. CASE RSavesElsewhere
    BY <1>4 DEF RSavesElsewhere, aVars, lives, IInv, EndsTypeOK, RFileInv, AFileInv,
       ReceiptsHaveRows, NotifiedHaveRows, AcksAnnounced, ErasedAreTombstoned, IsTombstoned, Stored
  <1>5. ASSUME NEW m \in Msgs, SendDeliveryReceipt(m) PROVE IInv'
    BY <1>5 DEF SendDeliveryReceipt, dbVars, rVars, aVars, lives, IInv, EndsTypeOK, RFileInv,
       AFileInv, ReceiptsHaveRows, NotifiedHaveRows, AcksAnnounced, ErasedAreTombstoned,
       IsTombstoned, Stored
  <1>6. ASSUME NEW m \in Msgs, DeleteMessage(m) PROVE IInv'
    <2>1. {m} \in SUBSET Msgs /\ {} \in SUBSET {m}
      OBVIOUS
    <2>2. /\ \A k \in {m} : Stored(k) \/ k \in {}
          /\ db' = [k \in Msgs |-> IF k \in {m} /\ Stored(k) THEN "deleted" ELSE db[k]]
          /\ tombs' = tombs \cup {} /\ erased' = erased \cup {m} /\ Save
          /\ UNCHANGED <<aDb, aDisk, receipts, acks, notified, forgotten>>
      BY <1>6, DeleteErases
    <2> QED BY <2>1, <2>2, ErasingStep
  <1>7. ASSUME NEW e \in sent, DepositRead(e) PROVE IInv'
    BY <1>7, OtherStep DEF DepositRead, lives
  <1>8. ASSUME NEW d \in dep, DepositPut(d) PROVE IInv'
    BY <1>8, OtherStep DEF DepositPut, lives
  <1>9. ASSUME NEW s \in stores, HandleStore(s) \/ TcpStore(s) PROVE IInv'
    BY <1>9, OtherStep DEF HandleStore, TcpStore, aVars, lives
  <1>10. CASE PollLocal \/ PollLookup \/ PollCache \/ SkipReplayed \/ Drain
    BY <1>10, OtherStep DEF PollLocal, PollLookup, PollCache, SkipReplayed, Drain, aVars, lives
  <1>11. CASE ProcessChat
    BY <1>11, ChatStep DEF ProcessChat, Accept, Envelope, aVars, lives
  <1>12. CASE ProcessEdit
    BY <1>12, EditStep DEF ProcessEdit, Accept, Envelope, aVars, lives
  <1>13. CASE ProcessTombstone
    <2>1. PICK e \in Envelope : Accept("tombstone", e) /\ Tombstone(e.id)
      BY <1>13 DEF ProcessTombstone
    <2>2. {e.id} \in SUBSET Msgs /\ {e.id} \in SUBSET {e.id} /\ e.id \in Msgs
      BY DEF Envelope
    <2>3. UNCHANGED <<aDb, aDisk, receipts, forgotten>>
      BY <2>1 DEF Accept, aVars, lives
    <2> QED BY <2>1, <2>2, <2>3, TombstoneErases, ErasingStep
  <1>14. CASE ClearChat
    <2> DEFINE S == {m \in Msgs : Stored(m)}
    <2>1. S \in SUBSET Msgs /\ {} \in SUBSET S
      OBVIOUS
    <2>2. /\ \A k \in S : Stored(k) \/ k \in {}
          /\ db' = [k \in Msgs |-> IF k \in S /\ Stored(k) THEN "deleted" ELSE db[k]]
          /\ tombs' = tombs \cup {} /\ erased' = erased \cup S /\ Save
          /\ UNCHANGED <<aDb, aDisk, receipts, acks, notified, forgotten>>
      BY <1>14, ClearErases
    <2> HIDE DEF S
    <2> QED BY <2>1, <2>2, ErasingStep
  <1>15. CASE CrashD
    BY <1>15, OtherStep DEF CrashD, aVars
  <1>16. CASE UNCHANGED vars
    BY <1>16, OtherStep DEF vars, aVars, lives
  <1> QED
    BY <1>1, <1>2, <1>3, <1>4, <1>5, <1>6, <1>7, <1>8, <1>9, <1>10, <1>11, <1>12,
       <1>13, <1>14, <1>15, <1>16, CrashRStep, CrashAStep DEF Next, PollStep

LEMMA Invariance == Spec => [](IInv /\ RecordInv)
  <1>1. Init => IInv /\ RecordInv
    BY InitIInv, RecordInit
  <1>2. (IInv /\ RecordInv) /\ [Next]_vars => (IInv /\ RecordInv)'
    BY NextIInv, RecordStep
  <1> QED BY <1>1, <1>2, PTL DEF Spec

-----------------------------------------------------------------------------
(* What A was told is true of R: however the mailbox copies, crashes,      *)
(* deletions and failed saves interleave, a receipt means that R has the   *)
(* message or deleted it, unless R forgot this very message.               *)
THEOREM ReceiptMeansStoredHolds == Spec => []ReceiptMeansStored
  <1>1. IInv => ReceiptMeansStored
    BY DEF IInv, ReceiptsHaveRows, ReceiptMeansStored
  <1> QED BY Invariance, <1>1, PTL

(* R's user is told of a message at most once, although the replay cache   *)
(* forgets everything in a crash and every retry is a new envelope; only a *)
(* message that R's file made it forget may be announced again.            *)
THEOREM NotifiedOnceHolds == Spec => []NotifiedOnce
  <1>1. IInv => NotifiedOnce
    BY DEF IInv, NotifiedHaveRows, NotifiedOnce
  <1> QED BY Invariance, <1>1, PTL

(* A deleted message does not come back, also when its tombstone overtakes *)
(* it: is_tombstoned knows every erased message, before and after a crash, *)
(* whose deletion R's file did not make it forget.                         *)
THEOREM DeletionIsFinalHolds == Spec => []DeletionIsFinal
  <1>1. IInv => DeletionIsFinal
    BY DEF IInv, ErasedAreTombstoned, DeletionIsFinal
  <1> QED BY Invariance, <1>1, PTL

-----------------------------------------------------------------------------
(* The refinement: what each step does to the abstract state. *)

Shown == [m \in Msgs |-> IF m \in forgotten THEN "lost"
                         ELSE IF m \in erased THEN "gone"
                         ELSE IF Stored(m) THEN "shown" ELSE "never"]
Announced == {m \in Msgs : notified[m] > 0} \cup forgotten

(* A step of the abstract messages, or none. *)
MessageStep ==
  \/ UNCHANGED <<Shown, Announced, receipts, aDb>>
  \/ \E m \in Msgs : \/ Promise!Appear(m) \/ Promise!Acknowledge(m)
                     \/ Promise!ShowDelivered(m) \/ Promise!AuthorDeletes(m)
  \/ \E S \in SUBSET Msgs : Promise!Disappear(S) \/ Promise!Forget(S)
  \/ Promise!AuthorForgets

(* A chat message appears, or was there, or is dropped. *)
LEMMA ChatRefines ==
  ASSUME IInv, NEW m \in Msgs, Chat(m), UNCHANGED <<aDb, receipts, forgotten>>
  PROVE  MessageStep
  <1>1. CASE IsTombstoned(m)
    BY <1>1 DEF Chat, dbVars, rVars, MessageStep, Shown, Announced, Stored
  <1>2. CASE ~IsTombstoned(m) /\ (Stored(m) \/ m \in forgotten)
    <2>1. /\ db' = [db EXCEPT ![m] = "original"] /\ UNCHANGED erased
          /\ notified' \in [Msgs -> 0..2]
          /\ \A k \in Msgs : (k = m /\ ~Stored(m)) \/ notified'[k] = notified[k]
      BY <1>2 DEF Chat, IInv, EndsTypeOK
    <2>2. Announced' = Announced
      BY <1>2, <2>1 DEF Announced, IInv, EndsTypeOK
    <2>3. \A k \in Msgs \ forgotten : Stored(k)' <=> Stored(k)
      BY <1>2, <2>1 DEF IInv, EndsTypeOK, Stored
    <2>4. Shown' = Shown
      BY <2>1, <2>3 DEF Shown
    <2> QED BY <2>2, <2>4 DEF MessageStep
  <1>3. CASE ~IsTombstoned(m) /\ ~Stored(m) /\ m \notin forgotten
    <2>1. db[m] = "absent" /\ notified[m] = 0 /\ m \notin erased
      BY <1>3 DEF IInv, EndsTypeOK, NotifiedHaveRows, ErasedAreTombstoned, Stored,
         IsTombstoned, DbStates
    <2>2. /\ db' = [db EXCEPT ![m] = "original"] /\ UNCHANGED erased
          /\ notified' = [notified EXCEPT ![m] = 1]
      BY <1>3, <2>1 DEF Chat
    <2>3. Shown[m] = "never" /\ m \notin Announced
      BY <1>3, <2>1 DEF Shown, Announced
    <2>4. Shown' = [Shown EXCEPT ![m] = "shown"]
      BY <1>3, <2>1, <2>2 DEF Shown, Stored, IInv, EndsTypeOK
    <2>5. Announced' = Announced \cup {m}
      BY <2>2 DEF Announced, IInv, EndsTypeOK
    <2>6. Promise!Appear(m)
      BY <2>3, <2>4, <2>5 DEF Promise!Appear, Shown, Announced
    <2> QED BY <2>6 DEF MessageStep
  <1> QED BY <1>1, <1>2, <1>3

(* Rows that a step erases disappear; nothing else changes. *)
LEMMA ErasingRefines ==
  ASSUME IInv, NEW S \in SUBSET Msgs, erased' = erased \cup S,
         \A m \in Msgs \ S : db'[m] = db[m],
         UNCHANGED <<aDb, receipts, notified, forgotten>>
  PROVE  MessageStep
  <1>0. PICK T \in SUBSET Msgs : T = S \ forgotten
    OBVIOUS
  <1>1. Shown' = [m \in Msgs |-> IF m \in T THEN "gone" ELSE Shown[m]]
    BY <1>0 DEF Shown, Stored
  <1>2. \A m \in T : Shown[m] # "lost"
    BY <1>0 DEF Shown
  <1>3. Announced' = Announced
    BY DEF Announced
  <1>4. Promise!Disappear(T)
    BY <1>1, <1>2, <1>3 DEF Promise!Disappear, Shown, Announced
  <1> QED BY <1>4 DEF MessageStep

(* A step that leaves rows, announcements and receipts alone is a stutter. *)
LEMMA OtherRefines ==
  ASSUME UNCHANGED <<aDb, receipts, notified, erased, forgotten>>,
         \A m \in Msgs : Stored(m)' <=> Stored(m)
  PROVE  MessageStep
  BY DEF MessageStep, Shown, Announced

(* A crash of R forgets what its file does not have. *)
LEMMA CrashRRefines ==
  ASSUME IInv, RecordInv, CrashR
  PROVE  MessageStep
  <1>1. /\ db' = disk.db /\ tombs' = disk.tombs
        /\ forgotten' = forgotten \cup
             {m \in Msgs : disk.db[m] # db[m] \/ (m \in disk.tombs) # (m \in tombs)}
        /\ UNCHANGED <<aDb, receipts, notified, erased>>
    BY DEF CrashR, aVars
  <1>2. PICK S \in SUBSET Msgs : S = forgotten' \ forgotten /\ forgotten' = forgotten \cup S
    <2>1. forgotten' \ forgotten \in SUBSET Msgs
      BY <1>1
    <2>2. forgotten' = forgotten \cup (forgotten' \ forgotten)
      BY <1>1
    <2> QED BY <2>1, <2>2
  <1>3. \A m \in Msgs \ forgotten' : db'[m] = db[m]
    BY <1>1
  <1>4. CASE S = {}
    <2>1. forgotten' = forgotten
      BY <1>2, <1>4
    <2>2. Shown' = Shown /\ Announced' = Announced
      BY <1>1, <1>3, <2>1 DEF Shown, Announced, Stored
    <2> QED BY <1>1, <2>2 DEF MessageStep
  <1>5. CASE S # {}
    <2>1. saveFailures > 0
      <3>1. CASE saveFailures = 0
        <4>1. disk = [db |-> db, tombs |-> tombs]
          BY <3>1 DEF IInv, RFileInv
        <4>2. disk.db = db /\ disk.tombs = tombs
          BY <4>1
        <4> QED BY <1>1, <1>2, <1>5, <4>2
      <3> QED BY <3>1 DEF IInv, EndsTypeOK
    <2>2. Shown' = [m \in Msgs |-> IF m \in S THEN "lost" ELSE Shown[m]]
      BY <1>1, <1>2, <1>3 DEF Shown, Stored
    <2>3. Announced' = Announced \cup S
      BY <1>1, <1>2 DEF Announced
    <2>4. Promise!Forget(S)
      BY <1>1, <2>1, <2>2, <2>3 DEF Promise!Forget, Shown, Announced
    <2> QED BY <2>4 DEF MessageStep
  <1> QED BY <1>4, <1>5

(* A crash of A makes it forget its deletions and receipts. *)
LEMMA CrashARefines ==
  ASSUME IInv, CrashA
  PROVE  MessageStep
  <1>1. /\ aDb' = aDisk.db
        /\ UNCHANGED <<receipts, notified, erased, forgotten, db>>
    BY DEF CrashA, dbVars, rVars
  <1>2. Shown' = Shown /\ Announced' = Announced
    BY <1>1 DEF Shown, Announced, Stored
  <1>3. CASE aDb' = aDb
    BY <1>1, <1>2, <1>3 DEF MessageStep
  <1>4. CASE aDb' # aDb
    <2> DEFINE S == {m \in Msgs : aDb'[m] # aDb[m]}
               D == {m \in receipts : aDb'[m] = "delivered"}
    <2>1. \E m \in Msgs : aDisk.db[m] # aDb[m]
      BY <1>1, <1>4 DEF IInv, EndsTypeOK
    <2>2. saveFailures > 0
      BY <2>1 DEF IInv, AFileInv
    <2>3. \A m \in S : aDb'[m] = IF m \in D THEN "delivered" ELSE "sent"
      BY <1>1 DEF IInv, EndsTypeOK, AFileInv
    <2>4. aDb' = [m \in Msgs |-> IF m \notin S THEN aDb[m]
                                 ELSE IF m \in D THEN "delivered" ELSE "sent"]
      BY <1>1, <2>3 DEF IInv, EndsTypeOK
    <2>5. S \in SUBSET Msgs /\ D \in SUBSET receipts
      OBVIOUS
    <2> HIDE DEF S, D
    <2>6. Promise!AuthorForgets
      BY <1>1, <1>2, <2>2, <2>4, <2>5 DEF Promise!AuthorForgets, Shown, Announced
    <2> QED BY <2>6 DEF MessageStep
  <1> QED BY <1>3, <1>4

(* Every step of Delivery is a step of the abstract messages or none. *)
LEMMA StepRefines ==
  ASSUME IInv, RecordInv, [Next]_vars
  PROVE  MessageStep
  <1>1. ASSUME NEW m \in Msgs, SendMessage(m) \/ EditMessage(m)
        PROVE  MessageStep
    BY <1>1, OtherRefines DEF SendMessage, EditMessage, dbVars, rVars, lives, Stored
  <1>2. ASSUME NEW m \in Msgs, DeleteForEveryone(m)
        PROVE  MessageStep
    <2>1. Promise!AuthorDeletes(m)
      BY <1>2 DEF DeleteForEveryone, rVars, lives, Promise!AuthorDeletes, Stored
    <2> QED BY <2>1 DEF MessageStep
  <1>3. ASSUME NEW m \in Msgs, AcceptReceipt(m)
        PROVE  MessageStep
    <2>1. Promise!ShowDelivered(m)
      BY <1>3 DEF AcceptReceipt, rVars, lives, Promise!ShowDelivered, Stored
    <2> QED BY <2>1 DEF MessageStep
  <1>4. ASSUME NEW m \in Msgs, SendDeliveryReceipt(m)
        PROVE  MessageStep
    <2>1. notified[m] > 0 \/ m \in forgotten
      BY <1>4 DEF SendDeliveryReceipt, IInv, AcksAnnounced
    <2>2. Promise!Acknowledge(m)
      BY <1>4, <2>1 DEF SendDeliveryReceipt, dbVars, rVars, aVars, lives, Promise!Acknowledge, Stored
    <2> QED BY <2>2 DEF MessageStep
  <1>5. ASSUME NEW m \in Msgs, DeleteMessage(m)
        PROVE  MessageStep
    <2>1. {m} \in SUBSET Msgs /\ erased' = erased \cup {m}
          /\ UNCHANGED <<aDb, receipts, notified, forgotten>>
          /\ \A k \in Msgs \ {m} : db'[k] = db[k]
      BY <1>5 DEF DeleteMessage, aVars, lives, IInv, EndsTypeOK
    <2> QED BY <2>1, ErasingRefines
  <1>6. ASSUME NEW e \in sent, DepositRead(e)
        PROVE  MessageStep
    BY <1>6, OtherRefines DEF DepositRead, dbVars, rVars, lives, Stored
  <1>7. ASSUME NEW d \in dep, DepositPut(d)
        PROVE  MessageStep
    BY <1>7, OtherRefines DEF DepositPut, dbVars, rVars, lives, Stored
  <1>8. ASSUME NEW s \in stores, HandleStore(s) \/ TcpStore(s)
        PROVE  MessageStep
    BY <1>8, OtherRefines DEF HandleStore, TcpStore, aVars, dbVars, rVars, lives, Stored
  <1>9. CASE PollLocal \/ PollLookup \/ PollCache \/ SkipReplayed \/ Drain
    BY <1>9, OtherRefines DEF PollLocal, PollLookup, PollCache, SkipReplayed, Drain,
       aVars, dbVars, rVars, lives, Stored
  <1>10. CASE ProcessChat
    BY <1>10, ChatRefines DEF ProcessChat, Accept, Envelope, aVars, lives
  <1>11. CASE ProcessEdit
    <2>1. PICK e \in Envelope : Accept("edit", e) /\ Edit(e.id)
      BY <1>11 DEF ProcessEdit
    <2>2. e.id \in Msgs
      BY DEF Envelope
    <2>3. \A k \in Msgs : Stored(k)' <=> Stored(k)
      BY <2>1, <2>2 DEF Edit, dbVars, rVars, Stored, IInv, EndsTypeOK
    <2> QED BY <2>1, <2>3, OtherRefines DEF Accept, Edit, aVars, lives
  <1>12. CASE ProcessTombstone
    <2>1. PICK e \in Envelope : Accept("tombstone", e) /\ Tombstone(e.id)
      BY <1>12 DEF ProcessTombstone
    <2>2. {e.id} \in SUBSET Msgs
      BY DEF Envelope
    <2>3. \A k \in Msgs \ {e.id} : db'[k] = db[k]
      BY <2>1 DEF Tombstone, IInv, EndsTypeOK
    <2> QED BY <2>1, <2>2, <2>3, ErasingRefines DEF Accept, Tombstone, aVars, lives
  <1>13. CASE ClearChat
    <2> DEFINE S == {m \in Msgs : Stored(m)}
    <2>1. S \in SUBSET Msgs
      OBVIOUS
    <2>2. erased' = erased \cup S /\ UNCHANGED <<aDb, receipts, notified, forgotten>>
      BY <1>13 DEF ClearChat, aVars, lives
    <2>3. \A m \in Msgs \ S : db'[m] = db[m]
      BY <1>13 DEF ClearChat
    <2> HIDE DEF S
    <2> QED BY <2>1, <2>2, <2>3, ErasingRefines
  <1>14. CASE ASavesElsewhere \/ RSavesElsewhere
    BY <1>14, OtherRefines DEF ASavesElsewhere, RSavesElsewhere, aVars, dbVars, rVars, lives, Stored
  <1>15. CASE CrashD
    BY <1>15, OtherRefines DEF CrashD, aVars, dbVars, rVars, Stored
  <1>16. CASE UNCHANGED vars
    BY <1>16, OtherRefines DEF vars, aVars, dbVars, rVars, lives, Stored
  <1> QED
    BY <1>1, <1>2, <1>3, <1>4, <1>5, <1>6, <1>7, <1>8, <1>9, <1>10, <1>11, <1>12,
       <1>13, <1>14, <1>15, <1>16, CrashRRefines, CrashARefines DEF Next, PollStep

(* A step counts at most one failed save. *)
LEMMA FailuresCount ==
  ASSUME [Next]_vars
  PROVE  saveFailures' \in {saveFailures, saveFailures + 1}
  <1>1. UNCHANGED saveFailures \/ Save \/ SaveA
    BY DEF Next, vars, dbVars, SendMessage, EditMessage, DeleteForEveryone,
       AcceptReceipt, SendDeliveryReceipt, DeleteMessage, DepositRead, DepositPut,
       HandleStore, TcpStore, PollStep, PollLocal, PollLookup, PollCache,
       SkipReplayed, ProcessChat, Chat, ProcessEdit, Edit, ProcessTombstone,
       Tombstone, Drain, ClearChat, ASavesElsewhere, RSavesElsewhere, CrashR, CrashA, CrashD
  <1> QED BY <1>1 DEF Save, SaveA

(* Delivery implements DeliverySpec, whatever saves fail.                  *)
THEOREM RefinesDeliverySpec == Spec => Implements
  <1>1. Init => Promise!Init
    BY DEF Init, Promise!Init, Stored
  <1>2. IInv /\ RecordInv /\ [Next]_vars => [Promise!Next]_(Promise!specVars)
    <2> SUFFICES ASSUME IInv, RecordInv, [Next]_vars PROVE Promise!Next
      OBVIOUS
    <2>1. saveFailures' \in {saveFailures, saveFailures + 1}
      BY FailuresCount
    <2>2. MessageStep
      BY StepRefines
    <2> QED BY <2>1, <2>2 DEF MessageStep, Promise!Next, Promise!messages, Shown, Announced
  <1>3. Spec => Promise!Init /\ [][Promise!Next]_(Promise!specVars)
    BY <1>1, <1>2, Invariance, PTL DEF Spec
  <1> QED BY <1>3 DEF Implements, Promise!Spec
=============================================================================
