---------------------------- MODULE DeliverySpec ----------------------------
(***************************************************************************)
(* What the messenger promises about a conversation, with no mailboxes, no *)
(* envelopes and no crashes: a message appears at the recipient at most    *)
(* once and is announced as it appears; a receipt exists only for what has *)
(* appeared; the author shows a message as delivered only on a receipt;    *)
(* what either side deleted never appears again.  Nothing of this holds    *)
(* for a message that was forgotten because a database file could not be   *)
(* written, and none is forgotten before that.  Delivery implements this   *)
(* specification (Delivery!Implements).                                    *)
(***************************************************************************)
EXTENDS Integers

CONSTANT Msgs

VARIABLES
  shown,      \* at the recipient: "never", "shown", "gone" or "lost"
  announced,  \* the messages the recipient was told of, or forgot
  receipted,  \* the messages a receipt was sent for
  author,     \* at the author: "sent", "delivered" or "deleted"
  failures    \* writes of a file that failed

messages == <<shown, announced, receipted, author>>
specVars == <<messages, failures>>

Init ==
  /\ shown = [m \in Msgs |-> "never"]
  /\ announced = {} /\ receipted = {}
  /\ author = [m \in Msgs |-> "sent"]
  /\ failures = 0

(* A message appears, for the first and only time. *)
Appear(m) ==
  /\ shown[m] = "never" /\ m \notin announced
  /\ shown' = [shown EXCEPT ![m] = "shown"]
  /\ announced' = announced \cup {m}
  /\ UNCHANGED <<receipted, author>>

(* Messages go for good; one whose deletion overtook it never appears. *)
Disappear(S) ==
  /\ \A m \in S : shown[m] # "lost"
  /\ shown' = [m \in Msgs |-> IF m \in S THEN "gone" ELSE shown[m]]
  /\ UNCHANGED <<announced, receipted, author>>

Acknowledge(m) ==
  /\ m \in announced
  /\ receipted' = receipted \cup {m}
  /\ UNCHANGED <<shown, announced, author>>

ShowDelivered(m) ==
  /\ m \in receipted /\ author[m] = "sent"
  /\ author' = [author EXCEPT ![m] = "delivered"]
  /\ UNCHANGED <<shown, announced, receipted>>

AuthorDeletes(m) ==
  /\ author[m] # "deleted"
  /\ author' = [author EXCEPT ![m] = "deleted"]
  /\ UNCHANGED <<shown, announced, receipted>>

(* The recipient goes back to an older file. *)
Forget(S) ==
  /\ failures > 0
  /\ shown' = [m \in Msgs |-> IF m \in S THEN "lost" ELSE shown[m]]
  /\ announced' = announced \cup S
  /\ UNCHANGED <<receipted, author>>

(* So does the author: never to a deletion, nor beyond the receipts. *)
AuthorForgets ==
  /\ failures > 0
  /\ \E S \in SUBSET Msgs, D \in SUBSET receipted :
       author' = [m \in Msgs |-> IF m \notin S THEN author[m]
                                 ELSE IF m \in D THEN "delivered" ELSE "sent"]
  /\ UNCHANGED <<shown, announced, receipted>>

Next ==
  /\ failures' \in {failures, failures + 1}
  /\ \/ UNCHANGED messages
     \/ \E m \in Msgs : \/ Appear(m) \/ Acknowledge(m) \/ ShowDelivered(m)
                       \/ AuthorDeletes(m)
     \/ \E S \in SUBSET Msgs : Disappear(S) \/ Forget(S)
     \/ AuthorForgets

Spec == Init /\ [][Next]_specVars
=============================================================================
