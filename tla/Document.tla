------------------------------ MODULE Document ------------------------------
(***************************************************************************)
(* What backend/store.py promises of its transactions: the document is the *)
(* set of transactions that took effect; each takes effect at one instant  *)
(* between its call and its return, or not at all, and one that returned   *)
(* survives the end of the process and of the machine.  Store implements   *)
(* it; the other modules use store.update as one such step.                *)
(***************************************************************************)
CONSTANT Transactions

VARIABLES
  doc,        \* the transactions in the document
  survivors,  \* the documents a power failure may leave
  result      \* what became of a call

Pending(T) == {t \in T : result[t] = "pending"}
Killed(T) == result' = [t \in Transactions |-> IF t \in Pending(T) THEN "lost" ELSE result[t]]

Init ==
  /\ doc = {} /\ survivors = {{}}
  /\ result = [t \in Transactions |-> "none"]

Call(t) ==
  /\ result[t] = "none"
  /\ result' = [result EXCEPT ![t] = "pending"]
  /\ UNCHANGED <<doc, survivors>>

Apply(t) ==
  /\ result[t] = "pending" /\ t \notin doc
  /\ doc' = doc \cup {t}
  /\ survivors' = survivors \cup {doc'}
  /\ UNCHANGED result

Sync ==
  /\ survivors' = {doc}
  /\ UNCHANGED <<doc, result>>

\* "ok" for a transaction that changed the document, "noop" for one that
\* found nothing to change or only read.
Return(t) ==
  /\ result[t] = "pending"
  /\ \/ (\A d \in survivors : t \in d) /\ result' = [result EXCEPT ![t] = "ok"]
     \/ t \notin doc /\ result' = [result EXCEPT ![t] = "noop"]
  /\ UNCHANGED <<doc, survivors>>

\* An exception says nothing about the document: the directory may fail to
\* reach the disk after the new document is in place.
Raise(t) ==
  /\ result[t] = "pending"
  /\ result' = [result EXCEPT ![t] = "raised"]
  /\ UNCHANGED <<doc, survivors>>

Kill(T) == Killed(T) /\ UNCHANGED <<doc, survivors>>

PowerLoss ==
  /\ doc' \in survivors /\ survivors' = {doc'}
  /\ Killed(Transactions)

Next ==
  \/ \E t \in Transactions : Call(t) \/ Apply(t) \/ Return(t) \/ Raise(t)
  \/ \E T \in SUBSET Transactions : Kill(T)
  \/ Sync \/ PowerLoss

Spec == Init /\ [][Next]_<<doc, survivors, result>>

=============================================================================
