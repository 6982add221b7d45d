-------------------------- MODULE DeletionContract --------------------------
(***************************************************************************)
(* What the deletion of an account promises, without jobs, leases, locks   *)
(* or messages: bytes are destroyed only in an account that is closed      *)
(* under a durable promise, the promise is never withdrawn, nothing is     *)
(* added to a closed account, and completion is reported only when no byte *)
(* is left.  Restoring an archive may reopen the account, and that or a    *)
(* record that comes late may take back the report; neither takes back the *)
(* promise or an erasure.                                                  *)
(***************************************************************************)
CONSTANT Items   \* what an account can hold

VARIABLES
  promised,  \* a durable deletion marker exists
  open,      \* the database shows an account that may be written to
  bytes,     \* the items with bytes in the account's namespaces
  reported   \* the deletion is reported as completed

contract == << promised, open, bytes, reported >>

Init ==
  /\ promised = FALSE
  /\ open = TRUE
  /\ bytes \in SUBSET Items
  /\ reported = FALSE

Add(i) ==
  /\ open
  /\ bytes' = bytes \cup {i}
  /\ UNCHANGED << promised, open, reported >>

Promise ==
  /\ ~promised
  /\ promised' = TRUE
  /\ UNCHANGED << open, bytes, reported >>

Close ==
  /\ promised /\ open
  /\ open' = FALSE
  /\ UNCHANGED << promised, bytes, reported >>

\* Some or all bytes go, and with the last one the report may be made.
Erase ==
  /\ promised /\ ~open
  /\ bytes' \in SUBSET bytes
  /\ reported' \in BOOLEAN
  /\ reported' => bytes' = {}
  /\ UNCHANGED << promised, open >>

Restore ==
  /\ open' \in BOOLEAN
  /\ ~open' => promised
  /\ reported' \in BOOLEAN
  /\ reported' => reported
  /\ UNCHANGED << promised, bytes >>

Next == Promise \/ Close \/ Erase \/ Restore \/ \E i \in Items : Add(i)

Spec == Init /\ [][Next]_contract
=============================================================================
