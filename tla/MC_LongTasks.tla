---------------------------- MODULE MC_LongTasks ----------------------------
(* Small instances of LongTasks for TLC. *)
EXTENDS LongTasks, TLC

\* One owner and day.
OneOwner == [t \in Tasks |-> "o1"]
SharedKey == [t \in Tasks |-> "k1"]

\* The second task is another owner's; the first and the third share a key, so
\* the third finds the session of the first behind the newer one of the second.
TwoOwners == [t \in Tasks |-> IF t = 2 THEN "o2" ELSE "o1"]
TwoKeys == [t \in Tasks |-> IF t = 2 THEN "k2" ELSE "k1"]

Symmetric == Permutations(Clients)

=============================================================================
