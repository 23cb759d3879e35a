--------------------------- MODULE MC_MemoryOutbox ---------------------------
(***************************************************************************)
(* A small instance of MemoryOutbox for TLC: two turns of one Realm and one *)
(* of another, of one owner.  The bounds are spent in one of three ways,    *)
(* which keeps the state space small: two turns of a Realm retransmitted    *)
(* with another content, the same turns published once and deleted, or all  *)
(* three turns published once, a failing Realm beside another, no restart.  *)
(***************************************************************************)
EXTENDS MemoryOutbox

MCSubject == [t \in Turns |-> IF t = "b1" THEN "realm_b" ELSE "realm_a"]
OneOwner == [t \in Turns |-> "owner_1"]

Start(spentEnqueues, spentCrashes, spentDeletes) ==
    /\ rows = [t \in Turns |-> NoRow]
    /\ caller = [t \in Turns |-> NoCall]
    /\ disp = IdleDispatcher
    /\ sent = {} /\ inserted = {}
    /\ order = [t \in Turns |-> 0] /\ clock = 0
    /\ dropped = {}
    /\ enqueues = spentEnqueues
    /\ failures = 0 /\ crashes = spentCrashes /\ deletes = spentDeletes

\* What is spent when the other Realm stays silent, and when it does not.
OneRealm(n) == [t \in Turns |-> IF t = "b1" THEN MaxEnqueues ELSE n]
TwoRealms == [t \in Turns |-> 1]

MCInit ==
    \/ Start(OneRealm(0), 0, MaxDeletes)
    \/ Start(OneRealm(1), 0, 0)
    \/ Start(TwoRealms, MaxCrashes, MaxDeletes)

MCFairSpec == MCInit /\ [][Next]_vars /\ Fairness
=============================================================================
