------------------------------ MODULE RealmFeed ------------------------------
(***************************************************************************)
(* What the durable memory outbox promises to the memory service: turns of  *)
(* one subject (one memory Realm) reach the stream for the first time in    *)
(* the order in which they were accepted.  Turns whose owner deleted the    *)
(* runtime data are out of the contract.                                    *)
(***************************************************************************)
EXTENDS Naturals

CONSTANTS Turns, Subject

VARIABLES
    order,      \* turn -> its place in the order of acceptance, 0 if none
    clock,      \* how many turns have been accepted
    delivered,  \* turns that reached the stream at least once
    dropped     \* turns deleted with their owner

vars == <<order, clock, delivered, dropped>>

Before(u, t) == /\ Subject[u] = Subject[t]
                /\ 0 < order[u] /\ order[u] < order[t]

Accept(t) ==
    /\ order[t] = 0
    /\ clock' = clock + 1
    /\ order' = [order EXCEPT ![t] = clock + 1]
    /\ UNCHANGED <<delivered, dropped>>

Deliver(t) ==
    /\ order[t] > 0
    /\ t \in dropped \/ \A u \in Turns : Before(u, t) => u \in delivered \cup dropped
    /\ delivered' = delivered \cup {t}
    /\ UNCHANGED <<order, clock, dropped>>

Drop(S) ==
    /\ dropped' = dropped \cup S
    /\ UNCHANGED <<order, clock, delivered>>

Init ==
    /\ order = [t \in Turns |-> 0]
    /\ clock = 0
    /\ delivered = {} /\ dropped = {}

Next ==
    \/ \E t \in Turns : Accept(t) \/ Deliver(t)
    \/ \E S \in SUBSET Turns : Drop(S)

Spec == Init /\ [][Next]_vars

=============================================================================
