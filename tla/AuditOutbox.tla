---------------------------- MODULE AuditOutbox ----------------------------
(***************************************************************************)
(* The audit outbox and its dispatcher.  An event is a row committed with  *)
(* the change it records; AgentAuditDispatcher publishes due rows in       *)
(* batches, marks what the broker acknowledged, and lets the rest wait;    *)
(* published rows are purged after a day.  The process may die between any *)
(* two of these steps.  The broker is external: it takes some of a batch,  *)
(* tells so or not, and takes an event again when it is sent again.        *)
(***************************************************************************)
EXTENDS Integers, FiniteSets

CONSTANTS
    Events,        \* audit events, numbered in outbox order
    AuditBatch,    \* batch_size
    MaxWait,       \* longest wait before a retry (60 s), in clock steps
    MaxTries,      \* bound: attempts counted
    MaxAuditFaults \* bound: crashes and transport failures

ASSUME AuditBounds ==
    /\ Events \subseteq Nat /\ AuditBatch \in Nat \ {0}
    /\ MaxWait \in Nat \ {0} /\ MaxTries \in Nat \ {0} /\ MaxAuditFaults \in Nat

VARIABLES
    auditRows,  \* AgentAuditOutboxRow of each event
    dispatcher, \* the dispatch under way: its step, its batch, what was acknowledged
    broker,     \* events the broker has stored
    auditFaults \* faults so far

auditVars == <<auditRows, dispatcher, broker, auditFaults>>

NoAuditRow == [st |-> "none", tries |-> 0, wait |-> 0]
NoDispatch == [pc |-> "idle", batch |-> {}, acked |-> {}, wait |-> 0]

AuditInit ==
    /\ auditRows = [e \in Events |-> NoAuditRow]
    /\ dispatcher = NoDispatch
    /\ broker = {}
    /\ auditFaults = 0

\* build_row, committed with the caller's own rows.
Commit(e) ==
    /\ auditRows[e].st = "none"
    /\ auditRows' = [auditRows EXCEPT ![e].st = "pending"]
    /\ UNCHANGED <<dispatcher, broker, auditFaults>>

AuditTick ==
    /\ auditRows' = [e \in Events |->
          [auditRows[e] EXCEPT !.wait = IF @ = 0 THEN 0 ELSE @ - 1]]
    /\ UNCHANGED <<dispatcher, broker, auditFaults>>

\* pending_batch: the first rows in outbox order that are unpublished and due.
Due == {e \in Events : auditRows[e].st = "pending" /\ auditRows[e].wait = 0}

DueBatch == {e \in Due : Cardinality({f \in Due : f < e}) < AuditBatch}

\* One wait for the whole batch, from its most often tried row.
RetryAfter(batch) ==
    LET tries == CHOOSE n \in {auditRows[e].tries : e \in batch} :
                    \A e \in batch : auditRows[e].tries <= n
    IN IF 2 ^ tries > MaxWait THEN MaxWait ELSE 2 ^ tries

ReadBatch ==
    /\ dispatcher.pc = "idle" /\ Due # {}
    /\ dispatcher' = [NoDispatch EXCEPT !.pc = "publish", !.batch = DueBatch,
                                        !.wait = RetryAfter(DueBatch)]
    /\ UNCHANGED <<auditRows, broker, auditFaults>>

\* publish_many: the broker stores some and acknowledges some of those.
PublishMany(stored, acked) ==
    /\ dispatcher.pc = "publish"
    /\ broker' = broker \union stored
    /\ dispatcher' = [dispatcher EXCEPT !.pc = "mark", !.acked = acked]
    /\ UNCHANGED <<auditRows, auditFaults>>

\* ... or raises, whatever it has stored by then.
AuditPublishRaises(stored) ==
    /\ dispatcher.pc = "publish" /\ auditFaults < MaxAuditFaults
    /\ broker' = broker \union stored
    /\ dispatcher' = [dispatcher EXCEPT !.pc = "retry", !.acked = {}]
    /\ auditFaults' = auditFaults + 1
    /\ UNCHANGED auditRows

\* Mutant: the whole batch is marked.
MutMarkAuditPublished ==
    /\ dispatcher.pc = "mark"
    /\ auditRows' = [e \in Events |->
          IF e \in dispatcher.batch THEN [auditRows[e] EXCEPT !.st = "published"]
          ELSE auditRows[e]]
    /\ dispatcher' = [dispatcher EXCEPT !.pc = "retry"]
    /\ UNCHANGED <<broker, auditFaults>>
\* mark_published(acknowledged & event_ids)
MarkAuditPublished ==
    /\ dispatcher.pc = "mark"
    /\ auditRows' = [e \in Events |->
          IF e \in dispatcher.acked \intersect dispatcher.batch /\ auditRows[e].st = "pending"
          THEN [auditRows[e] EXCEPT !.st = "published"] ELSE auditRows[e]]
    /\ dispatcher' = [dispatcher EXCEPT !.pc = "retry"]
    /\ UNCHANGED <<broker, auditFaults>>

\* mark_failed for the others, if there are any.
MarkAuditFailed ==
    /\ dispatcher.pc = "retry"
    /\ auditRows' = [e \in Events |->
          IF e \in dispatcher.batch \ dispatcher.acked /\ auditRows[e].st = "pending"
          THEN [auditRows[e] EXCEPT !.wait = dispatcher.wait,
                    !.tries = IF @ < MaxTries THEN @ + 1 ELSE @]
          ELSE auditRows[e]]
    /\ dispatcher' = NoDispatch
    /\ UNCHANGED <<broker, auditFaults>>

\* purge_published: once an hour, rows published more than a day ago.
Purge ==
    /\ dispatcher.pc = "idle"
    /\ \E old \in SUBSET {e \in Events : auditRows[e].st = "published"} :
          /\ old # {}
          /\ auditRows' = [e \in Events |->
                IF e \in old THEN [auditRows[e] EXCEPT !.st = "purged"] ELSE auditRows[e]]
    /\ UNCHANGED <<dispatcher, broker, auditFaults>>

\* The process dies, or a store call raises and the iteration is given up.
Interrupted ==
    /\ dispatcher.pc # "idle" /\ auditFaults < MaxAuditFaults
    /\ dispatcher' = NoDispatch
    /\ auditFaults' = auditFaults + 1
    /\ UNCHANGED <<auditRows, broker>>

AuditNext ==
    \/ \E e \in Events : Commit(e)
    \/ AuditTick
    \/ ReadBatch
    \/ \E stored \in SUBSET dispatcher.batch : \/ AuditPublishRaises(stored)
                                               \/ \E acked \in SUBSET stored :
                                                     PublishMany(stored, acked)
    \/ MarkAuditPublished \/ MarkAuditFailed \/ Purge \/ Interrupted

AuditSpec == AuditInit /\ [][AuditNext]_auditVars

(***************************************************************************)
(* Properties.                                                             *)
(***************************************************************************)
\* No audit event disappears: until the broker has it, its row is there and
\* still unpublished, so it will be read again, whatever failed or died
\* between publishing, marking and purging; and an event is held back only by
\* a failure of its own or of its batch (a row that was never tried does not
\* wait).
NoAuditLost ==
    \A e \in Events :
        /\ auditRows[e].st \in {"published", "purged"} => e \in broker
        /\ auditRows[e].wait > 0 => auditRows[e].tries > 0
        /\ auditRows[e].wait <= MaxWait
=============================================================================
