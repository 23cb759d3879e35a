---------------------------- MODULE MemoryOutbox ----------------------------
(***************************************************************************)
(* The durable memory outbox: HistoryFanout.publish_turn enqueues a turn    *)
(* into the memory_turn_outbox table, MemoryTurnDispatcher drains the table *)
(* into JetStream and deletes what the broker acknowledged.                 *)
(*                                                                          *)
(* A store method is one transaction on the only writer connection; enqueue *)
(* commits and then reads its row back in a second one.  Time is reduced to *)
(* whether a row's next_attempt_at has passed (`due`).                      *)
(***************************************************************************)
EXTENDS Naturals, FiniteSets

CONSTANTS
    Turns,         \* turn ids
    Subject,       \* turn -> NATS subject of its memory Realm
    Owner,         \* turn -> owner id
    Payloads,      \* distinguishable contents of a turn
    BatchLimit,    \* dispatcher batch_size
    MaxEnqueues,   \* bound: publish_turn calls per turn (retransmissions)
    MaxFailures,   \* bound: publish attempts that raise
    MaxCrashes,    \* bound: process restarts
    MaxDeletes,    \* bound: owner deletions
    None

ASSUME OutboxAssumption ==
    /\ BatchLimit \in Nat \ {0}
    /\ MaxEnqueues \in Nat /\ MaxFailures \in Nat
    /\ MaxCrashes \in Nat /\ MaxDeletes \in Nat
    /\ IsFiniteSet(Turns)
    /\ DOMAIN Subject = Turns /\ DOMAIN Owner = Turns

VARIABLES
    rows,       \* memory_turn_outbox: turn -> row (id = 0: no row)
    caller,     \* turn -> the publish_turn call in flight or its outcome
    disp,       \* the dispatch_once coroutine
    sent,       \* <<turn, payload>> pairs that reached the stream
    inserted,   \* <<turn, payload>> pairs that were inserted as a row (history)
    order,      \* turn -> place in the order of first acceptance (history)
    clock,      \* turns accepted so far (history)
    dropped,    \* turns deleted with their owner (history)
    enqueues, failures, crashes, deletes

vars == <<rows, caller, disp, sent, inserted, order, clock, dropped,
          enqueues, failures, crashes, deletes>>
bounds == <<enqueues, failures, crashes, deletes>>
history == <<inserted, order, clock, dropped>>

NoRow == [id |-> 0, payload |-> None, due |-> TRUE]
Present(t) == rows[t].id > 0

delivered == {t \in Turns : \E p \in Payloads : <<t, p>> \in sent}

\* INTEGER PRIMARY KEY without AUTOINCREMENT: one more than the largest id in
\* the table, so the ids of deleted rows may come back.
MaxId == Cardinality(Turns) * MaxEnqueues
IsNewId(n) == /\ \A t \in Turns : rows[t].id < n
              /\ n = 1 \/ \E t \in Turns : rows[t].id = n - 1

(***************************************************************************)
(* publish_turn -> enqueue                                                  *)
(***************************************************************************)
NoCall == [pc |-> "none", payload |-> None]

\* INSERT ... ON CONFLICT(turn_id) DO NOTHING, commit.
InsertOrIgnore(t, p) ==
    \/ Present(t) /\ UNCHANGED <<rows, inserted, order, clock>>
    \/ /\ ~ Present(t)
       /\ \E n \in 1 .. MaxId :
             /\ IsNewId(n)
             /\ rows' = [rows EXCEPT ![t] = [id |-> n, payload |-> p, due |-> TRUE]]
       /\ inserted' = inserted \cup {<<t, p>>}
       /\ IF order[t] = 0
          THEN clock' = clock + 1 /\ order' = [order EXCEPT ![t] = clock + 1]
          ELSE UNCHANGED <<order, clock>>

EnqueueCommit(t, p) ==
    /\ caller[t].pc # "committed"
    /\ enqueues[t] < MaxEnqueues
    /\ enqueues' = [enqueues EXCEPT ![t] = @ + 1]
    /\ InsertOrIgnore(t, p)
    /\ caller' = [caller EXCEPT ![t] = [pc |-> "committed", payload |-> p]]
    /\ UNCHANGED <<disp, sent, dropped, failures, crashes, deletes>>

\* Mutant: whatever row is there counts as this caller's.
MutNoIdentityCheck(t) ==
    /\ caller[t].pc = "committed"
    /\ caller' = [caller EXCEPT ![t].pc =
                    IF Present(t) THEN "queued" ELSE "delivery_failed"]
    /\ UNCHANGED <<rows, disp, sent, history, bounds>>

\* The row is read back: it may be gone again (RuntimeError "lost after
\* commit") or be somebody else's (RuntimeError "identity collision"), both of
\* which publish_turn reports as delivery_failed.
EnqueueVerify(t) ==
    /\ caller[t].pc = "committed"
    /\ caller' = [caller EXCEPT ![t].pc =
                    IF Present(t) /\ rows[t].payload = caller[t].payload
                    THEN "queued" ELSE "delivery_failed"]
    /\ UNCHANGED <<rows, disp, sent, history, bounds>>

(***************************************************************************)
(* MemoryTurnDispatcher.dispatch_once                                       *)
(***************************************************************************)
IdleDispatcher == [pc |-> "loop", batch |-> {}, subject |-> None, row |-> None]

\* Mutant: a subject in back-off does not block its newer rows.
MutNoBlockedSubjects == {t \in Turns : Present(t) /\ rows[t].due}

\* pending_batch: due rows of subjects without a row in back-off ...
Eligible ==
    {t \in Turns : /\ Present(t) /\ rows[t].due
                   /\ \A u \in Turns : Subject[u] = Subject[t] /\ Present(u)
                                          => rows[u].due}
\* ... the first BatchLimit of them by outbox_id.
PendingBatch ==
    {t \in Eligible :
        Cardinality({u \in Eligible : rows[u].id < rows[t].id}) < BatchLimit}

Fetch ==
    /\ disp.pc = "loop" /\ disp.batch = {}
    /\ PendingBatch # {}
    /\ disp' = [disp EXCEPT !.subject = None, !.batch =
                  {[turn |-> t, id |-> rows[t].id, payload |-> rows[t].payload] :
                      t \in PendingBatch}]
    /\ UNCHANGED <<rows, caller, sent, history, bounds>>

OfSubject(batch, s) == {r \in batch : Subject[r.turn] = s}

\* by_subject: finish the current subject's rows in id order, then go on with
\* the subject of the oldest row left.
IsNextRow(r) ==
    LET mine == OfSubject(disp.batch, disp.subject)
        from == IF mine # {} THEN mine ELSE disp.batch
    IN r \in from /\ \A q \in from : r.id <= q.id

\* bus.publish(persistent=True) under msg_id = turn_id: acknowledged ...
PublishAcked(r) ==
    /\ disp.pc = "loop" /\ IsNextRow(r)
    /\ sent' = sent \cup {<<r.turn, r.payload>>}
    /\ disp' = [disp EXCEPT !.pc = "mark_published", !.row = r,
                            !.subject = Subject[r.turn]]
    /\ UNCHANGED <<rows, caller, history, bounds>>

\* ... or raising, in which case the message may still have been stored.
PublishRaises(r, stored) ==
    /\ disp.pc = "loop" /\ IsNextRow(r)
    /\ failures < MaxFailures /\ failures' = failures + 1
    /\ sent' = IF stored THEN sent \cup {<<r.turn, r.payload>>} ELSE sent
    /\ disp' = [disp EXCEPT !.pc = "mark_failed", !.row = r,
                            !.subject = Subject[r.turn]]
    /\ UNCHANGED <<rows, caller, history, enqueues, crashes, deletes>>

\* mark_published deletes by turn_id.
MarkPublished ==
    /\ disp.pc = "mark_published"
    /\ rows' = [rows EXCEPT ![disp.row.turn] = NoRow]
    /\ disp' = [disp EXCEPT !.pc = "loop", !.row = None,
                            !.batch = @ \ {disp.row}]
    /\ UNCHANGED <<caller, sent, history, bounds>>

\* Mutant: a turn the broker refused is discarded.
MutDropFailed ==
    LET t == disp.row.turn IN
    /\ disp.pc = "mark_failed"
    /\ rows' = [rows EXCEPT ![t] = NoRow]
    /\ disp' = [disp EXCEPT !.pc = "loop", !.row = None,
                            !.batch = @ \ OfSubject(@, Subject[t])]
    /\ UNCHANGED <<caller, sent, history, bounds>>

\* mark_failed puts the row into back-off; `break` leaves the subject.
MarkFailed ==
    LET t == disp.row.turn IN
    /\ disp.pc = "mark_failed"
    /\ rows' = IF Present(t) THEN [rows EXCEPT ![t].due = FALSE] ELSE rows
    /\ disp' = [disp EXCEPT !.pc = "loop", !.row = None,
                            !.batch = @ \ OfSubject(@, Subject[t])]
    /\ UNCHANGED <<caller, sent, history, bounds>>

\* The store raises inside mark_*: run_memory_turn_dispatcher logs and starts
\* a new iteration.
IterationFails ==
    /\ disp.pc \in {"mark_published", "mark_failed"}
    /\ failures < MaxFailures /\ failures' = failures + 1
    /\ disp' = IdleDispatcher
    /\ UNCHANGED <<rows, caller, sent, history, enqueues, crashes, deletes>>

(***************************************************************************)
(* Environment                                                              *)
(***************************************************************************)
BackoffElapses(t) ==
    /\ Present(t) /\ ~ rows[t].due
    /\ rows' = [rows EXCEPT ![t].due = TRUE]
    /\ UNCHANGED <<caller, disp, sent, history, bounds>>

\* delete_owner_runtime; a batch already read is not recalled.
DeleteOwnerRuntime(o) ==
    LET gone == {t \in Turns : Owner[t] = o /\ Present(t)} IN
    /\ deletes < MaxDeletes /\ deletes' = deletes + 1
    /\ rows' = [t \in Turns |-> IF t \in gone THEN NoRow ELSE rows[t]]
    /\ dropped' = dropped \cup gone
    /\ UNCHANGED <<caller, disp, sent, inserted, order, clock, enqueues,
                   failures, crashes>>

Restart ==
    /\ crashes < MaxCrashes /\ crashes' = crashes + 1
    /\ disp' = IdleDispatcher
    /\ caller' = [t \in Turns |-> IF caller[t].pc = "committed"
                                  THEN NoCall ELSE caller[t]]
    /\ UNCHANGED <<rows, sent, history, enqueues, failures, deletes>>

Init ==
    /\ rows = [t \in Turns |-> NoRow]
    /\ caller = [t \in Turns |-> NoCall]
    /\ disp = IdleDispatcher
    /\ sent = {} /\ inserted = {}
    /\ order = [t \in Turns |-> 0] /\ clock = 0
    /\ dropped = {}
    /\ enqueues = [t \in Turns |-> 0]
    /\ failures = 0 /\ crashes = 0 /\ deletes = 0

Publish == \E r \in disp.batch : \/ PublishAcked(r)
                                 \/ \E stored \in BOOLEAN : PublishRaises(r, stored)

Next ==
    \/ \E t \in Turns, p \in Payloads : EnqueueCommit(t, p)
    \/ \E t \in Turns : EnqueueVerify(t) \/ BackoffElapses(t)
    \/ Fetch \/ Publish \/ MarkPublished \/ MarkFailed \/ IterationFails
    \/ \E o \in {Owner[t] : t \in Turns} : DeleteOwnerRuntime(o)
    \/ Restart

Spec == Init /\ [][Next]_vars

\* run_memory_turn_dispatcher loops forever, publish returns or raises, and
\* time passes; a broker or store outage ends (MaxFailures).
Fairness ==
    /\ WF_vars(Fetch) /\ WF_vars(Publish)
    /\ WF_vars(MarkPublished) /\ WF_vars(MarkFailed)
    /\ \A t \in Turns : WF_vars(BackoffElapses(t))

FairSpec == Spec /\ Fairness

(***************************************************************************)
(* Properties                                                               *)
(***************************************************************************)
BatchRow == [turn : Turns, id : Nat, payload : Payloads]

RowsTyped ==
    /\ rows \in [Turns -> [id : Nat, payload : Payloads \cup {None}, due : BOOLEAN]]
    /\ \A t \in Turns : Present(t) => rows[t].payload \in Payloads

DispatcherTyped ==
    /\ disp \in [pc : {"loop", "mark_published", "mark_failed"},
                 batch : SUBSET BatchRow,
                 subject : {Subject[t] : t \in Turns} \cup {None},
                 row : BatchRow \cup {None}]
    /\ disp.pc # "loop" => disp.row \in disp.batch

\* Type invariant of the table, the calls and the dispatcher.
TypeOK ==
    /\ RowsTyped /\ DispatcherTyped
    /\ caller \in [Turns -> [pc : {"none", "committed", "queued", "delivery_failed"},
                             payload : Payloads \cup {None}]]
    /\ sent \subseteq Turns \X Payloads /\ inserted \subseteq Turns \X Payloads
    /\ order \in [Turns -> Nat] /\ clock \in Nat
    /\ dropped \subseteq Turns
    /\ enqueues \in [Turns -> Nat]
    /\ failures \in Nat /\ crashes \in Nat /\ deletes \in Nat

Before(u, t) == /\ Subject[u] = Subject[t]
                /\ 0 < order[u] /\ order[u] < order[t]

\* "Corrections must not overtake older turns in the same Realm": across
\* back-off, batch limits, lost acknowledgements, restarts and re-used outbox
\* ids, a turn reaches the stream only after every older turn of its subject
\* did (turns deleted with their owner excepted).
NoOvertaking ==
    \A t \in delivered \ dropped, u \in Turns :
        Before(u, t) => u \in delivered \cup dropped

\* An accepted turn is never lost: its row stays until the broker has it or
\* the owner's data is deleted.
NothingLost ==
    \A t \in Turns : order[t] > 0 => Present(t) \/ t \in delivered \cup dropped

\* What publish_turn reported as queued is what is stored: the content the
\* caller handed over was inserted, never silently replaced by another
\* content under the same turn_id, and nothing but inserted content is sent.
QueuedContentIsKept ==
    /\ \A t \in Turns : caller[t].pc = "queued" => <<t, caller[t].payload>> \in inserted
    /\ sent \subseteq inserted

\* Every accepted turn reaches the stream once outages end, also behind a
\* failing older turn and across restarts.
AcceptedTurnArrives ==
    \A t \in Turns : order[t] > 0 ~> t \in delivered \cup dropped

\* The outbox implements the ordered feed.
Feed == INSTANCE RealmFeed WITH order <- order, clock <- clock,
                                delivered <- delivered, dropped <- dropped
FeedSpec == Feed!Spec

=============================================================================
