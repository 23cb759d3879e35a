-------------------------- MODULE LongTasks_proofs --------------------------
(***************************************************************************)
(* Proofs about long-running coworker tasks, for every number of tasks,    *)
(* requests, retries, restarts and deletions and every queue size.         *)
(***************************************************************************)
EXTENDS LongTasks, NumberLemmas

(***************************************************************************)
(* Types, and what a step of a request or of the worker holds.             *)
(***************************************************************************)
ClientType == [pc : ClientPc, tool : BOOLEAN, task : Tasks \cup {None}, rec : Row \cup {NoRow}]
WorkerType == [pc : WorkerPc, task : Tasks \cup {None}, session : Sessions \cup {None},
               left : Nat, content : Tasks \cup {None}]
SessionType == [open : BOOLEAN, running : [Tasks -> Nat],
                last : [task : Tasks, ok : BOOLEAN] \cup {None}]

\* A request has its task; the record it will write is one to be worked on.
ClientHolds(x) ==
    /\ x.pc # "idle" => x.task \in Tasks
    /\ x.pc = "accept" => /\ x.rec \in Row /\ x.rec.status = "accepted"
                          /\ x.rec.result = None

WorkerHolds(w) ==
    /\ w.pc # "idle" => w.task \in Tasks
    /\ w.pc = "idle" => w.session = None
    /\ w.pc \in {"post", "attach", "poll"} => w.session \in Sessions
    /\ w.pc \in {"run_failed", "complete"} => w.content \in Tasks

TaskInv ==
    /\ TypeOK
    /\ \A c \in Clients : ClientHolds(clients[c])
    /\ WorkerHolds(worker)

LEMMA NoneIsNothing == None \notin Tasks /\ None \notin Sessions /\ None \notin Status
BY BoundsAssumption, NoneAssumption DEF Tasks, Sessions

LEMMA RowFacts ==
    /\ NoRow \notin Row
    /\ FreshRecord \in Row /\ FreshRecord.status = "accepted" /\ FreshRecord.result = None
    /\ FreshRecord.session = None /\ FreshRecord.callback = "pending"
<1>1. \A r \in Row : r.status \in Status
  BY DEF Row
<1>2. NoRow.status = None
  BY DEF NoRow
<1> DEFINE zero == 0
<1>3. FreshRecord = [status |-> "accepted", result |-> None, summary |-> FALSE,
                     error |-> FALSE, leased |-> FALSE, attempts |-> zero,
                     callback |-> "pending", session |-> None]
      /\ zero \in Nat /\ FALSE \in BOOLEAN /\ "accepted" \in Status
  BY DEF FreshRecord, Status
<1> HIDE DEF zero
<1>4. FreshRecord \in Row /\ FreshRecord.status = "accepted" /\ FreshRecord.result = None
      /\ FreshRecord.session = None /\ FreshRecord.callback = "pending"
  BY <1>3 DEF Row
<1> QED BY <1>1, <1>2, <1>4, NoneIsNothing

\* What the store's methods do to a row.
LEMMA UpdateFacts ==
    ASSUME NEW r \in Row
    PROVE  /\ mark_queued(r) \in Row /\ mark_queued(r).status = "queued"
           /\ mark_queued(r).result = r.result /\ mark_queued(r).session = r.session
           /\ mark_queued(r).callback = r.callback
           /\ \A s \in Sessions :
                 /\ attach_mementos_run(r, s) \in Row
                 /\ attach_mementos_run(r, s).status = "running"
                 /\ attach_mementos_run(r, s).result = r.result
                 /\ attach_mementos_run(r, s).session = s
                 /\ attach_mementos_run(r, s).callback = r.callback
           /\ \A t \in Tasks :
                 /\ complete(r, t) \in Row /\ complete(r, t).status = "succeeded"
                 /\ complete(r, t).result = t /\ complete(r, t).session = r.session
                 /\ complete(r, t).callback = r.callback
           /\ \A st \in Terminal :
                 /\ mark_failed(r, st) \in Row /\ mark_failed(r, st).status = st
                 /\ mark_failed(r, st).result = r.result
                 /\ mark_failed(r, st).session = r.session
                 /\ mark_failed(r, st).callback = r.callback
           /\ retry_from_admin(r) \in Row /\ retry_from_admin(r).status = "accepted"
           /\ retry_from_admin(r).result = None /\ retry_from_admin(r).session = r.session
           /\ retry_from_admin(r).callback = r.callback
<1> DEFINE n == r.attempts + 1
<1>1. n \in Nat /\ TRUE \in BOOLEAN /\ FALSE \in BOOLEAN
  BY DEF Row
<1>2. {"queued", "running", "succeeded", "accepted"} \cup Terminal \subseteq Status
  BY DEF Status, Terminal
<1>3. mark_queued(r) = [r EXCEPT !.status = "queued", !.leased = TRUE, !.attempts = n]
  BY DEF mark_queued
<1> HIDE DEF n
<1>4. /\ mark_queued(r) \in Row /\ mark_queued(r).status = "queued"
      /\ mark_queued(r).result = r.result /\ mark_queued(r).session = r.session
      /\ mark_queued(r).callback = r.callback
  BY <1>1, <1>2, <1>3 DEF Row
<1>5. ASSUME NEW s \in Sessions
      PROVE  /\ attach_mementos_run(r, s) \in Row
             /\ attach_mementos_run(r, s).status = "running"
             /\ attach_mementos_run(r, s).result = r.result
             /\ attach_mementos_run(r, s).session = s
             /\ attach_mementos_run(r, s).callback = r.callback
  BY <1>2 DEF Row, attach_mementos_run
<1>6. ASSUME NEW t \in Tasks
      PROVE  /\ complete(r, t) \in Row /\ complete(r, t).status = "succeeded"
             /\ complete(r, t).result = t /\ complete(r, t).session = r.session
             /\ complete(r, t).callback = r.callback
  BY <1>2 DEF Row, complete
<1>7. ASSUME NEW st \in Terminal
      PROVE  /\ mark_failed(r, st) \in Row /\ mark_failed(r, st).status = st
             /\ mark_failed(r, st).result = r.result
             /\ mark_failed(r, st).session = r.session
             /\ mark_failed(r, st).callback = r.callback
  BY <1>1, <1>2 DEF Row, mark_failed
<1>8. /\ retry_from_admin(r) \in Row /\ retry_from_admin(r).status = "accepted"
      /\ retry_from_admin(r).result = None /\ retry_from_admin(r).session = r.session
      /\ retry_from_admin(r).callback = r.callback
  BY <1>1, <1>2 DEF Row, retry_from_admin
<1> QED BY <1>4, <1>5, <1>6, <1>7, <1>8

LEMMA IdleFacts ==
    /\ IdleClient \in ClientType /\ IdleClient.pc = "idle" /\ ClientHolds(IdleClient)
    /\ IdleWorker \in WorkerType /\ IdleWorker.pc = "idle" /\ IdleWorker.session = None
    /\ IdleWorker.task = None /\ IdleWorker.content = None
<1>1. IdleClient \in ClientType /\ IdleClient.pc = "idle"
  BY DEF IdleClient, ClientType, ClientPc
<1> DEFINE zero == 0
<1>2. IdleWorker = [pc |-> "idle", task |-> None, session |-> None, left |-> zero, content |-> None]
      /\ zero \in Nat
  BY DEF IdleWorker
<1> HIDE DEF zero
<1>3. IdleWorker \in WorkerType /\ IdleWorker.pc = "idle" /\ IdleWorker.session = None
      /\ IdleWorker.task = None /\ IdleWorker.content = None
  BY <1>2 DEF WorkerType, WorkerPc
<1> QED BY <1>1, <1>3 DEF ClientHolds

\* What a call of _update does: one row and one receipt, or nothing.
Wrote(t, new) ==
    /\ jobs' \in [Tasks -> Row \cup {NoRow}]
    /\ receipts' \in [Tasks -> Terminal \cup {None}]
    /\ \A u \in Tasks : Present(u)' <=> Present(u)
    /\ \A u \in Tasks : u # t => jobs'[u] = jobs[u] /\ receipts'[u] = receipts[u]
    /\ ~Present(t) => jobs'[t] = jobs[t] /\ receipts'[t] = receipts[t]
    /\ Present(t) => jobs'[t] = new
    /\ Present(t) /\ new.status \in Terminal /\ new.status # jobs[t].status
          => receipts'[t] = new.status
    /\ Present(t) /\ ~(new.status \in Terminal /\ new.status # jobs[t].status)
          => receipts'[t] = receipts[t]

LEMMA UpdateWrites ==
    ASSUME TypeOK, NEW t \in Tasks, NEW new, Present(t) => new \in Row, _update(t, new)
    PROVE  Wrote(t, new)
<1>1. jobs \in [Tasks -> Row \cup {NoRow}] /\ receipts \in [Tasks -> Terminal \cup {None}]
  BY DEF TypeOK
<1>2. CASE ~Present(t)
  BY <1>1, <1>2 DEF _update, Wrote, Present
<1>3. CASE Present(t)
  <2>1. new \in Row /\ new # NoRow
    BY <1>3, RowFacts
  <2>2. jobs' = [jobs EXCEPT ![t] = new]
    BY <1>3 DEF _update
  <2>3. /\ jobs' \in [Tasks -> Row \cup {NoRow}] /\ jobs'[t] = new
        /\ \A u \in Tasks : u # t => jobs'[u] = jobs[u]
    BY <1>1, <2>1, <2>2
  <2>4. \A u \in Tasks : Present(u)' <=> Present(u)
    BY <1>3, <2>1, <2>3 DEF Present
  <2>5. CASE new.status \in Terminal /\ new.status # jobs[t].status
    <3>1. receipts' = [receipts EXCEPT ![t] = new.status]
      BY <1>3, <2>5 DEF _update, _emit_job_transition
    <3> QED BY <1>1, <1>3, <2>3, <2>4, <2>5, <3>1 DEF Wrote
  <2>6. CASE ~(new.status \in Terminal /\ new.status # jobs[t].status)
    <3>1. receipts' = receipts
      BY <1>3, <2>6 DEF _update, _emit_job_transition
    <3> QED BY <1>1, <1>3, <2>3, <2>4, <2>6, <3>1 DEF Wrote
  <2> QED BY <2>5, <2>6
<1> QED BY <1>2, <1>3

LEMMA PresentIsRow == ASSUME TypeOK, NEW t \in Tasks, Present(t) PROVE jobs[t] \in Row
BY DEF TypeOK, Present

\* Which row each step writes, and with what.
LEMMA Writes ==
    ASSUME TaskInv
    PROVE  /\ \A c \in Clients : CancelMark(c) =>
                 /\ clients[c].task \in Tasks
                 /\ Wrote(clients[c].task, mark_failed(jobs[clients[c].task], "cancelled"))
           /\ \A c \in Clients : RetryReset(c) =>
                 /\ clients[c].task \in Tasks
                 /\ Wrote(clients[c].task, retry_from_admin(jobs[clients[c].task]))
           /\ \A c \in Clients : RejectFull(c) =>
                 /\ clients[c].task \in Tasks
                 /\ Wrote(clients[c].task, mark_failed(jobs[clients[c].task], "failed"))
           /\ WMarkQueued => Wrote(worker.task, mark_queued(jobs[worker.task]))
           /\ WAttach => Wrote(worker.task, attach_mementos_run(jobs[worker.task], worker.session))
           /\ WFail => \E st \in {"failed", "timed_out"} :
                          Wrote(worker.task, mark_failed(jobs[worker.task], st))
           /\ WComplete => Wrote(worker.task, complete(jobs[worker.task], worker.content))
<1>1. {"cancelled", "failed", "timed_out"} \subseteq Terminal /\ TypeOK
  BY DEF Terminal, TaskInv
<1>2. ASSUME NEW c \in Clients, clients[c].pc # "idle" PROVE clients[c].task \in Tasks
  BY <1>2 DEF TaskInv, ClientHolds
<1>3. worker.pc # "idle" => worker.task \in Tasks
  BY DEF TaskInv, WorkerHolds
<1>4. ASSUME NEW c \in Clients, CancelMark(c)
      PROVE  /\ clients[c].task \in Tasks
             /\ Wrote(clients[c].task, mark_failed(jobs[clients[c].task], "cancelled"))
  BY <1>1, <1>2, <1>4, UpdateWrites, UpdateFacts, PresentIsRow DEF CancelMark
<1>5. ASSUME NEW c \in Clients, RetryReset(c)
      PROVE  /\ clients[c].task \in Tasks
             /\ Wrote(clients[c].task, retry_from_admin(jobs[clients[c].task]))
  BY <1>1, <1>2, <1>5, UpdateWrites, UpdateFacts, PresentIsRow DEF RetryReset
<1>6. ASSUME NEW c \in Clients, RejectFull(c)
      PROVE  /\ clients[c].task \in Tasks
             /\ Wrote(clients[c].task, mark_failed(jobs[clients[c].task], "failed"))
  BY <1>1, <1>2, <1>6, UpdateWrites, UpdateFacts, PresentIsRow DEF RejectFull
<1>7. ASSUME WMarkQueued PROVE Wrote(worker.task, mark_queued(jobs[worker.task]))
  BY <1>1, <1>3, <1>7, UpdateWrites, UpdateFacts, PresentIsRow DEF WMarkQueued
<1>8. ASSUME WAttach
      PROVE  Wrote(worker.task, attach_mementos_run(jobs[worker.task], worker.session))
  <2>1. worker.session \in Sessions
    BY <1>8 DEF WAttach, TaskInv, WorkerHolds
  <2> QED BY <1>1, <1>3, <1>8, <2>1, UpdateWrites, UpdateFacts, PresentIsRow DEF WAttach
<1>9. ASSUME WFail
      PROVE  \E st \in {"failed", "timed_out"} : Wrote(worker.task, mark_failed(jobs[worker.task], st))
  BY <1>1, <1>3, <1>9, UpdateWrites, UpdateFacts, PresentIsRow DEF WFail
<1>10. ASSUME WComplete PROVE Wrote(worker.task, complete(jobs[worker.task], worker.content))
  <2>1. worker.content \in Tasks
    BY <1>10 DEF WComplete, TaskInv, WorkerHolds
  <2> QED BY <1>1, <1>3, <1>10, <2>1, UpdateWrites, UpdateFacts, PresentIsRow DEF WComplete
<1> QED BY <1>4, <1>5, <1>6, <1>7, <1>8, <1>9, <1>10

\* _summarize_result_for_tts touches nothing but the summary.
LEMMA SummaryWrites ==
    ASSUME TaskInv, WSummarize
    PROVE  /\ jobs' \in [Tasks -> Row \cup {NoRow}] /\ UNCHANGED receipts
           /\ \A u \in Tasks : /\ Present(u)' <=> Present(u)
                               /\ Present(u) => /\ jobs'[u].status = jobs[u].status
                                                /\ jobs'[u].result = jobs[u].result
                                                /\ jobs'[u].session = jobs[u].session
                                                /\ jobs'[u].callback = jobs[u].callback
<1> DEFINE t == worker.task
           new == [jobs[t] EXCEPT !.summary = TRUE]
<1>1. TypeOK /\ t \in Tasks
  BY DEF TaskInv, WorkerHolds, WSummarize
<1>2. jobs \in [Tasks -> Row \cup {NoRow}] /\ receipts \in [Tasks -> Terminal \cup {None}]
  BY <1>1 DEF TypeOK
<1>3. CASE UNCHANGED <<jobs, receipts>>
  BY <1>2, <1>3 DEF Present
<1>4. CASE _update(t, new)
  <2>1. Present(t) => /\ new \in Row /\ new.status = jobs[t].status /\ new.result = jobs[t].result
                      /\ new.session = jobs[t].session /\ new.callback = jobs[t].callback
    BY <1>1, PresentIsRow DEF Row
  <2> HIDE DEF new
  <2>2. Wrote(t, new)
    BY <1>1, <1>4, <2>1, UpdateWrites
  <2>3. \A u \in Tasks : receipts'[u] = receipts[u]
    BY <2>1, <2>2 DEF Wrote
  <2>4. receipts' = receipts
    BY <1>2, <2>2, <2>3 DEF Wrote
  <2> QED BY <2>1, <2>2, <2>4 DEF Wrote
<1> QED BY <1>3, <1>4 DEF WSummarize

\* claim_callback_delivery touches nothing but the callback.
LEMMA ClaimWrites ==
    ASSUME TaskInv, WClaim
    PROVE  /\ worker.task \in Tasks
           /\ jobs' \in [Tasks -> Row \cup {NoRow}]
           /\ \A u \in Tasks : /\ Present(u)' <=> Present(u)
                               /\ Present(u) => /\ jobs'[u].status = jobs[u].status
                                                /\ jobs'[u].result = jobs[u].result
                                                /\ jobs'[u].session = jobs[u].session
                               /\ u # worker.task => jobs'[u] = jobs[u]
           /\ \/ /\ Present(worker.task) /\ jobs[worker.task].callback = "pending"
                 /\ jobs'[worker.task].callback = "delivered" /\ WGoto("publish")
              \/ UNCHANGED jobs /\ WDone
<1> DEFINE t == worker.task
           new == [jobs[t] EXCEPT !.callback = "delivered"]
<1>1. TypeOK /\ t \in Tasks
  BY DEF TaskInv, WorkerHolds, WClaim
<1>2. jobs \in [Tasks -> Row \cup {NoRow}]
  BY <1>1 DEF TypeOK
<1>3. CASE UNCHANGED jobs /\ WDone
  BY <1>1, <1>2, <1>3 DEF Present
<1>4. CASE /\ Present(t) /\ jobs[t].callback = "pending"
           /\ jobs' = [jobs EXCEPT ![t].callback = "delivered"] /\ WGoto("publish")
  <2>1. jobs' = [jobs EXCEPT ![t] = new]
    BY <1>1, <1>2, <1>4
  <2>2. new \in Row /\ new.status = jobs[t].status /\ new.result = jobs[t].result
        /\ new.session = jobs[t].session /\ new.callback = "delivered"
    BY <1>1, <1>4, PresentIsRow DEF Row
  <2> HIDE DEF new
  <2>3. jobs' \in [Tasks -> Row \cup {NoRow}] /\ jobs'[t] = new
        /\ \A u \in Tasks : u # t => jobs'[u] = jobs[u]
    BY <1>1, <1>2, <2>1, <2>2
  <2>4. new # NoRow
    BY <2>2, RowFacts
  <2> QED BY <1>1, <1>4, <2>2, <2>3, <2>4 DEF Present
<1> QED BY <1>3, <1>4 DEF WClaim
(***************************************************************************)
(* Layer 1: the types, and what requests and worker hold, are preserved.   *)
(***************************************************************************)
ClientsGood(f) == f \in [Clients -> ClientType] /\ \A c \in Clients : ClientHolds(f[c])
WorkerGood(w)  == w \in WorkerType /\ WorkerHolds(w)

LEMMA InvParts ==
    TaskInv <=> /\ jobs \in [Tasks -> Row \cup {NoRow}]
                /\ nextTask \in 1 .. NumTasks + 1
                /\ ClientsGood(clients)
                /\ queue \in Seq(Tasks)
                /\ WorkerGood(worker)
                /\ mementos \in [Sessions -> SessionType]
                /\ receipts \in [Tasks -> Terminal \cup {None}]
                /\ announced \in [Tasks -> Nat] /\ accepts \in [Tasks -> Nat]
                /\ repended \in [Tasks -> Nat]
                /\ lost \subseteq Tasks
                /\ crashes \in Nat /\ deletes \in Nat
BY DEF TaskInv, TypeOK, ClientType, WorkerType, SessionType, ClientsGood, WorkerGood

LEMMA InvPartsNext ==
    TaskInv' <=> /\ jobs' \in [Tasks -> Row \cup {NoRow}]
                 /\ nextTask' \in 1 .. NumTasks + 1
                 /\ ClientsGood(clients')
                 /\ queue' \in Seq(Tasks)
                 /\ WorkerGood(worker')
                 /\ mementos' \in [Sessions -> SessionType]
                 /\ receipts' \in [Tasks -> Terminal \cup {None}]
                 /\ announced' \in [Tasks -> Nat] /\ accepts' \in [Tasks -> Nat]
                 /\ repended' \in [Tasks -> Nat]
                 /\ lost' \subseteq Tasks
                 /\ crashes' \in Nat /\ deletes' \in Nat
BY DEF TaskInv, TypeOK, ClientType, WorkerType, SessionType, ClientsGood, WorkerGood

\* One request moves on, the others stay where they are.
LEMMA ClientMoves ==
    ASSUME ClientsGood(clients), NEW c \in Clients, NEW x \in ClientType, ClientHolds(x),
           clients' = [clients EXCEPT ![c] = x]
    PROVE  /\ ClientsGood(clients') /\ clients'[c] = x
           /\ \A d \in Clients : d # c => clients'[d] = clients[d]
BY DEF ClientsGood

LEMMA ClientFinishes ==
    ASSUME ClientsGood(clients), NEW c \in Clients, Finish(c)
    PROVE  /\ ClientsGood(clients') /\ clients'[c] = IdleClient
           /\ \A d \in Clients : d # c => clients'[d] = clients[d]
BY ClientMoves, IdleFacts DEF Finish

LEMMA ClientGoes ==
    ASSUME ClientsGood(clients), NEW c \in Clients, NEW pc \in {"enqueue", "full"},
           clients[c].pc # "idle", Goto(c, pc)
    PROVE  /\ ClientsGood(clients') /\ clients'[c].pc = pc /\ clients'[c].task = clients[c].task
           /\ \A d \in Clients : d # c => clients'[d] = clients[d]
<1> DEFINE x == [clients[c] EXCEPT !.pc = pc]
<1>1. clients[c] \in ClientType /\ ClientHolds(clients[c])
  BY DEF ClientsGood
<1>2. x \in ClientType /\ x.pc = pc /\ x.task = clients[c].task /\ x.rec = clients[c].rec
  BY <1>1 DEF ClientType, ClientPc
<1>3. clients' = [clients EXCEPT ![c] = x]
  BY DEF Goto, ClientsGood
<1> HIDE DEF x
<1>4. ClientHolds(x)
  BY <1>1, <1>2 DEF ClientHolds
<1> QED BY <1>2, <1>3, <1>4, ClientMoves

LEMMA WorkerFinishes ==
    ASSUME WDone PROVE WorkerGood(worker') /\ worker' = IdleWorker
BY IdleFacts DEF WDone, WorkerGood, WorkerHolds

\* A step that only moves the worker on keeps its task, session and content.
LEMMA WorkerGoes ==
    ASSUME WorkerGood(worker), NEW pc \in WorkerPc \ {"idle"}, WGoto(pc), worker.pc # "idle",
           pc \in {"post", "attach", "poll"} => worker.session \in Sessions,
           pc \in {"run_failed", "complete"} => worker.content \in Tasks
    PROVE  /\ WorkerGood(worker') /\ worker'.pc = pc /\ worker'.task = worker.task
           /\ worker'.session = worker.session /\ worker'.content = worker.content
<1>1. worker'.pc = pc /\ worker' \in WorkerType /\ worker'.task = worker.task
      /\ worker'.session = worker.session /\ worker'.content = worker.content
  BY DEF WorkerGood, WGoto, WorkerType
<1> QED BY <1>1 DEF WorkerGood, WorkerHolds

LEMMA InitTaskInv == ASSUME Init PROVE TaskInv
<1> DEFINE zero == 0
           zeros == [t \in Tasks |-> zero]
           fresh == [open |-> FALSE, last |-> None, running |-> zeros]
<1>1. zero \in Nat /\ 1 \in 1 .. NumTasks + 1 /\ NumTasks \in Nat
  BY BoundsAssumption
<1>2. jobs = [t \in Tasks |-> NoRow] /\ nextTask = 1 /\ clients = [c \in Clients |-> IdleClient]
      /\ queue = <<>> /\ worker = IdleWorker /\ mementos = [s \in Sessions |-> fresh]
      /\ receipts = [t \in Tasks |-> None] /\ announced = zeros /\ accepts = zeros
      /\ repended = zeros /\ lost = {} /\ crashes = zero /\ deletes = zero
  BY DEF Init
<1> HIDE DEF zero
<1>3. zeros \in [Tasks -> Nat]
  BY <1>1
<1> HIDE DEF zeros
<1>4. fresh \in SessionType
  BY <1>3 DEF SessionType
<1> HIDE DEF fresh
<1>5. ClientsGood(clients) /\ WorkerGood(worker)
  BY <1>2, IdleFacts DEF ClientsGood, WorkerGood, WorkerHolds
<1>6. queue \in Seq(Tasks)
  BY <1>2
<1>7. /\ jobs \in [Tasks -> Row \cup {NoRow}] /\ mementos \in [Sessions -> SessionType]
      /\ receipts \in [Tasks -> Terminal \cup {None}] /\ lost \subseteq Tasks
  BY <1>2, <1>4
<1> QED BY <1>1, <1>2, <1>3, <1>5, <1>6, <1>7, InvParts

\* A request keeps the types, and leaves the worker and the service alone.
LEMMA ClientKeepsTypes ==
    ASSUME TaskInv, NEW c \in Clients, ClientStep(c)
    PROVE  TaskInv' /\ UNCHANGED <<worker, mementos>>
<1>1. /\ jobs \in [Tasks -> Row \cup {NoRow}] /\ nextTask \in 1 .. NumTasks + 1
      /\ ClientsGood(clients) /\ queue \in Seq(Tasks) /\ WorkerGood(worker)
      /\ mementos \in [Sessions -> SessionType] /\ receipts \in [Tasks -> Terminal \cup {None}]
      /\ announced \in [Tasks -> Nat] /\ accepts \in [Tasks -> Nat] /\ repended \in [Tasks -> Nat]
      /\ lost \subseteq Tasks /\ crashes \in Nat /\ deletes \in Nat
  BY InvParts
<1>2. clients[c].pc # "idle" => clients[c].task \in Tasks
  BY <1>1 DEF ClientsGood, ClientHolds
<1>3. CASE ToolInvoke(c)
  <2> DEFINE x == [pc |-> "accept", tool |-> TRUE, task |-> nextTask, rec |-> FreshRecord]
  <2>1. nextTask \in Tasks /\ clients' = [clients EXCEPT ![c] = x] /\ nextTask' = nextTask + 1
    BY <1>3 DEF ToolInvoke
  <2>2. x \in ClientType /\ x.pc = "accept" /\ x.task = nextTask /\ x.rec = FreshRecord
    BY <2>1, RowFacts DEF ClientType, ClientPc
  <2> HIDE DEF x
  <2>3. ClientHolds(x)
    BY <2>1, <2>2, RowFacts DEF ClientHolds
  <2>4. ClientsGood(clients')
    BY <1>1, <2>1, <2>2, <2>3, ClientMoves
  <2>5. nextTask' \in 1 .. NumTasks + 1
    BY <2>1, BoundsAssumption DEF Tasks
  <2> QED BY <1>1, <1>3, <2>4, <2>5, InvPartsNext DEF ToolInvoke
<1>4. ASSUME NEW t \in Tasks, NEW pc \in {"cancel", "retry"},
             clients' = [clients EXCEPT ![c] = [pc |-> pc, tool |-> FALSE, task |-> t, rec |-> NoRow]]
      PROVE  ClientsGood(clients')
  <2> DEFINE x == [pc |-> pc, tool |-> FALSE, task |-> t, rec |-> NoRow]
  <2>1. x \in ClientType /\ x.pc = pc /\ x.task = t
    BY DEF ClientType, ClientPc
  <2>2. clients' = [clients EXCEPT ![c] = x]
    BY <1>4
  <2> HIDE DEF x
  <2>3. ClientHolds(x)
    BY <2>1 DEF ClientHolds
  <2> QED BY <1>1, <2>1, <2>2, <2>3, ClientMoves
<1>5. ASSUME NEW t \in Tasks, CancelGet(c, t) PROVE TaskInv' /\ UNCHANGED <<worker, mementos>>
  BY <1>1, <1>4, <1>5, InvPartsNext DEF CancelGet
<1>6. ASSUME NEW t \in Tasks, RetryGet(c, t) PROVE TaskInv' /\ UNCHANGED <<worker, mementos>>
  BY <1>1, <1>4, <1>6, InvPartsNext DEF RetryGet
<1>7. CASE CancelMark(c)
  <2>1. jobs' \in [Tasks -> Row \cup {NoRow}] /\ receipts' \in [Tasks -> Terminal \cup {None}]
    BY <1>7, Writes DEF Wrote
  <2>2. ClientsGood(clients')
    BY <1>1, <1>7, ClientFinishes DEF CancelMark
  <2> QED BY <1>1, <1>7, <2>1, <2>2, InvPartsNext DEF CancelMark
<1>8. CASE RetryReset(c)
  <2> DEFINE t == clients[c].task
             r == retry_from_admin(jobs[t])
  <2>1. jobs' \in [Tasks -> Row \cup {NoRow}] /\ receipts' \in [Tasks -> Terminal \cup {None}]
    BY <1>8, Writes DEF Wrote
  <2>2. CASE ~Present(t)
    BY <1>1, <1>8, <2>1, <2>2, ClientFinishes, InvPartsNext DEF RetryReset
  <2>3. CASE Present(t)
    <3> DEFINE x == [clients[c] EXCEPT !.pc = "accept", !.rec = r]
    <3>1. t \in Tasks /\ TypeOK
      BY <1>2, <1>8 DEF RetryReset, TaskInv
    <3>2. r \in Row /\ r.status = "accepted" /\ r.result = None
      BY <2>3, <3>1, PresentIsRow, UpdateFacts
    <3>3. clients' = [clients EXCEPT ![c].pc = "accept", ![c].rec = r]
      BY <1>8, <2>3 DEF RetryReset
    <3> HIDE DEF r
    <3>4. x \in ClientType /\ x.pc = "accept" /\ x.task = t /\ x.rec = r
      BY <1>1, <3>1, <3>2 DEF ClientsGood, ClientType, ClientPc
    <3>5. clients' = [clients EXCEPT ![c] = x]
      BY <1>1, <3>3 DEF ClientsGood
    <3> HIDE DEF x
    <3>6. ClientHolds(x)
      BY <3>1, <3>2, <3>4 DEF ClientHolds
    <3>7. ClientsGood(clients')
      BY <1>1, <3>4, <3>5, <3>6, ClientMoves
    <3> QED BY <1>1, <1>8, <2>1, <3>7, InvPartsNext DEF RetryReset
  <2> QED BY <2>2, <2>3
<1>9. CASE Accept(c)
  <2> DEFINE t == clients[c].task
  <2>1. t \in Tasks /\ clients[c].pc = "accept" /\ clients[c].rec \in Row
    BY <1>1, <1>2, <1>9 DEF Accept, ClientsGood, ClientHolds
  <2>2. ClientsGood(clients')
    BY <1>1, <1>9, <2>1, ClientGoes DEF Accept
  <2>3. jobs' \in [Tasks -> Row \cup {NoRow}]
    BY <1>1, <1>9, <2>1 DEF Accept
  <2>4. accepts[t] + 1 \in Nat /\ repended[t] + 1 \in Nat
    BY <1>1, <2>1
  <2>5. accepts' \in [Tasks -> Nat] /\ repended' \in [Tasks -> Nat]
    BY <1>1, <1>9, <2>1, <2>4 DEF Accept
  <2>6. lost' \subseteq Tasks
    BY <1>1, <1>9 DEF Accept
  <2> QED BY <1>1, <1>9, <2>2, <2>3, <2>5, <2>6, InvPartsNext DEF Accept
<1>10. CASE Enqueue(c)
  <2>1. clients[c].task \in Tasks /\ clients[c].pc # "idle"
    BY <1>2, <1>10 DEF Enqueue
  <2>2. CASE Finish(c) /\ queue' = Append(queue, clients[c].task)
    BY <1>1, <1>10, <2>1, <2>2, ClientFinishes, InvPartsNext DEF Enqueue
  <2>3. CASE Goto(c, "full") /\ UNCHANGED queue
    <3>1. ClientsGood(clients')
      BY <1>1, <2>1, <2>3, ClientGoes
    <3> QED BY <1>1, <1>10, <2>3, <3>1, InvPartsNext DEF Enqueue
  <2> QED BY <1>10, <2>2, <2>3 DEF Enqueue
<1>11. CASE RejectFull(c)
  <2>1. jobs' \in [Tasks -> Row \cup {NoRow}] /\ receipts' \in [Tasks -> Terminal \cup {None}]
    BY <1>11, Writes DEF Wrote
  <2>2. ClientsGood(clients')
    BY <1>1, <1>11, ClientFinishes DEF RejectFull
  <2> QED BY <1>1, <1>11, <2>1, <2>2, InvPartsNext DEF RejectFull
<1>12. CASE ToolTimeout(c)
  <2>1. ClientsGood(clients') /\ lost' \subseteq Tasks
    BY <1>1, <1>2, <1>12, ClientFinishes DEF ToolTimeout
  <2> QED BY <1>1, <1>12, <2>1, InvPartsNext DEF ToolTimeout
<1>13. CASE RequestRaises(c)
  <2>1. ClientsGood(clients') /\ lost' \subseteq Tasks
    BY <1>1, <1>2, <1>13, ClientFinishes DEF RequestRaises
  <2> QED BY <1>1, <1>13, <2>1, InvPartsNext DEF RequestRaises
<1> QED BY <1>3, <1>5, <1>6, <1>7, <1>8, <1>9, <1>10, <1>11, <1>12, <1>13 DEF ClientStep

\* The session find_mementos_session_id returns is that of a row of the same
\* session_key; the newest such row exists because there are finitely many.
LEMMA FoundSession ==
    ASSUME TypeOK, NEW t \in Tasks, find_mementos_session_id(t) # None
    PROVE  \E u \in Tasks : /\ Present(u) /\ SessionKey[u] = SessionKey[t]
                            /\ jobs[u].session = find_mementos_session_id(t)
                            /\ jobs[u].session \in Sessions
<1> DEFINE same == {u \in Tasks : /\ Present(u) /\ SessionKey[u] = SessionKey[t]
                                  /\ jobs[u].session # None}
<1>1. same # {} /\ find_mementos_session_id(t) = jobs[Max(same)].session
  BY DEF find_mementos_session_id
<1>2. same \in SUBSET Int /\ \A x \in same : x <= NumTasks
  BY BoundsAssumption DEF Tasks
<1>3. Max(same) \in same
  <2> HIDE DEF same
  <2>0. NumTasks \in Int
    BY BoundsAssumption
  <2>1. PICK m \in same : \A x \in same : x <= m
    BY <1>1, <1>2, <2>0, GreatestBelow
  <2>2. \A y \in same : m >= y
    BY <1>2, <2>1
  <2> QED BY <2>1, <2>2 DEF Max
<1>4. ASSUME NEW u \in same PROVE jobs[u].session \in Sessions
  BY PresentIsRow DEF Row
<1> QED BY <1>1, <1>3, <1>4

\* create_session answers with a session nobody had.
LEMMA NewSession ==
    ASSUME Free # {}
    PROVE  Min(Free) \in Sessions /\ ~mementos[Min(Free)].open
<1>1. Free \subseteq Nat
  BY BoundsAssumption DEF Free, Sessions
<1>2. PICK m \in Free : \A x \in Free : m <= x
  BY <1>1, LeastNatural
<1>3. Min(Free) \in Free
  BY <1>2 DEF Min
<1> QED BY <1>3 DEF Free

\* The worker keeps the types; it never touches the requests.
LEMMA WorkerKeepsTypes ==
    ASSUME TaskInv, WorkerStep
    PROVE  TaskInv' /\ UNCHANGED clients
<1>1. /\ jobs \in [Tasks -> Row \cup {NoRow}] /\ nextTask \in 1 .. NumTasks + 1
      /\ ClientsGood(clients) /\ queue \in Seq(Tasks) /\ WorkerGood(worker)
      /\ mementos \in [Sessions -> SessionType] /\ receipts \in [Tasks -> Terminal \cup {None}]
      /\ announced \in [Tasks -> Nat] /\ accepts \in [Tasks -> Nat] /\ repended \in [Tasks -> Nat]
      /\ lost \subseteq Tasks /\ crashes \in Nat /\ deletes \in Nat
  BY InvParts
<1>2. worker \in WorkerType /\ WorkerHolds(worker) /\ TypeOK
  BY <1>1 DEF WorkerGood, TaskInv
<1>3. CASE WTake
  <2>1. Head(queue) \in Tasks /\ queue' \in Seq(Tasks)
    BY <1>1, <1>3 DEF WTake
  <2>2. worker' = [IdleWorker EXCEPT !.pc = "claim_job", !.task = Head(queue)]
    BY <1>3 DEF WTake
  <2>3. worker' \in WorkerType /\ worker'.pc = "claim_job" /\ worker'.task = Head(queue)
    BY <2>1, <2>2, IdleFacts DEF WorkerType, WorkerPc
  <2>4. WorkerGood(worker')
    BY <2>1, <2>3 DEF WorkerGood, WorkerHolds
  <2> QED BY <1>1, <1>3, <2>1, <2>4, InvPartsNext DEF WTake
<1>4. CASE WMarkQueued
  <2>1. jobs' \in [Tasks -> Row \cup {NoRow}] /\ receipts' \in [Tasks -> Terminal \cup {None}]
    BY <1>4, Writes DEF Wrote
  <2>2. WorkerGood(worker')
    BY <1>1, <1>4, WorkerGoes DEF WMarkQueued, WorkerPc
  <2> QED BY <1>1, <1>4, <2>1, <2>2, InvPartsNext DEF WMarkQueued
<1>5. CASE WFindSession
  <2> DEFINE s == find_mementos_session_id(worker.task)
             pc == IF s = None THEN "create" ELSE "post"
  <2>1. worker.task \in Tasks
    BY <1>2, <1>5 DEF WFindSession, WorkerHolds
  <2>2. s \in Sessions \cup {None} /\ pc \in WorkerPc /\ pc \in {"create", "post"}
        /\ (pc = "post" => s \in Sessions) /\ MaxRetries \in Nat
    BY <1>2, <2>1, FoundSession, BoundsAssumption DEF WorkerPc
  <2>3. worker' = [worker EXCEPT !.pc = pc, !.session = s, !.left = MaxRetries]
    BY <1>5 DEF WFindSession
  <2> HIDE DEF s, pc
  <2>4. worker' \in WorkerType /\ worker'.pc = pc /\ worker'.task = worker.task /\ worker'.session = s
    BY <1>2, <2>2, <2>3 DEF WorkerType
  <2>5. WorkerGood(worker')
    BY <2>1, <2>2, <2>4 DEF WorkerGood, WorkerHolds
  <2> QED BY <1>1, <1>5, <2>5, InvPartsNext DEF WFindSession
<1>6. CASE WCreateSession
  <2>1. worker.task \in Tasks /\ worker.pc = "create"
    BY <1>2, <1>6 DEF WCreateSession, WorkerHolds
  <2>2. CASE WGoto("error") /\ UNCHANGED mementos
    <3>1. WorkerGood(worker')
      BY <1>1, <2>1, <2>2, WorkerGoes DEF WorkerPc
    <3> QED BY <1>1, <1>6, <2>2, <3>1, InvPartsNext DEF WCreateSession
  <2>3. CASE /\ Free # {} /\ mementos' = [mementos EXCEPT ![Min(Free)].open = TRUE]
             /\ worker' = [worker EXCEPT !.pc = "post", !.session = Min(Free)]
    <3>1. Min(Free) \in Sessions
      BY <2>3, NewSession
    <3>2. worker' \in WorkerType /\ worker'.pc = "post" /\ worker'.task = worker.task
          /\ worker'.session = Min(Free)
      BY <1>2, <2>3, <3>1 DEF WorkerType, WorkerPc
    <3>3. WorkerGood(worker')
      BY <2>1, <3>1, <3>2 DEF WorkerGood, WorkerHolds
    <3>4. mementos' \in [Sessions -> SessionType]
      BY <1>1, <2>3, <3>1 DEF SessionType
    <3> QED BY <1>1, <1>6, <3>3, <3>4, InvPartsNext DEF WCreateSession
  <2> QED BY <1>6, <2>2, <2>3 DEF WCreateSession
<1>7. CASE WPostMessage
  <2> DEFINE s == worker.session
             n == mementos[s].running[worker.task] + 1
             m == [mementos EXCEPT ![s].running[worker.task] = @ + 1]
  <2>1. worker.task \in Tasks /\ worker.pc = "post" /\ s \in Sessions
    BY <1>2, <1>7 DEF WPostMessage, WorkerHolds
  <2>2. n \in Nat /\ m = [mementos EXCEPT ![s].running[worker.task] = n]
    BY <1>1, <2>1 DEF SessionType
  <2>3. m \in [Sessions -> SessionType]
    <3> HIDE DEF n
    <3> DEFINE y == [mementos[s].running EXCEPT ![worker.task] = n]
               x == [mementos[s] EXCEPT !.running = y]
    <3>1. mementos[s] \in SessionType /\ mementos[s].running \in [Tasks -> Nat]
      BY <1>1, <2>1 DEF SessionType
    <3>2. m = [mementos EXCEPT ![s] = x]
      BY <1>1, <2>1, <2>2
    <3>3. y \in [Tasks -> Nat]
      BY <2>1, <2>2, <3>1
    <3> HIDE DEF y, m
    <3>4. x \in SessionType
      BY <3>1, <3>3 DEF SessionType
    <3> QED BY <1>1, <2>1, <3>2, <3>4
  <2>4. mementos' = m \/ mementos' = mementos
    BY <1>7 DEF WPostMessage
  <2>5. mementos' \in [Sessions -> SessionType]
    BY <1>1, <2>3, <2>4
  <2>6. CASE WGoto("attach")
    BY <1>1, <1>7, <2>1, <2>5, <2>6, WorkerGoes, InvPartsNext DEF WPostMessage, WorkerPc
  <2>7. CASE WGoto("error")
    BY <1>1, <1>7, <2>1, <2>5, <2>7, WorkerGoes, InvPartsNext DEF WPostMessage, WorkerPc
  <2>8. CASE worker.left > 0 /\ worker' = [worker EXCEPT !.left = @ - 1]
    <3> DEFINE k == worker.left - 1
    <3>1. k \in Nat
      BY <1>2, <2>8 DEF WorkerType
    <3>2. worker' = [worker EXCEPT !.left = k]
      BY <2>8
    <3> HIDE DEF k
    <3>3. worker' \in WorkerType /\ worker'.pc = "post" /\ worker'.task = worker.task
          /\ worker'.session = worker.session
      BY <1>2, <2>1, <3>1, <3>2 DEF WorkerType
    <3>4. WorkerGood(worker')
      BY <2>1, <3>3 DEF WorkerGood, WorkerHolds
    <3> QED BY <1>1, <1>7, <2>5, <3>4, InvPartsNext DEF WPostMessage
  <2> QED BY <1>7, <2>6, <2>7, <2>8 DEF WPostMessage
<1>8. CASE WAttach
  <2>1. jobs' \in [Tasks -> Row \cup {NoRow}] /\ receipts' \in [Tasks -> Terminal \cup {None}]
    BY <1>8, Writes DEF Wrote
  <2>2. worker.task \in Tasks /\ worker.session \in Sessions /\ MaxPolls \in Nat
    BY <1>2, <1>8, BoundsAssumption DEF WAttach, WorkerHolds
  <2>3. worker' \in WorkerType /\ worker'.pc = "poll" /\ worker'.task = worker.task
        /\ worker'.session = worker.session
    BY <1>2, <1>8, <2>2 DEF WAttach, WorkerType, WorkerPc
  <2>4. WorkerGood(worker')
    BY <2>2, <2>3 DEF WorkerGood, WorkerHolds
  <2> QED BY <1>1, <1>8, <2>1, <2>4, InvPartsNext DEF WAttach
<1>9. CASE WPoll
  <2> DEFINE last == mementos[worker.session].last
             pc == IF last.ok THEN "complete" ELSE "run_failed"
             k == worker.left - 1
  <2>1. worker.task \in Tasks /\ worker.pc = "poll" /\ worker.session \in Sessions
    BY <1>2, <1>9 DEF WPoll, WorkerHolds
  <2>2. CASE WGoto("error")
    BY <1>1, <1>9, <2>1, <2>2, WorkerGoes, InvPartsNext DEF WPoll, WorkerPc
  <2>3. CASE worker' = [worker EXCEPT !.left = @ - 1]
    <3>1. k \in Nat /\ worker' = [worker EXCEPT !.left = k]
      BY <1>2, <1>9, <2>3 DEF WorkerType, WPoll
    <3> HIDE DEF k
    <3>2. worker' \in WorkerType /\ worker'.pc = "poll" /\ worker'.task = worker.task
          /\ worker'.session = worker.session
      BY <1>2, <2>1, <3>1 DEF WorkerType
    <3>3. WorkerGood(worker')
      BY <2>1, <3>2 DEF WorkerGood, WorkerHolds
    <3> QED BY <1>1, <1>9, <3>3, InvPartsNext DEF WPoll
  <2>4. CASE last # None /\ worker' = [worker EXCEPT !.content = last.task, !.pc = pc]
    <3>1. last.task \in Tasks /\ pc \in WorkerPc /\ pc \in {"complete", "run_failed"}
      BY <1>1, <2>1, <2>4 DEF SessionType, WorkerPc
    <3>2. worker' = [worker EXCEPT !.content = last.task, !.pc = pc]
      BY <2>4
    <3> HIDE DEF last, pc
    <3>3. worker' \in WorkerType /\ worker'.pc = pc /\ worker'.task = worker.task
          /\ worker'.content = last.task
      BY <1>2, <3>1, <3>2 DEF WorkerType
    <3>4. WorkerGood(worker')
      BY <2>1, <3>1, <3>3 DEF WorkerGood, WorkerHolds
    <3> QED BY <1>1, <1>9, <3>4, InvPartsNext DEF WPoll
  <2> QED BY <1>9, <2>2, <2>3, <2>4 DEF WPoll
<1>10. CASE WFail
  <2>1. jobs' \in [Tasks -> Row \cup {NoRow}] /\ receipts' \in [Tasks -> Terminal \cup {None}]
    BY <1>10, Writes DEF Wrote
  <2>2. WorkerGood(worker')
    BY <1>10, WorkerFinishes DEF WFail
  <2> QED BY <1>1, <1>10, <2>1, <2>2, InvPartsNext DEF WFail
<1>11. CASE WComplete
  <2>1. jobs' \in [Tasks -> Row \cup {NoRow}] /\ receipts' \in [Tasks -> Terminal \cup {None}]
    BY <1>11, Writes DEF Wrote
  <2>2. WorkerGood(worker')
    BY <1>1, <1>11, WorkerGoes DEF WComplete, WorkerPc
  <2> QED BY <1>1, <1>11, <2>1, <2>2, InvPartsNext DEF WComplete
<1>12. CASE WSummarize
  <2>1. jobs' \in [Tasks -> Row \cup {NoRow}] /\ UNCHANGED receipts
    BY <1>12, SummaryWrites
  <2>2. WorkerGood(worker')
    BY <1>1, <1>12, WorkerGoes DEF WSummarize, WorkerPc
  <2> QED BY <1>1, <1>12, <2>1, <2>2, InvPartsNext DEF WSummarize
<1>13. CASE WClaim
  <2>1. jobs' \in [Tasks -> Row \cup {NoRow}]
    BY <1>13, ClaimWrites
  <2>2. WorkerGood(worker')
    BY <1>1, <1>13, WorkerGoes, WorkerFinishes DEF WClaim, WorkerPc
  <2> QED BY <1>1, <1>13, <2>1, <2>2, InvPartsNext DEF WClaim
<1>14. CASE WPublish
  <2>1. WorkerGood(worker')
    BY <1>14, WorkerFinishes DEF WPublish
  <2>2. worker.task \in Tasks
    BY <1>2, <1>14 DEF WPublish, WorkerHolds
  <2>3. announced[worker.task] + 1 \in Nat
    BY <1>1, <2>2
  <2>4. announced' \in [Tasks -> Nat]
    BY <1>1, <1>14, <2>2, <2>3 DEF WPublish
  <2> QED BY <1>1, <1>14, <2>1, <2>4, InvPartsNext DEF WPublish
<1> QED BY <1>3, <1>4, <1>5, <1>6, <1>7, <1>8, <1>9, <1>10, <1>11, <1>12, <1>13, <1>14
        DEF WorkerStep

\* A deletion leaves every row as it is or removes it.
LEMMA DeletedRows ==
    ASSUME DeleteOwnerRuntime
    PROVE  \A t \in Tasks : jobs'[t] = NoRow \/ jobs'[t] = jobs[t]
BY DEF DeleteOwnerRuntime

\* The worker whose store call raises goes to the catch-all or drops its task.
LEMMA RaisingMoves ==
    ASSUME TaskInv, WStoreRaises
    PROVE  /\ WorkerGood(worker') /\ worker.task \in Tasks
           /\ \/ /\ worker'.pc = "error" /\ worker'.task = worker.task
                 /\ worker'.session = worker.session /\ UNCHANGED lost
              \/ worker' = IdleWorker /\ lost' = lost \cup {worker.task}
<1>1. WorkerGood(worker) /\ worker.pc # "idle"
  BY InvParts DEF WStoreRaises
<1>2. worker.task \in Tasks
  BY <1>1 DEF WorkerGood, WorkerHolds
<1>3. CASE WGoto("error") /\ UNCHANGED lost
  BY <1>1, <1>2, <1>3, WorkerGoes DEF WorkerPc
<1>4. CASE WDone /\ lost' = lost \cup {worker.task}
  BY <1>2, <1>4, WorkerFinishes
<1> QED BY <1>3, <1>4 DEF WStoreRaises

LEMMA EnvironmentKeepsTypes == ASSUME TaskInv, Environment PROVE TaskInv'
<1>1. /\ jobs \in [Tasks -> Row \cup {NoRow}] /\ nextTask \in 1 .. NumTasks + 1
      /\ ClientsGood(clients) /\ queue \in Seq(Tasks) /\ WorkerGood(worker)
      /\ mementos \in [Sessions -> SessionType] /\ receipts \in [Tasks -> Terminal \cup {None}]
      /\ announced \in [Tasks -> Nat] /\ accepts \in [Tasks -> Nat] /\ repended \in [Tasks -> Nat]
      /\ lost \subseteq Tasks /\ crashes \in Nat /\ deletes \in Nat
  BY InvParts
<1>2. ASSUME NEW s \in Sessions, NEW t \in Tasks, NEW ok \in BOOLEAN, MementosFinish(s, t, ok)
      PROVE  TaskInv'
  <2> DEFINE k == mementos[s].running[t] - 1
             event == [task |-> t, ok |-> ok]
             x == [mementos[s] EXCEPT !.running[t] = k, !.last = event]
  <2>1. mementos[s] \in SessionType /\ mementos[s].running[t] \in Nat
    BY <1>1 DEF SessionType
  <2>2. k \in Nat
    BY <1>2, <2>1 DEF MementosFinish
  <2>3. event \in [task : Tasks, ok : BOOLEAN]
    OBVIOUS
  <2>4. mementos' = [mementos EXCEPT ![s].running[t] = k, ![s].last = event]
    BY <1>2 DEF MementosFinish
  <2> HIDE DEF k, event
  <2>5. x \in SessionType
    BY <2>1, <2>2, <2>3 DEF SessionType
  <2>6. mementos' = [mementos EXCEPT ![s] = x]
    BY <1>1, <2>4
  <2>7. mementos' \in [Sessions -> SessionType]
    BY <1>1, <2>5, <2>6
  <2> QED BY <1>1, <1>2, <2>7, InvPartsNext DEF MementosFinish
<1>3. CASE DeleteOwnerRuntime
  <2>1. jobs' \in [Tasks -> Row \cup {NoRow}] /\ deletes' \in Nat
    BY <1>1, <1>3 DEF DeleteOwnerRuntime
  <2> QED BY <1>1, <1>3, <2>1, InvPartsNext DEF DeleteOwnerRuntime
<1>4. CASE Restart
  <2>1. crashes' \in Nat /\ queue' \in Seq(Tasks) /\ lost' \subseteq Tasks
    BY <1>1, <1>4 DEF Restart
  <2>2. ClientsGood(clients') /\ WorkerGood(worker')
    BY <1>4, IdleFacts DEF Restart, ClientsGood, WorkerGood, WorkerHolds
  <2> QED BY <1>1, <1>4, <2>1, <2>2, InvPartsNext DEF Restart
<1>5. CASE WStoreRaises
  <2>1. WorkerGood(worker') /\ lost' \subseteq Tasks
    BY <1>1, <1>5, RaisingMoves
  <2> QED BY <1>1, <1>5, <2>1, InvPartsNext DEF WStoreRaises
<1> QED BY <1>2, <1>3, <1>4, <1>5 DEF Environment

LEMMA StutterTaskInv == ASSUME TaskInv, UNCHANGED vars PROVE TaskInv'
BY InvParts, InvPartsNext DEF vars

LEMMA NextKeepsTypes == ASSUME TaskInv, [Next]_vars PROVE TaskInv'
BY ClientKeepsTypes, WorkerKeepsTypes, EnvironmentKeepsTypes, StutterTaskInv DEF Next

LEMMA TasksAreTyped == Spec => []TaskInv
<1>1. Init => TaskInv
  BY InitTaskInv
<1>2. TaskInv /\ [Next]_vars => TaskInv'
  BY NextKeepsTypes
<1> QED BY <1>1, <1>2, PTL DEF Spec

\* Every row, request, worker and session the store and the worker's
\* coroutines hold stays of its type; in particular the worker never waits on
\* a session it does not have.
THEOREM TasksWellTyped == Spec => []TypeOK
<1>1. TaskInv => TypeOK
  BY DEF TaskInv
<1> QED BY <1>1, TasksAreTyped, PTL
(***************************************************************************)
(* Layer 2: whoever writes a terminal status, the newest receipt names it. *)
(***************************************************************************)
LEMMA WroteKeepsReceipt ==
    ASSUME ReceiptMatchesTerminal, NEW t \in Tasks, NEW new, Wrote(t, new)
    PROVE  ReceiptMatchesTerminal'
<1> SUFFICES ASSUME NEW u \in Tasks, Present(u)', jobs'[u].status \in Terminal
             PROVE  receipts'[u] = jobs'[u].status
  BY DEF ReceiptMatchesTerminal
<1>1. Present(u)
  BY DEF Wrote
<1>2. CASE u # t
  BY <1>1, <1>2 DEF Wrote, ReceiptMatchesTerminal
<1>3. CASE u = t /\ new.status # jobs[t].status
  BY <1>1, <1>3 DEF Wrote
<1>4. CASE u = t /\ new.status = jobs[t].status
  BY <1>1, <1>4 DEF Wrote, ReceiptMatchesTerminal
<1> QED BY <1>2, <1>3, <1>4

LEMMA NextKeepsReceipts ==
    ASSUME TaskInv, ReceiptMatchesTerminal, [Next]_vars PROVE ReceiptMatchesTerminal'
<1>1. worker.pc # "idle" => worker.task \in Tasks
  BY DEF TaskInv, WorkerHolds
<1>2. CASE UNCHANGED <<jobs, receipts>>
  BY <1>2 DEF ReceiptMatchesTerminal, Present
<1>3. ASSUME NEW c \in Clients, ClientStep(c) PROVE ReceiptMatchesTerminal'
  <2>1. CASE CancelMark(c) \/ RetryReset(c) \/ RejectFull(c)
    BY <2>1, Writes, WroteKeepsReceipt
  <2>2. CASE Accept(c)
    <3>1. /\ jobs' = [jobs EXCEPT ![clients[c].task] = clients[c].rec] /\ UNCHANGED receipts
          /\ clients[c].rec.status = "accepted" /\ jobs \in [Tasks -> Row \cup {NoRow}]
      BY <2>2 DEF Accept, TaskInv, ClientHolds, TypeOK
    <3> QED BY <3>1 DEF ReceiptMatchesTerminal, Present, Terminal
  <2>3. CASE ToolInvoke(c) \/ Enqueue(c) \/ ToolTimeout(c) \/ RequestRaises(c)
             \/ \E t \in Tasks : CancelGet(c, t) \/ RetryGet(c, t)
    BY <1>2, <2>3 DEF ToolInvoke, Enqueue, ToolTimeout, RequestRaises, CancelGet, RetryGet
  <2> QED BY <1>3, <2>1, <2>2, <2>3 DEF ClientStep
<1>4. CASE WorkerStep
  <2>1. CASE WMarkQueued \/ WAttach \/ WFail \/ WComplete
    <3>1. worker.task \in Tasks
      BY <1>1, <2>1 DEF WMarkQueued, WAttach, WFail, WComplete
    <3> QED BY <2>1, <3>1, Writes, WroteKeepsReceipt
  <2>2. CASE WSummarize
    BY <2>2, SummaryWrites DEF ReceiptMatchesTerminal
  <2>3. CASE WClaim
    <3>1. UNCHANGED receipts
      BY <2>3 DEF WClaim
    <3> QED BY <2>3, <3>1, ClaimWrites DEF ReceiptMatchesTerminal
  <2>4. CASE WTake \/ WFindSession \/ WCreateSession \/ WPostMessage \/ WPoll \/ WPublish
    BY <1>2, <2>4 DEF WTake, WFindSession, WCreateSession, WPostMessage, WPoll, WPublish
  <2> QED BY <1>4, <2>1, <2>2, <2>3, <2>4 DEF WorkerStep
<1>5. CASE Environment
  <2>1. CASE DeleteOwnerRuntime
    <3>1. UNCHANGED receipts
      BY <2>1 DEF DeleteOwnerRuntime
    <3> QED BY <2>1, <3>1, DeletedRows DEF ReceiptMatchesTerminal, Present
  <2>2. CASE \/ Restart \/ WStoreRaises
             \/ \E s \in Sessions, t \in Tasks, ok \in BOOLEAN : MementosFinish(s, t, ok)
    BY <1>2, <2>2 DEF Restart, WStoreRaises, MementosFinish
  <2> QED BY <1>5, <2>1, <2>2 DEF Environment
<1> QED BY <1>2, <1>3, <1>4, <1>5 DEF Next, vars

\* However the worker, a cancel, a retry and a full queue interleave their
\* writes, the newest receipt of _emit_job_transition names the terminal
\* status the row has.
THEOREM ReceiptsAreTrue == Spec => []ReceiptMatchesTerminal
<1>1. Init => ReceiptMatchesTerminal
  BY DEF Init, ReceiptMatchesTerminal, Present
<1>2. TaskInv /\ ReceiptMatchesTerminal /\ [Next]_vars => ReceiptMatchesTerminal'
  BY NextKeepsReceipts
<1> QED BY <1>1, <1>2, TasksAreTyped, PTL DEF Spec

(***************************************************************************)
(* Layer 3: an unfinished row is in somebody's hands.  A worker past       *)
(* complete() holds its task no more: it will not move the row again.      *)
(***************************************************************************)
Submitting(t) == \E c \in Clients : clients[c].task = t
                                    /\ clients[c].pc \in {"accept", "enqueue", "full"}
Working(t)    == worker.task = t /\ worker.pc \notin {"idle", "summarize", "report", "publish"}
Held(t)       == Submitting(t) \/ InQueue(t) \/ Working(t)
Open(t)       == Present(t) /\ jobs[t].status \notin Terminal

OrphanInv == \A t \in Tasks : Open(t) /\ t \notin lost => Held(t)

\* A request that finishes, or starts on another task, takes nothing from a
\* task it did not hold.
LEMMA OthersSubmit ==
    ASSUME NEW c \in Clients, NEW t \in Tasks, Submitting(t),
           clients[c].task # t \/ clients[c].pc \notin {"accept", "enqueue", "full"},
           \A d \in Clients : d # c => clients'[d] = clients[d]
    PROVE  Submitting(t)'
BY DEF Submitting

LEMMA ClientKeepsHeld ==
    ASSUME TaskInv, OrphanInv, NEW c \in Clients, ClientStep(c) PROVE OrphanInv'
<1>1. ClientsGood(clients) /\ queue \in Seq(Tasks) /\ jobs \in [Tasks -> Row \cup {NoRow}]
      /\ TypeOK /\ UNCHANGED worker
  BY InvParts, ClientKeepsTypes DEF TaskInv
<1>0. clients[c].pc # "idle" => clients[c].task \in Tasks
  BY <1>1 DEF ClientsGood, ClientHolds
<1>2. \A t \in Tasks : Working(t)' <=> Working(t)
  BY <1>1 DEF Working
<1>3. UNCHANGED queue => \A t \in Tasks : InQueue(t)' <=> InQueue(t)
  BY DEF InQueue
<1>4. UNCHANGED jobs => \A t \in Tasks : Open(t)' <=> Open(t)
  BY DEF Open, Present
<1>5. CASE clients[c].pc = "idle"
  <2>1. UNCHANGED <<jobs, queue, lost>>
        /\ \A d \in Clients : d # c => clients'[d] = clients[d]
    BY <1>1, <1>5 DEF ClientStep, ToolInvoke, CancelGet, RetryGet, CancelMark, RetryReset,
       Accept, Enqueue, RejectFull, ToolTimeout, RequestRaises, ClientsGood
  <2> QED BY <1>2, <1>3, <1>4, <1>5, <2>1, OthersSubmit DEF OrphanInv, Held
<1>6. CASE CancelMark(c)
  <2>1. UNCHANGED <<queue, lost>> /\ clients[c].pc = "cancel"
        /\ \A d \in Clients : d # c => clients'[d] = clients[d]
    BY <1>1, <1>6, ClientFinishes DEF CancelMark
  <2>2. \A t \in Tasks : Submitting(t) => Submitting(t)'
    BY <2>1, OthersSubmit
  <2>3. \A t \in Tasks : Open(t)' => Open(t)
    <3>0. PICK t \in Tasks : t = clients[c].task
      BY <1>0, <1>6 DEF CancelMark
    <3>1. t \in Tasks /\ Wrote(t, mark_failed(jobs[t], "cancelled")) /\ "cancelled" \in Terminal
      BY <3>0, <1>6, Writes DEF Terminal
    <3>2. Present(t) => mark_failed(jobs[t], "cancelled").status = "cancelled"
      BY <3>0, <1>1, <3>1, UpdateFacts, PresentIsRow
    <3> QED BY <3>0, <3>1, <3>2 DEF Open, Wrote
  <2> QED BY <1>2, <1>3, <2>1, <2>2, <2>3 DEF OrphanInv, Held
<1>7. CASE RejectFull(c)
  <2>0. PICK t \in Tasks : t = clients[c].task
    BY <1>0, <1>7 DEF RejectFull
  <2>1. UNCHANGED <<queue, lost>>
        /\ \A d \in Clients : d # c => clients'[d] = clients[d]
    BY <2>0, <1>1, <1>7, ClientFinishes DEF RejectFull
  <2>2. \A u \in Tasks : u # t /\ Submitting(u) => Submitting(u)'
    BY <2>0, <2>1, OthersSubmit
  <2>3. t \in Tasks /\ Wrote(t, mark_failed(jobs[t], "failed")) /\ "failed" \in Terminal
    BY <2>0, <1>7, Writes DEF Terminal
  <2>4. Present(t) => mark_failed(jobs[t], "failed").status = "failed"
    BY <2>0, <1>1, <2>3, UpdateFacts, PresentIsRow
  <2>5. ~Open(t)' /\ \A u \in Tasks : Open(u)' => Open(u)
    BY <2>0, <2>3, <2>4 DEF Open, Wrote
  <2> QED BY <2>0, <1>2, <1>3, <2>1, <2>2, <2>5 DEF OrphanInv, Held
<1>8. CASE RetryReset(c)
  <2>0. PICK t \in Tasks : t = clients[c].task
    BY <1>0, <1>8 DEF RetryReset
  <2>1. UNCHANGED <<queue, lost>> /\ clients[c].pc = "retry"
        /\ \A d \in Clients : d # c => clients'[d] = clients[d]
    BY <2>0, <1>1, <1>8, ClientFinishes DEF RetryReset, ClientsGood
  <2>2. \A u \in Tasks : Submitting(u) => Submitting(u)'
    BY <2>0, <2>1, OthersSubmit
  <2>3. t \in Tasks /\ Wrote(t, retry_from_admin(jobs[t]))
    BY <2>0, <1>8, Writes
  <2>4. CASE ~Present(t)
    <3>1. \A u \in Tasks : Open(u)' => Open(u)
      BY <2>0, <2>3, <2>4 DEF Open, Wrote
    <3> QED BY <2>0, <1>2, <1>3, <2>1, <2>2, <3>1 DEF OrphanInv, Held
  <2>5. CASE Present(t)
    <3>1. clients'[c].pc = "accept" /\ clients'[c].task = t
      BY <2>0, <1>1, <1>8, <2>5 DEF RetryReset, ClientsGood, ClientType
    <3>2. Submitting(t)'
      BY <2>0, <3>1 DEF Submitting
    <3>3. \A u \in Tasks : u # t /\ Open(u)' => Open(u)
      BY <2>0, <2>3 DEF Open, Wrote
    <3> QED BY <2>0, <1>2, <1>3, <2>1, <2>2, <3>2, <3>3 DEF OrphanInv, Held
  <2> QED BY <2>0, <2>4, <2>5
<1>9. CASE Accept(c)
  <2>0. PICK t \in Tasks : t = clients[c].task
    BY <1>0, <1>9 DEF Accept
  <2>1. UNCHANGED queue /\ lost' = lost \ {t} /\ t \in Tasks /\ clients'[c].pc = "enqueue"
        /\ clients'[c].task = t /\ \A d \in Clients : d # c => clients'[d] = clients[d]
    BY <2>0, <1>1, <1>9, ClientGoes DEF Accept, ClientsGood, ClientHolds
  <2>2. Submitting(t)' /\ \A u \in Tasks : u # t /\ Submitting(u) => Submitting(u)'
    BY <2>0, <2>1, OthersSubmit DEF Submitting
  <2>3. \A u \in Tasks : u # t /\ Open(u)' => Open(u)
    BY <2>0, <1>1, <1>9, <2>1 DEF Accept, Open, Present
  <2> QED BY <2>0, <1>2, <1>3, <2>1, <2>2, <2>3 DEF OrphanInv, Held
<1>10. CASE Enqueue(c)
  <2>0. PICK t \in Tasks : t = clients[c].task
    BY <1>0, <1>10 DEF Enqueue
  <2>1. UNCHANGED <<jobs, lost>> /\ t \in Tasks
    BY <2>0, <1>1, <1>10 DEF Enqueue, ClientsGood, ClientHolds
  <2>2. CASE Finish(c) /\ queue' = Append(queue, t)
    <3>1. \A u \in Tasks : u # t /\ Submitting(u) => Submitting(u)'
      BY <2>0, <1>1, <2>2, ClientFinishes, OthersSubmit
    <3>2. Len(queue') = Len(queue) + 1 /\ queue'[Len(queue) + 1] = t
          /\ \A i \in 1 .. Len(queue) : queue'[i] = queue[i]
      BY <2>0, <1>1, <2>1, <2>2
    <3>3. Len(queue) \in Nat
      BY <2>0, <1>1
    <3>4. InQueue(t)' /\ \A u \in Tasks : InQueue(u) => InQueue(u)'
      BY <2>0, <3>2, <3>3 DEF InQueue
    <3> QED BY <2>0, <1>2, <1>4, <2>1, <3>1, <3>4 DEF OrphanInv, Held
  <2>3. CASE Goto(c, "full") /\ UNCHANGED queue
    <3>1. clients[c].pc # "idle"
      BY <2>0, <1>10 DEF Enqueue
    <3>2. clients'[c].pc = "full" /\ clients'[c].task = t
          /\ \A d \in Clients : d # c => clients'[d] = clients[d]
      BY <2>0, <1>1, <2>3, <3>1, ClientGoes
    <3>3. \A u \in Tasks : Submitting(u) => Submitting(u)'
      BY <2>0, <3>2 DEF Submitting
    <3> QED BY <2>0, <1>2, <1>3, <1>4, <2>1, <2>3, <3>3 DEF OrphanInv, Held
  <2> QED BY <2>0, <1>10, <2>2, <2>3 DEF Enqueue
<1>11. CASE ToolTimeout(c)
  <2>0. PICK t \in Tasks : t = clients[c].task
    BY <1>0, <1>11 DEF ToolTimeout
  <2>1. UNCHANGED <<jobs, queue>> /\ lost' = lost \cup {t}
        /\ \A d \in Clients : d # c => clients'[d] = clients[d]
    BY <2>0, <1>1, <1>11, ClientFinishes DEF ToolTimeout
  <2>2. \A u \in Tasks : u # t /\ Submitting(u) => Submitting(u)'
    BY <2>0, <2>1, OthersSubmit
  <2> QED BY <2>0, <1>2, <1>3, <1>4, <2>1, <2>2 DEF OrphanInv, Held
<1>12. CASE RequestRaises(c)
  <2>0. PICK t \in Tasks : t = clients[c].task
    BY <1>0, <1>12 DEF RequestRaises
  <2>1. /\ UNCHANGED <<jobs, queue>>
        /\ \A d \in Clients : d # c => clients'[d] = clients[d]
        /\ \/ lost' = lost \cup {t}
           \/ UNCHANGED lost /\ clients[c].pc \in {"cancel", "retry"}
    BY <2>0, <1>1, <1>12, ClientFinishes DEF RequestRaises
  <2>2. ASSUME NEW u \in Tasks, Submitting(u) PROVE Submitting(u)' \/ u \in lost'
    <3>1. CASE clients[c].task # u \/ clients[c].pc \notin {"accept", "enqueue", "full"}
      <4>1. Submitting(u)'
        BY <2>1, <2>2, <3>1, OthersSubmit
      <4> QED BY <4>1
    <3>2. CASE u = t /\ lost' = lost \cup {t}
      BY <3>2
    <3> QED BY <2>0, <2>1, <3>1, <3>2
  <2>3. lost \subseteq lost'
    BY <2>1
  <2> QED BY <1>2, <1>3, <1>4, <2>1, <2>2, <2>3 DEF OrphanInv, Held
<1> QED BY <1>5, <1>6, <1>7, <1>8, <1>9, <1>10, <1>11, <1>12
        DEF ClientStep, ToolInvoke, CancelGet, RetryGet

LEMMA WorkerKeepsHeld == ASSUME TaskInv, OrphanInv, WorkerStep PROVE OrphanInv'
<1>1. WorkerGood(worker) /\ queue \in Seq(Tasks) /\ TypeOK /\ UNCHANGED clients
      /\ worker \in WorkerType
  BY InvParts, WorkerKeepsTypes DEF TaskInv, WorkerGood
<1>2. \A t \in Tasks : Submitting(t)' <=> Submitting(t)
  BY <1>1 DEF Submitting
<1>3. UNCHANGED queue => \A t \in Tasks : InQueue(t)' <=> InQueue(t)
  BY DEF InQueue
<1>4. UNCHANGED jobs => \A t \in Tasks : Open(t)' <=> Open(t)
  BY DEF Open, Present
<1>5. UNCHANGED lost /\ (worker.pc # "idle" => UNCHANGED queue /\ worker.task \in Tasks)
  BY <1>1 DEF WorkerStep, WTake, WMarkQueued, WFindSession, WCreateSession, WPostMessage,
     WAttach, WPoll, WFail, WComplete, WSummarize, WClaim, WPublish, WorkerGood, WorkerHolds
<1>6. CASE WTake
  <2>1. Len(queue) \in Nat /\ Len(queue) > 0 /\ Len(queue') = Len(queue) - 1
        /\ \A i \in 1 .. Len(queue) - 1 : queue'[i] = queue[i + 1]
    BY <1>1, <1>6 DEF WTake
  <2>2. worker'.task = queue[1] /\ worker'.pc = "claim_job" /\ worker.pc = "idle"
    BY <1>1, <1>6, IdleFacts DEF WTake, WorkerType
  <2>3. ASSUME NEW t \in Tasks, InQueue(t) PROVE InQueue(t)' \/ Working(t)'
    <3>1. PICK i \in 1 .. Len(queue) : queue[i] = t
      BY <2>3 DEF InQueue
    <3>2. CASE i = 1
      BY <2>2, <3>1, <3>2 DEF Working
    <3>3. CASE i # 1
      <4>1. i - 1 \in 1 .. Len(queue) - 1 /\ queue'[i - 1] = queue[i]
        BY <2>1, <3>3
      <4> QED BY <2>1, <3>1, <4>1 DEF InQueue
    <3> QED BY <3>2, <3>3
  <2>4. \A t \in Tasks : ~Working(t)
    BY <2>2 DEF Working
  <2>5. UNCHANGED jobs
    BY <1>6 DEF WTake
  <2> QED BY <1>2, <1>4, <1>5, <2>3, <2>4, <2>5 DEF OrphanInv, Held
<1>7. CASE WFindSession \/ WCreateSession \/ WPostMessage \/ WPoll
  <2>1. UNCHANGED jobs /\ worker'.task = worker.task /\ worker.pc # "idle"
        /\ worker'.pc \notin {"idle", "summarize", "report", "publish"}
    BY <1>1, <1>7 DEF WFindSession, WCreateSession, WPostMessage, WPoll, WGoto, WorkerType
  <2> QED BY <1>2, <1>3, <1>4, <1>5, <2>1 DEF OrphanInv, Held, Working
<1>8. CASE WMarkQueued \/ WAttach
  <2>0. PICK t \in Tasks : t = worker.task
    BY <1>5, <1>8 DEF WMarkQueued, WAttach
  <2>1. worker.pc # "idle" /\ worker'.task = t /\ worker'.pc \in {"find", "poll"}
    BY <2>0, <1>1, <1>8 DEF WMarkQueued, WAttach, WGoto, WorkerType
  <2>2. Working(t)'
    BY <2>0, <2>1 DEF Working
  <2>3. \A u \in Tasks : u # t /\ Open(u)' => Open(u)
    BY <2>0, <1>8, Writes DEF Open, Wrote
  <2>4. \A u \in Tasks : Working(u) => Working(u)'
    BY <2>0, <2>1 DEF Working
  <2> QED BY <2>0, <1>2, <1>3, <1>5, <2>1, <2>2, <2>3, <2>4 DEF OrphanInv, Held
<1>9. CASE WFail \/ WComplete
  <2>0. PICK t \in Tasks : t = worker.task
    BY <1>5, <1>9 DEF WFail, WComplete
  <2>1. worker.pc # "idle"
    BY <2>0, <1>9 DEF WFail, WComplete
  <2>2. t \in Tasks /\ \E new : Wrote(t, new) /\ (Present(t) => new.status \in Terminal)
    <3>1. t \in Tasks /\ (WComplete => worker.content \in Tasks)
      BY <2>0, <1>1, <2>1 DEF WorkerGood, WorkerHolds, WComplete
    <3>2. Present(t) => jobs[t] \in Row
      BY <2>0, <1>1, <3>1, PresentIsRow
    <3>3. {"failed", "timed_out", "succeeded"} \subseteq Terminal
      BY <2>0 DEF Terminal
    <3>4. CASE WFail
      <4>1. PICK st \in {"failed", "timed_out"} : Wrote(t, mark_failed(jobs[t], st))
        BY <2>0, <3>4, Writes
      <4>0. st \in Terminal
        BY <3>3
      <4>2. Present(t) => mark_failed(jobs[t], st).status = st
        BY <3>2, <4>0, UpdateFacts
      <4> QED BY <2>0, <3>1, <4>0, <4>1, <4>2
    <3>5. CASE WComplete
      <4>1. Wrote(t, complete(jobs[t], worker.content))
        BY <2>0, <3>5, Writes
      <4>2. Present(t) => complete(jobs[t], worker.content).status = "succeeded"
        BY <2>0, <3>1, <3>2, <3>5, UpdateFacts
      <4> QED BY <2>0, <3>1, <3>3, <4>1, <4>2
    <3> QED BY <2>0, <1>9, <3>4, <3>5
  <2>3. ~Open(t)' /\ \A u \in Tasks : Open(u)' => Open(u)
    BY <2>0, <2>2 DEF Open, Wrote
  <2>4. \A u \in Tasks : Working(u) => u = t
    BY <2>0 DEF Working
  <2> QED BY <2>0, <1>2, <1>3, <1>5, <2>1, <2>3, <2>4 DEF OrphanInv, Held
<1>10. CASE WSummarize \/ WClaim \/ WPublish
  <2>1. \A u \in Tasks : ~Working(u)
    BY <1>10 DEF Working, WSummarize, WClaim, WPublish
  <2>2. \A u \in Tasks : Open(u)' => Open(u)
    <3>1. CASE WSummarize
      BY <3>1, SummaryWrites DEF Open
    <3>2. CASE WClaim
      BY <3>2, ClaimWrites DEF Open
    <3>3. CASE WPublish
      BY <1>4, <3>3 DEF WPublish
    <3> QED BY <1>10, <3>1, <3>2, <3>3
  <2>3. UNCHANGED queue
    BY <1>10 DEF WSummarize, WClaim, WPublish
  <2> QED BY <1>2, <1>3, <1>5, <2>1, <2>2, <2>3 DEF OrphanInv, Held
<1> QED BY <1>6, <1>7, <1>8, <1>9, <1>10 DEF WorkerStep

LEMMA EnvironmentKeepsHeld == ASSUME TaskInv, OrphanInv, Environment PROVE OrphanInv'
<1>1. CASE DeleteOwnerRuntime
  <2>1. UNCHANGED <<clients, queue, worker, lost>>
    BY <1>1 DEF DeleteOwnerRuntime
  <2>2. \A t \in Tasks : Open(t)' => Open(t)
    BY <1>1, DeletedRows DEF Open, Present
  <2> QED BY <2>1, <2>2 DEF OrphanInv, Held, Submitting, Working, InQueue
<1>2. CASE Restart
  BY <1>2 DEF Restart, OrphanInv
<1>3. CASE \E s \in Sessions, t \in Tasks, ok \in BOOLEAN : MementosFinish(s, t, ok)
  BY <1>3 DEF MementosFinish, OrphanInv, Held, Open, Present, Submitting, Working, InQueue
<1>4. CASE WStoreRaises
  <2>1. UNCHANGED <<jobs, clients, queue>>
    BY <1>4 DEF WStoreRaises
  <2>2. \A t \in Tasks : Working(t) => Working(t)' \/ t \in lost'
    BY <1>4, RaisingMoves DEF Working
  <2>3. lost \subseteq lost'
    BY <1>4, RaisingMoves
  <2> QED BY <2>1, <2>2, <2>3 DEF OrphanInv, Held, Open, Present, Submitting, InQueue
<1> QED BY <1>1, <1>2, <1>3, <1>4 DEF Environment

\* An unfinished row has an owner: no interleaving of submissions, retries,
\* cancels, a full queue and the worker leaves it with nobody to move it,
\* except what the property names: a restart, a timed-out tool call and a store
\* that refuses the write.
THEOREM NoTaskIsOrphaned == Spec => []NoOrphan
<1>1. Init => OrphanInv
  BY DEF Init, OrphanInv, Open, Present
<1>2. TaskInv /\ OrphanInv /\ [Next]_vars => OrphanInv'
  <2>1. ASSUME OrphanInv, UNCHANGED vars PROVE OrphanInv'
    BY <2>1 DEF vars, OrphanInv, Held, Open, Present, Submitting, Working, InQueue
  <2> QED BY <2>1, ClientKeepsHeld, WorkerKeepsHeld, EnvironmentKeepsHeld DEF Next
<1>3. OrphanInv => NoOrphan
  BY DEF OrphanInv, NoOrphan, Held, Open, Owned, Submitting, Working
<1> QED BY <1>1, <1>2, <1>3, TasksAreTyped, PTL DEF Spec
(***************************************************************************)
(* Layer 4: announcements are counted.  The claim that is on its way to    *)
(* the bus and the callback that can still be claimed count with those     *)
(* already made.                                                           *)
(***************************************************************************)
Publishing(t) == worker.pc = "publish" /\ worker.task = t
Pending(t)    == Present(t) /\ jobs[t].callback = "pending"
Count(b)      == IF b THEN 1 ELSE 0

AnnounceInv ==
    \A t \in Tasks :
        /\ accepts[t] = 0 => ~Present(t) /\ announced[t] = 0 /\ ~Publishing(t)
        /\ announced[t] + Count(Publishing(t)) + Count(Pending(t)) <= 1 + repended[t]

\* A step that makes no announcement, no claim and no callback pending.
LEMMA QuietKeepsCount ==
    ASSUME TaskInv, AnnounceInv, UNCHANGED <<announced, accepts, repended>>,
           \A t \in Tasks : /\ Present(t)' => Present(t)
                            /\ Pending(t)' => Pending(t)
                            /\ Publishing(t)' => Publishing(t)
    PROVE  AnnounceInv'
<1>1. announced \in [Tasks -> Nat] /\ repended \in [Tasks -> Nat]
  BY DEF TaskInv, TypeOK
<1> SUFFICES ASSUME NEW t \in Tasks
             PROVE  /\ accepts'[t] = 0 => ~Present(t)' /\ announced'[t] = 0 /\ ~Publishing(t)'
                    /\ announced'[t] + Count(Publishing(t)') + Count(Pending(t)') <= 1 + repended'[t]
  BY DEF AnnounceInv, Count
<1>2. announced[t] \in Nat /\ repended[t] \in Nat
  BY <1>1
<1>3. announced[t] + Count(Publishing(t)) + Count(Pending(t)) <= 1 + repended[t]
  BY DEF AnnounceInv
<1> QED BY <1>2, <1>3 DEF AnnounceInv, Count

\* _update never turns a delivered callback into a pending one.
LEMMA UpdateIsQuiet ==
    ASSUME TaskInv, NEW t \in Tasks, NEW new, Wrote(t, new),
           Present(t) => new.callback = jobs[t].callback
    PROVE  \A u \in Tasks : (Present(u)' => Present(u)) /\ (Pending(u)' => Pending(u))
BY DEF Wrote, Pending

LEMMA NextKeepsCount ==
    ASSUME TaskInv, AnnounceInv, [Next]_vars PROVE AnnounceInv'
<1>1. /\ announced \in [Tasks -> Nat] /\ repended \in [Tasks -> Nat] /\ accepts \in [Tasks -> Nat]
      /\ jobs \in [Tasks -> Row \cup {NoRow}] /\ TypeOK /\ worker \in WorkerType
  BY InvParts DEF TaskInv, WorkerGood
<1>2. UNCHANGED worker => \A t \in Tasks : Publishing(t)' <=> Publishing(t)
  BY DEF Publishing
<1>3. UNCHANGED jobs => \A t \in Tasks : (Present(t)' <=> Present(t)) /\ (Pending(t)' <=> Pending(t))
  BY DEF Present, Pending
<1>4. CASE UNCHANGED vars
  BY <1>2, <1>3, <1>4, QuietKeepsCount DEF vars
<1>5. ASSUME NEW c \in Clients, ClientStep(c) PROVE AnnounceInv'
  <2>1. UNCHANGED worker /\ (clients[c].pc # "idle" => clients[c].task \in Tasks)
    BY <1>5, ClientKeepsTypes DEF TaskInv, ClientHolds
  <2>2. CASE Accept(c)
    <3>0. PICK t \in Tasks : t = clients[c].task
      BY <2>1, <2>2 DEF Accept
    <3>1. /\ jobs' = [jobs EXCEPT ![t] = clients[c].rec] /\ UNCHANGED announced
          /\ accepts' = [accepts EXCEPT ![t] = accepts[t] + 1]
          /\ repended' = IF /\ accepts[t] > 0 /\ ~Pending(t) /\ clients[c].rec.callback = "pending"
                         THEN [repended EXCEPT ![t] = repended[t] + 1] ELSE repended
      BY <2>2, <3>0 DEF Accept, Pending
    <3> SUFFICES ASSUME NEW u \in Tasks
                 PROVE  /\ accepts'[u] = 0 => ~Present(u)' /\ announced'[u] = 0 /\ ~Publishing(u)'
                        /\ announced'[u] + Count(Publishing(u)') + Count(Pending(u)')
                             <= 1 + repended'[u]
      BY DEF AnnounceInv, Count
    <3>2. announced[u] \in Nat /\ repended[u] \in Nat /\ accepts[u] \in Nat
          /\ repended'[u] \in Nat
      BY <1>1, <3>1
    <3>3. /\ accepts[u] = 0 => ~Present(u) /\ announced[u] = 0 /\ ~Publishing(u)
          /\ announced[u] + Count(Publishing(u)) + Count(Pending(u)) <= 1 + repended[u]
      BY DEF AnnounceInv
    <3>4. CASE u # t
      <4>1. accepts'[u] = accepts[u] /\ jobs'[u] = jobs[u] /\ repended'[u] = repended[u]
        BY <1>1, <3>1, <3>4
      <4>2. (Present(u)' <=> Present(u)) /\ (Pending(u)' <=> Pending(u))
        BY <4>1 DEF Present, Pending
      <4> QED BY <1>2, <2>1, <3>1, <3>2, <3>3, <4>1, <4>2 DEF Count
    <3>5. CASE u = t
      <4>1. accepts'[u] = accepts[u] + 1 /\ jobs'[u] = clients[c].rec
        BY <1>1, <3>1, <3>5
      <4>2. accepts'[u] # 0
        BY <3>2, <4>1
      <4>3. CASE accepts[u] > 0 /\ ~Pending(u) /\ clients[c].rec.callback = "pending"
        <5>1. repended'[u] = repended[u] + 1
          BY <1>1, <3>1, <3>5, <4>3
        <5> QED BY <1>2, <2>1, <3>1, <3>2, <3>3, <4>2, <4>3, <5>1 DEF Count
      <4>4. CASE ~(accepts[u] > 0 /\ ~Pending(u) /\ clients[c].rec.callback = "pending")
        <5>1. repended'[u] = repended[u]
          BY <3>1, <3>5, <4>4
        <5>2. CASE accepts[u] = 0
          BY <1>2, <2>1, <3>1, <3>2, <3>3, <4>2, <5>1, <5>2, SMTT(30) DEF Count
        <5>3. CASE Pending(u)
          BY <1>2, <2>1, <3>1, <3>2, <3>3, <4>2, <5>1, <5>3 DEF Count
        <5>4. CASE clients[c].rec.callback # "pending"
          <6>1. ~Pending(u)'
            BY <4>1, <5>4 DEF Pending
          <6> QED BY <1>2, <2>1, <3>1, <3>2, <3>3, <4>2, <5>1, <6>1 DEF Count
        <5> QED BY <3>2, <4>4, <5>2, <5>3, <5>4
      <4> QED BY <4>3, <4>4
    <3> QED BY <3>4, <3>5
  <2>3. CASE CancelMark(c) \/ RetryReset(c) \/ RejectFull(c)
    <3>1. {"cancelled", "failed"} \subseteq Terminal
      BY DEF Terminal
    <3>2. PICK t \in Tasks : t = clients[c].task
      BY <2>1, <2>3 DEF CancelMark, RetryReset, RejectFull
    <3>3. Present(t) => jobs[t] \in Row
      BY <1>1, PresentIsRow
    <3>4. \A u \in Tasks : (Present(u)' => Present(u)) /\ (Pending(u)' => Pending(u))
      <4>1. CASE CancelMark(c)
        <5>1. Wrote(t, mark_failed(jobs[t], "cancelled"))
          BY <3>2, <4>1, Writes
        <5>2. Present(t) => mark_failed(jobs[t], "cancelled").callback = jobs[t].callback
          BY <3>1, <3>3, UpdateFacts
        <5> QED BY <5>1, <5>2, UpdateIsQuiet
      <4>2. CASE RetryReset(c)
        BY <3>2, <3>3, <4>2, Writes, UpdateFacts, UpdateIsQuiet
      <4>3. CASE RejectFull(c)
        <5>1. Wrote(t, mark_failed(jobs[t], "failed"))
          BY <3>2, <4>3, Writes
        <5>2. Present(t) => mark_failed(jobs[t], "failed").callback = jobs[t].callback
          BY <3>1, <3>3, UpdateFacts
        <5> QED BY <5>1, <5>2, UpdateIsQuiet
      <4> QED BY <2>3, <4>1, <4>2, <4>3
    <3>5. UNCHANGED <<announced, accepts, repended>>
      BY <2>3 DEF CancelMark, RetryReset, RejectFull
    <3> QED BY <1>2, <2>1, <3>4, <3>5, QuietKeepsCount
  <2>4. CASE ToolInvoke(c) \/ Enqueue(c) \/ ToolTimeout(c) \/ RequestRaises(c)
             \/ \E t \in Tasks : CancelGet(c, t) \/ RetryGet(c, t)
    <3>1. UNCHANGED <<announced, accepts, repended, jobs>>
      BY <2>4 DEF ToolInvoke, Enqueue, ToolTimeout, RequestRaises, CancelGet, RetryGet
    <3> QED BY <1>2, <1>3, <2>1, <3>1, QuietKeepsCount
  <2> QED BY <1>5, <2>2, <2>3, <2>4 DEF ClientStep
<1>6. CASE WorkerStep
  <2>1. worker.pc # "idle" => worker.task \in Tasks
    BY DEF TaskInv, WorkerHolds
  <2>3. CASE WMarkQueued \/ WAttach \/ WFail \/ WComplete
    <3>1. PICK t \in Tasks : t = worker.task
      BY <2>1, <2>3 DEF WMarkQueued, WAttach, WFail, WComplete
    <3>2. Present(t) => jobs[t] \in Row
      BY <1>1, PresentIsRow
    <3>3. \A u \in Tasks : (Present(u)' => Present(u)) /\ (Pending(u)' => Pending(u))
      <4>1. CASE WMarkQueued
        BY <3>1, <3>2, <4>1, Writes, UpdateFacts, UpdateIsQuiet
      <4>2. CASE WAttach
        <5>1. worker.session \in Sessions
          BY <4>2 DEF TaskInv, WorkerHolds, WAttach
        <5> QED BY <3>1, <3>2, <4>2, <5>1, Writes, UpdateFacts, UpdateIsQuiet
      <4>3. CASE WFail
        <5>1. PICK st \in {"failed", "timed_out"} : Wrote(t, mark_failed(jobs[t], st))
          BY <3>1, <4>3, Writes
        <5>2. st \in Terminal
          BY DEF Terminal
        <5> QED BY <3>2, <5>1, <5>2, UpdateFacts, UpdateIsQuiet
      <4>4. CASE WComplete
        <5>1. worker.content \in Tasks
          BY <4>4 DEF TaskInv, WorkerHolds, WComplete
        <5> QED BY <3>1, <3>2, <4>4, <5>1, Writes, UpdateFacts, UpdateIsQuiet
      <4> QED BY <2>3, <4>1, <4>2, <4>3, <4>4
    <3>4. UNCHANGED <<announced, accepts, repended>> /\ worker'.pc # "publish"
      BY <1>1, <2>3, IdleFacts DEF WMarkQueued, WAttach, WFail, WComplete, WGoto, WDone, WorkerType
    <3> QED BY <3>3, <3>4, QuietKeepsCount DEF Publishing
  <2>4. CASE WSummarize
    <3>1. UNCHANGED <<announced, accepts, repended>> /\ worker'.pc # "publish"
      BY <1>1, <2>4 DEF WSummarize, WGoto, WorkerType
    <3>2. \A u \in Tasks : (Present(u)' => Present(u)) /\ (Pending(u)' => Pending(u))
      BY <2>4, SummaryWrites DEF Pending
    <3> QED BY <3>1, <3>2, QuietKeepsCount DEF Publishing
  <2>5. CASE WTake \/ WFindSession \/ WCreateSession \/ WPostMessage \/ WPoll
    <3>1. UNCHANGED <<announced, accepts, repended, jobs>>
      BY <2>5 DEF WTake, WFindSession, WCreateSession, WPostMessage, WPoll
    <3>2. worker'.pc # "publish"
      BY <1>1, <2>5, IdleFacts
         DEF WTake, WFindSession, WCreateSession, WPostMessage, WPoll, WGoto, WorkerType
    <3> QED BY <1>3, <3>1, <3>2, QuietKeepsCount DEF Publishing
  <2>6. CASE WClaim
    <3>0. PICK t \in Tasks : t = worker.task
      BY <2>1, <2>6 DEF WClaim
    <3>1. UNCHANGED <<announced, accepts, repended>> /\ worker.pc = "report"
      BY <2>6 DEF WClaim
    <3>2. CASE UNCHANGED jobs /\ WDone
      <4>1. worker'.pc # "publish"
        BY <3>2, IdleFacts DEF WDone
      <4> QED BY <1>3, <3>1, <3>2, <4>1, QuietKeepsCount DEF Publishing
    <3>3. CASE /\ Present(t) /\ jobs[t].callback = "pending"
               /\ jobs'[t].callback = "delivered" /\ WGoto("publish")
      <4> SUFFICES ASSUME NEW u \in Tasks
                   PROVE  /\ accepts'[u] = 0 => ~Present(u)' /\ announced'[u] = 0 /\ ~Publishing(u)'
                          /\ announced'[u] + Count(Publishing(u)') + Count(Pending(u)')
                               <= 1 + repended'[u]
        BY DEF AnnounceInv, Count
      <4>1. announced[u] \in Nat /\ repended[u] \in Nat
        BY <1>1
      <4>2. /\ accepts[u] = 0 => ~Present(u) /\ announced[u] = 0 /\ ~Publishing(u)
            /\ announced[u] + Count(Publishing(u)) + Count(Pending(u)) <= 1 + repended[u]
        BY DEF AnnounceInv
      <4>3. (Present(u)' <=> Present(u)) /\ (u # t => jobs'[u] = jobs[u])
        BY <2>6, <3>0, ClaimWrites
      <4>4. worker'.pc = "publish" /\ worker'.task = t /\ ~Publishing(u)
        BY <1>1, <3>0, <3>1, <3>3 DEF WGoto, WorkerType, Publishing
      <4>5. CASE u = t
        <5>1. Pending(u) /\ ~Pending(u)' /\ Publishing(u)'
          BY <3>3, <4>4, <4>5 DEF Pending, Publishing
        <5> QED BY <3>1, <3>3, <4>1, <4>2, <4>4, <4>5, <5>1 DEF Count
      <4>6. CASE u # t
        <5>1. (Pending(u)' <=> Pending(u)) /\ ~Publishing(u)'
          BY <4>3, <4>4, <4>6 DEF Pending, Publishing
        <5> QED BY <3>1, <4>1, <4>2, <4>3, <4>4, <5>1 DEF Count
      <4> QED BY <4>5, <4>6
    <3> QED BY <2>6, <3>0, <3>2, <3>3, ClaimWrites
  <2>7. CASE WPublish
    <3>0. PICK t \in Tasks : t = worker.task
      BY <2>1, <2>7 DEF WPublish
    <3>1. /\ UNCHANGED <<jobs, accepts, repended>> /\ Publishing(t)
          /\ announced' = [announced EXCEPT ![t] = announced[t] + 1] \/ UNCHANGED announced
      BY <2>7, <3>0 DEF WPublish, Publishing
    <3>2. worker'.pc # "publish"
      BY <2>7, IdleFacts DEF WPublish, WDone
    <3> SUFFICES ASSUME NEW u \in Tasks
                 PROVE  /\ accepts'[u] = 0 => ~Present(u)' /\ announced'[u] = 0 /\ ~Publishing(u)'
                        /\ announced'[u] + Count(Publishing(u)') + Count(Pending(u)')
                             <= 1 + repended'[u]
      BY DEF AnnounceInv, Count
    <3>3. announced[u] \in Nat /\ repended[u] \in Nat /\ announced'[u] \in Nat
          /\ announced'[u] <= announced[u] + Count(Publishing(u))
      BY <1>1, <3>1 DEF Count
    <3>4. /\ accepts[u] = 0 => ~Present(u) /\ announced[u] = 0 /\ ~Publishing(u)
          /\ announced[u] + Count(Publishing(u)) + Count(Pending(u)) <= 1 + repended[u]
      BY DEF AnnounceInv
    <3>5. ~Publishing(u)'
      BY <3>2 DEF Publishing
    <3> QED BY <1>3, <3>1, <3>3, <3>4, <3>5 DEF Count
  <2> QED BY <1>6, <2>3, <2>4, <2>5, <2>6, <2>7 DEF WorkerStep
<1>7. CASE Environment
  <2>1. UNCHANGED <<announced, accepts, repended>>
        /\ (UNCHANGED worker \/ worker' = IdleWorker \/ worker'.pc = "error")
    BY <1>7, RaisingMoves DEF Environment, MementosFinish, WStoreRaises, DeleteOwnerRuntime, Restart
  <2>2. \A t \in Tasks : Publishing(t)' => Publishing(t)
    BY <2>1, IdleFacts DEF Publishing
  <2>3. CASE UNCHANGED jobs
    BY <1>3, <2>1, <2>2, <2>3, QuietKeepsCount
  <2>4. CASE DeleteOwnerRuntime
    <3>1. \A t \in Tasks : (Present(t)' => Present(t)) /\ (Pending(t)' => Pending(t))
      BY <2>4, DeletedRows DEF Present, Pending
    <3> QED BY <2>1, <2>2, <3>1, QuietKeepsCount
  <2> QED BY <1>7, <2>3, <2>4 DEF Environment, MementosFinish, WStoreRaises, Restart
<1> QED BY <1>4, <1>5, <1>6, <1>7 DEF Next

\* claim_callback_delivery lets each pending callback through once: a task is
\* announced at most once more than the accept() calls that put a pending
\* callback back.
THEOREM TaskIsAnnouncedOnce == Spec => []AnnouncedOncePerClaim
<1>1. Init => AnnounceInv
  BY IdleFacts DEF Init, AnnounceInv, Present, Pending, Publishing, Count
<1>2. TaskInv /\ AnnounceInv /\ [Next]_vars => AnnounceInv'
  BY NextKeepsCount
<1>3. TaskInv /\ AnnounceInv => AnnouncedOncePerClaim
  <2> SUFFICES ASSUME TaskInv, AnnounceInv, NEW t \in Tasks PROVE announced[t] <= 1 + repended[t]
    BY DEF AnnouncedOncePerClaim
  <2>1. announced[t] \in Nat /\ repended[t] \in Nat
    BY InvParts
  <2> QED BY <2>1 DEF AnnounceInv, Count
<1> QED BY <1>1, <1>2, <1>3, TasksAreTyped, PTL DEF Spec
(***************************************************************************)
(* Layer 5: a Mementos session belongs to one session_key.  Everything     *)
(* that names a session, a row, a record on its way into the table, the    *)
(* worker, a run or a terminal event, uses it for a task of that key.      *)
(***************************************************************************)
RowUses(t, s)    == Present(t) /\ jobs[t].session = s
RecordUses(t, s) == \E c \in Clients : /\ clients[c].pc = "accept"
                                       /\ clients[c].task = t /\ clients[c].rec.session = s
WorkerUses(t, s) == worker.task = t /\ worker.session = s
RunUses(t, s)    == \/ mementos[s].running[t] > 0
                    \/ mementos[s].last # None /\ mementos[s].last.task = t

Uses(t, s) == RowUses(t, s) \/ RecordUses(t, s) \/ WorkerUses(t, s) \/ RunUses(t, s)

SessionInv ==
    /\ \A t \in Tasks, s \in Sessions : Uses(t, s) => mementos[s].open
    /\ \A t, u \in Tasks, s \in Sessions :
          Uses(t, s) /\ Uses(u, s) => SessionKey[t] = SessionKey[u]
    /\ worker.pc = "complete" => SessionKey[worker.content] = SessionKey[worker.task]
    /\ ResultStaysInSession

\* The users of the sessions after a step were users before it, but perhaps
\* for one: a task that joins a user of its own key or opens a session.
LEMMA UsersStayTogether ==
    ASSUME SessionInv, NEW t0 \in Tasks, NEW s0 \in Sessions,
           \A t \in Tasks, s \in Sessions : Uses(t, s)' => Uses(t, s) \/ (t = t0 /\ s = s0),
           \A s \in Sessions : mementos[s].open => mementos'[s].open,
           mementos'[s0].open,
           ~mementos[s0].open \/ \E u \in Tasks : Uses(u, s0) /\ SessionKey[u] = SessionKey[t0]
    PROVE  /\ \A t \in Tasks, s \in Sessions : Uses(t, s)' => mementos'[s].open
           /\ \A t, u \in Tasks, s \in Sessions :
                 Uses(t, s)' /\ Uses(u, s)' => SessionKey[t] = SessionKey[u]
<1> DEFINE U(t, s) == Uses(t, s)
           V(t, s) == Uses(t, s)'
<1>1. /\ \A t \in Tasks, s \in Sessions : U(t, s) => mementos[s].open
      /\ \A t, u \in Tasks, s \in Sessions : U(t, s) /\ U(u, s) => SessionKey[t] = SessionKey[u]
  BY DEF SessionInv
<1>2. \A t \in Tasks, s \in Sessions : V(t, s) => U(t, s) \/ (t = t0 /\ s = s0)
  OBVIOUS
<1>3. ~mementos[s0].open \/ \E u \in Tasks : U(u, s0) /\ SessionKey[u] = SessionKey[t0]
  OBVIOUS
<1> HIDE DEF U, V
<1>4. \A t \in Tasks : U(t, s0) => SessionKey[t] = SessionKey[t0]
  BY <1>1, <1>3
<1>5. \A t \in Tasks, s \in Sessions : V(t, s) => mementos'[s].open
  BY <1>1, <1>2
<1>6. \A t, u \in Tasks, s \in Sessions : V(t, s) /\ V(u, s) => SessionKey[t] = SessionKey[u]
  BY <1>1, <1>2, <1>4
<1> QED BY <1>5, <1>6 DEF V

LEMMA NoNewUsers ==
    ASSUME SessionInv,
           \A t \in Tasks, s \in Sessions : Uses(t, s)' => Uses(t, s),
           \A s \in Sessions : mementos[s].open => mementos'[s].open
    PROVE  /\ \A t \in Tasks, s \in Sessions : Uses(t, s)' => mementos'[s].open
           /\ \A t, u \in Tasks, s \in Sessions :
                 Uses(t, s)' /\ Uses(u, s)' => SessionKey[t] = SessionKey[u]
BY DEF SessionInv

\* A write that keeps the row's session and result.
LEMMA WroteUses ==
    ASSUME NEW t \in Tasks, NEW new, Wrote(t, new)
    PROVE  /\ \A u \in Tasks, s \in Sessions : u # t \/ (Present(t) => new.session = jobs[t].session)
                 => (RowUses(u, s)' => RowUses(u, s))
           /\ \A s \in Sessions : RowUses(t, s)' => Present(t) /\ new.session = s
           /\ ResultStaysInSession
                /\ (Present(t) => new.result = jobs[t].result \/ new.result = None
                                  \/ SessionKey[new.result] = SessionKey[t])
                => ResultStaysInSession'
<1>1. \A u \in Tasks, s \in Sessions : u # t \/ (Present(t) => new.session = jobs[t].session)
                 => (RowUses(u, s)' => RowUses(u, s))
  BY DEF Wrote, RowUses
<1>2. \A s \in Sessions : RowUses(t, s)' => Present(t) /\ new.session = s
  BY DEF Wrote, RowUses
<1>3. ASSUME ResultStaysInSession,
             Present(t) => new.result = jobs[t].result \/ new.result = None
                           \/ SessionKey[new.result] = SessionKey[t]
      PROVE  ResultStaysInSession'
  <2> SUFFICES ASSUME NEW u \in Tasks, Present(u)', jobs'[u].result # None
               PROVE  SessionKey[jobs'[u].result] = SessionKey[u]
    BY DEF ResultStaysInSession
  <2>1. Present(u)
    BY DEF Wrote
  <2>2. CASE u # t
    BY <1>3, <2>1, <2>2 DEF Wrote, ResultStaysInSession
  <2>3. CASE u = t
    BY <1>3, <2>1, <2>3 DEF Wrote, ResultStaysInSession
  <2> QED BY <2>2, <2>3
<1> QED BY <1>1, <1>2, <1>3

LEMMA ClientKeepsSessions ==
    ASSUME TaskInv, SessionInv, NEW c \in Clients, ClientStep(c) PROVE SessionInv'
<1>1. ClientsGood(clients) /\ jobs \in [Tasks -> Row \cup {NoRow}] /\ TypeOK
      /\ UNCHANGED <<worker, mementos>>
  BY InvParts, ClientKeepsTypes DEF TaskInv
<1>2. \A t \in Tasks, s \in Sessions : /\ WorkerUses(t, s)' <=> WorkerUses(t, s)
                                       /\ RunUses(t, s)' <=> RunUses(t, s)
  BY <1>1 DEF WorkerUses, RunUses
<1>3. UNCHANGED jobs => ResultStaysInSession' /\ \A t \in Tasks, s \in Sessions : RowUses(t, s)' <=> RowUses(t, s)
  BY DEF RowUses, Present, SessionInv, ResultStaysInSession
<1>4. clients[c].pc # "idle" => clients[c].task \in Tasks
  BY <1>1 DEF ClientsGood, ClientHolds
<1>5. SUFFICES /\ ResultStaysInSession'
               /\ \A t \in Tasks, s \in Sessions : RowUses(t, s)' \/ RecordUses(t, s)' => Uses(t, s)
  <2>1. \A t \in Tasks, s \in Sessions : Uses(t, s)' => Uses(t, s)
    BY <1>2, <1>5 DEF Uses
  <2>2. \A s \in Sessions : mementos[s].open => mementos'[s].open
    BY <1>1
  <2>3. worker'.pc = "complete" => SessionKey[worker'.content] = SessionKey[worker'.task]
    BY <1>1 DEF SessionInv
  <2> QED BY <1>5, <2>1, <2>2, <2>3, NoNewUsers DEF SessionInv
<1>6. ASSUME NEW t \in Tasks, NEW s \in Sessions, RecordUses(t, s)',
             \A d \in Clients : d # c => clients'[d] = clients[d]
      PROVE  RecordUses(t, s) \/ (/\ clients'[c].pc = "accept" /\ clients'[c].task = t
                                  /\ clients'[c].rec.session = s)
  BY <1>6 DEF RecordUses
<1>7. CASE ToolInvoke(c)
  <2>1. UNCHANGED jobs /\ clients'[c].rec = FreshRecord
        /\ \A d \in Clients : d # c => clients'[d] = clients[d]
    BY <1>1, <1>7 DEF ToolInvoke, ClientsGood
  <2>2. \A s \in Sessions : clients'[c].rec.session # s
    BY <2>1, RowFacts, NoneIsNothing
  <2> QED BY <1>3, <1>6, <2>1, <2>2 DEF Uses
<1>8. CASE \E t \in Tasks : CancelGet(c, t) \/ RetryGet(c, t)
  <2>1. UNCHANGED jobs /\ clients'[c].pc # "accept"
        /\ \A d \in Clients : d # c => clients'[d] = clients[d]
    BY <1>1, <1>8 DEF CancelGet, RetryGet, ClientsGood
  <2> QED BY <1>3, <1>6, <2>1 DEF Uses
<1>9. CASE CancelMark(c) \/ RejectFull(c)
  <2>1. PICK t \in Tasks : t = clients[c].task
    BY <1>4, <1>9 DEF CancelMark, RejectFull
  <2>2. PICK st \in {"cancelled", "failed"} : Wrote(t, mark_failed(jobs[t], st))
    BY <1>9, <2>1, Writes
  <2>3. st \in Terminal
    BY DEF Terminal
  <2>4. Present(t) => /\ mark_failed(jobs[t], st).session = jobs[t].session
                      /\ mark_failed(jobs[t], st).result = jobs[t].result
    BY <1>1, <2>3, PresentIsRow, UpdateFacts
  <2>5. ResultStaysInSession' /\ \A u \in Tasks, s \in Sessions : RowUses(u, s)' => RowUses(u, s)
    BY <2>2, <2>4, WroteUses DEF SessionInv
  <2>6. clients'[c].pc # "accept" /\ \A d \in Clients : d # c => clients'[d] = clients[d]
    BY <1>1, <1>9, ClientFinishes, IdleFacts DEF CancelMark, RejectFull
  <2> QED BY <1>6, <2>5, <2>6 DEF Uses
<1>10. CASE RetryReset(c)
  <2>1. PICK t \in Tasks : t = clients[c].task
    BY <1>4, <1>10 DEF RetryReset
  <2>2. Wrote(t, retry_from_admin(jobs[t]))
    BY <1>10, <2>1, Writes
  <2>3. Present(t) => /\ retry_from_admin(jobs[t]).session = jobs[t].session
                      /\ retry_from_admin(jobs[t]).result = None
    BY <1>1, PresentIsRow, UpdateFacts
  <2>4. ResultStaysInSession' /\ \A u \in Tasks, s \in Sessions : RowUses(u, s)' => RowUses(u, s)
    BY <2>2, <2>3, WroteUses DEF SessionInv
  <2>5. \A d \in Clients : d # c => clients'[d] = clients[d]
    BY <1>1, <1>10, ClientFinishes DEF RetryReset, ClientsGood
  <2>6. CASE ~Present(t)
    <3>1. clients'[c].pc # "accept"
      BY <1>1, <1>10, <2>1, <2>6, ClientFinishes, IdleFacts DEF RetryReset
    <3> QED BY <1>6, <2>4, <2>5, <3>1 DEF Uses
  <2>7. CASE Present(t)
    <3>1. clients'[c].task = t /\ clients'[c].rec = retry_from_admin(jobs[t])
      BY <1>1, <1>10, <2>1, <2>7 DEF RetryReset, ClientsGood, ClientType
    <3>2. \A u \in Tasks, s \in Sessions : RecordUses(u, s)' => RecordUses(u, s) \/ RowUses(u, s)
      BY <1>6, <2>3, <2>5, <2>7, <3>1 DEF RowUses
    <3> QED BY <2>4, <3>2 DEF Uses
  <2> QED BY <2>6, <2>7
<1>11. CASE Accept(c)
  <2>1. PICK t \in Tasks : t = clients[c].task
    BY <1>4, <1>11 DEF Accept
  <2>2. jobs' = [jobs EXCEPT ![t] = clients[c].rec] /\ clients[c].pc = "accept"
        /\ clients[c].rec.result = None
    BY <1>1, <1>11, <2>1 DEF Accept, ClientsGood, ClientHolds
  <2>3. clients'[c].pc = "enqueue" /\ \A d \in Clients : d # c => clients'[d] = clients[d]
    BY <1>1, <1>11, <2>2, ClientGoes DEF Accept
  <2>4. jobs'[t] = clients[c].rec /\ \A u \in Tasks : u # t => jobs'[u] = jobs[u]
    BY <1>1, <2>2
  <2>5. \A u \in Tasks, s \in Sessions : RowUses(u, s)' => RowUses(u, s) \/ RecordUses(u, s)
    BY <2>1, <2>2, <2>4 DEF RowUses, RecordUses, Present
  <2>6. ResultStaysInSession'
    BY <2>2, <2>4 DEF ResultStaysInSession, SessionInv, Present
  <2> QED BY <1>6, <2>3, <2>5, <2>6 DEF Uses
<1>12. CASE Enqueue(c) \/ ToolTimeout(c) \/ RequestRaises(c)
  <2>1. UNCHANGED jobs /\ clients[c].pc # "idle"
    BY <1>12 DEF Enqueue, ToolTimeout, RequestRaises
  <2>2. clients'[c].pc # "accept" /\ \A d \in Clients : d # c => clients'[d] = clients[d]
    BY <1>1, <1>12, <2>1, ClientFinishes, ClientGoes, IdleFacts DEF Enqueue, ToolTimeout, RequestRaises
  <2> QED BY <1>3, <1>6, <2>1, <2>2 DEF Uses
<1> QED BY <1>7, <1>8, <1>9, <1>10, <1>11, <1>12 DEF ClientStep
LEMMA WorkerKeepsSessions == ASSUME TaskInv, SessionInv, WorkerStep PROVE SessionInv'
<1>1. /\ jobs \in [Tasks -> Row \cup {NoRow}] /\ TypeOK /\ UNCHANGED clients
      /\ worker \in WorkerType /\ WorkerHolds(worker) /\ mementos \in [Sessions -> SessionType]
  BY InvParts, WorkerKeepsTypes DEF TaskInv, WorkerGood
<1>2. \A t \in Tasks, s \in Sessions : RecordUses(t, s)' <=> RecordUses(t, s)
  BY <1>1 DEF RecordUses
<1>3. UNCHANGED jobs => /\ ResultStaysInSession'
                        /\ \A t \in Tasks, s \in Sessions : RowUses(t, s)' <=> RowUses(t, s)
  BY DEF RowUses, Present, SessionInv, ResultStaysInSession
<1>4. UNCHANGED mementos => /\ \A s \in Sessions : mementos[s].open => mementos'[s].open
                            /\ \A t \in Tasks, s \in Sessions : RunUses(t, s)' <=> RunUses(t, s)
  BY DEF RunUses
<1>5. ASSUME worker'.task = worker.task, worker'.session = worker.session
      PROVE  \A t \in Tasks, s \in Sessions : WorkerUses(t, s)' <=> WorkerUses(t, s)
  BY <1>5 DEF WorkerUses
<1>6. ASSUME worker' = IdleWorker PROVE \A t \in Tasks, s \in Sessions : ~WorkerUses(t, s)'
  BY <1>6, IdleFacts, NoneIsNothing DEF WorkerUses
<1>7. worker.pc # "idle" => worker.task \in Tasks
  BY <1>1 DEF WorkerHolds
<1>8. CASE WTake
  <2>1. UNCHANGED <<jobs, mementos>> /\ worker'.session = None /\ worker'.pc = "claim_job"
    BY <1>8, IdleFacts DEF WTake, WorkerType
  <2>2. \A t \in Tasks, s \in Sessions : ~WorkerUses(t, s)'
    BY <2>1, NoneIsNothing DEF WorkerUses
  <2>3. \A t \in Tasks, s \in Sessions : Uses(t, s)' => Uses(t, s)
    BY <1>2, <1>3, <1>4, <2>1, <2>2 DEF Uses
  <2> QED BY <1>3, <1>4, <2>1, <2>3, NoNewUsers DEF SessionInv
<1>9. CASE WMarkQueued
  <2>1. PICK t \in Tasks : t = worker.task
    BY <1>7, <1>9 DEF WMarkQueued
  <2>2. Wrote(t, mark_queued(jobs[t]))
    BY <1>9, <2>1, Writes
  <2>3. Present(t) => /\ mark_queued(jobs[t]).session = jobs[t].session
                      /\ mark_queued(jobs[t]).result = jobs[t].result
    BY <1>1, PresentIsRow, UpdateFacts
  <2>4. ResultStaysInSession' /\ \A u \in Tasks, s \in Sessions : RowUses(u, s)' => RowUses(u, s)
    BY <2>2, <2>3, WroteUses DEF SessionInv
  <2>5. UNCHANGED mementos /\ worker'.pc = "find" /\ worker'.task = worker.task
        /\ worker'.session = worker.session
    BY <1>1, <1>9 DEF WMarkQueued, WGoto, WorkerType
  <2>6. \A u \in Tasks, s \in Sessions : Uses(u, s)' => Uses(u, s)
    BY <1>2, <1>4, <1>5, <2>4, <2>5 DEF Uses
  <2> QED BY <1>4, <2>4, <2>5, <2>6, NoNewUsers DEF SessionInv
<1>10. CASE WFindSession
  <2>1. PICK t \in Tasks : t = worker.task
    BY <1>7, <1>10 DEF WFindSession
  <2>2. PICK f : f = find_mementos_session_id(t)
    OBVIOUS
  <2>3. UNCHANGED <<jobs, mementos>> /\ worker'.task = t /\ worker'.session = f
        /\ worker'.pc # "complete"
    BY <1>1, <1>10, <2>1, <2>2 DEF WFindSession, WorkerType
  <2>4. \A u \in Tasks, s \in Sessions :
           Uses(u, s)' => Uses(u, s) \/ (u = t /\ s = f)
    BY <1>2, <1>3, <1>4, <2>3 DEF Uses, WorkerUses
  <2>5. CASE f = None
    <3>1. \A u \in Tasks, s \in Sessions : Uses(u, s)' => Uses(u, s)
      BY <2>4, <2>5, NoneIsNothing
    <3> QED BY <1>3, <1>4, <2>3, <3>1, NoNewUsers DEF SessionInv
  <2>6. CASE f # None
    <3>1. PICK u \in Tasks : /\ Present(u) /\ SessionKey[u] = SessionKey[t]
                             /\ jobs[u].session = f /\ f \in Sessions
      BY <1>1, <2>2, <2>6, FoundSession
    <3>2. Uses(u, f)
      BY <3>1 DEF Uses, RowUses
    <3>3. mementos'[f].open
      BY <2>3, <3>1, <3>2 DEF SessionInv
    <3>4. \A s \in Sessions : mementos[s].open => mementos'[s].open
      BY <1>4, <2>3
    <3>5. /\ \A v \in Tasks, s \in Sessions : Uses(v, s)' => mementos'[s].open
          /\ \A v, w \in Tasks, s \in Sessions :
                Uses(v, s)' /\ Uses(w, s)' => SessionKey[v] = SessionKey[w]
      BY <2>4, <3>1, <3>2, <3>3, <3>4, UsersStayTogether
    <3> QED BY <1>3, <2>3, <3>5 DEF SessionInv
  <2> QED BY <2>5, <2>6
<1>11. CASE WCreateSession
  <2>1. UNCHANGED jobs
    BY <1>11 DEF WCreateSession
  <2>2. CASE WGoto("error") /\ UNCHANGED mementos
    <3>1. worker'.pc = "error" /\ worker'.task = worker.task /\ worker'.session = worker.session
      BY <1>1, <2>2 DEF WGoto, WorkerType
    <3>2. \A u \in Tasks, s \in Sessions : Uses(u, s)' => Uses(u, s)
      BY <1>2, <1>3, <1>4, <1>5, <2>1, <2>2, <3>1 DEF Uses
    <3> QED BY <1>3, <1>4, <2>1, <2>2, <3>1, <3>2, NoNewUsers DEF SessionInv
  <2>3. CASE /\ Free # {} /\ mementos' = [mementos EXCEPT ![Min(Free)].open = TRUE]
             /\ worker' = [worker EXCEPT !.pc = "post", !.session = Min(Free)]
    <3>1. PICK n \in Sessions : n = Min(Free) /\ ~mementos[n].open
      BY <2>3, NewSession
    <3>2. PICK t \in Tasks : t = worker.task
      BY <1>7, <1>11 DEF WCreateSession
    <3>3. worker'.pc = "post" /\ worker'.task = t /\ worker'.session = n
      BY <1>1, <2>3, <3>1, <3>2 DEF WorkerType
    <3>4. mementos'[n].open
          /\ \A s \in Sessions : /\ mementos[s].open => mementos'[s].open
                                 /\ mementos'[s].running = mementos[s].running
                                 /\ mementos'[s].last = mementos[s].last
      BY <1>1, <2>3, <3>1 DEF SessionType
    <3>5. \A u \in Tasks, s \in Sessions : RunUses(u, s)' <=> RunUses(u, s)
      BY <3>4 DEF RunUses
    <3>6. \A u \in Tasks, s \in Sessions : Uses(u, s)' => Uses(u, s) \/ (u = t /\ s = n)
      BY <1>2, <1>3, <2>1, <3>3, <3>5 DEF Uses, WorkerUses
    <3>7. /\ \A v \in Tasks, s \in Sessions : Uses(v, s)' => mementos'[s].open
          /\ \A v, w \in Tasks, s \in Sessions :
                Uses(v, s)' /\ Uses(w, s)' => SessionKey[v] = SessionKey[w]
      BY <3>1, <3>4, <3>6, UsersStayTogether
    <3> QED BY <1>3, <2>1, <3>3, <3>7 DEF SessionInv
  <2> QED BY <1>11, <2>2, <2>3 DEF WCreateSession
<1>12. CASE WPostMessage
  <2>1. PICK t \in Tasks, n \in Sessions : t = worker.task /\ n = worker.session
    BY <1>1, <1>12 DEF WPostMessage, WorkerHolds
  <2>2. mementos' = [mementos EXCEPT ![n].running[t] = @ + 1] \/ mementos' = mementos
    BY <1>12, <2>1 DEF WPostMessage
  <2>3. UNCHANGED jobs /\ worker'.task = worker.task /\ worker'.session = worker.session
        /\ worker'.pc # "complete"
    BY <1>1, <1>12 DEF WPostMessage, WGoto, WorkerType
  <2>4. \A s \in Sessions : /\ mementos'[s].open = mementos[s].open
                            /\ mementos'[s].last = mementos[s].last
                            /\ \A u \in Tasks : u # t \/ s # n
                                  => mementos'[s].running[u] = mementos[s].running[u]
    BY <1>1, <2>1, <2>2 DEF SessionType
  <2>5. Uses(t, n)
    BY <2>1 DEF Uses, WorkerUses
  <2>6. \A u \in Tasks, s \in Sessions : RunUses(u, s)' => RunUses(u, s) \/ (u = t /\ s = n)
    BY <2>4 DEF RunUses
  <2>7. \A u \in Tasks, s \in Sessions : Uses(u, s)' => Uses(u, s)
    BY <1>2, <1>3, <1>5, <2>3, <2>5, <2>6 DEF Uses
  <2> QED BY <1>3, <2>3, <2>4, <2>7, NoNewUsers DEF SessionInv
<1>13. CASE WAttach
  <2>1. PICK t \in Tasks, n \in Sessions : t = worker.task /\ n = worker.session
    BY <1>1, <1>13 DEF WAttach, WorkerHolds
  <2>2. Wrote(t, attach_mementos_run(jobs[t], n))
    BY <1>13, <2>1, Writes
  <2>3. Present(t) => /\ attach_mementos_run(jobs[t], n).session = n
                      /\ attach_mementos_run(jobs[t], n).result = jobs[t].result
    BY <1>1, PresentIsRow, UpdateFacts
  <2>4. ResultStaysInSession' /\ \A u \in Tasks, s \in Sessions :
                                    RowUses(u, s)' => RowUses(u, s) \/ (u = t /\ s = n)
    <3>1. \A u \in Tasks, s \in Sessions : u # t => (RowUses(u, s)' => RowUses(u, s))
      BY <2>2, WroteUses
    <3>2. \A s \in Sessions : RowUses(t, s)' => s = n
      BY <2>2, <2>3, WroteUses
    <3>3. ResultStaysInSession'
      BY <2>2, <2>3, WroteUses DEF SessionInv
    <3> QED BY <3>1, <3>2, <3>3
  <2>5. UNCHANGED mementos /\ worker'.pc = "poll" /\ worker'.task = worker.task
        /\ worker'.session = worker.session
    BY <1>1, <1>13 DEF WAttach, WorkerType
  <2>6. Uses(t, n)
    BY <2>1 DEF Uses, WorkerUses
  <2>7. \A u \in Tasks, s \in Sessions : Uses(u, s)' => Uses(u, s)
    BY <1>2, <1>4, <1>5, <2>4, <2>5, <2>6 DEF Uses
  <2> QED BY <1>4, <2>4, <2>5, <2>7, NoNewUsers DEF SessionInv
<1>14. CASE WPoll
  <2>1. PICK t \in Tasks, n \in Sessions : t = worker.task /\ n = worker.session
    BY <1>1, <1>14 DEF WPoll, WorkerHolds
  <2>2. UNCHANGED <<jobs, mementos>> /\ worker'.task = worker.task /\ worker'.session = worker.session
    BY <1>1, <1>14 DEF WPoll, WGoto, WorkerType
  <2>3. worker'.pc = "complete" => mementos[n].last # None /\ worker'.content = mementos[n].last.task
    BY <1>1, <1>14, <2>1 DEF WPoll, WGoto, WorkerType
  <2>4. worker'.pc = "complete" => SessionKey[worker'.content] = SessionKey[worker'.task]
    <3> SUFFICES ASSUME worker'.pc = "complete"
                 PROVE  SessionKey[worker'.content] = SessionKey[worker'.task]
      OBVIOUS
    <3>1. PICK u \in Tasks : u = mementos[n].last.task
      BY <1>1, <2>3 DEF SessionType
    <3>2. Uses(t, n) /\ Uses(u, n)
      BY <2>1, <2>3, <3>1 DEF Uses, WorkerUses, RunUses
    <3> QED BY <2>1, <2>2, <2>3, <3>1, <3>2 DEF SessionInv
  <2>5. \A u \in Tasks, s \in Sessions : Uses(u, s)' => Uses(u, s)
    BY <1>2, <1>3, <1>4, <1>5, <2>2 DEF Uses
  <2> QED BY <1>3, <1>4, <2>2, <2>4, <2>5, NoNewUsers DEF SessionInv
<1>15. CASE WFail
  <2>1. PICK t \in Tasks : t = worker.task
    BY <1>7, <1>15 DEF WFail
  <2>2. PICK st \in {"failed", "timed_out"} : Wrote(t, mark_failed(jobs[t], st))
    BY <1>15, <2>1, Writes
  <2>3. st \in Terminal
    BY DEF Terminal
  <2>4. Present(t) => /\ mark_failed(jobs[t], st).session = jobs[t].session
                      /\ mark_failed(jobs[t], st).result = jobs[t].result
    BY <1>1, <2>3, PresentIsRow, UpdateFacts
  <2>5. ResultStaysInSession' /\ \A u \in Tasks, s \in Sessions : RowUses(u, s)' => RowUses(u, s)
    BY <2>2, <2>4, WroteUses DEF SessionInv
  <2>6. UNCHANGED mementos /\ worker' = IdleWorker /\ worker'.pc = "idle"
    BY <1>15, IdleFacts DEF WFail, WDone
  <2>7. \A u \in Tasks, s \in Sessions : Uses(u, s)' => Uses(u, s)
    BY <1>2, <1>4, <1>6, <2>5, <2>6 DEF Uses
  <2> QED BY <1>4, <2>5, <2>6, <2>7, NoNewUsers DEF SessionInv
<1>16. CASE WComplete
  <2>1. PICK t \in Tasks, x \in Tasks : t = worker.task /\ x = worker.content
    BY <1>1, <1>16 DEF WComplete, WorkerHolds
  <2>2. Wrote(t, complete(jobs[t], x)) /\ SessionKey[x] = SessionKey[t]
    BY <1>16, <2>1, Writes DEF WComplete, SessionInv
  <2>3. Present(t) => /\ complete(jobs[t], x).session = jobs[t].session
                      /\ complete(jobs[t], x).result = x
    <3>1. Present(t) => jobs[t] \in Row
      BY <1>1, PresentIsRow
    <3> QED BY <3>1, UpdateFacts
  <2>4. ResultStaysInSession' /\ \A u \in Tasks, s \in Sessions : RowUses(u, s)' => RowUses(u, s)
    BY <2>2, <2>3, WroteUses DEF SessionInv
  <2>5. UNCHANGED mementos /\ worker'.pc = "summarize" /\ worker'.task = worker.task
        /\ worker'.session = worker.session
    BY <1>1, <1>16 DEF WComplete, WGoto, WorkerType
  <2>6. \A u \in Tasks, s \in Sessions : Uses(u, s)' => Uses(u, s)
    BY <1>2, <1>4, <1>5, <2>4, <2>5 DEF Uses
  <2> QED BY <1>4, <2>4, <2>5, <2>6, NoNewUsers DEF SessionInv
<1>17. CASE WSummarize
  <2>1. UNCHANGED mementos /\ worker'.pc = "report" /\ worker'.task = worker.task
        /\ worker'.session = worker.session
    BY <1>1, <1>17 DEF WSummarize, WGoto, WorkerType
  <2>2. ResultStaysInSession' /\ \A u \in Tasks, s \in Sessions : RowUses(u, s)' => RowUses(u, s)
    BY <1>17, SummaryWrites DEF SessionInv, ResultStaysInSession, RowUses
  <2>3. \A u \in Tasks, s \in Sessions : Uses(u, s)' => Uses(u, s)
    BY <1>2, <1>4, <1>5, <2>1, <2>2 DEF Uses
  <2> QED BY <1>4, <2>1, <2>2, <2>3, NoNewUsers DEF SessionInv
<1>18. CASE WClaim
  <2>1. UNCHANGED mementos /\ worker'.pc # "complete"
        /\ \/ worker' = IdleWorker
           \/ worker'.task = worker.task /\ worker'.session = worker.session
    BY <1>1, <1>18, IdleFacts DEF WClaim, WGoto, WDone, WorkerType
  <2>2. ResultStaysInSession' /\ \A u \in Tasks, s \in Sessions : RowUses(u, s)' => RowUses(u, s)
    BY <1>18, ClaimWrites DEF SessionInv, ResultStaysInSession, RowUses
  <2>3. \A u \in Tasks, s \in Sessions : Uses(u, s)' => Uses(u, s)
    BY <1>2, <1>4, <1>5, <1>6, <2>1, <2>2 DEF Uses
  <2> QED BY <1>4, <2>1, <2>2, <2>3, NoNewUsers DEF SessionInv
<1>19. CASE WPublish
  <2>1. UNCHANGED <<jobs, mementos>> /\ worker' = IdleWorker /\ worker'.pc = "idle"
    BY <1>19, IdleFacts DEF WPublish, WDone
  <2>2. \A u \in Tasks, s \in Sessions : Uses(u, s)' => Uses(u, s)
    BY <1>2, <1>3, <1>4, <1>6, <2>1 DEF Uses
  <2> QED BY <1>3, <1>4, <2>1, <2>2, NoNewUsers DEF SessionInv
<1> QED BY <1>8, <1>9, <1>10, <1>11, <1>12, <1>13, <1>14, <1>15, <1>16, <1>17, <1>18, <1>19
        DEF WorkerStep

LEMMA EnvironmentKeepsSessions == ASSUME TaskInv, SessionInv, Environment PROVE SessionInv'
<1>1. mementos \in [Sessions -> SessionType]
  BY InvParts
<1>2. CASE DeleteOwnerRuntime
  <2>1. UNCHANGED <<clients, worker, mementos>>
        /\ \A t \in Tasks : Present(t)' => Present(t) /\ jobs'[t] = jobs[t]
    BY <1>2, DeletedRows DEF DeleteOwnerRuntime, Present
  <2>2. \A t \in Tasks, s \in Sessions : Uses(t, s)' => Uses(t, s)
    BY <2>1 DEF Uses, RowUses, RecordUses, WorkerUses, RunUses
  <2> QED BY <2>1, <2>2, NoNewUsers DEF SessionInv, ResultStaysInSession
<1>3. CASE Restart
  <2>1. UNCHANGED <<jobs, mementos>> /\ worker' = IdleWorker
        /\ \A c \in Clients : clients'[c] = IdleClient
    BY <1>3 DEF Restart
  <2>2. \A t \in Tasks, s \in Sessions : Uses(t, s)' => Uses(t, s)
    BY <2>1, IdleFacts, NoneIsNothing DEF Uses, RowUses, RecordUses, WorkerUses, RunUses, Present
  <2>3. ResultStaysInSession' /\ worker'.pc = "idle"
    BY <2>1, IdleFacts DEF SessionInv, ResultStaysInSession, Present
  <2> QED BY <2>1, <2>2, <2>3, NoNewUsers DEF SessionInv
<1>4. ASSUME NEW n \in Sessions, NEW t \in Tasks, NEW ok \in BOOLEAN, MementosFinish(n, t, ok)
      PROVE  SessionInv'
  <2> DEFINE event == [task |-> t, ok |-> ok]
             k == mementos[n].running[t] - 1
  <2>1. /\ mementos[n].running[t] > 0 /\ UNCHANGED <<jobs, clients, worker>>
        /\ mementos' = [mementos EXCEPT ![n].running[t] = k, ![n].last = event]
    BY <1>4 DEF MementosFinish
  <2>2. event.task = t
    OBVIOUS
  <2> HIDE DEF event, k
  <2>3. \A s \in Sessions : /\ mementos'[s].open = mementos[s].open
                            /\ s # n => mementos'[s] = mementos[s]
    BY <1>1, <2>1 DEF SessionType
  <2>4. mementos'[n].last = event /\ \A u \in Tasks : u # t => mementos'[n].running[u] = mementos[n].running[u]
    BY <1>1, <2>1 DEF SessionType
  <2>5. \A u \in Tasks, s \in Sessions : RunUses(u, s)' => RunUses(u, s)
    BY <2>1, <2>2, <2>3, <2>4, ZenonT(40) DEF RunUses
  <2>6. \A u \in Tasks, s \in Sessions : Uses(u, s)' => Uses(u, s)
    BY <2>1, <2>5 DEF Uses, RowUses, RecordUses, WorkerUses, Present
  <2>7. ResultStaysInSession'
    BY <2>1 DEF SessionInv, ResultStaysInSession, Present
  <2> QED BY <2>1, <2>3, <2>6, <2>7, NoNewUsers DEF SessionInv
<1>5. CASE WStoreRaises
  <2>1. UNCHANGED <<jobs, clients, mementos>>
    BY <1>5 DEF WStoreRaises
  <2>2. worker'.pc # "complete"
        /\ \A t \in Tasks, s \in Sessions : WorkerUses(t, s)' => WorkerUses(t, s)
    BY <1>5, RaisingMoves, IdleFacts, NoneIsNothing DEF WorkerUses
  <2>3. \A t \in Tasks, s \in Sessions : Uses(t, s)' => Uses(t, s)
    BY <2>1, <2>2 DEF Uses, RowUses, RecordUses, RunUses, Present
  <2>4. ResultStaysInSession'
    BY <2>1 DEF SessionInv, ResultStaysInSession, Present
  <2> QED BY <2>1, <2>2, <2>3, <2>4, NoNewUsers DEF SessionInv
<1> QED BY <1>2, <1>3, <1>4, <1>5 DEF Environment

\* Whatever run's terminal event _poll_until_done picks up, across retries,
\* lost answers, restarts and deleted rows, the result it stores comes from a
\* task of the same session_key, because every user of a session has one key.
THEOREM ResultsStayInSession == Spec => []ResultStaysInSession
<1>1. Init => SessionInv
  <2> SUFFICES ASSUME Init PROVE SessionInv
    OBVIOUS
  <2>1. /\ \A t \in Tasks : ~Present(t) /\ worker = IdleWorker
        /\ \A c \in Clients : clients[c] = IdleClient
        /\ \A s \in Sessions : mementos[s].last = None /\ \A t \in Tasks : mementos[s].running[t] = 0
    BY DEF Init, Present
  <2>2. \A t \in Tasks, s \in Sessions : ~Uses(t, s)
    BY <2>1, IdleFacts, NoneIsNothing DEF Uses, RowUses, RecordUses, WorkerUses, RunUses
  <2>3. worker.pc = "idle" /\ ResultStaysInSession
    BY <2>1, IdleFacts DEF ResultStaysInSession, Init
  <2> QED BY <2>2, <2>3 DEF SessionInv
<1>2. TaskInv /\ SessionInv /\ [Next]_vars => SessionInv'
  <2>1. ASSUME SessionInv, UNCHANGED vars PROVE SessionInv'
    BY <2>1 DEF vars, SessionInv, ResultStaysInSession, Uses, RowUses, RecordUses, WorkerUses,
                RunUses, Present
  <2> QED BY <2>1, ClientKeepsSessions, WorkerKeepsSessions, EnvironmentKeepsSessions DEF Next
<1>3. SessionInv => ResultStaysInSession
  BY DEF SessionInv
<1> QED BY <1>1, <1>2, <1>3, TasksAreTyped, PTL DEF Spec
=============================================================================
