------------------------------ MODULE LongTasks ------------------------------
(***************************************************************************)
(* Long-running coworker tasks: the `jobs` table (AgentLongTaskStore), the  *)
(* in-memory queue and the single background worker                         *)
(* (MementosLongTaskWorker), the requests that touch a task (the            *)
(* submit_long_task tool, the admin cancel and retry routes) and the        *)
(* external Mementos service the worker polls.                              *)
(*                                                                          *)
(* Every store method is one SQLite transaction on the only writer          *)
(* connection, hence one atomic step; everything between two awaits of      *)
(* two coroutines interleaves.  A row's timestamps, wording and payloads    *)
(* are left out; a result is represented by the task whose run produced it. *)
(***************************************************************************)
EXTENDS Naturals, Sequences, FiniteSets, FiniteSetsExt

CONSTANTS
    NumTasks,      \* how many tasks the tool ever submits
    Clients,       \* concurrent requests: tool calls and admin HTTP requests
    QueueSize,     \* MementosWorkerConfig.queue_size
    MaxPolls,      \* polls that fit before task_timeout_s
    MaxRetries,    \* MementosHttpClient.max_retries, for post_message
    Routes,        \* bound: admin routes the environment calls
    MaxAccepts,    \* bound: how often one task is accepted (1 + retries)
    MaxCrashes,    \* bound: process restarts
    MaxDeletes,    \* bound: delete_owner_runtime calls
    MaxSessions,   \* bound: create_session calls that succeed
    Owner,         \* owner_id of each task
    SessionKey,    \* session_key of each task (owner and day)
    None           \* Python's None

Tasks == 1 .. NumTasks

ASSUME BoundsAssumption ==
    /\ NumTasks \in Nat /\ QueueSize \in Nat /\ MaxPolls \in Nat
    /\ MaxRetries \in Nat /\ MaxAccepts \in Nat /\ MaxCrashes \in Nat
    /\ MaxDeletes \in Nat /\ MaxSessions \in Nat
    /\ DOMAIN SessionKey = Tasks /\ DOMAIN Owner = Tasks

VARIABLES
    jobs,       \* the jobs table: task -> row
    nextTask,   \* the next fresh uuid
    clients,    \* requests in flight
    queue,      \* asyncio.Queue of accepted records (only the id is used)
    worker,     \* the coroutine _run / _handle / _poll_until_done
    mementos,   \* per session: runs in progress and the last terminal event
    receipts,   \* task -> status of the newest audit receipt written for it
    announced,  \* task -> proactive announcements that reached the bus
    accepts,    \* task -> accept() calls (history)
    repended,   \* task -> later accept() calls that put a pending callback back (history)
    lost,       \* tasks whose request, process or store gave up on them (history)
    crashes, deletes

vars == <<jobs, nextTask, clients, queue, worker, mementos, receipts,
          announced, accepts, repended, lost, crashes, deletes>>

Terminal  == {"succeeded", "failed", "cancelled", "timed_out"}
Retryable == {"failed", "cancelled", "timed_out"}
Status    == Terminal \cup {"accepted", "queued", "running"}
Sessions  == 1 .. MaxSessions

ASSUME NoneAssumption == None \notin Nat \cup Status

Row == [status   : Status,
        result   : Tasks \cup {None},     \* result_text: whose run wrote it
        summary  : BOOLEAN,               \* result_tts_summary is set
        error    : BOOLEAN,               \* error_code is set
        leased   : BOOLEAN,               \* worker_id and lease_until are set
        attempts : Nat,
        callback : {"pending", "delivered"},
        session  : Sessions \cup {None}]  \* mementos_session_id

NoRow == [status |-> None]

\* SubmitLongTaskTool.invoke: the record of a freshly delegated task.
FreshRecord ==
    [status |-> "accepted", result |-> None, summary |-> FALSE,
     error |-> FALSE, leased |-> FALSE, attempts |-> 0,
     callback |-> "pending", session |-> None]

Present(t) == jobs[t] # NoRow

(***************************************************************************)
(* The store.  _update reads, mutates, writes the row and, in the same      *)
(* transaction, adds the audit receipt of _emit_job_transition; it does     *)
(* nothing when the row is gone.                                            *)
(***************************************************************************)
\* Mutant: a row that had already ended gets no second receipt.
MutOneReceipt(t, before, after) ==
    receipts' = IF after.status \in Terminal /\ before.status \notin Terminal
                THEN [receipts EXCEPT ![t] = after.status]
                ELSE receipts

_emit_job_transition(t, before, after) ==
    receipts' = IF after.status \in Terminal /\ after.status # before.status
                THEN [receipts EXCEPT ![t] = after.status]
                ELSE receipts

_update(t, new) ==
    IF Present(t)
    THEN /\ jobs' = [jobs EXCEPT ![t] = new]
         /\ _emit_job_transition(t, jobs[t], new)
    ELSE UNCHANGED <<jobs, receipts>>

mark_queued(r) == [r EXCEPT !.status = "queued", !.leased = TRUE,
                            !.attempts = @ + 1]

attach_mementos_run(r, s) == [r EXCEPT !.status = "running", !.session = s]

complete(r, content) == [r EXCEPT !.status = "succeeded", !.result = content]

\* Mutant: the error is recorded, the status is not.
MutKeepStatus(r, status) == [r EXCEPT !.error = TRUE]

mark_failed(r, status) == [r EXCEPT !.status = status, !.error = TRUE]

\* Mutant: a retry re-arms the callback as well.
MutRearmCallback(r) ==
    [r EXCEPT !.status = "accepted", !.result = None, !.summary = FALSE,
              !.error = FALSE, !.leased = FALSE, !.callback = "pending"]

\* Keeps attempt_count, the callback fields and the Mementos session.
retry_from_admin(r) ==
    [r EXCEPT !.status = "accepted", !.result = None, !.summary = FALSE,
              !.error = FALSE, !.leased = FALSE]

\* Mutant: any session will do.
MutAnySession(t) ==
    LET same == {u \in Tasks : Present(u) /\ jobs[u].session # None}
    IN IF same = {} THEN None ELSE jobs[Max(same)].session

\* The newest row of the same session_key that has a session (ids are handed
\* out in creation order).
find_mementos_session_id(t) ==
    LET same == {u \in Tasks : /\ Present(u)
                               /\ SessionKey[u] = SessionKey[t]
                               /\ jobs[u].session # None}
    IN IF same = {} THEN None ELSE jobs[Max(same)].session

(***************************************************************************)
(* Requests.  A client is a tool call or an admin request; `rec` is the     *)
(* record it holds in memory across its awaits.                             *)
(***************************************************************************)
IdleClient == [pc |-> "idle", tool |-> FALSE, task |-> None, rec |-> NoRow]

Goto(c, pc) == clients' = [clients EXCEPT ![c].pc = pc]
Finish(c)   == clients' = [clients EXCEPT ![c] = IdleClient]

\* SubmitLongTaskTool.invoke up to the call of submit.
ToolInvoke(c) ==
    /\ clients[c].pc = "idle"
    /\ nextTask \in Tasks
    /\ nextTask' = nextTask + 1
    /\ clients' = [clients EXCEPT ![c] = [pc |-> "accept", tool |-> TRUE,
                                          task |-> nextTask,
                                          rec |-> FreshRecord]]
    /\ UNCHANGED <<jobs, queue, worker, mementos, receipts, announced,
                   accepts, repended, lost, crashes, deletes>>

\* cancel_long_task: read the row; the early returns change nothing.
CancelGet(c, t) ==
    /\ clients[c].pc = "idle" /\ "cancel" \in Routes
    /\ Present(t) /\ jobs[t].status \notin Terminal
    /\ clients' = [clients EXCEPT ![c] = [pc |-> "cancel", tool |-> FALSE,
                                          task |-> t, rec |-> NoRow]]
    /\ UNCHANGED <<jobs, nextTask, queue, worker, mementos, receipts,
                   announced, accepts, repended, lost, crashes, deletes>>

\* ... and, in a second transaction, overwrite its status.
CancelMark(c) ==
    LET t == clients[c].task IN
    /\ clients[c].pc = "cancel"
    /\ _update(t, mark_failed(jobs[t], "cancelled"))
    /\ Finish(c)
    /\ UNCHANGED <<nextTask, queue, worker, mementos, announced, accepts,
                   repended, lost, crashes, deletes>>

\* retry_long_task: the status check ...
RetryGet(c, t) ==
    /\ clients[c].pc = "idle" /\ "retry" \in Routes
    /\ Present(t) /\ jobs[t].status \in Retryable
    /\ accepts[t] < MaxAccepts
    /\ clients' = [clients EXCEPT ![c] = [pc |-> "retry", tool |-> FALSE,
                                          task |-> t, rec |-> NoRow]]
    /\ UNCHANGED <<jobs, nextTask, queue, worker, mementos, receipts,
                   announced, accepts, repended, lost, crashes, deletes>>

\* ... the reset, whose returned record the request keeps ...
RetryReset(c) ==
    LET t == clients[c].task IN
    /\ clients[c].pc = "retry"
    /\ _update(t, retry_from_admin(jobs[t]))
    /\ IF Present(t)
       THEN clients' = [clients EXCEPT ![c].pc = "accept",
                                       ![c].rec = retry_from_admin(jobs[t])]
       ELSE Finish(c)
    /\ UNCHANGED <<nextTask, queue, worker, mementos, announced, accepts,
                   repended, lost, crashes, deletes>>

\* MementosLongTaskWorker.submit, first await: AgentLongTaskStore.accept
\* inserts the record or overwrites the whole row with it, without a receipt.
Accept(c) ==
    LET t == clients[c].task IN
    /\ clients[c].pc = "accept"
    /\ accepts[t] < MaxAccepts
    /\ jobs' = [jobs EXCEPT ![t] = clients[c].rec]
    /\ accepts' = [accepts EXCEPT ![t] = @ + 1]
    /\ repended' = IF /\ accepts[t] > 0
                      /\ ~ (Present(t) /\ jobs[t].callback = "pending")
                      /\ clients[c].rec.callback = "pending"
                   THEN [repended EXCEPT ![t] = @ + 1] ELSE repended
    /\ lost' = lost \ {t}
    /\ Goto(c, "enqueue")
    /\ UNCHANGED <<nextTask, queue, worker, mementos, receipts, announced,
                   crashes, deletes>>

\* submit, put_nowait: the record goes into the queue or QueueFull is raised.
Enqueue(c) ==
    LET t == clients[c].task IN
    /\ clients[c].pc = "enqueue"
    /\ \/ /\ Len(queue) < QueueSize
          /\ queue' = Append(queue, t)
          /\ Finish(c)
       \/ /\ Len(queue) >= QueueSize
          /\ Goto(c, "full")
          /\ UNCHANGED queue
    /\ UNCHANGED <<jobs, nextTask, worker, mementos, receipts, announced,
                   accepts, repended, lost, crashes, deletes>>

\* submit, the QueueFull handler.
RejectFull(c) ==
    LET t == clients[c].task IN
    /\ clients[c].pc = "full"
    /\ _update(t, mark_failed(jobs[t], "failed"))
    /\ Finish(c)
    /\ UNCHANGED <<nextTask, queue, worker, mementos, announced, accepts,
                   repended, lost, crashes, deletes>>

\* The dispatcher's wait_for(timeout_s) cancels a tool call at an await.
ToolTimeout(c) ==
    /\ clients[c].tool /\ clients[c].pc \in {"accept", "enqueue", "full"}
    /\ Finish(c)
    /\ lost' = lost \cup {clients[c].task}
    /\ UNCHANGED <<jobs, nextTask, queue, worker, mementos, receipts,
                   announced, accepts, repended, crashes, deletes>>

\* The store raises (disk full, database locked, I/O error) and nothing is
\* written.  A cancel or the reset of a retry only answers 500; accept() or the
\* mark_failed of a full queue leaves the row with nobody to work on it.
RequestRaises(c) ==
    /\ clients[c].pc \in {"cancel", "retry", "accept", "full"}
    /\ Finish(c)
    /\ lost' = IF clients[c].pc \in {"accept", "full"}
               THEN lost \cup {clients[c].task} ELSE lost
    /\ UNCHANGED <<jobs, nextTask, queue, worker, mementos, receipts,
                   announced, accepts, repended, crashes, deletes>>

(***************************************************************************)
(* The worker.                                                              *)
(***************************************************************************)
IdleWorker == [pc |-> "idle", task |-> None, session |-> None,
               left |-> 0, content |-> None]

WGoto(pc) == worker' = [worker EXCEPT !.pc = pc]
WDone     == worker' = IdleWorker

\* _run: await queue.get().
WTake ==
    /\ worker.pc = "idle" /\ queue # <<>>
    /\ worker' = [IdleWorker EXCEPT !.pc = "claim_job", !.task = Head(queue)]
    /\ queue' = Tail(queue)
    /\ UNCHANGED <<jobs, nextTask, clients, mementos, receipts, announced,
                   accepts, repended, lost, crashes, deletes>>

\* _handle: store.mark_queued, whatever the row's status is by now.
WMarkQueued ==
    /\ worker.pc = "claim_job"
    /\ _update(worker.task, mark_queued(jobs[worker.task]))
    /\ WGoto("find")
    /\ UNCHANGED <<nextTask, clients, queue, mementos, announced, accepts,
                   repended, lost, crashes, deletes>>

\* _handle: reuse the session of the same session_key, else create one.
WFindSession ==
    LET s == find_mementos_session_id(worker.task) IN
    /\ worker.pc = "find"
    /\ worker' = [worker EXCEPT !.pc = IF s = None THEN "create" ELSE "post",
                                !.session = s, !.left = MaxRetries]
    /\ UNCHANGED <<jobs, nextTask, clients, queue, mementos, receipts,
                   announced, accepts, repended, lost, crashes, deletes>>

Free == {s \in Sessions : ~ mementos[s].open}

\* create_session: answered, or failed for good after its retries.
WCreateSession ==
    /\ worker.pc = "create"
    /\ \/ /\ Free # {}
          /\ LET s == Min(Free) IN
             /\ mementos' = [mementos EXCEPT ![s].open = TRUE]
             /\ worker' = [worker EXCEPT !.pc = "post", !.session = s]
       \/ WGoto("error") /\ UNCHANGED mementos
    /\ UNCHANGED <<jobs, nextTask, clients, queue, receipts, announced,
                   accepts, repended, lost, crashes, deletes>>

\* One try of post_message: the service may start the run although the answer
\* is lost; _request_json then tries again (5xx, transport error) until
\* max_retries, or gives up at once (4xx).
WPostMessage ==
    LET s == worker.session
        run(started) == mementos' = IF started
            THEN [mementos EXCEPT ![s].running[worker.task] = @ + 1]
            ELSE mementos
    IN
    /\ worker.pc = "post"
    /\ \/ run(TRUE) /\ WGoto("attach")
       \/ /\ worker.left > 0
          /\ \E started \in BOOLEAN : run(started)
          /\ worker' = [worker EXCEPT !.left = @ - 1]
       \/ (\E started \in BOOLEAN : run(started)) /\ WGoto("error")
    /\ UNCHANGED <<jobs, nextTask, clients, queue, receipts, announced,
                   accepts, repended, lost, crashes, deletes>>

\* attach_mementos_run, then the poll loop starts its deadline.
WAttach ==
    /\ worker.pc = "attach"
    /\ _update(worker.task, attach_mementos_run(jobs[worker.task], worker.session))
    /\ worker' = [worker EXCEPT !.pc = "poll", !.left = MaxPolls]
    /\ UNCHANGED <<nextTask, clients, queue, mementos, announced, accepts,
                   repended, lost, crashes, deletes>>

\* One iteration of _poll_until_done: _terminal_event is the last terminal
\* event among ALL messages of the session.  touch_poll writes only
\* timestamps and the external status.
WPoll ==
    LET last == mementos[worker.session].last IN
    /\ worker.pc = "poll" /\ worker.left > 0
    /\ \/ /\ last # None
          /\ worker' = [worker EXCEPT !.content = last.task,
                            !.pc = IF last.ok THEN "complete" ELSE "run_failed"]
       \/ last = None /\ worker' = [worker EXCEPT !.left = @ - 1]
       \/ WGoto("error")
    /\ UNCHANGED <<jobs, nextTask, clients, queue, mementos, receipts,
                   announced, accepts, repended, lost, crashes, deletes>>

\* Mutant: the poll loop has no deadline.
MutNoDeadline ==
    /\ worker.pc \in {"run_failed", "error"}
    /\ _update(worker.task, mark_failed(jobs[worker.task], "failed"))
    /\ WDone
    /\ UNCHANGED <<nextTask, clients, queue, mementos, announced, accepts,
                   repended, lost, crashes, deletes>>

\* The three ways the worker fails a task: its deadline, a failed run, and
\* any exception inside _handle's try.
WFail ==
    /\ \/ worker.pc = "poll" /\ worker.left = 0
          /\ _update(worker.task, mark_failed(jobs[worker.task], "timed_out"))
       \/ worker.pc \in {"run_failed", "error"}
          /\ _update(worker.task, mark_failed(jobs[worker.task], "failed"))
    /\ WDone
    /\ UNCHANGED <<nextTask, clients, queue, mementos, announced, accepts,
                   repended, lost, crashes, deletes>>

WComplete ==
    /\ worker.pc = "complete"
    /\ _update(worker.task, complete(jobs[worker.task], worker.content))
    /\ WGoto("summarize")
    /\ UNCHANGED <<nextTask, clients, queue, mementos, announced, accepts,
                   repended, lost, crashes, deletes>>

\* _summarize_result_for_tts: store a summary, or none was produced.
WSummarize ==
    /\ worker.pc = "summarize"
    /\ \/ _update(worker.task, [jobs[worker.task] EXCEPT !.summary = TRUE])
       \/ UNCHANGED <<jobs, receipts>>
    /\ WGoto("report")
    /\ UNCHANGED <<nextTask, clients, queue, mementos, announced, accepts,
                   repended, lost, crashes, deletes>>

\* claim_callback_delivery: only a pending callback can be claimed.  Or there
\* is no report: the callback was delivered, no event bus, no companion, empty
\* text, or the claim raised (logged and skipped).
WClaim ==
    LET t == worker.task IN
    /\ worker.pc = "report"
    /\ \/ /\ Present(t) /\ jobs[t].callback = "pending"
          /\ jobs' = [jobs EXCEPT ![t].callback = "delivered"]
          /\ WGoto("publish")
       \/ WDone /\ UNCHANGED jobs
    /\ UNCHANGED <<nextTask, clients, queue, mementos, receipts, announced,
                   accepts, repended, lost, crashes, deletes>>

\* event_bus.publish; a failure is logged and swallowed.
WPublish ==
    /\ worker.pc = "publish"
    /\ \/ announced' = [announced EXCEPT ![worker.task] = @ + 1]
       \/ UNCHANGED announced
    /\ WDone
    /\ UNCHANGED <<jobs, nextTask, clients, queue, mementos, receipts,
                   accepts, repended, lost, crashes, deletes>>

\* The store raises in _handle.  Inside its try the exception leads to the
\* catch-all; mark_queued comes before the try and the catch-all's mark_failed
\* is the last resort: _run logs those two and takes the next record.
WStoreRaises ==
    /\ \/ /\ worker.pc \in {"find", "attach", "poll", "run_failed", "complete",
                            "summarize"}
          /\ WGoto("error") /\ UNCHANGED lost
       \/ /\ worker.pc \in {"claim_job", "error"}
          /\ WDone /\ lost' = lost \cup {worker.task}
    /\ UNCHANGED <<jobs, nextTask, clients, queue, mementos, receipts,
                   announced, accepts, repended, crashes, deletes>>

(***************************************************************************)
(* Environment: the Mementos service finishes a run; the owner's runtime is *)
(* deleted; the process stops or dies (rows survive, memory does not, and   *)
(* nothing re-queues rows at start-up).                                     *)
(***************************************************************************)
MementosFinish(s, t, ok) ==
    /\ mementos[s].running[t] > 0
    /\ mementos' = [mementos EXCEPT ![s].running[t] = @ - 1,
                                    ![s].last = [task |-> t, ok |-> ok]]
    /\ UNCHANGED <<jobs, nextTask, clients, queue, worker, receipts,
                   announced, accepts, repended, lost, crashes, deletes>>

DeleteOwnerRuntime ==
    /\ deletes < MaxDeletes
    /\ deletes' = deletes + 1
    /\ \E u \in Tasks :
          /\ Present(u)
          /\ jobs' = [t \in Tasks |-> IF Owner[t] = Owner[u] THEN NoRow
                                     ELSE jobs[t]]
    /\ UNCHANGED <<nextTask, clients, queue, worker, mementos, receipts,
                   announced, accepts, repended, lost, crashes>>

Restart ==
    /\ crashes < MaxCrashes
    /\ crashes' = crashes + 1
    /\ queue' = <<>> /\ worker' = IdleWorker
    /\ clients' = [c \in Clients |-> IdleClient]
    /\ lost' = Tasks
    /\ UNCHANGED <<jobs, nextTask, mementos, receipts, announced, accepts,
                   repended, deletes>>

(***************************************************************************)
(* Specification                                                            *)
(***************************************************************************)
Init ==
    /\ jobs = [t \in Tasks |-> NoRow]
    /\ nextTask = 1
    /\ clients = [c \in Clients |-> IdleClient]
    /\ queue = <<>>
    /\ worker = IdleWorker
    /\ mementos = [s \in Sessions |-> [open |-> FALSE, last |-> None,
                                       running |-> [t \in Tasks |-> 0]]]
    /\ receipts = [t \in Tasks |-> None]
    /\ announced = [t \in Tasks |-> 0]
    /\ accepts = [t \in Tasks |-> 0]
    /\ repended = [t \in Tasks |-> 0]
    /\ lost = {}
    /\ crashes = 0 /\ deletes = 0

ClientStep(c) ==
    \/ ToolInvoke(c) \/ CancelMark(c) \/ RetryReset(c) \/ Accept(c)
    \/ Enqueue(c) \/ RejectFull(c) \/ ToolTimeout(c) \/ RequestRaises(c)
    \/ \E t \in Tasks : CancelGet(c, t) \/ RetryGet(c, t)

WorkerStep ==
    \/ WTake \/ WMarkQueued \/ WFindSession \/ WCreateSession
    \/ WPostMessage \/ WAttach \/ WPoll \/ WFail
    \/ WComplete \/ WSummarize \/ WClaim \/ WPublish

Environment ==
    \/ \E s \in Sessions, t \in Tasks, ok \in BOOLEAN : MementosFinish(s, t, ok)
    \/ WStoreRaises
    \/ DeleteOwnerRuntime
    \/ Restart

Next == (\E c \in Clients : ClientStep(c)) \/ WorkerStep \/ Environment

Spec == Init /\ [][Next]_vars

(***************************************************************************)
(* Fairness: the worker coroutine keeps being scheduled by the event loop;  *)
(* its HTTP calls carry timeouts and its poll loop a deadline, so each of   *)
(* its awaits returns.  A request that has started is not abandoned by the  *)
(* loop either.  Nothing is assumed of Mementos: a run need never finish;   *)
(* and nothing forces the store to raise.                                   *)
(***************************************************************************)
RequestStep(c) == \/ CancelMark(c) \/ RetryReset(c) \/ Accept(c)
                  \/ Enqueue(c) \/ RejectFull(c)

Fairness == WF_vars(WorkerStep) /\ \A c \in Clients : WF_vars(RequestStep(c))

FairSpec == Spec /\ Fairness

(***************************************************************************)
(* Properties                                                               *)
(***************************************************************************)
ClientPc == {"idle", "cancel", "retry", "accept", "enqueue", "full"}
WorkerPc == {"idle", "claim_job", "find", "create", "post", "attach", "poll",
             "run_failed", "error", "complete", "summarize", "report",
             "publish"}

\* Type invariant: every row, request, worker and queue state the code's
\* dataclasses and coroutines can hold.
TypeOK ==
    /\ jobs \in [Tasks -> Row \cup {NoRow}]
    /\ nextTask \in 1 .. NumTasks + 1
    /\ clients \in [Clients -> [pc : ClientPc, tool : BOOLEAN,
                                task : Tasks \cup {None},
                                rec : Row \cup {NoRow}]]
    /\ queue \in Seq(Tasks)
    /\ worker \in [pc : WorkerPc, task : Tasks \cup {None},
                   session : Sessions \cup {None}, left : Nat,
                   content : Tasks \cup {None}]
    /\ mementos \in [Sessions ->
                       [open : BOOLEAN, running : [Tasks -> Nat],
                        last : [task : Tasks, ok : BOOLEAN] \cup {None}]]
    /\ receipts \in [Tasks -> Terminal \cup {None}]
    /\ announced \in [Tasks -> Nat] /\ accepts \in [Tasks -> Nat]
    /\ repended \in [Tasks -> Nat]
    /\ lost \subseteq Tasks
    /\ crashes \in Nat /\ deletes \in Nat

\* A row that ended is never ahead of its audit trail: whatever interleaving
\* of worker, cancel and retry wrote the terminal status, the newest receipt
\* of _emit_job_transition for that task names exactly that status.
ReceiptMatchesTerminal ==
    \A t \in Tasks : Present(t) /\ jobs[t].status \in Terminal
                        => receipts[t] = jobs[t].status

\* Somebody alive is going to move task t: a request still submitting it, the
\* queue, or the worker.
InQueue(t) == \E i \in 1 .. Len(queue) : queue[i] = t

Owned(t) ==
    \/ \E c \in Clients : clients[c].task = t
                          /\ clients[c].pc \in {"accept", "enqueue", "full"}
    \/ InQueue(t)
    \/ worker.task = t

\* No orphan: a row that is not finished is in somebody's hands, unless the
\* process restarted, the tool call was timed out between accept() and
\* put_nowait, or the store refused the write that would have ended it or
\* handed it on (nothing polls the table for unfinished rows).
NoOrphan ==
    \A t \in Tasks : /\ Present(t) /\ jobs[t].status \notin Terminal
                     /\ t \notin lost
                     => Owned(t)

\* claim_callback_delivery gates the announcement: a task is announced once,
\* and once more only for each later accept() that wrote a stale pending
\* callback over a delivered one or over a deleted row.
AnnouncedOncePerClaim == \A t \in Tasks : announced[t] <= 1 + repended[t]

\* A result never crosses session keys: find_mementos_session_id only reuses
\* a session of the same owner and day, so whatever run's terminal event the
\* worker picks up, it belongs to a task of the same session_key, and hence of
\* the same owner.  (Within one key it may be another task's: _terminal_event
\* looks at all messages of the session.)
ResultStaysInSession ==
    \A t \in Tasks : Present(t) /\ jobs[t].result # None
                        => SessionKey[jobs[t].result] = SessionKey[t]

\* While the process stays up and the row is not deleted, a queued task reaches
\* a terminal status whatever Mementos does: by the deadline of
\* _poll_until_done, or by the catch-all of _handle when an await in its try
\* raises.  The one way out is a store that refuses mark_queued, which is
\* awaited before the try, or the catch-all's own mark_failed: then the row is
\* left as it is (`lost`), and the tasks queued behind it still end.
QueuedTaskEnds ==
    \A t \in Tasks :
        InQueue(t) ~> \/ Present(t) => jobs[t].status \in Terminal
                      \/ t \in lost
                      \/ crashes > 0

(***************************************************************************)
(* What the repository says of this component and the code does not do.     *)
(***************************************************************************)
\* core/types/long_task.py on TERMINAL_LONG_TASK_STATUSES: nothing this
\* process is running will move such a task again.  The worker never looks at
\* the status before it writes one.
TerminalIsFinal ==
    [][WorkerStep => \A t \in Tasks :
          Present(t) /\ jobs[t].status \in Terminal
             => jobs'[t].status = jobs[t].status]_vars

=============================================================================
