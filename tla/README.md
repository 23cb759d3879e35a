# Verification of eidolon_agent

TLA+ models of the runtime core of `eidolon_agent`, the conversational agent of
Eidolon OS, with the TLC runs that check them on small instances and the TLAPS
proofs that establish the main results for every instance. Paths below are
relative to the package `eidolon_agent/` of the repository; `PROJECT.json` maps
every definition to the source lines it models.

Contents: 1 the system · 2 the models · 3 the runs · 4 fairness · 5 the proofs ·
6 what the checks found · 7 abstractions and limits · 8 not modelled · 9 plan.

## 1. The system

One asyncio process. A device opens a bidirectional `Chat` gRPC stream and
sends start, cancel, receipt, motion and tool-result frames. The process runs
at most one turn at a time per conversation, streams events back, keeps what
was said in SQLite, hands each turn to the memory service through a durable
outbox, lets the model call tools (some of them executed by the device on the
same stream), and delegates long work to an external coworker service,
Mementos. Concurrency is that of coroutines: everything between two awaits is
atomic, and any await may be where a cancellation, a timeout or another
coroutine comes in.

| Component | State it keeps | Operations | What makes it hard | What makes it correct |
|---|---|---|---|---|
| Chat stream, `app/transport/grpc/chat_servicer.py` | accepted starts, generation and active turn per conversation, write lock, turn tasks | start, cancel, half close, disconnect, write an event | cancel meets a turn at any await, also inside a write; the only reader waits for what it cancels | one speaker per conversation; no event of a displaced turn; every cancel answered; every turn ends |
| Turn engine, `domain/agent/turn.py` | one generator per turn: status, streamed text, tool loop | admission, guardrails, observation, compile, stream, dispatch, finish, finally | ends by return, error, CancelledError or GeneratorExit; shielded admission | history, turn row and memory observation tell the same story; no tool outlives its turn |
| Tool dispatcher and device exchanges, `domain/tools/dispatcher.py`, `app/transport/grpc/{channel_tools,motion}.py` | tasks of a batch, pending and completed requests per call id, idempotency records | dispatch a batch, execute, accept an answer, time out, retract | late and repeated answers, nested time limits, cancellation between the action and its record | side effects run alone; the model is told only what the device said; an acknowledged action is not repeated |
| Conversation store and history window, `infra/persistence/agent_runtime.py`, `domain/history/manager.py` | conversations, turns and messages tables; an in-process window per conversation | guard, remember, read with hydration, persist in the background, delete an owner | reads span two halves, writes come late and out of order, ids are claimed again | no party sees or extends another's conversation; a read is a snapshot |
| Memory outbox, `domain/history/fanout.py`, `infra/persistence/{runtime_store,memory_turn_dispatch}.py` | `memory_turn_outbox` table, one dispatcher | publish, fetch a batch, send, mark, back off | lost acknowledgements, restarts, re-used row ids, back-off of one Realm | per-Realm order, nothing lost, content kept |
| Long tasks, `infra/long_tasks/mementos.py`, `infra/persistence/agent_runtime.py`, `app/admin/routers/long_tasks.py` | `jobs` table, in-memory queue, one worker | submit, cancel, retry, claim, poll, complete, announce | requests read and write the row in different transactions while the worker writes it | receipts match outcomes, no orphan, one announcement per claim |
| Smart home, `domain/smarthome/`, `app/smarthome/`, `infra/smarthome/` | sessions with a lock, a short-lived context and a time to live; what the Hub knows | a spoken command (authorize, read the home, understand, recheck, plan, execute), end a session, shut down | awaits on the Hub and two models while the home changes and the context expires; lost replies and repeated turns | commands act in order, in an open session, on a recent focus; the card is true; an ended session is forgotten |
| Room coordination, `app/interaction/coordination/`, `app/transport/coordination.py`, `infra/participation/llm.py` | epoch, pending stops, history of the group; a priority queue of frames; the round task | prepare, press, release, decide, reply, receipt, stop, close | a press revokes work that is already queued, under way or playing; receipts come late or never | two companions never speak at once; the group remembers only what was played |
| Interpretation, `domain/interpretation/service.py`, `infra/interpretation/adapters/laya.py` | shadow runs and record tasks | interpret, record, drain | one request answers several questions that may contradict each other and an open question | a decision is supported by the evidence |
| Body control, `domain/body_control/`, `domain/tools/body_capability_provider.py` | directory cache | assemble tools, resolve, send, receipt | two listings per call, a cache filled by other turns | a completed receipt is true |
| Context compiler, `domain/context/` | one compilation: five concurrent reads, segments | read, assemble, prune | deadlines, degraded reads, a budget | the receipt says what the prompt holds; the budget is spent by priority |
| LLM router, `infra/llm/` | one response: candidate, tool-call fragments | open, chunk, fail over, close | failure before and after the first delta | one model answers; no response is left open |
| Memory client, `infra/memory/` | routes, cached session pool, queue and workers per pool | read with retry, warm up, drop, refresh, close | a pool is replaced while reads use it; cancelled callers | a waiting read is served; shutdown ends |
| Runtime access, `domain/runtime_session.py`, `app/transport/grpc/interceptors.py`, `infra/system_data/`, `domain/agent/registry.py`, `app/admin/routers/owner_runtime.py` | revocation keys, registry of runtimes with a lock | open, re-authenticate, authorise, revoke, create a runtime | facts change between two reads | a grant is as fresh as its turn; one runtime per genome |
| Live-turn board, `infra/observability/live_turns.py` | bounded table of running and just finished turns | observe, settle, end, sweep, snapshot | one turn id in two streams, abandoned streams | the board tells no lie |
| Audit outbox, `infra/persistence/{audit_dispatch,runtime_store}.py` | outbox table, one dispatcher | commit, publish a batch, mark, purge | partial acknowledgement, crash | no event is lost |
| Wiring and shutdown, `app/runtime/` | open resources, running loops | every stage of start-up, serve, every stage of shutdown | any stage may raise, any drain may time out | nothing that runs has lost what it uses |
| Event bus and KV store, `infra/events/` | subscriptions, entries with revisions | publish, compare-and-set, watch | expiry | not modelled |

How they interact: `Chat` starts a task per turn that consumes
`TurnEngine.run`; the engine asks the conversation guard for admission, writes
the history window, enqueues the observation in the memory outbox, reads the
window back through the context compiler, calls the model and the dispatcher,
and in its `finally` schedules the background persister. Device tools write
frames on the same stream under the same lock and are answered by frames the
reader receives. `submit_long_task` writes the `jobs` table and the worker's
queue. Administration (`delete_owner_runtime`, cancel, retry) reaches into the
tables while all of this runs.

`PROJECT.json` lists every component with its status, and under `hazards` what
is hard to test in this code, each at the line where it bites.

## 2. The models

### ChatStream
One `Chat` RPC with the turn engine. `reader` is the frame loop; `turn[t]` is a
turn's task, the await its generator is parked on (`pos`) and the event it is
writing (`out`); `lock` is `write_lock`; `hist`, `observed`, `job`, `row` are
what a turn leaves in the history window, the memory outbox, the background
persister and the turn table. A step runs from one await to the next.
`task.cancel()` acts at the await the task is parked on (`CancelOf`): in the
engine (`Interrupted`, the except clause), in the shielded admission (`late`),
or in a write of `_emit_turn`, where the generator is abandoned at its yield
and closed later by the event loop (`GeneratorClosed`: only `finally` runs).
A turn may ask for a presentation (it waits for a receipt after DONE), be
speculative, and be uncommitted, in any combination; plain text is none of them.

### ToolExchange
One turn's tool loop. `calls` and `job` are the batch the dispatcher works on
and the state of each call (`start`, `get`, `send`, `wait`, `join`, `retract`,
`put`); `pending` and `completed` are the tables of `ChannelToolExchange` and
`MotionExchange`; `kv` the idempotency records; `asked` what the device was
sent (it may answer any of it at any time, any number of times, or never);
`told` what the model was told. The actions follow `dispatch_many` (collect
reads, flush them together, run a side effect alone), `_dispatch_one` (refuse,
look up, invoke, store), and `execute`/`accept`. Three clocks may strike: the
tool's, the exchange's and the batch's.

### Conversations
`convs`, `turns` are the tables, `window` the window of `HistoryManager`,
`run[r]` one execution of a turn: admitted by the guard, remembered, reading
(cache, hydration, merge as separate steps), finalized, persisted later or
never. Owners are deleted and the process restarts at any point. `ledger` is a
history variable: what was recorded, with nothing evicted.

### MemoryOutbox and RealmFeed
`rows` is the table, `caller` the `publish_turn` call, `disp` the dispatcher
between its awaits. `RealmFeed` is the abstract specification: accepted turns
reach the stream for the first time in the order of acceptance, per Realm.
`Feed == INSTANCE RealmFeed` maps the history variables of the outbox to it.

### LongTasks
`jobs` the table (every store method one transaction), `clients` the requests
in flight (tool call, admin cancel, admin retry), each holding what it read,
`queue` and `worker` the background worker with one program counter per await,
`mementos` the sessions of the external service with the runs in progress and
the last terminal event. The store may raise at each await of the worker and of a
request (`WStoreRaises`, `RequestRaises`): inside the `try` of `_handle` that leads to
`mark_failed`; where nothing is left to catch it the row stays as it is, and the task is
`lost`, together with those a restart or a timed-out tool call abandoned.

### SmartHome
`sessions[o]` is a `HomeSession` object with its lock (holder and queue) and
its `HomeContext` (what a reference would resolve to, whether a question is
pending, whose turn wrote it); `table` is `_items`. `req[r]` is the handler of
one command: the await it is parked on, the context the models were given, the
candidates of its request, what was understood, the submitted plan and the
card. `wire` and `hub` are the execute request on its way and the results the
Hub keeps per request id; `home` is the registry. The actions follow
`SmartHomeApplication.handle` and `SmartHomeCommand.handle` from await to
await: `Open`/`Join`/`Refuse` and `Wake` (get a session and its lock),
`Authorized`, `Snapshot`, `PrimaryDecides`/`Escalate`, `FallbackAnswers`,
`Offer` (a question that becomes a choice), `Recheck` (the registry of now, and
the plan), `Receive`/`NotConnected`/`NoReply`. The models answer anything that
passes validation.

### Coordination
`session` is `CoordinationSession` (epoch, active turn, history), `round` its task,
`stops[e][m]` the stop of an epoch at a member, `outbound` the stream's queue
(urgent frames overtake), `inbox`, `playing` and `receipts` the devices behind it
(external). `Press` bumps the epoch, cancels the round and asks all devices to
stop; `SilenceKnown` is the barrier in `_run`; `PermitCurrent` is the check of a
queued frame just before it is written.

### Interpretation
`Replies(c)` is everything the model may answer to the questions of
`_context_questions`; `Primary` is `_result`, `Combined` is `_context_result`,
`Interpreted` the adapter. The service runs the primary under its deadline, the
shadow beside it, and the record task after both. Probabilities are the four
levels the code distinguishes.

### BodyControl
`directory` is the store behind the cache, `entry` the cache entry, `other` a
listing another turn has read and not stored, `call` the turn: tools it was
offered, name it called, the two listings, the device. No provider is wired at
this commit (`build_application` refuses the setting); the domain code is
modelled on its own.

### ContextCompiler
One `compile()`: the five reads end in any order, fail, are cut off by the common
deadline or by their own; `Assemble` realizes the persona anew when memory brought
hits (`Realizations`; that read may raise, too), lays out the segments, prunes them
(`Prune`) and states in the receipt what became of memory (`EvidenceStatus`).

`Sorting` holds what both this module and LLMRouter take from Python's lists: a stable
sort by key and a comprehension with an `if`.

### LLMRouter
`router` loops over `Candidates`; `upstream[m]` is the response of each provider;
`fragments` is `tool_buf`; `Chunk` turns a provider's chunk into deltas.

### MemoryClient
`pools` are all session pools ever created, with queue and workers; `cached` the
one the cache names; `reads` the reads of turns from route lookup through submission
to retry; `phase` the process. `Cancelled` says what a cancelled worker does, per operation.

### RuntimeAccess
`watermarks` the revocation keys, written one by one; `authority` the facts of System
Data, which change at any time; `streams[s]` a Chat RPC between its awaits:
re-authentication, two reads of the authority, comparison, registry.

### LiveTurns, AuditOutbox
`entries` with ages instead of instants; `auditRows` with waits instead of instants.

### Lifecycle
`opened` and `live`: what can be used and what is running. Each stage of
`build_application` and of `_run` is one action; `Uses` says what each activity
needs. Any awaited stage of start-up or shutdown may raise (`BootFails`,
`ShutdownFails`). All 256 combinations of the settings that change the wiring are started.

## 3. The runs

| Run | Expect | Checks | Instance and why it is enough |
|---|---|---|---|
| `ChatStream_races` | pass | `OneSpeaker`, `HistoryMatchesRow`, `NoStaleEvent` | two turns of one conversation, a cancel, one chunk: a start displaces a turn at every await and write |
| `ChatStream_engine` | pass | `InputIsKept`, `EndIsClean`, `TurnEnds` | one turn in all eight combinations of modes, two tool rounds (the second exceeds the limit), two chunks, a cancel, a disconnect; fairness |
| `ChatStream_heard` | violation | `OnlyHeardIsRecorded` | section 6 |
| `ToolExchange_batch` | pass | `SideEffectsAlone`, `AckedNotRepeated`, `TruthfulResult`, `NoActionAfterCancel`, `BatchEnds` | three kinds of batch (read + unknown name + action; the same read twice under one id; action, refused arguments and motion), two rounds, the turn run twice; fairness |
| `Conversations_window` | pass | `RowsOfOneParty`, `ReadsOwnParty`, `ReadIsSnapshot` | three runs; an anonymous speaker on two devices, a person and a room of one owner that compete for two conversation ids and three turn ids; a window that evicts, a private turn, one deletion or restart |
| `MemoryOutbox_live` | pass | `QueuedContentIsKept`, `FeedSpec`, `AcceptedTurnArrives` | two turns of one Realm with two contents, a failure and a restart, and either a retransmission of each turn or a deletion of the owner; or, without a restart, these two beside a turn of another Realm, which a failing Realm must not hold up; the refinement and delivery; fairness |
| `LongTasks_races` | pass | `ReceiptMatchesTerminal`, `NoOrphan`, `AnnouncedOncePerClaim` | one task, two concurrent requests, one retried POST, one session, a store that may raise, a restart, a deletion: every interleaving of worker and requests on one row |
| `LongTasks_live` | pass | `ResultStaysInSession`, `QueuedTaskEnds` | three tasks of two owners, a queue of one, a store that may raise, no admin route and no retried POST; the first and the third task share a key, so the third reuses a session in which the first may still run or have ended, behind the newer session of the second; fairness |
| `LongTasks_terminal` | violation | `TerminalIsFinal` | section 6 |
| `MemoryClient_shutdown` | violation | `ShutdownEnds` | one read, one transport: section 6; fairness |
| `Interaction_features` | pass | home: `TruthfulCard`, `FocusIsPrevious`, `InOrder`; words: `DecisionIsSupported`; body: `ReceiptNamesTheBody`; group: `OneVoice`, `HistoryIsHeard`; model: `OneModelAnswers`; prompt: `ReceiptIsTruthful`, `BudgetIsSpentByPriority` | 1.9 million states. *Home*: three commands, the first understood in twenty ways, its turn repeated, a third about "it"; one event among removal, expiry, end, shutdown; all failures. *Words*: four previous turns, every answer at every level. *Body*: three devices of two names, one whose id contains another's, two versions in three shapes, two changes of directory or cache. *Group*: two companions, two presses, two replies a round, one mishap. *Model*: three models, three chunks, two tool-call slots. *Prompt*: turns unusual in one respect, no budget and three of which the smallest is below what is mandatory |
| `Services_background` | pass | outbox: `NoOvertaking`, `NothingLost`; memory: `PoolsServeReads`; audit: `NoAuditLost`; board: `BoardIsTruthful`; access: `GrantIsFresh`, `OneRuntimePerGenome`; process: `NothingUsesWhatIsClosed` | 2.2 million states. *Outbox*: two Realms, three turns, batches of two, two failures, a restart, a deletion. *Memory*: two reads, two endpoints, three pools, a route change. *Audit*: three events, batches of two, two faults. *Board*: three streams, two with one turn id, room for one. *Access*: two streams, a revocation of two keys, one change of facts. *Process*: every profile, every stage of start-up and shutdown raising |

`Interaction_features` and `Services_background` each check several components
that share no state: a variable chosen at the start (`feature`, `service`) says
which one moves, the others stay in one initial state, so that the state spaces
add up. What a component does there is its own next-state relation, unchanged.

Each property's comment in its module says which behaviour of the code it is
about. Every property of a passing run is also checked against a mutant: a
definition replaced by a plausible wrong version (`Mut...`, kept beside the
definition) under which TLC must find the property violated.

Deadlock is not checked: in all instances the system may stop, because the
bounded inputs (turns, requests, batches) run out. Bounds are constants named
in the modules (`Max...`); they limit only what the environment may do (frames,
failures, restarts, deletions, retransmissions), never the reaction of the code.
Symmetry is used only for requests, turns or runs that the specification treats
alike, and only in runs without liveness properties.

## 4. Fairness

Liveness is checked under weak fairness of what asyncio schedules by itself.

* ChatStream: tasks that can run do run; awaited calls return (model calls,
  compile, observation and feedback wait carry timeouts), a model stream is
  finite, a write ends because the client reads or the RPC fails. The client
  owes nothing else: no frame and no close.
* ToolExchange: the loop, the calls and their timers. Nothing of the device, of
  the model, or of the client; the batch limit is not relied upon.
* MemoryOutbox: the dispatcher loop, the end of a back-off; outages end
  (`MaxFailures`).
* LongTasks: the worker and requests in flight. Nothing of Mementos: a run may
  never finish, and the task ends by the poll deadline. Nothing of the store either:
  it may raise at any call and is never made to.

* MemoryClient (`MemoryFairSpec`): workers that can run do run, and the closing
  shutdown looks again. The stuck state of section 6 has nothing to be fair about:
  no task can take a step.

SmartHome and the modules of the two combined runs are checked for safety only.

## 5. The proofs

Every theorem holds for every value of the constants that the named assumptions
allow; the runs check the same formulas on one small instance.

**Conversations_proofs** (any runs, turns, conversations, identifiers, inputs,
window sizes and faults, under `ConversationsAssumption`).
`TypeCorrect`, `RowsKept` (`RowsOfOneParty`), `ReadsKept`
(`ReadsOwnParty`) and `ReadsAreSnapshots` (`ReadIsSnapshot`). Reads go through a window keyed by the conversation id
alone, so their isolation is not visible in the read itself. The inductive
invariant says who may have written what: the runs named by rows were admitted
and belong to the party of the conversation (`Rows`); every admitted run belongs
to that party while the conversation was never deleted (`Members`); the windows
and the results of reads hold only messages of admitted runs of their conversation
(`Windows`, `Results`). `VerifiedIsSameParty` is the lemma about the boundary
check: what it lets pass is of one party, and the device update of the persister
does not change that party. `BindKeeps` is the common argument of
admission and persistence.
The snapshot needs a second invariant, `WInv`, about the conversations it is promised of
(`Good`: nothing deleted or lost, no turn id run again). Turn starts differ (`Timed`), so
the order of messages is that of time; what was recorded contains the tables and what runs
in flight have said (`Recorded`); the window holds the newest of it, and what the window
has left out is stored or the window is full (`Kept`); and what a suspended read got of the
tables misses a message only if the window has it, a full window has left it behind, or it
is older than a read that is itself full (`Covers`), whatever is recorded, written or evicted until
the read goes on (`CoversGrows`). The lemmas about eviction are free of state: what is evicted is
older than what is kept (`EvictedIsOlder`), nothing is evicted before the places are
taken (`FullOrAll`), recording keeps a window the newest (`RecordingKeeps`), and a merge under
`Covers` returns the newest visible messages (`MergedIsNewest`).

**LongTasks_proofs** (any number of tasks, queue size, polls, retries, sessions,
restarts and deletions; `BoundsAssumption`, `NoneAssumption`).
`TasksWellTyped`, `ReceiptsAreTrue` (`ReceiptMatchesTerminal`), `NoTaskIsOrphaned`
(`NoOrphan`), `TaskIsAnnouncedOnce` (`AnnouncedOncePerClaim`) and
`ResultsStayInSession` (`ResultStaysInSession`). Worker and requests write one row in
turn, each after a read that may be stale. The proofs are layered on `TaskInv`: types,
and what the worker and each request are bound to hold at each of their awaits.
`OrphanInv` says that an unfinished row is `Held`: by a request that is submitting it,
by the queue, or by a worker that has not completed it (the exceptions of the property
are the rows that a restart, a timed-out call or a store that raised gave up). `AnnounceInv` counts announcements,
the one being published and a pending callback together, since a claim moves one unit
from the last to the first. `SessionInv` collects everything that names a Mementos
session (row, record on its way into the table, worker, run, terminal event) and says
that all its users have one session key.

**ChatStream_proofs** (any turns, conversations and modes, any number of chunks, tool
rounds and cancel frames, a client that may leave or not; `ChatAssumption`, and
`NothingAssumption`: `None` is neither an event kind nor a record).
`ChatWellTyped`, `OneTurnSpeaks` (`OneSpeaker`), `RowIsTheHistory`
(`HistoryMatchesRow`), `AdmittedInputIsKept` (`InputIsKept`), `NoEventIsStale`
(`NoStaleEvent`) and `TurnsEndCleanly` (`EndIsClean`), all from one invariant,
`ChatInv`. `TurnGood` says what a turn's record can be at each await (only a live turn
has an event out, a tool dispatch runs at `tools` or in an abandoned generator);
`LeftGood` relates that record to history, persist job, row and outbox (a final turn's
history is its own status and text, which is why the finally block and a cancellation
may write the row from the record alone); `TurnsInv` makes a live turn the active one
of its conversation, no newer than the generation, which is what lets a start frame
cancel a single task; `ReaderInv` holds what the reader knows between its awaits;
`WireInv` says that what waits for the lock is of the current generation and that a
turn whose DONE is out has nothing to add. The last part is the reason why comparing
the generation before the lock is enough: every step that makes a generation stale
also cancels the turn, which drops the waiting event. Two lemmas carry the invariant:
`TurnStep` for a step of one turn, `CancelStep` for a cancellation of any set of turns;
every action is an instance of one of them or of `ReaderStep`.

**ToolExchange_proofs** (any tool table and batches under `ToolsAssumption`: every
batch is a sequence of 1 to `MaxCalls` calls, `MaxRuns` ≥ 1).
`ExchangeWellTyped`, `SideEffectsRunAlone` (`SideEffectsAlone`) and
`CancelStopsActions` (`NoActionAfterCancel`). The invariant adds to the types: an entry
of the pending tables is owned by a call with that key (`PendingInv`); the calls before
the loop's position have begun, those behind it have not, and what is gathered is never
serial (`LoopInv`); a side effect that is active has every earlier call behind it
and no later one begun (`AloneInv`); once the batch is being cancelled no side effect is
where it could still reach the device (`CancelInv`).

`AcknowledgedIsNotRepeated` (`AckedNotRepeated`) and `ToldIsTrue` (`TruthfulResult`) need
a second invariant, `TruthInv`, on top of the first: where every outcome comes from. A
future holds an answer to its owner's request; an outcome that is ok is backed by a
request the device received and, for a keyed tool, stands in the bucket before it is
final (`JobTrue`); a shared future is that of the same request (`Shares`); what the
exchanges keep answers the request kept beside it (`TablesTrue`); what the bucket holds
belongs to the one keyed tool its arguments are valid for (`KvTrue`); what the model was
told is backed, and in the bucket (`ToldTrue`). That a keyed call never shares a future
is where `AloneInv` is needed. The code does not enforce what these two rest on, so it is
assumed by name: `IdsAssumption` (an id names one call of a batch, which
`_merge_tool_results` relies on and the model API promises) and `KeyedAssumption` (only
side effects of the device channel have a template, no arguments are valid for two of
them because `play` requires `song_id` and `stop` forbids it, and the head is the only
motion); `NoneAssumption` says that `None` is not an outcome. Both theorems are stated for
strict schemas (`StrictSchemas`, the default of the dispatcher): in the compatibility mode
arguments that fit no schema reach the tool, and the key of the bucket does not name the
tool, so that `KeyedAssumption` no longer separates two keyed tools.

**Services_proofs**: six specifications, each with an invariant of its own.

- RuntimeAccess (`AccessBounds`, `StreamsAssumption`): `AdmissionIsFresh`
  (`GrantIsFresh`) and `RuntimeIsShared` (`OneRuntimePerGenome`). `FrameIsChecked` says
  after each await what the reads of a start frame have established, relative to the
  bindings that were the person's since the frame (`WasTheirs`); `CreatesAlone` that
  only the holder of the lock creates, and only what is not listed.
- AuditOutbox (`AuditBounds`): `AuditIsKept` (`NoAuditLost`). What was acknowledged
  reached the broker, and a row is published or purged only then (`RowIsKept`).
- LiveTurns (`BoardBounds`): `BoardTellsTheTruth` (`BoardIsTruthful`). `Follows` ties
  an entry to a stream of its turn id; that eviction makes room needs finite cardinalities.
- Lifecycle (`DeploymentsAssumption`): `NothingIsClosedUnderUse`
  (`NothingUsesWhatIsClosed`), whatever stage raises. `IsOpen` gives the stages in which each resource is
  open, `MayRun` the stages in which each activity can run.
- MemoryClient (`MemoryBounds`): `ReadsAreServed` (`PoolsServeReads`). A read that waits
  has its request in the queue or at a worker of an open pool, the open pool is the
  cached one, and only the holder of the lock replaces it (`PoolGood`, `ReadGood`).
- MemoryOutbox (any finite set of turns, any subjects, owners, contents, batch limit ≥ 1
  and bounds): `OutboxWellTyped`, `OrderIsKept` (`NoOvertaking`), `AcceptedIsKept`
  (`NothingLost`), `QueuedIsStored` (`QueuedContentIsKept`) and `ImplementsFeed`
  (`FeedSpec`). `NoOvertaking` alone is not inductive: that a turn being sent has no older
  unsent turn rests on what the batch was when it was read. The inductive invariant adds:
  the row ids of unsent turns sort as acceptance does although ids are re-used
  (`AgeIsId`); a row of the batch is still the row of the table, or sent, or dropped
  (`BatchIsCurrent`); the batch is closed under older unsent turns of its Realm
  (`BatchIsClosed`); what is about to be marked is on the stream (`MarkedIsSent`). The
  refinement uses the same invariant: a send maps to `Deliver`, an insert to `Accept`, a
  deletion to `Drop`, all else stutters. For the content, `ContentInv` follows one content
  from the request through the row and the batch to the stream.

**Interaction_proofs** (any finite set of bodies, any directory, any contracts, under
`BodyAssumption`; any number of members, reply budget and captures, under
`GroupBounds`; any commands, scopes and home, under `HomeAssumption`). `ReceiptIsTrue` (`ReceiptNamesTheBody`) of BodyControl: what was
resolved is a fact about the first listing and what was sent about the second, and
both remain facts about the recorded listings while the directory and the cache move
on (`CallInv`). `NeverTwoVoices` (`OneVoice`) and `WhatWasSaidWasHeard`
(`HistoryIsHeard`) of Coordination. That a start is written only with a permit does
not bound what a device plays later, so `GroupInv` follows frames all the way:
`RoundInv` (session and round agree on the epoch, and epochs do not run out),
`FrameInv` (nothing under way is newer than the session), `BarrierInv` (while a round
decides or speaks every member has confirmed the stop of this epoch), `VoiceInv` (a
member that confirmed is silent *and* nothing under way to it starts: behind a stop
of this epoch there is no start; at most the speaker is not silent), `ReplyInv` (the
start of a reply precedes its end in the queue, in the inbox and before the receipt),
`SaidInv` (a positive receipt names a turn that was heard; the history since the
request has as many replies as the budget has spent).

Of SmartHome: `HomeWellTyped`, `CardTellsTheTruth` (`TruthfulCard`),
`FocusIsOfTheTurnBefore` (`FocusIsPrevious`) and the action property
`CommandsAreInOrder` (`InOrder`), for every number of commands, sessions, scopes and
every understanding of the models. `FocusIsPrevious` looks at the context of one
command and the cards of others, which no step changes together, so the induction is
over the lock: `LockInv` says of a session that its holder came before its waiters,
who stand in the order of their arrival (`SessionGood`), of two commands of one
session that the earlier is done before the later gets the lock (`OrderGood`), and
hence of the context a handler read that everyone between it and the turn that wrote
it ended quietly (`HandlerGood`); it also says that the session holds no context
while its handler plans and executes, which is why a card without a `remember()`
leaves nothing behind. `CardInv` follows the wire: what never left or was never
connected stays unanswered, and a result of the Hub is of the plan its handler
submitted. `InOrder` needs both invariants and that a plan is submitted only by the
current turn of an open session (`SubmitsWell`, proved of every step beside the
invariant). New assumptions: `NumRequests` is a number, `None` is neither a request
nor a card, and a scope consists of its key and its Companion.

**TurnInput_proofs**: three specifications that share no state.

- Interpretation (`InterpretationAssumption`):
  `DecisionsAreSupported` (`DecisionIsSupported`). The verdict is tied to the one reply it
  was computed from (`DecisionInv`); the rest is a fact about `Interpreted` alone, proved
  for every context and reply (`InterpretedIsSupported`): which combination of answers
  may end a pending question, and that a sure command is not changed on the way.
- LLMRouter (`RouterBounds`: any chain of models, any number of chunks, any slots):
  `AnswersAreOfOneModel` (`OneModelAnswers`). `OneSource` says that whatever was
  delivered came from the candidate now being read and that no other response is open;
  `BufferInv` that the fragments buffered per slot are those of the chunks read so far,
  in their order. The chain is a list comprehension over the models (`Picks`), so the
  proof rests on `PicksIsAFilter`.
- ContextCompiler (`CompilerAssumption`: turns, configurations and costs of their types;
  `WindowsAreOrdered`): `ReceiptsAreTruthful` (`ReceiptIsTruthful`) and
  `BudgetsAreSpentByPriority` (`BudgetIsSpentByPriority`). For the receipt, `MemoryRules`
  relates the fields of the memory read (late, failed, answers, state) at every await, and
  `MemoryCases` says what the flags of `compile()` come to once the gather has returned;
  the lemmas about the prompt hold for every persona it may be realized with.
  For the budget, `PruneLoops` turns the loop of `prune()` into its history of rounds and
  `PrunedSoFar` is its loop invariant: what is used is the sum of what is kept, nothing
  mandatory is missing, a segment that was passed over did not fit *then*. It follows that
  it does not fit at the end either, and that a segment admitted later than a dropped one
  of at most its size cannot exist (`PruneSpends`). `LayoutKeepsAll` says that the ranked,
  stable order neither loses nor repeats a part.

**NumberLemmas** proves that least and greatest elements exist, which the models choose
wherever the code sorts or scans; that a loop over 1..N has a history (`LoopExists`) and
that what its rounds pass on holds to the end (`UpTo`), which is the induction the proofs
about loops need; and that `SortedBy` of Sorting, which ranks an element by how many do not
come after it, lists every element once and in the order of the keys (`RankIsTaken`, by
the pigeonhole principle, and `SortedByIsSorted`).

Only model-checked: the liveness properties of the runs, because fairness and ENABLED
are out of the prover's reach, and the three statements the code refutes. Every invariant and
every action property of a passing run is stated by a theorem.

## 6. What the checks found

Three statements of the repository's comments are refuted by what the code does;
each has a run that exhibits it and an entry under `findings`.

* `LongTasks_terminal`: a terminal status is not final. The worker's
  `mark_queued`, `attach_mementos_run` and `complete` write their status without
  looking, so a task cancelled meanwhile is revived by the same process. For the same
  reason the record "simultaneously cancelled and holding a result" that the 409 of the
  cancel route is meant to rule out is reachable.
* `ChatStream_heard`: a barge-in that meets the turn in a write ends it with
  GeneratorExit, not CancelledError; the truncation to what was heard is
  skipped.
* `MemoryClient_shutdown`: `McpUserSession.tool_names` catches BaseException. A worker
  that is listing the tools when `close()` cancels it loses the cancellation, goes
  back to the queue of the closed pool and waits there for ever; `close()` waits for
  the worker, and `_run` for `close()`, without a limit: the process does not exit.

Observations without a run of their own:

* a retry writes back the whole job record it read earlier and can restore a
  `pending` callback that was claimed in between: the task is announced again
  (`AnnouncedOncePerClaim` counts these);
* a spoken turn that is sent again and understood differently is answered by the
  Hub with its first result; for device commands the Agent notices, for a scene
  it reports the scene as executed (the exception in `TruthfulCard`);
* an unavailable directory while a choice of devices is prepared leaves the
  earlier focus in place, where a comment of `llm_fallback.py` says that
  unavailable turns clear it (`FocusIsPrevious` allows it);
* a lock that was just released counts as free until its waiter runs, so a
  session with a waiting command can be evicted; the waiter is refused;
* a task in a re-used Mementos session can be completed with the terminal event of its
  own earlier run, or of another task of the same owner and day, in the first poll
  (`ResultStaysInSession` states what still holds: the event is never another key's);
* the worker awaits `mark_queued` before the `try` of `_handle` (mementos.py:287-292), and
  `mark_failed` in its handler: when the store refuses one of them `_run` only logs it and
  the row stays accepted or running with nobody working on it (`QueuedTaskEnds` and
  `NoOrphan` except it; the worker goes on with the next task);
* storing the spoken summary is inside that `try` as well: a task that has succeeded
  is marked failed when its summary cannot be stored;
* unfinished rows are not re-queued after a restart (`NoOrphan` excepts them);
* the window of a deleted conversation survives until the process restarts,
  because nothing calls `drop_session` (`ReadsOwnParty` excepts it);
* a re-run of a turn id that ends without an answer leaves the earlier stored
  answer visible (`ReadIsSnapshot` excepts it);
* a hydrating read may come out short: its limit is applied before private
  messages are dropped. Private messages can also leave a hole: when they fill the
  window, a public message of a turn in flight is evicted before it is written, and the
  read returns an older stored one without it. That takes more turns than the run has;
  the attempt to prove the property without the exception showed it, and
  `ReadIsSnapshot` states exactly when a message may be missing (`Buried`);
* two reads of a batch under one id share a future; when the first times out
  the second sees CancelledError and the turn ends as cancelled
  (`ShareIsCancelled`);
* a call id used again after its first request timed out can be settled by the
  first one's late answer; the bucket keeps that answer, and repeats it for any later
  call with the same arguments (the exceptions in `TruthfulResult`);
* the idempotency record's key is the turn id and the arguments; the tool's name is
  not part of it: two keyed tools that accept the same arguments would answer for each
  other (`KeyedAssumption`). Only the schemas keep such tools apart, so in the
  compatibility mode a `play` and a `stop` of one turn, both without arguments, do;
* if the device a capability call was resolved to leaves the directory before the
  second listing, `resolve_body_device` falls back to names that contain its id and
  the command can reach another device, maybe of another Companion; the receipt names
  it (the exception in `ReceiptNamesTheBody`);
* an awaited step of the shutdown that raises skips all that follow it, and nothing
  is closed in their place (`ShutdownFails`): `_run` catches only the timeouts of its drains
  and the CancelledError of a dispatcher;
* HTTP and admin requests that outlast the drain at shutdown find memory, models and
  store closed (`NothingUsesWhatIsClosed` excepts them); the NATS connection is
  never closed by the process;
* a generator closed by GeneratorExit is persisted with the status it had,
  `ok` in most places; ERROR `tool_loop_exceeded` is followed by DONE.

## 7. Abstractions and limits

*General.* Texts, prompts, timestamps, logging and payload layout are left out.
A store method is one step because there is one writer connection and each
method is one transaction. Restarts lose exactly what is in memory.

*ChatStream.* An answer is its number of chunks, a played position likewise.
Turn ids are always supplied. A write on a dead RPC may raise or not.
PROGRESS and USAGE events, the live-turn board (transparent to the
stream), the background variant of the fan-out and the digest of a start frame
are left out; guardrail verdicts are nondeterministic. `ChatStream_races` and
`ChatStream_heard` have plain text turns; all modes are in `ChatStream_engine`.

*ToolExchange.* A request is the call, an outcome is its success and the
request it answers. The threshold of repeated failures is one, so failure
counts are a set. Music tools' time limits are below the exchange's 65 s, so
only the head's 12 s (against the tool's 10 s) can meet it. `BUSY` of
MotionExchange and the stale-generation error of `send_motion` cannot be
reached: side effects are serial and a cancel reaches the dispatch in the same
step. A turn id runs again only after its earlier run ended. Call ids of a
batch differ unless the calls are identical (`IdsAssumption`). The contents of a retraction frame
are not tracked. Built-in tools that run in the process are not modelled. The run has
strict schemas. That two reads sharing a future may end as cancelled is in the model, but
no property is about it: `BatchEnds` counts it as an end.

*Conversations.* The clock is strictly increasing, a retransmission carries the
same text and hence the same crisis verdict, user text is never empty. The
retries on IntegrityError collapse, there being one writer. Identifiers that are compared
together are one field of the scope.

*MemoryOutbox.* Back-off is whether a row is due. A turn's subject is
constant. An owner deleted while a batch is held still has the held turns
published; the contract leaves deleted turns out.

*LongTasks.* Ids are handed out in creation order. `mark_submitted` and
`append_progress` have no caller and are left out. A store that raises has not
written. The Mementos service is external: a message
starts a run, and a session's list of events is reduced to its last terminal
one. `Routes` bounds which admin routes are called, `MaxSessions` how many sessions
Mementos opens.

*SmartHome.* One registry, no message texts, no device state: an outcome is
whether a device confirmed. Commands are numbered in the order they arrive and
posted once each; a repeated turn is another command with the same turn id. The
steps of the surroundings share one bound, `MaxEvents`. A context (30 s) expires
before its session (120 s), as commands take far less than 90 s. Low confidence,
abstention and errors of the primary model lead to the same step when there is a
fallback. The Hub is external: it answers a known request id with its first
result and runs nothing past the deadline; clocks of Agent and Hub agree. Its
answers to a handler that has given up are left out. Calls that fail because the
clients are closed at shutdown fail like any other.

*Coordination.* Member states that are only reported are left out; cancelling
the round is one step with the press. The capture budget of the code is the bound
`MaxPresses`. Devices play in order, flush on stop and answer.

*Interpretation.* Words, labels and option texts are left out: a device stands for its
option. Which verb a device can express is a constant. The other adapters are shadows.

*BodyControl.* One capability with several versions, one owner and Companion, so one
cache entry; eviction by capacity is its expiry. No name equals another device's id.

*ContextCompiler.* Segments keep kind, priority, size and tag; texts are left out.

*LLMRouter.* A chunk is text, activity, usage or a fragment of one tool call.
Retries inside the client library are the provider's.

*MemoryClient.* One memory space. Recall and commitments read differ only in what they
check of an answer.

*RuntimeAccess.* One owner, companion and person; time is counted in revocations.

*LiveTurns, AuditOutbox.* Instants are ages and waits, cut off just beyond
their limits. An event's payload is its number.

*Lifecycle.* Stages run one after the other as in the code; what an activity uses
is a set of names, and using is possible at any time while it runs. Two HTTP servers are
one. A second signal changes nothing.

## 8. Not modelled

Settings, codecs, prompt and persona text, word lists (`lexicon.py`, `rules.py`,
guardrails), report and read-only admin routes, logging and benchmarks hold no
protocol state or are I/O. The event bus and KV store are a library (NATS) in
production; their in-process double serves the standalone profile. Signal fusing is a
stateless fold. `PROJECT.json` gives the reason for each part.

## 9. Plan

1. *Proofs*: the refinements of point 3.
2. *Models*: the in-process KV store (compare-and-set, expiry, watchers); the
   background variant of the fan-out; validation of structured responses, addressing
   of home devices and signal fusing as operators against reference definitions.
3. *Abstract specifications*: a conversation as a log of turns that ChatStream and
   Conversations implement, and an at-most-once action that ToolExchange implements
   for idempotent tools.
