----------------------------- MODULE ChatStream -----------------------------
(***************************************************************************)
(* One Chat RPC: the frame reader of EidolonAgentServicer.Chat, the turn    *)
(* tasks it starts (_emit_turn), the TurnEngine.run generator each of them  *)
(* consumes, and what a turn leaves behind in the history window, in the    *)
(* memory outbox and in the turn table.                                     *)
(*                                                                          *)
(* asyncio switches tasks only at awaits, so a step runs from one await to  *)
(* the next.  task.cancel() takes effect at the await the task is parked    *)
(* on: inside the generator (the engine sees CancelledError), or inside the *)
(* write_lock / context.write of _emit_turn, in which case the generator is *)
(* abandoned at its yield and the event loop closes it later (GeneratorExit *)
(* runs its finally block only).                                            *)
(*                                                                          *)
(* An answer text is represented by its length in chunks.                   *)
(***************************************************************************)
EXTENDS Naturals

CONSTANTS
    Turns,          \* turn ids a client uses on this RPC
    Convs,          \* conversation ids
    ConvOf,         \* turn -> conversation of its StartTurn
    Modes,          \* what a StartTurn may ask for, of AllModes
    MaxDeltas,      \* bound: answer chunks streamed by the model
    MaxToolIters,   \* max_tool_iters
    MaxCancels,     \* bound: cancel frames the client sends
    ClientMayLeave, \* bound: whether the client may go away
    None

\* presentation_mode, speculative, and not user_input_committed, in any
\* combination; plain text has none of them.
AllModes == SUBSET {"face", "speculative", "uncommitted"}

ASSUME ChatAssumption ==
    /\ MaxDeltas \in Nat /\ MaxToolIters \in Nat /\ MaxCancels \in Nat
    /\ ClientMayLeave \in BOOLEAN
    /\ ConvOf \in [Turns -> Convs] /\ Modes \subseteq AllModes
    /\ None \notin Turns /\ None \notin Nat
    /\ "free" \notin Turns /\ "reader" \notin Turns

VARIABLES
    reader,       \* the frame loop of Chat: pc and the turn at hand
    accepted,     \* accepted_starts: the turn ids that were accepted
    generation,   \* generation_by_conversation, 0 if absent
    active,       \* active_by_conversation
    turn,         \* turn -> its task, generator and TurnInput.metadata
    lock,         \* holder of write_lock: "free", "reader" or a turn
    rpc,          \* "open", or "gone" once the client went away
    watching,     \* the chat-cancel-watcher task has not ended
    notified,     \* grpc.aio has delivered its cancellation to the handler
    wire,         \* turn -> DONE or ERROR event last handed to gRPC
    ack,          \* turn -> what the last ACK said of it
    hist,         \* history window: turn -> record, or None
    observed,     \* turns enqueued for the memory service
    job,          \* background persist job: turn -> record, or None
    row,          \* turn table: turn -> record, or None
    cancels

vars == <<reader, accepted, generation, active, turn, lock, rpc, watching,
          notified, wire, ack, hist, observed, job, row, cancels>>
stream == <<lock, wire>>
loop == <<reader, accepted, generation, active, rpc, watching, notified,
          ack, cancels>>
kept == <<observed, job, row>>

(***************************************************************************)
(* State of one turn                                                        *)
(***************************************************************************)
\* Points where the generator is parked on an await of its own.
AwaitPos == {"admit", "crisis", "enqueue", "compile", "stream", "tools",
             "feedback"}
\* Points it reaches from a yield without another await; "denied": the guard
\* refused and run() ended before its try block.
OtherPos == {"none", "present", "say", "calls", "output", "answer", "finish",
             "return", "end", "raise", "abandoned", "closed", "denied"}
Kinds == {"STATE", "DELTA", "TOOL_CALL", "TOOL_RESULT", "PRESENTATION",
          "DONE", "ERROR"}
\* What the history window, the persist job and the turn table hold of a turn.
RecordType == [status : {"active", "ok", "cancelled", "errored"},
               text : Nat, private : BOOLEAN]

ASSUME NothingAssumption == None \notin Kinds /\ None \notin RecordType

\* parts: streamed answer chunks; answer: final_text; text:
\* assistant_text_for_persist; late: cancelled_during_admission.
Fresh(g, mode) ==
    [mode |-> mode, task |-> "live", pos |-> "admit", out |-> None, gen |-> g, late |-> FALSE,
     status |-> "ok", parts |-> 0, answer |-> 0, text |-> 0, final |-> FALSE,
     private |-> FALSE, played |-> None, iters |-> 0, hinted |-> FALSE,
     dispatch |-> "none"]
Unstarted == [Fresh(0, {}) EXCEPT !.task = "none", !.pos = "none"]

Live(t) == turn[t].task = "live"
Stale(t) == generation[ConvOf[t]] # turn[t].gen

\* _remember_turn writes nothing for speculative or uncommitted input.
Remembers(t) == turn[t].mode \subseteq {"face"}
Structured(t) == "face" \in turn[t].mode
Ephemeral(t) == "speculative" \in turn[t].mode
\* A structured response reaches the device, but not that of a speculative turn.
Presents(t) == Structured(t) /\ ~ Ephemeral(t)
Record(r, status, text) ==
    [status |-> status, text |-> text, private |-> r.private]
\* Mutant: speculative and uncommitted input is recorded too.
MutRememberAll(t, r, status, text) ==
    hist' = [hist EXCEPT ![t] = Record(r, status, text)]

_remember_turn(t, r, status, text) ==
    hist' = IF Remembers(t)
            THEN [hist EXCEPT ![t] = Record(r, status, text)] ELSE hist

(***************************************************************************)
(* task.cancel()                                                            *)
(***************************************************************************)
\* except CancelledError in run(): what the user heard is recorded, and the
\* ERROR event is offered to _emit_turn, which drops it if it is stale.
HeardText(r) == IF r.played # None /\ r.played < r.parts THEN r.played
                ELSE r.parts
\* Mutant: the ERROR event of a cancelled turn is written whatever its
\* generation.
MutSpeakStale(r, stale) ==
    [r EXCEPT !.status = "cancelled", !.text = HeardText(r), !.final = TRUE,
              !.pos = "raise", !.out = "ERROR",
              !.dispatch = IF @ = "running" THEN "cancelled" ELSE @]
\* Mutant: the tool dispatch is not cancelled with its turn.
MutKeepDispatch(r, stale) ==
    [r EXCEPT !.status = "cancelled", !.text = HeardText(r), !.final = TRUE,
              !.pos = "raise", !.out = IF stale THEN None ELSE "ERROR"]

Interrupted(r, stale) ==
    [r EXCEPT !.status = "cancelled", !.text = HeardText(r), !.final = TRUE,
              !.pos = "raise", !.out = IF stale THEN None ELSE "ERROR",
              !.dispatch = IF @ = "running" THEN "cancelled" ELSE @]

\* CancelledError at the write: _emit_turn ends and drops the generator.
Abandon(r, outcome) ==
    [r EXCEPT !.task = outcome, !.out = None,
              !.pos = IF @ = "denied" THEN @ ELSE "abandoned"]

InEngine(r) == r.out = None /\ r.pos \in AwaitPos \ {"admit"}

\* The record of a turn after cancel(): admission is shielded.
CancelOf(r, stale) ==
    IF r.task # "live" THEN r
    ELSE IF r.pos = "admit" THEN [r EXCEPT !.late = TRUE]
    ELSE IF InEngine(r) THEN Interrupted(r, stale)
    ELSE Abandon(r, "done")

\* cancel() of the turns in S, with `now' the generations at that moment.
CancelAll(S, now, input) ==
    LET hit == {t \in S : Live(t) /\ InEngine(turn[t])}
        stale(t) == now[ConvOf[t]] # turn[t].gen
    IN /\ turn' = [t \in Turns |-> IF t \in S THEN CancelOf(input[t], stale(t))
                                              ELSE turn[t]]
       /\ hist' = [t \in Turns |->
                     IF t \in hit /\ Remembers(t)
                     THEN Record(input[t], "cancelled", HeardText(input[t]))
                     ELSE hist[t]]
       /\ lock' = IF lock \in S /\ turn'[lock].task # "live" THEN "free"
                  ELSE lock

(***************************************************************************)
(* The frame loop of Chat                                                   *)
(***************************************************************************)
Idle == [pc |-> "read", turn |-> None, gen |-> 0, landed |-> FALSE]
\* A cancel frame; played is None or the played_chars of the client.
ReadCancel(t, played) ==
    /\ reader.pc = "read" /\ cancels < MaxCancels
    /\ cancels' = cancels + 1
    /\ IF Live(t)
       THEN LET now == [generation EXCEPT ![ConvOf[t]] = @ + 1]
                input == [turn EXCEPT ![t].played =
                             IF played = None THEN @ ELSE played]
            IN /\ generation' = now
               /\ CancelAll({t}, now, input)
               /\ reader' = [Idle EXCEPT !.pc = "cancelling", !.turn = t,
                                         !.landed = TRUE]
       ELSE /\ reader' = [Idle EXCEPT !.pc = "ack", !.turn = t]
            /\ UNCHANGED <<generation, turn, hist, lock>>
    /\ UNCHANGED <<accepted, active, rpc, watching, notified, wire, ack, kept>>

\* gather(task) of the cancelled turn returns.
CancelLanded ==
    /\ reader.pc = "cancelling" /\ ~ Live(reader.turn)
    /\ reader' = [reader EXCEPT !.pc = "ack"]
    /\ UNCHANGED <<accepted, generation, active, turn, stream, rpc, watching,
                   notified, ack, hist, kept, cancels>>

WriteAck ==
    /\ reader.pc = "ack" /\ lock = "free" /\ rpc = "open"
    /\ lock' = "reader"
    /\ reader' = [reader EXCEPT !.pc = "acking"]
    /\ ack' = [ack EXCEPT ![reader.turn] =
                 IF reader.landed THEN "landed" ELSE "already_done"]
    /\ UNCHANGED <<accepted, generation, active, turn, rpc, watching, notified,
                   wire, hist, kept, cancels>>

AckWritten ==
    /\ reader.pc = "acking"
    /\ lock' = "free" /\ reader' = Idle
    /\ UNCHANGED <<accepted, generation, active, turn, rpc, watching, notified,
                   wire, ack, hist, kept, cancels>>

\* A start frame that passes re-authentication and, if its turn was accepted
\* before, has the digest of that start: a retransmission is ignored,
\* a new turn takes the next generation and cancels the one that is speaking.
ReadStart(t) ==
    /\ reader.pc = "read"
    /\ IF t \in accepted
       THEN UNCHANGED <<reader, generation, turn, hist, lock>>
       ELSE LET c == ConvOf[t]
                now == [generation EXCEPT ![c] = @ + 1]
                previous == IF active[c] = None THEN {} ELSE {active[c]}
            IN /\ generation' = now
               /\ CancelAll(previous, now, turn)
               /\ reader' = [Idle EXCEPT !.pc = "starting", !.turn = t,
                                         !.gen = now[c]]
    /\ UNCHANGED <<accepted, active, rpc, watching, notified, wire, ack, kept,
                   cancels>>

\* Mutant: the displaced turn is not awaited.
MutNoWait == TRUE

PreviousDone == \A t \in Turns : active[ConvOf[reader.turn]] = t => ~ Live(t)

\* AcceptReply.prepare succeeded: the task starts eagerly and parks on the
\* admission guard before the next frame is read.
StartTurn ==
    /\ reader.pc = "starting" /\ PreviousDone
    /\ accepted' = accepted \cup {reader.turn}
    /\ \E mode \in Modes :
          turn' = [turn EXCEPT ![reader.turn] = Fresh(reader.gen, mode)]
    /\ active' = [active EXCEPT ![ConvOf[reader.turn]] = reader.turn]
    /\ reader' = Idle
    /\ UNCHANGED <<generation, stream, rpc, watching, notified, ack, hist,
                   kept, cancels>>

\* except BaseException ... finally: no further event of any turn is sent,
\* every turn is cancelled, and the handler waits for them.
Fail ==
    LET now == [c \in Convs |-> 0]
    IN /\ generation' = now
       /\ CancelAll({t \in Turns : Live(t)}, now, turn)
       /\ reader' = [Idle EXCEPT !.pc = "drain"]
       /\ watching' = FALSE

\* The start frame is refused before (credential, changed binding, digest of
\* an accepted turn, conversation id) or after (modality, permission, missing
\* runtime) the previous turn was cancelled: context.abort raises.
StartRefused ==
    /\ \/ reader.pc = "read"
       \/ reader.pc = "starting" /\ PreviousDone
    /\ Fail
    /\ UNCHANGED <<accepted, active, rpc, notified, wire, ack, kept, cancels>>

\* The client goes away; grpc.aio cancels the handler at its current await.
\* (An ACK write in progress ends first: nothing else happens in between.)
ClientGone ==
    /\ ClientMayLeave /\ rpc = "open" /\ reader.pc # "over"
    /\ rpc' = "gone"
    /\ UNCHANGED <<reader, accepted, generation, active, turn, stream, watching,
                   notified, ack, hist, kept, cancels>>

\* gather() hands the cancellation on to a turn that is already cancelled and
\* raises once that turn is done.
HandlerCancelled ==
    /\ rpc = "gone" /\ ~ notified
    /\ \/ reader.pc \in {"read", "ack"}
       \/ reader.pc = "cancelling" /\ ~ Live(reader.turn)
       \/ reader.pc = "starting" /\ PreviousDone
    /\ notified' = TRUE
    /\ Fail
    /\ UNCHANGED <<accepted, active, rpc, wire, ack, kept, cancels>>

\* While draining it is awaiting one of the turns: that one is cancelled, and
\* the CancelledError is swallowed.
DrainCancelled(t) ==
    /\ rpc = "gone" /\ ~ notified
    /\ reader.pc = "drain" /\ Live(t)
    /\ notified' = TRUE
    /\ CancelAll({t}, generation, turn)
    /\ UNCHANGED <<reader, accepted, generation, active, rpc, watching, wire,
                   ack, kept, cancels>>

\* _on_rpc_cancelled polls every 50 ms.
WatcherFires ==
    /\ watching /\ rpc = "gone"
    /\ watching' = FALSE
    /\ CancelAll({t \in Turns : Live(t)}, generation, turn)
    /\ UNCHANGED <<reader, accepted, generation, active, rpc, notified, wire,
                   ack, kept, cancels>>

\* The client half-closes: its turns are drained, not cancelled.
RequestsEnd ==
    /\ reader.pc = "read"
    /\ reader' = [Idle EXCEPT !.pc = "drain"]
    /\ watching' = FALSE
    /\ CancelAll({t \in Turns : Live(t) /\ rpc = "gone"}, generation, turn)
    /\ UNCHANGED <<accepted, generation, active, rpc, notified, wire, ack, kept,
                   cancels>>

\* The handler returns when every turn is done, or raises what a turn raised.
ChatReturns ==
    /\ reader.pc = "drain"
    /\ \/ \A t \in Turns : ~ Live(t)
       \/ \E t \in Turns : turn[t].task = "failed"
    /\ reader' = [Idle EXCEPT !.pc = "over"]
    /\ UNCHANGED <<accepted, generation, active, turn, stream, rpc, watching,
                   notified, ack, hist, kept, cancels>>

\* _discard_done, the done callback of a turn task.
_discard_done(t) ==
    /\ turn[t].task \in {"done", "failed"}
    /\ turn[t].task = "failed" => reader.pc # "drain"
    /\ turn' = [turn EXCEPT ![t].task = "discarded"]
    /\ active' = IF active[ConvOf[t]] = t /\ ~ Stale(t)
                 THEN [active EXCEPT ![ConvOf[t]] = None] ELSE active
    /\ UNCHANGED <<reader, accepted, generation, stream, rpc, watching,
                   notified, ack, hist, kept, cancels>>

(***************************************************************************)
(* _emit_turn: one event from the generator to the stream                   *)
(***************************************************************************)
Send(t, kind) ==
    /\ lock' = t
    /\ wire' = IF rpc = "open" /\ kind \in {"DONE", "ERROR"}
               THEN [wire EXCEPT ![t] = kind] ELSE wire

\* The generator of t yields `kind' and will continue at `next': the event is
\* dropped if its generation is stale, else it is written under the lock.
Yield(t, r, kind, next) ==
    /\ turn' = [turn EXCEPT ![t] = [r EXCEPT !.pos = next,
                                             !.out = IF Stale(t) THEN None
                                                     ELSE kind]]
    /\ IF ~ Stale(t) /\ lock = "free" THEN Send(t, kind) ELSE UNCHANGED stream

\* write_lock is handed to a waiting turn.
LockAcquired(t) ==
    /\ Live(t) /\ turn[t].out # None /\ lock = "free"
    /\ Send(t, turn[t].out)
    /\ UNCHANGED <<loop, turn, hist, kept>>

\* context.write returns; after the ERROR of a refused admission the task is
\* done, otherwise the generator goes on.
Written(t) ==
    /\ lock = t
    /\ lock' = "free"
    /\ turn' = [turn EXCEPT ![t].out = None,
                            ![t].task = IF turn[t].pos = "denied" THEN "done"
                                        ELSE @]
    /\ UNCHANGED <<loop, wire, hist, kept>>

\* context.write raises on a dead RPC.
WriteRaises(t) ==
    /\ lock = t /\ rpc = "gone"
    /\ lock' = "free"
    /\ turn' = [turn EXCEPT ![t] = Abandon(@, "failed")]
    /\ UNCHANGED <<loop, wire, hist, kept>>

(***************************************************************************)
(* TurnEngine.run                                                           *)
(***************************************************************************)
At(t, p) == Live(t) /\ turn[t].pos = p /\ turn[t].out = None

\* The fixed text of the crisis and refuse paths.
SafeAnswer(t, r) ==
    LET said == [r EXCEPT !.text = 1, !.answer = 1]
    IN IF Presents(t) THEN Yield(t, said, "PRESENTATION", "say")
                      ELSE Yield(t, said, "DELTA", "return")

\* The conversation guard admits the turn.  An ESCALATE verdict makes it
\* private; the input is recorded before anything else, then a cancellation
\* caught meanwhile is raised, then the input guardrail's verdict decides.
Admitted(t) ==
    /\ At(t, "admit")
    /\ LET r == turn[t] IN
       \/ /\ r.late
          /\ \E p \in BOOLEAN :
                LET judged == [r EXCEPT !.private = p] IN
                /\ turn' = [turn EXCEPT ![t] = Interrupted(judged, Stale(t))]
                /\ _remember_turn(t, judged, "cancelled", 0)
          /\ UNCHANGED stream
       \/ /\ ~ r.late
          /\ turn' = [turn EXCEPT ![t].pos = "crisis", ![t].private = TRUE]
          /\ UNCHANGED stream
          /\ _remember_turn(t, [r EXCEPT !.private = TRUE], "active", 0)
       \/ /\ ~ r.late          \* REFUSE
          /\ SafeAnswer(t, r)
          /\ _remember_turn(t, r, "active", 0)
       \/ /\ ~ r.late          \* ALLOW
          /\ IF Remembers(t)
             THEN /\ turn' = [turn EXCEPT ![t].pos = "enqueue"]
                  /\ UNCHANGED stream
             ELSE Yield(t, r, "STATE", "compile")
          /\ _remember_turn(t, r, "active", 0)
    /\ UNCHANGED <<loop, kept>>

\* It refuses it, or fails otherwise: nothing of the turn is recorded.
Denied(t) ==
    /\ At(t, "admit")
    /\ \/ Yield(t, [turn[t] EXCEPT !.task = IF Stale(t) THEN "done" ELSE @],
                "ERROR", "denied")
       \/ /\ turn' = [turn EXCEPT ![t].task = "failed", ![t].pos = "denied"]
          /\ UNCHANGED stream
    /\ UNCHANGED <<loop, hist, kept>>

CrisisHandled(t) ==
    /\ At(t, "crisis")
    /\ Yield(t, [turn[t] EXCEPT !.text = 1, !.answer = 1], "STATE", "present")
    /\ UNCHANGED <<loop, hist, kept>>

CrisisAnswer(t) ==
    /\ At(t, "present") /\ SafeAnswer(t, turn[t])
    /\ UNCHANGED <<loop, hist, kept>>

SafeDelta(t) ==
    /\ At(t, "say") /\ Yield(t, turn[t], "DELTA", "return")
    /\ UNCHANGED <<loop, hist, kept>>

\* _publish_memory_observation: the row is committed, or the failure logged.
ObservationCommits(t) ==
    /\ At(t, "enqueue") /\ t \notin observed
    /\ observed' = observed \cup {t}
    /\ UNCHANGED <<loop, stream, turn, hist, job, row>>

Observed(t) ==
    /\ At(t, "enqueue")
    /\ Yield(t, turn[t], "STATE", "compile")
    /\ UNCHANGED <<loop, hist, kept>>

Compiled(t) ==
    /\ At(t, "compile")
    /\ Yield(t, turn[t], "STATE", "stream")
    /\ UNCHANGED <<loop, hist, kept>>

\* A text chunk of the model; a structured response has none.
StreamDelta(t) ==
    /\ At(t, "stream") /\ turn[t].parts < MaxDeltas /\ ~ Structured(t)
    /\ Yield(t, [turn[t] EXCEPT !.parts = @ + 1], "DELTA", "stream")
    /\ UNCHANGED <<loop, hist, kept>>

StreamToolCalls(t) ==
    /\ At(t, "stream")
    /\ Yield(t, turn[t], "TOOL_CALL", "calls")
    /\ UNCHANGED <<loop, hist, kept>>

\* The tool loop is bounded; past the bound an ERROR event is yielded and the
\* turn goes on to its output.
Dispatch(t) ==
    /\ At(t, "calls")
    /\ IF turn[t].iters >= MaxToolIters
       THEN Yield(t, turn[t], "ERROR", "output")
       ELSE /\ turn' = [turn EXCEPT ![t].iters = @ + 1, ![t].pos = "tools",
                                    ![t].dispatch = "running"]
            /\ UNCHANGED stream
    /\ UNCHANGED <<loop, hist, kept>>

DispatchEnds(t) ==
    /\ turn[t].dispatch = "running"
    /\ turn' = [turn EXCEPT ![t].dispatch = "ended"]
    /\ UNCHANGED <<loop, stream, hist, kept>>

SlowHint(t) ==
    /\ At(t, "tools") /\ turn[t].dispatch = "running"
    /\ ~ turn[t].hinted /\ ~ Structured(t)
    /\ Yield(t, [turn[t] EXCEPT !.hinted = TRUE], "DELTA", "tools")
    /\ UNCHANGED <<loop, hist, kept>>

ToolResults(t) ==
    /\ At(t, "tools") /\ turn[t].dispatch = "ended"
    /\ Yield(t, turn[t], "TOOL_RESULT", "stream")
    /\ UNCHANGED <<loop, hist, kept>>

\* run()'s except clauses other than CancelledError.
Raises(t) ==
    Yield(t, [turn[t] EXCEPT !.status = "errored",
                             !.dispatch = IF @ = "running" THEN "cancelled"
                                          ELSE @], "ERROR", "end")

EngineRaises(t) ==
    /\ \E p \in AwaitPos \ {"admit", "enqueue", "feedback"} : At(t, p)
    /\ Raises(t)
    /\ UNCHANGED <<loop, hist, kept>>

\* The model is done, or the tool loop was cut.  A softened answer announces
\* its prefix, which is not part of the streamed text; a structured response
\* is presented first, and missing or invalid it is an error.
Output(t) ==
    /\ At(t, "stream") \/ At(t, "output")
    /\ LET r == turn[t] IN
       \/ /\ ~ Structured(t)
          /\ turn' = [turn EXCEPT ![t].answer = r.parts, ![t].pos = "finish"]
          /\ UNCHANGED stream
       \/ /\ ~ Structured(t)
          /\ Yield(t, [r EXCEPT !.answer = r.parts + 1], "DELTA", "finish")
       \/ /\ Presents(t) /\ r.pos = "stream"
          /\ Yield(t, [r EXCEPT !.answer = 1], "PRESENTATION", "answer")
       \/ /\ Structured(t) /\ Ephemeral(t) /\ r.pos = "stream"
          /\ turn' = [turn EXCEPT ![t].answer = 1, ![t].pos = "finish"]
          /\ UNCHANGED stream
       \/ /\ Structured(t)
          /\ Raises(t)
    /\ UNCHANGED <<loop, hist, kept>>

\* The public text of a structured response, unless there is none.
Answer(t) ==
    /\ At(t, "answer")
    /\ \/ Yield(t, [turn[t] EXCEPT !.parts = 1], "DELTA", "finish")
       \/ /\ turn' = [turn EXCEPT ![t].pos = "finish"]
          /\ UNCHANGED stream
    /\ UNCHANGED <<loop, hist, kept>>

\* The history record is finished before DONE is yielded.
Finish(t) ==
    /\ At(t, "finish") \/ At(t, "return")
    /\ LET r == turn[t] IN
       /\ Yield(t, [r EXCEPT !.text = r.answer, !.final = TRUE], "DONE",
                IF r.pos = "finish" /\ Presents(t) THEN "feedback"
                ELSE "end")
       /\ _remember_turn(t, r, "ok", r.answer)
    /\ UNCHANGED <<loop, kept>>

\* The presentation receipt arrives or its wait times out.
FeedbackEnds(t) ==
    /\ At(t, "feedback")
    /\ turn' = [turn EXCEPT ![t].pos = "end"]
    /\ UNCHANGED <<loop, stream, hist, kept>>

\* Mutant: the finally block leaves an unfinished history record as it is.
MutNoFinalRecord(t, task) ==
    LET r == turn[t] IN
    /\ UNCHANGED hist
    /\ job' = IF Ephemeral(t) THEN job
              ELSE [job EXCEPT ![t] =
                      Record(r, r.status, IF Remembers(t) THEN r.text ELSE 0)]
    /\ turn' = [turn EXCEPT ![t] = [Unstarted EXCEPT
                   !.mode = r.mode, !.task = task, !.pos = "closed",
                   !.gen = r.gen, !.played = r.played]]

\* The finally blocks of run() and of its tool dispatch, which is cancelled if
\* it is still running; the generator's locals are gone.
Finally(t, task) ==
    LET r == turn[t] IN
    /\ IF r.final THEN UNCHANGED hist ELSE _remember_turn(t, r, r.status, r.text)
    /\ job' = IF Ephemeral(t) THEN job
              ELSE [job EXCEPT ![t] =
                      Record(r, r.status, IF Remembers(t) THEN r.text ELSE 0)]
    /\ turn' = [turn EXCEPT ![t] = [Unstarted EXCEPT
                   !.mode = r.mode, !.task = task, !.pos = "closed",
                   !.gen = r.gen, !.played = r.played]]

EngineEnds(t) ==
    /\ At(t, "end") \/ At(t, "raise")
    /\ Finally(t, "done")
    /\ UNCHANGED <<loop, stream, observed, row>>

\* Mutant: only a live task closes its generator.
MutCloseIfLive(t) ==
    /\ turn[t].pos = "abandoned" /\ Live(t)
    /\ Finally(t, turn[t].task)
    /\ UNCHANGED <<loop, stream, observed, row>>

\* The event loop closes an abandoned generator.
GeneratorClosed(t) ==
    /\ turn[t].pos = "abandoned"
    /\ Finally(t, turn[t].task)
    /\ UNCHANGED <<loop, stream, observed, row>>

\* _persist_turn in the background; a failure is logged and swallowed.
Persist(t) ==
    /\ job[t] # None
    /\ job' = [job EXCEPT ![t] = None]
    /\ \/ row' = [row EXCEPT ![t] = job[t]]
       \/ UNCHANGED row
    /\ UNCHANGED <<loop, stream, turn, hist, observed>>

-----------------------------------------------------------------------------
Init ==
    /\ reader = Idle
    /\ accepted = {}
    /\ generation = [c \in Convs |-> 0]
    /\ active = [c \in Convs |-> None]
    /\ turn = [t \in Turns |-> Unstarted]
    /\ lock = "free" /\ rpc = "open" /\ watching = TRUE /\ notified = FALSE
    /\ wire = [t \in Turns |-> "none"]
    /\ ack = [t \in Turns |-> "none"]
    /\ hist = [t \in Turns |-> None]
    /\ observed = {}
    /\ job = [t \in Turns |-> None]
    /\ row = [t \in Turns |-> None]
    /\ cancels = 0

Reader ==
    \/ \E t \in Turns, k \in (0 .. MaxDeltas) \cup {None} : ReadCancel(t, k)
    \/ \E t \in Turns : ReadStart(t)
    \/ CancelLanded \/ WriteAck \/ AckWritten \/ StartTurn \/ StartRefused
    \/ HandlerCancelled \/ RequestsEnd \/ ChatReturns

Engine(t) ==
    \/ Admitted(t) \/ Denied(t) \/ CrisisHandled(t) \/ CrisisAnswer(t)
    \/ SafeDelta(t) \/ ObservationCommits(t) \/ Observed(t) \/ Compiled(t)
    \/ StreamDelta(t) \/ StreamToolCalls(t) \/ Dispatch(t) \/ SlowHint(t)
    \/ ToolResults(t) \/ EngineRaises(t) \/ Output(t) \/ Answer(t) \/ Finish(t)
    \/ FeedbackEnds(t) \/ EngineEnds(t)

Emitter(t) == LockAcquired(t) \/ Written(t) \/ WriteRaises(t)

Loop(t) == _discard_done(t) \/ GeneratorClosed(t) \/ Persist(t) \/ DispatchEnds(t)

Environment ==
    ClientGone \/ WatcherFires \/ \E t \in Turns : DrainCancelled(t)

Next == \/ Reader \/ Environment
        \/ \E t \in Turns : Engine(t) \/ Emitter(t) \/ Loop(t)

Spec == Init /\ [][Next]_vars


(***************************************************************************)
(* Fairness: the event loop runs every task that can run, the calls it      *)
(* waits for return (each has a timeout), a model stream is finite, and a   *)
(* write ends because the client reads or the RPC fails.  Otherwise the     *)
(* client owes nothing: it need not send a frame or close the stream.       *)
(***************************************************************************)
Progress(t) ==
    Engine(t) \/ Emitter(t) \/ _discard_done(t) \/ GeneratorClosed(t)

FairSpec ==
    /\ Spec
    /\ WF_vars(CancelLanded \/ WriteAck \/ AckWritten \/ StartTurn
               \/ HandlerCancelled \/ ChatReturns)
    /\ \A t \in Turns : WF_vars(Progress(t)) /\ WF_vars(DispatchEnds(t))

(***************************************************************************)
(* Properties                                                               *)
(***************************************************************************)
TurnType ==
    [mode : AllModes, task : {"none", "live", "done", "failed", "discarded"},
     pos : AwaitPos \cup OtherPos, out : Kinds \cup {None}, gen : Nat,
     late : BOOLEAN, status : {"ok", "cancelled", "errored"}, parts : Nat,
     answer : Nat, text : Nat, final : BOOLEAN, private : BOOLEAN,
     played : Nat \cup {None}, iters : Nat, hinted : BOOLEAN,
     dispatch : {"none", "running", "ended", "cancelled"}]

\* Every variable has its type.
TypeOK ==
    /\ reader \in [pc : {"read", "cancelling", "ack", "acking", "starting",
                         "drain", "over"}, turn : Turns \cup {None},
                   gen : Nat, landed : BOOLEAN]
    /\ accepted \subseteq Turns /\ generation \in [Convs -> Nat]
    /\ active \in [Convs -> Turns \cup {None}]
    /\ turn \in [Turns -> TurnType]
    /\ rpc \in {"open", "gone"} /\ watching \in BOOLEAN /\ notified \in BOOLEAN
    /\ wire \in [Turns -> {"none", "DONE", "ERROR"}]
    /\ ack \in [Turns -> {"none", "landed", "already_done"}]
    /\ hist \in [Turns -> RecordType \cup {None}]
    /\ observed \subseteq Turns
    /\ job \in [Turns -> RecordType \cup {None}]
    /\ row \in [Turns -> RecordType \cup {None}]
    /\ lock \in Turns \cup {"free", "reader"}
    /\ cancels \in 0 .. MaxCancels

\* One conversation has at most one turn that is still running, whatever the
\* client interleaves: a start waits for the turn it displaces.  And the write
\* lock is with somebody who will release it: the reader while it acknowledges,
\* a running turn while one of its events is out.
OneSpeaker ==
    /\ \A t, u \in Turns : t # u /\ ConvOf[t] = ConvOf[u] => ~ (Live(t) /\ Live(u))
    /\ \/ lock = "free"
       \/ lock = "reader" /\ reader.pc = "acking"
       \/ lock \in Turns /\ Live(lock) /\ turn[lock].out # None

\* No event of a turn is written after the turn was cancelled or displaced:
\* the generation is checked before the write lock is awaited, not after it.
Writes(t) == lock # t /\ lock' = t
NoStaleEvent == [][\A t \in Turns : Writes(t) => ~ Stale(t)]_vars

\* A turn ends cleanly: nothing follows its DONE on the wire, even when a cancel
\* lands while the engine waits for the presentation receipt, and its tool
\* dispatch, a task of its own, runs only while the engine waits for it or its
\* abandoned generator is about to be closed.
EndIsClean ==
    [][\A t \in Turns :
          /\ rpc = "open" /\ Writes(t) => wire[t] # "DONE"
          /\ turn'[t].dispatch = "running" => turn'[t].pos \in {"tools", "abandoned"}]_vars

\* What the next turn reads in the history window and what the turn table
\* says agree on every finished turn, however it ended: cancelled at any
\* await, failed, abandoned at a write.
HistoryMatchesRow ==
    \A t \in Turns : Remembers(t) =>
        /\ turn[t].pos = "closed" => hist[t] # None /\ hist[t].status # "active"
        /\ job[t] # None => job[t] = hist[t]
        /\ row[t] # None => row[t] = hist[t]

\* Admitted input is in the history from then on, also when the turn was
\* cancelled before the guard had answered; a refused, speculative or
\* uncommitted turn leaves no text in history, turn table or memory outbox.
InputIsKept ==
    \A t \in Turns :
        LET refused == turn[t].pos \in {"none", "admit", "denied"} IN
        /\ Remembers(t) /\ ~ refused => hist[t] # None
        /\ refused \/ ~ Remembers(t) => hist[t] = None /\ t \notin observed
        /\ refused \/ Ephemeral(t) => job[t] = None /\ row[t] = None
        /\ row[t] # None /\ ~ Remembers(t) => row[t].text = 0

\* Every accepted turn is finished: its task ends and its generator is closed,
\* wherever a cancellation or a disconnect met it; and a cancel frame is
\* answered, or the RPC is over.
TurnEnds ==
    \A t \in Turns :
        /\ t \in accepted ~> /\ ~ Live(t) /\ turn[t].pos \in {"closed", "denied"}
        /\ reader.pc \in {"cancelling", "ack"} /\ reader.turn = t
              ~> ack[t] # "none" \/ rpc = "gone"

(***************************************************************************)
(* What comments say and the code does not do                               *)
(***************************************************************************)
\* domain/agent/turn.py: history and chat_messages never record words that
\* were cut off before playback.
OnlyHeardIsRecorded ==
    \A t \in Turns :
        ack[t] = "landed" /\ turn[t].played # None /\ row[t] # None
            => row[t].text <= turn[t].played

=============================================================================
