---------------------------- MODULE ToolExchange ----------------------------
(***************************************************************************)
(* The tool calls of one turn: the tool loop of TurnEngine.run, the          *)
(* ToolDispatcher it hands each batch to, and the two rendezvous with the    *)
(* device that sit behind the tools, ChannelToolExchange (music) and         *)
(* MotionExchange (head).  A turn id may be run again on a later Chat RPC:   *)
(* the exchanges are new, the idempotency bucket is the old one.             *)
(*                                                                          *)
(* A step runs from one await to the next.  wait_for delivers CancelledError *)
(* at the await its coroutine is parked on; that loses the race against a    *)
(* result only if the coroutine has already resumed.                         *)
(*                                                                          *)
(* A request to the device is the call itself.  The outcome of a call is     *)
(* whether it is ok and the request the device answered (from); error codes  *)
(* and contents are left out.                                                *)
(***************************************************************************)
EXTENDS Naturals, Sequences

CONSTANTS
    Tools,          \* tool name -> its ToolSchema and where invoke() goes
    Batches,        \* the sequences of calls the model may ask for
    Arguments,      \* call arguments
    MaxCalls,       \* bound: calls in a batch
    MaxIters,       \* max_tool_iters
    MaxRepeatIters, \* bound: tool rounds in a repeated run
    MaxRuns,        \* bound: times this turn id is run
    BatchLimited,   \* whether tool_batch_timeout_s is set
    RequireIdempotency, \* require_idempotency_for_side_effect_tools
    StrictSchemas,  \* tool_schema_strict; otherwise arguments that the schema
                    \* does not admit are logged and the tool is called
    None,
    Lost            \* a future that was cancelled

Exchanges == {"channel", "motion"}
\* known: resolves (not denied, in the overlay or the registry); permitted:
\* the dispatcher holds its permissions; effect: side_effect; keyed: has an
\* idempotency_key_template; args: what its json_schema admits; patient: its
\* timeout_s is longer than the exchange's own.
ToolType ==
    [known : BOOLEAN, permitted : BOOLEAN, effect : BOOLEAN, keyed : BOOLEAN,
     args : SUBSET Arguments, via : Exchanges, patient : BOOLEAN]

Tool(effect, keyed, args, via, patient) ==
    [known |-> TRUE, permitted |-> TRUE, effect |-> effect, keyed |-> keyed,
     args |-> args, via |-> via, patient |-> patient]
\* The time limits of the music tools (5 to 60 s) are below the 65 s of the
\* exchange, that of the head (12 s) is above its 10 s.
build_channel_music_tools ==
    [search |-> Tool(FALSE, FALSE, {"query"}, "channel", FALSE),
     play   |-> Tool(TRUE, TRUE, {"song"}, "channel", FALSE),
     stop   |-> Tool(TRUE, TRUE, {"ref"}, "channel", FALSE),
     status |-> Tool(FALSE, FALSE, {"none"}, "channel", FALSE)]
StackChanHeadTool == Tool(TRUE, FALSE, {"nod"}, "motion", TRUE)

Calls == UNION {{b[i] : i \in DOMAIN b} : b \in Batches}

ASSUME ToolsAssumption ==
    /\ Tools \in [DOMAIN Tools -> ToolType]
    /\ \A b \in Batches : b \in Seq(Calls) /\ Len(b) \in 1..MaxCalls
    /\ \A c \in Calls : c.name \in DOMAIN Tools /\ c.args \in Arguments
    /\ MaxCalls \in Nat /\ MaxIters \in Nat /\ MaxRuns \in Nat \ {0}
    /\ MaxRepeatIters \in 0..MaxIters
    /\ {BatchLimited, RequireIdempotency, StrictSchemas} \subseteq BOOLEAN
    /\ None \notin Calls /\ None \notin Nat /\ None # Lost

\* What the tools of the code and the ids of the model API add.
\* An id names one call of a batch: _merge_tool_results relies on it, the
\* model API promises it.
ASSUME IdsAssumption ==
    \A b \in Batches : \A i, j \in DOMAIN b : b[i].id = b[j].id => b[i] = b[j]
\* build_channel_music_tools gives a template to its side effects only, and no
\* argument object is valid for two of them (play requires song_id, stop has
\* additionalProperties False); StackChanHeadTool is the only motion and has
\* no template.
ASSUME KeyedAssumption ==
    \A m, n \in DOMAIN Tools :
        /\ Tools[m].keyed => Tools[m].effect /\ Tools[m].via = "channel"
        /\ Tools[m].keyed /\ Tools[n].keyed /\ m # n =>
              Tools[m].args \cap Tools[n].args = {}
        /\ Tools[m].via = "motion" /\ Tools[n].via = "motion" => m = n

VARIABLES
    pc,         \* the engine: "model", "dispatch", "expiring" (the batch
                \* timed out), "cancelling", "ended"
    iters,      \* tool_iters
    runs,       \* times the turn id was run
    calls,      \* tool_calls of the batch at hand
    next,       \* position of the loop in _dispatch_batch_inner
    job,        \* position -> where _dispatch_one is for that call
    failed,     \* tools with a tool_failure_counts entry
    pending,    \* exchange and call id -> position that owns the future
    completed,  \* exchange and call id -> request and outcome kept
    kv,         \* the bucket: arguments -> outcome (the turn id is fixed)
    asked,      \* requests the device has received
    told        \* calls reported to the model as ok, with their origin

vars == <<pc, iters, runs, calls, next, job, failed, pending, completed, kv,
          asked, told>>
engine == <<pc, iters, runs, failed, told>>
batch == <<calls, next>>

(***************************************************************************)
(* Calls, outcomes and jobs                                                 *)
(***************************************************************************)
Schema(c) == Tools[c.name]
Key(c) == <<Schema(c).via, c.id>>
Keys == {Key(c) : c \in Calls}
Empty == [k \in Keys |-> None]

Fail == [ok |-> FALSE, from |-> None]
Outcomes == [ok : BOOLEAN, from : Calls \union {None}]
ASSUME NoneAssumption == None \notin Outcomes
\* fut: the future this call created; on: the position whose future it shares;
\* why: what to do once the cancel frame is out.
Idle == [st |-> "waiting", fut |-> None, on |-> 0, why |-> "none",
         res |-> Fail]
Active == {"start", "get", "send", "wait", "join", "retract", "put"}
JobType ==
    [st : Active \union {"waiting", "suppressed", "batched", "done",
                         "cancelled"},
     fut : Outcomes \union {None, Lost}, on : 0..MaxCalls,
     why : {"none", "timeout", "late", "cancel"}, res : Outcomes]

Positions == DOMAIN job
At(i, st) == i \in Positions /\ job[i].st = st
Batched == {i \in Positions : At(i, "batched")}
Busy == \E i \in Positions : job[i].st \in Active

\* _request_digest leaves the call id out.
Same(c, d) == c.name = d.name /\ c.args = d.args

\* finally: self._pending.pop(key, None)
Popped(i) == [pending EXCEPT ![Key(calls[i])] = None]
\* _dispatch_one returns r without touching the bucket again.
Done(i, r) == job' = [job EXCEPT ![i].st = "done", ![i].res = r]
\* Mutant: the outcome is not stored in the bucket.
MutSettle(i, r) == Done(i, r)
\* invoke() returned r: an ok outcome of a keyed tool is stored first.
Settle(i, r) ==
    job' = [job EXCEPT ![i].res = r,
                       ![i].st = IF Schema(calls[i]).keyed /\ r.ok
                                 THEN "put" ELSE "done"]

(***************************************************************************)
(* The engine's tool loop                                                   *)
(***************************************************************************)
\* Calls of a tool that already failed in this turn are not dispatched.
RequestTools(b) ==
    /\ pc = "model"
    /\ iters < IF runs = 1 THEN MaxIters ELSE MaxRepeatIters
    /\ calls' = b /\ next' = 1
    /\ job' = [i \in 1..Len(b) |->
                 IF b[i].name \in failed
                 THEN [Idle EXCEPT !.st = "suppressed"] ELSE Idle]
    /\ pc' = "dispatch" /\ iters' = iters + 1
    /\ UNCHANGED <<runs, failed, pending, completed, kv, asked, told>>

\* _merge_tool_results: by_call_id keeps the last result of an id, and the
\* suppressed ones come after the dispatched ones.
LastOf(id) ==
    LET same == {j \in Positions : calls[j].id = id}
        late == {j \in same : At(j, "suppressed")}
        pool == IF late = {} THEN same ELSE late
    IN CHOOSE j \in pool : \A l \in pool : l <= j
\* Feed the results back to the model and count the failures per tool.
Report(out) ==
    LET merged == [i \in Positions |-> LastOf(calls[i].id)]
        last(n) == {i \in Positions : /\ calls[merged[i]].name = n
                                      /\ \A j \in Positions :
                                           j > i => calls[merged[j]].name # n}
    IN /\ told' = told \union
             {<<calls[i], out[merged[i]].from>> :
                i \in {i \in Positions : out[merged[i]].ok}}
       /\ failed' = {n \in DOMAIN Tools :
                       IF last(n) = {} THEN n \in failed
                       ELSE \E i \in last(n) : ~out[merged[i]].ok}
       /\ pc' = "model" /\ calls' = <<>> /\ job' = <<>> /\ next' = 1
       /\ UNCHANGED <<iters, runs, pending, completed, kv, asked>>

\* dispatch_batch returned.
Return ==
    /\ pc = "dispatch" /\ ~Busy /\ Batched = {} /\ next > Len(calls)
    /\ Report([i \in Positions |-> job[i].res])

\* The model answers in words, or max_tool_iters is reached.
EndTurn ==
    /\ pc = "model"
    /\ pc' = "ended"
    /\ UNCHANGED <<iters, runs, calls, next, job, failed, pending, completed,
                   kv, asked, told>>

\* The client starts the same turn id on a new RPC.
RunAgain ==
    /\ pc = "ended" /\ runs < MaxRuns
    /\ pc' = "model" /\ iters' = 0 /\ runs' = runs + 1 /\ failed' = {}
    /\ calls' = <<>> /\ job' = <<>> /\ next' = 1
    /\ pending' = Empty /\ completed' = Empty
    /\ UNCHANGED <<kv, asked, told>>

(***************************************************************************)
(* ToolDispatcher._dispatch_batch_inner                                     *)
(***************************************************************************)
\* Mutant: a side effect is gathered with the reads before it.
MutSerial(c) == ~Schema(c).known
\* A call the loop awaits by itself: a side effect, or a name that does not
\* resolve.
Serial(c) == ~Schema(c).known \/ Schema(c).effect

LoopAt(i) == pc = "dispatch" /\ ~Busy /\ next = i /\ i \in Positions

\* readonly.append, or a suppressed call, which is not in the loop's list.
Collect ==
    /\ LoopAt(next)
    /\ \/ At(next, "suppressed") /\ job' = job
       \/ /\ At(next, "waiting") /\ ~Serial(calls[next])
          /\ job' = [job EXCEPT ![next].st = "batched"]
    /\ next' = next + 1
    /\ UNCHANGED <<engine, calls, pending, completed, kv, asked>>

\* flush_readonly: gather starts every collected call.
Flush ==
    /\ pc = "dispatch" /\ ~Busy /\ Batched # {}
    /\ next > Len(calls) \/ (At(next, "waiting") /\ Serial(calls[next]))
    /\ job' = [i \in Positions |->
                 IF i \in Batched THEN [job[i] EXCEPT !.st = "start"]
                 ELSE job[i]]
    /\ UNCHANGED <<engine, batch, pending, completed, kv, asked>>

RunAlone ==
    /\ LoopAt(next) /\ Batched = {}
    /\ At(next, "waiting") /\ Serial(calls[next])
    /\ job' = [job EXCEPT ![next].st = "start"]
    /\ next' = next + 1
    /\ UNCHANGED <<engine, calls, pending, completed, kv, asked>>

(***************************************************************************)
(* The exchanges: execute() up to its first await                           *)
(***************************************************************************)
\* The id was answered before: the channel exchange compares the digests, the
\* motion exchange returns the receipt it has.
Replayed(i) ==
    LET c == calls[i]
        hit == completed[Key(c)]
    IN /\ hit # None
       /\ Settle(i, IF Schema(c).via = "motion" \/ Same(hit.req, c)
                    THEN hit.res ELSE Fail)
       /\ UNCHANGED pending

\* The id is in flight: share the future, or fail (CHANNEL_TOOL_CALL_REPLAY,
\* BUSY).
Joined(i) ==
    LET c == calls[i]
        own == pending[Key(c)]
    IN /\ completed[Key(c)] = None /\ own # None
       /\ IF Schema(c).via = "channel" /\ Same(calls[own], c)
          THEN job' = [job EXCEPT ![i].st = "join", ![i].on = own]
          ELSE Settle(i, Fail)
       /\ UNCHANGED pending

Opened(i) ==
    LET k == Key(calls[i])
    IN /\ completed[k] = None /\ pending[k] = None
       /\ pending' = [pending EXCEPT ![k] = i]
       /\ job' = [job EXCEPT ![i].st = "send"]

Execute(i) == Replayed(i) \/ Joined(i) \/ Opened(i)

(***************************************************************************)
(* ToolDispatcher._dispatch_one and _invoke_one                             *)
(***************************************************************************)
\* tool_not_found, a missing permission, invalid arguments (unless in the
\* compatibility mode), or a side effect without idempotency where it is required.
Refused(c) ==
    LET s == Schema(c)
    IN \/ ~s.known
       \/ ~s.permitted
       \/ StrictSchemas /\ c.args \notin s.args
       \/ RequireIdempotency /\ s.effect /\ ~s.keyed

Start(i) ==
    /\ At(i, "start")
    /\ \/ Refused(calls[i]) /\ Done(i, Fail) /\ UNCHANGED pending
       \/ /\ ~Refused(calls[i]) /\ Schema(calls[i]).keyed
          /\ job' = [job EXCEPT ![i].st = "get"] /\ UNCHANGED pending
       \/ ~Refused(calls[i]) /\ ~Schema(calls[i]).keyed /\ Execute(i)
    /\ UNCHANGED <<engine, batch, completed, kv, asked>>

\* The bucket may also be out of reach.
Lookup(i) ==
    LET cached == kv[calls[i].args]
    IN /\ At(i, "get")
       /\ \/ cached # None /\ Done(i, cached) /\ UNCHANGED pending
          \/ Done(i, Fail) /\ UNCHANGED pending
          \/ cached = None /\ Execute(i)
       /\ UNCHANGED <<engine, batch, completed, kv, asked>>

Store(i) ==
    /\ At(i, "put")
    /\ \/ /\ kv' = [kv EXCEPT ![calls[i].args] = job[i].res]
          /\ Done(i, job[i].res)
       \/ Done(i, Fail) /\ UNCHANGED kv
    /\ UNCHANGED <<engine, batch, pending, completed, asked>>

(***************************************************************************)
(* The exchanges: send, answer, timeout, retraction                         *)
(***************************************************************************)
Send(i) ==
    /\ At(i, "send")
    /\ asked' = asked \union {calls[i]}
    /\ job' = [job EXCEPT ![i].st = "wait"]
    /\ UNCHANGED <<engine, batch, pending, completed, kv>>

\* The write raises: the RPC is gone.
SendFails(i) ==
    /\ At(i, "send")
    /\ pending' = Popped(i)
    /\ Done(i, Fail)
    /\ UNCHANGED <<engine, batch, completed, kv, asked>>

\* Mutant: the tool name of the answer is not compared.
MutAccept(q, ok) ==
    LET own == pending[Key(q)]
    IN /\ q \in asked /\ own # None /\ job[own].fut = None
       /\ job' = [job EXCEPT ![own].fut = [ok |-> ok, from |-> q]]
       /\ UNCHANGED <<engine, batch, pending, completed, kv, asked>>
\* accept(): the device answers a request it received, at any time after it
\* and any number of times; what nobody waits for changes nothing.
Accept(q, ok) ==
    LET own == pending[Key(q)]
    IN /\ q \in asked /\ own # None
       /\ job[own].fut = None /\ calls[own].name = q.name
       /\ job' = [job EXCEPT ![own].fut = [ok |-> ok, from |-> q]]
       /\ UNCHANGED <<engine, batch, pending, completed, kv, asked>>

Receive(i) ==
    /\ At(i, "wait") /\ job[i].fut \notin {None, Lost}
    /\ completed' = [completed EXCEPT ![Key(calls[i])] =
                       [req |-> calls[i], res |-> job[i].fut]]
    /\ pending' = Popped(i)
    /\ Settle(i, job[i].fut)
    /\ UNCHANGED <<engine, batch, kv, asked>>

\* What CancelledError does to a call, w saying who raised it: a future that
\* is being awaited is cancelled with its owner; the channel exchange then
\* writes a cancel frame, the motion exchange does not.
Struck(i, w) ==
    LET j == job[i]
    IN IF j.st \in {"send", "wait"} /\ Schema(calls[i]).via = "channel"
       THEN [j EXCEPT !.st = "retract", !.why = w,
                      !.fut = IF j.st = "wait" /\ @ = None
                              THEN Lost ELSE @]
       ELSE IF j.st \in Active
       THEN [j EXCEPT !.st = IF w = "cancel" THEN "cancelled" ELSE "done",
                      !.res = Fail]
       ELSE j
\* A write that is cut short may still have reached the device.
MaybeSent(S) ==
    \E T \in SUBSET {calls[i] : i \in {i \in S : At(i, "send")}} :
        asked' = asked \union T

\* Mutant: a call that shares a future has no time limit.
MutToolTimesOut(i) ==
    /\ i \in Positions /\ job[i].st \in {"send", "wait"}
    /\ MaybeSent({i})
    /\ job' = [job EXCEPT ![i] = Struck(i, "timeout")]
    /\ pending' = IF job'[i].st = "done" THEN Popped(i) ELSE pending
    /\ UNCHANGED <<engine, batch, completed, kv>>
\* wait_for(tool.invoke(...), timeout_s) in _invoke_one.
ToolTimesOut(i) ==
    /\ i \in Positions /\ job[i].st \in {"send", "wait", "join"}
    /\ MaybeSent({i})
    /\ job' = [job EXCEPT ![i] = Struck(i, "timeout")]
    /\ pending' = IF job'[i].st = "done" /\ ~At(i, "join")
                  THEN Popped(i) ELSE pending
    /\ UNCHANGED <<engine, batch, completed, kv>>

\* The exchange's own limit; the outcome is kept as the answer to this id.
ExchangeTimesOut(i) ==
    /\ At(i, "wait") /\ Schema(calls[i]).patient
    /\ IF Schema(calls[i]).via = "channel"
       THEN /\ job' = [job EXCEPT ![i] = Struck(i, "late")]
            /\ UNCHANGED <<pending, completed>>
       ELSE /\ completed' = [completed EXCEPT ![Key(calls[i])] =
                               [req |-> calls[i], res |-> Fail]]
            /\ pending' = Popped(i)
            /\ Settle(i, Fail)
    /\ UNCHANGED <<engine, batch, kv, asked>>

\* _cancel_safely is over, whether or not the frame got through.
Retract(i) ==
    /\ At(i, "retract")
    /\ pending' = Popped(i)
    /\ completed' = IF job[i].why = "late"
                    THEN [completed EXCEPT ![Key(calls[i])] =
                            [req |-> calls[i], res |-> Fail]]
                    ELSE completed
    /\ job' = [job EXCEPT ![i].st = IF job[i].why = "cancel"
                                    THEN "cancelled" ELSE "done",
                          ![i].res = Fail]
    /\ UNCHANGED <<engine, batch, kv, asked>>

\* A call that shares a future sees its result.
Share(i) ==
    LET f == job[job[i].on].fut
    IN /\ At(i, "join") /\ f \notin {None, Lost}
       /\ Settle(i, f)
       /\ UNCHANGED <<engine, batch, pending, completed, kv, asked>>

\* It was cancelled with its owner: CancelledError leaves gather, and the turn
\* ends as if it had been cancelled, while the other reads go on.
ShareIsCancelled(i) ==
    /\ At(i, "join") /\ job[job[i].on].fut = Lost
    /\ job' = [job EXCEPT ![i].st = "cancelled"]
    /\ pc' = "cancelling"
    /\ UNCHANGED <<iters, runs, failed, told, batch, pending, completed, kv,
                   asked>>

(***************************************************************************)
(* Cancellation of a whole batch                                            *)
(***************************************************************************)
\* Mutant: a call that waits for the bucket swallows the cancellation.
MutStrikeAll ==
    /\ job' = [i \in Positions |->
                 IF At(i, "get") THEN job[i] ELSE Struck(i, "cancel")]
    /\ pending' = [k \in Keys |->
                     IF pending[k] # None
                        /\ job'[pending[k]].st = "cancelled"
                     THEN None ELSE pending[k]]
    /\ UNCHANGED <<kv, asked, iters, runs, failed, told, batch, completed>>
\* Every call in flight is struck and the results so far are dropped; a put
\* under way may have been stored.
StrikeAll ==
    /\ job' = [i \in Positions |-> [Struck(i, "cancel") EXCEPT !.res = Fail]]
    /\ pending' = [k \in Keys |->
                     IF pending[k] # None
                        /\ job'[pending[k]].st = "cancelled"
                     THEN None ELSE pending[k]]
    /\ MaybeSent(Positions)
    /\ \/ kv' = kv
       \/ \E i \in Positions :
             /\ At(i, "put")
             /\ kv' = [kv EXCEPT ![calls[i].args] = job[i].res]
    /\ UNCHANGED <<iters, runs, failed, told, batch, completed>>

\* The turn is cancelled while the batch runs: dispatch_task.cancel().
CancelTurn ==
    /\ pc \in {"dispatch", "expiring"}
    /\ pc' = "cancelling"
    /\ StrikeAll

\* tool_batch_timeout_s.
BatchTimesOut ==
    /\ BatchLimited /\ pc = "dispatch" /\ Busy
    /\ pc' = "expiring"
    /\ StrikeAll

\* Every call of a batch that timed out is reported as timed out.
Expire ==
    /\ pc = "expiring" /\ ~Busy
    /\ Report([i \in Positions |-> Fail])

Wind ==
    /\ pc = "cancelling" /\ ~Busy
    /\ pc' = "ended" /\ calls' = <<>> /\ job' = <<>> /\ next' = 1
    /\ UNCHANGED <<iters, runs, failed, pending, completed, kv, asked, told>>

(***************************************************************************)
(* Specification                                                            *)
(***************************************************************************)
Init ==
    /\ pc = "model" /\ iters = 0 /\ runs = 1
    /\ calls = <<>> /\ next = 1 /\ job = <<>> /\ failed = {}
    /\ pending = Empty /\ completed = Empty
    /\ kv = [a \in Arguments |-> None]
    /\ asked = {} /\ told = {}

Loop == Collect \/ Flush \/ RunAlone \/ Return \/ Expire \/ Wind
\* What a call does by itself, and what its timers do.
CallStep(i) ==
    \/ Start(i) \/ Lookup(i) \/ Store(i)
    \/ Send(i) \/ SendFails(i) \/ Receive(i) \/ Retract(i)
    \/ Share(i) \/ ShareIsCancelled(i)
    \/ ToolTimesOut(i)

Next ==
    \/ \E b \in Batches : RequestTools(b)
    \/ EndTurn \/ RunAgain \/ CancelTurn \/ BatchTimesOut
    \/ Loop
    \/ \E i \in Positions : CallStep(i) \/ ExchangeTimesOut(i)
    \/ \E q \in asked, ok \in BOOLEAN : Accept(q, ok)

Spec == Init /\ [][Next]_vars

\* The event loop runs what is ready, and timers fire; nothing is assumed of
\* the device, the model or the client.
Fairness ==
    /\ WF_vars(Loop)
    /\ \A i \in 1..MaxCalls : WF_vars(i \in Positions /\ CallStep(i))
FairSpec == Spec /\ Fairness

(***************************************************************************)
(* Properties                                                               *)
(***************************************************************************)
\* Type invariant of the loop, the calls in flight, the tables of the exchanges,
\* the key-value store and the device.
TypeOK ==
    /\ pc \in {"model", "dispatch", "expiring", "cancelling", "ended"}
    /\ iters \in 0..MaxIters /\ runs \in 0..MaxRuns
    /\ calls \in Batches \union {<<>>} /\ next \in 1..(MaxCalls + 1)
    /\ DOMAIN job = 1..Len(calls)
    /\ \A i \in Positions : job[i] \in JobType
    /\ failed \subseteq DOMAIN Tools
    /\ pending \in [Keys -> 1..MaxCalls \union {None}]
    /\ completed \in
          [Keys -> [req : Calls, res : Outcomes] \union {None}]
    /\ kv \in [Arguments -> Outcomes \union {None}]
    /\ asked \subseteq Calls
    /\ told \subseteq Calls \X (Calls \union {None})

\* "Look at state then change state": while a side effect is under way every
\* earlier call of the batch has its result, and no later one has begun; a
\* timeout does not let the next call start before the retraction is out.
SideEffectsAlone ==
    \A i \in Positions :
        Schema(calls[i]).known /\ Schema(calls[i]).effect
            /\ job[i].st \in Active =>
        \A j \in Positions :
            /\ j < i => job[j].st \in {"done", "suppressed"}
            /\ j > i => job[j].st \in {"waiting", "suppressed"}

\* Once the model has been told that an idempotent side effect succeeded, the
\* device is not asked for it again in this turn, not even when the turn is
\* run again on another RPC.
AckedNotRepeated ==
    \A i \in Positions :
        At(i, "send") /\ Schema(calls[i]).keyed =>
            \A t \in told : ~Same(t[1], calls[i])

\* What the model is told to be done is what the device answered for this very
\* tool and arguments.  The exceptions go back to an id that the model used
\* again for the same tool: the answer to its first use, which came after that
\* request had timed out, and the repetition of that answer from the bucket.
TruthfulResult ==
    \A t \in told :
        /\ t[2] \in asked /\ t[2].name = t[1].name
        /\ \/ t[2].id = t[1].id
           \/ \E c \in asked : Same(c, t[1]) /\ c.id = t[2].id

\* No side effect proceeds towards the device once its turn is cancelled.
NoActionAfterCancel ==
    pc \in {"cancelling", "ended"} =>
        \A i \in Positions :
            Schema(calls[i]).effect =>
                job[i].st \notin {"start", "get", "send", "wait", "put"}

\* A batch of tool calls always ends, even if the device never answers and
\* the batch has no time limit of its own.
BatchEnds == pc \in {"dispatch", "expiring", "cancelling"}
                 ~> pc \in {"model", "ended"}

=============================================================================
