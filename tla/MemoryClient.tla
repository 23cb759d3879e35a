---------------------------- MODULE MemoryClient ----------------------------
(***************************************************************************)
(* Reading from the external memory service.  Discovery replaces the route *)
(* of a memory space while turns read; McpClientPool caches one pool of    *)
(* reader transports per space and replaces it when the route changes or a *)
(* transport fails; McpReadSessionPool hands requests to worker tasks that *)
(* own one transport each; EidolonMemoryPort retries a failed read once.   *)
(*                                                                         *)
(* One memory space; a route's token is part of its url.  A read is one    *)
(* recall or one commitments read: the two differ in what they check of an *)
(* answer, not in what they do to the pools.  Closing a pool and failing   *)
(* its requests is one step: the code does not await in between.           *)
(***************************************************************************)
EXTENDS Integers, Sequences, FiniteSets

CONSTANTS
    Reads,        \* concurrent memory reads
    Urls,         \* endpoints discovery may announce
    PoolSize,     \* transports of a pool
    MaxPools,     \* bound: pools created
    MaxRefreshes  \* bound: changes of the route

ASSUME MemoryBounds ==
    /\ PoolSize \in Nat \ {0} /\ MaxPools \in Nat \ {0} /\ MaxRefreshes \in Nat
    /\ Urls # {} /\ IsFiniteSet(Reads)

VARIABLES
    route,     \* the space's entry in MemoryRoutingTable
    refreshes, \* route changes so far
    pools,     \* every pool created, by number
    made,      \* number of pools created
    cached,    \* McpClientPool._sessions[space]: a pool, 0 when there is none
    lock,      \* McpClientPool._lock is held
    reads,     \* the reads
    phase      \* boot, warming, running, closing, closed

memoryVars == <<route, refreshes, pools, made, cached, lock, reads, phase>>

Workers == 1..PoolSize
Pools == 1..MaxPools
Routes == [url : Urls, enabled : BOOLEAN, reachable : BOOLEAN]

NoRequest == [op |-> "none", by |-> 0]
Call(r) == [op |-> "call", by |-> r]
Names == [op |-> "names", by |-> 0]

NoWorker == [st |-> "none", req |-> NoRequest]
Idle == [st |-> "idle", req |-> NoRequest]
Leaving == [st |-> "leaving", req |-> NoRequest]
Gone == [st |-> "gone", req |-> NoRequest]

NewPool(url) == [st |-> "open", url |-> url, queue |-> <<>>, failed |-> FALSE,
                 work |-> [w \in Workers |-> NoWorker]]
NoPool == [st |-> "none", url |-> CHOOSE u \in Urls : TRUE, queue |-> <<>>,
           failed |-> FALSE, work |-> [w \in Workers |-> NoWorker]]

NewRead == [pc |-> "idle", want |-> CHOOSE u \in Urls : TRUE, sess |-> 0, first |-> 0,
            attempt |-> 0, shut |-> 0, then |-> "none", result |-> "none"]

MemoryInit ==
    /\ route \in {[url |-> u, enabled |-> TRUE, reachable |-> b] : u \in Urls, b \in BOOLEAN}
    /\ refreshes = 0
    /\ pools = [p \in Pools |-> NoPool]
    /\ made = 0 /\ cached = 0 /\ lock = FALSE
    /\ reads = [r \in Reads |-> NewRead]
    /\ phase = "boot"

(***************************************************************************)
(* McpReadSessionPool.                                                     *)
(***************************************************************************)
\* task.cancel() on a worker.  One that waits for work or for a call leaves;
\* McpUserSession.tool_names swallows the cancellation and reports "unknown",
\* so that worker goes back to waiting for work.
Cancelled(worker) ==
    CASE worker.st = "idle" -> Leaving
      [] worker.st = "busy" /\ worker.req.op = "call" -> Leaving
      [] worker.st = "busy" /\ worker.req.op = "names" -> Idle
      [] OTHER -> worker

CancelWorkers(pool) ==
    [pool EXCEPT !.work = [w \in Workers |-> Cancelled(pool.work[w])]]

ClosedPool(pool) == [CancelWorkers(pool) EXCEPT !.st = "closed", !.queue = <<>>]

\* Mutant: only requests at a worker are failed, not the queued ones.
MutFailedBy(p) ==
    {r \in Reads : \E w \in Workers : pools[p].work[w].req = Call(r)}
\* The requests a closing pool gives up: those queued and those under way.
FailedBy(p) ==
    {r \in Reads : reads[r].pc = "wait" /\ reads[r].sess = p}

WorkersGone(pool) == \A w \in Workers : pool.work[w].st \in {"none", "gone"}

\* The reads after pool p was closed: its own ones have failed.
AfterClose(p) ==
    [r \in Reads |-> IF r \in FailedBy(p) THEN [reads[r] EXCEPT !.pc = "drop"] ELSE reads[r]]

\* The first request starts the workers.
Started(pool) ==
    IF \A w \in Workers : pool.work[w].st = "none"
    THEN [pool EXCEPT !.work = [w \in Workers |-> Idle]] ELSE pool

Enqueued(pool, r) == [Started(pool) EXCEPT !.queue = Append(@, Call(r))]

\* _submit: a closed pool refuses.
Submit(r) ==
    /\ reads[r].pc = "submit"
    /\ LET p == reads[r].sess IN
       IF pools[p].st = "closed"
       THEN /\ reads' = [reads EXCEPT ![r].pc = "drop"]
            /\ UNCHANGED pools
       ELSE /\ reads' = [reads EXCEPT ![r].pc = "wait"]
            /\ pools' = [pools EXCEPT ![p] = Enqueued(@, r)]
    /\ UNCHANGED <<route, refreshes, made, cached, lock, phase>>

WorkerTakes(p, w) ==
    /\ pools[p].work[w].st = "idle" /\ pools[p].queue # <<>>
    /\ pools' = [pools EXCEPT ![p].work[w] = [st |-> "busy", req |-> Head(pools[p].queue)],
                              ![p].queue = Tail(@)]
    /\ UNCHANGED <<route, refreshes, made, cached, lock, reads, phase>>

\* A worker is done with its request: the service answered, for the scope of
\* the read or for another one, or the transport failed.  Nobody waits for an
\* abandoned request.
WorkerAnswers(p, w, answer) ==
    LET req == pools[p].work[w].req
        waiting == req.op = "call" /\ reads[req.by].pc = "wait" /\ reads[req.by].sess = p
    IN /\ pools[p].work[w].st = "busy"
       /\ pools' = [pools EXCEPT ![p].work[w] = Idle,
                                 ![p].failed = @ \/ answer = "unavailable"]
       /\ reads' = IF ~waiting THEN reads
                   ELSE [reads EXCEPT ![req.by] =
                           IF answer = "unavailable" THEN [@ EXCEPT !.pc = "drop"]
                           ELSE [@ EXCEPT !.pc = "done", !.result = answer]]
       /\ UNCHANGED <<route, refreshes, made, cached, lock, phase>>

\* The worker's finally: close the transport in the task that opened it.
WorkerLeaves(p, w) ==
    /\ pools[p].work[w].st = "leaving"
    /\ pools' = [pools EXCEPT ![p].work[w] = Gone]
    /\ UNCHANGED <<route, refreshes, made, cached, lock, reads, phase>>

(***************************************************************************)
(* McpClientPool and EidolonMemoryPort.                                    *)
(***************************************************************************)
\* route_status_for: read before the lock is taken.  A missing or disabled
\* route drops whatever session is cached.
ReadRoute(r) ==
    /\ phase = "running"
    /\ reads[r].pc \in {"idle", "retry"}
    /\ reads' = [reads EXCEPT ![r].pc = IF route.enabled THEN "lock" ELSE "revoked",
                              ![r].want = route.url]
    /\ UNCHANGED <<route, refreshes, pools, made, cached, lock, phase>>

\* session_for: reuse the cached pool, or make one of this route.
UseSession(r, p) == reads' = [reads EXCEPT ![r].pc = "submit", ![r].sess = p]

TakeSession(r) ==
    /\ reads[r].pc = "lock" /\ ~lock
    /\ \/ /\ cached # 0 /\ pools[cached].url = reads[r].want
          /\ UseSession(r, cached)
          /\ UNCHANGED <<pools, made, cached, lock>>
       \/ /\ cached = 0 /\ made < MaxPools
          /\ made' = made + 1 /\ cached' = made + 1
          /\ pools' = [pools EXCEPT ![made + 1] = NewPool(reads[r].want)]
          /\ UseSession(r, made + 1)
          /\ UNCHANGED lock
       \/ /\ cached # 0 /\ pools[cached].url # reads[r].want /\ made < MaxPools
          /\ lock' = TRUE
          /\ pools' = [pools EXCEPT ![cached] = ClosedPool(@)]
          /\ reads' = [AfterClose(cached) EXCEPT
                          ![r].pc = "closing", ![r].shut = cached, ![r].then = "replace"]
          /\ UNCHANGED <<made, cached>>
    /\ UNCHANGED <<route, refreshes, phase>>

\* drop_session: only the exact pool that failed, unless the route is gone.
Droppable(r) == cached # 0 /\ (reads[r].pc = "drop" => cached = reads[r].sess)

Ended(read, result) == [read EXCEPT !.pc = "done", !.result = result]

\* After the drop: once more, or give up.
AfterDrop(read) ==
    CASE read.then = "retry" -> [read EXCEPT !.pc = "retry", !.attempt = 1, !.first = read.sess]
      [] read.then = "give_up" -> Ended(read, "unavailable")
      [] read.then = "no_route" -> Ended(read, "no_route")

Then(read) ==
    [read EXCEPT !.then = IF read.pc = "revoked" THEN "no_route"
                          ELSE IF read.attempt = 0 THEN "retry" ELSE "give_up"]

DropSession(r) ==
    /\ reads[r].pc \in {"drop", "revoked"} /\ ~lock
    /\ IF Droppable(r)
       THEN /\ pools' = [pools EXCEPT ![cached] = ClosedPool(@)]
            /\ reads' = [AfterClose(cached) EXCEPT
                            ![r] = [Then(reads[r]) EXCEPT !.pc = "closing", !.shut = cached]]
            /\ cached' = 0
       ELSE /\ reads' = [reads EXCEPT ![r] = AfterDrop(Then(@))]
            /\ UNCHANGED <<pools, cached>>
    /\ UNCHANGED <<route, refreshes, made, lock, phase>>

\* gather(*workers) is done; the read that replaces a pool still holds the
\* lock and caches the new one.
CloseDone(r) ==
    /\ reads[r].pc = "closing" /\ WorkersGone(pools[reads[r].shut])
    /\ IF reads[r].then = "replace"
       THEN /\ made < MaxPools
            /\ made' = made + 1 /\ cached' = made + 1 /\ lock' = FALSE
            /\ pools' = [pools EXCEPT ![made + 1] = NewPool(reads[r].want)]
            /\ UseSession(r, made + 1)
       ELSE /\ reads' = [reads EXCEPT ![r] = AfterDrop(@)]
            /\ UNCHANGED <<pools, made, cached, lock>>
    /\ UNCHANGED <<route, refreshes, phase>>

\* wait_for around the call: this read gives up, the shared pool stays.
CallTimeout(r) ==
    /\ reads[r].pc = "wait"
    /\ reads' = [reads EXCEPT ![r] = Ended(@, "timeout")]
    /\ UNCHANGED <<route, refreshes, pools, made, cached, lock, phase>>

\* The compiler's absolute read deadline cancels the read wherever it is: the
\* lock is released, and a cancelled gather cancels the workers once more.
ReadDeadline(r) ==
    /\ reads[r].pc \notin {"idle", "done"}
    /\ reads' = [reads EXCEPT ![r] = Ended(@, "deadline")]
    /\ IF reads[r].pc = "closing"
       THEN /\ pools' = [pools EXCEPT ![reads[r].shut] = CancelWorkers(@)]
            /\ lock' = (lock /\ reads[r].then # "replace")
       ELSE UNCHANGED <<pools, lock>>
    /\ UNCHANGED <<route, refreshes, made, cached, phase>>

(***************************************************************************)
(* Start, discovery and shutdown.                                          *)
(***************************************************************************)
\* warmup_read_sessions asks every transport of a reachable space for its
\* tools; start-up goes on after that, or after startup_warm_timeout_s.
Warmup ==
    /\ phase = "boot"
    /\ IF route.reachable
       THEN /\ pools' = [pools EXCEPT ![1] =
                  [Started(NewPool(route.url)) EXCEPT !.queue = [w \in Workers |-> Names]]]
            /\ made' = 1 /\ cached' = 1 /\ phase' = "warming"
       ELSE /\ phase' = "running"
            /\ UNCHANGED <<pools, made, cached>>
    /\ UNCHANGED <<route, refreshes, lock, reads>>

WarmupEnds ==
    /\ phase = "warming" /\ phase' = "running"
    /\ UNCHANGED <<route, refreshes, pools, made, cached, lock, reads>>

\* refresh_once; a failed fetch leaves the table as it is.
Refresh(new) ==
    /\ phase = "running" /\ refreshes < MaxRefreshes /\ new # route
    /\ route' = new /\ refreshes' = refreshes + 1
    /\ UNCHANGED <<pools, made, cached, lock, reads, phase>>

\* close_all, when no turn is left.
Shutdown ==
    /\ phase = "running" /\ ~lock
    /\ \A r \in Reads : reads[r].pc \in {"idle", "done"}
    /\ phase' = "closing"
    /\ pools' = IF cached = 0 THEN pools ELSE [pools EXCEPT ![cached] = ClosedPool(@)]
    /\ cached' = 0
    /\ UNCHANGED <<route, refreshes, made, lock, reads>>

ShutdownDone ==
    /\ phase = "closing"
    /\ \A p \in Pools : WorkersGone(pools[p])
    /\ phase' = "closed"
    /\ UNCHANGED <<route, refreshes, pools, made, cached, lock, reads>>

MemoryNext ==
    \/ Warmup \/ WarmupEnds
    \/ \E new \in Routes : Refresh(new)
    \/ \E r \in Reads : \/ ReadRoute(r) \/ TakeSession(r) \/ Submit(r) \/ DropSession(r)
                        \/ CloseDone(r) \/ CallTimeout(r) \/ ReadDeadline(r)
    \/ \E p \in Pools, w \in Workers :
          \/ WorkerTakes(p, w)
          \/ \E answer \in {"ok", "mismatch", "unavailable"} : WorkerAnswers(p, w, answer)
          \/ WorkerLeaves(p, w)
    \/ Shutdown \/ ShutdownDone

MemorySpec == MemoryInit /\ [][MemoryNext]_memoryVars

\* Tasks that can run do run, and the closing shutdown looks again.
MemoryFairness ==
    /\ WF_memoryVars(ShutdownDone)
    /\ \A p \in Pools, w \in Workers :
          /\ WF_memoryVars(WorkerLeaves(p, w))
          /\ WF_memoryVars(WorkerTakes(p, w))

MemoryFairSpec == MemorySpec /\ MemoryFairness

(***************************************************************************)
(* Properties.                                                             *)
(***************************************************************************)
\* Pools and reads keep in step, however route changes, failures and abandoned
\* reads interleave.  The only open pool of a space is the one the cache names,
\* and a pool is closed because a transport failed, the route changed or the
\* agent stops, never because one caller's latency budget ran out (_session_for,
\* _drop_from, recall_context).  A read that waits is being served: its request
\* is queued or at a worker of an open pool, on its second attempt of another
\* pool than the one that failed it; closing a pool leaves nobody waiting for a
\* future that no task will complete (McpReadSessionPool.close, _run_worker).
PoolsServeReads ==
    /\ \A p \in Pools :
        /\ pools[p].st = "open" => p = cached
        /\ pools[p].st = "closed" =>
             pools[p].failed \/ refreshes > 0 \/ phase \in {"closing", "closed"}
    /\ \A r \in Reads :
        /\ reads[r].attempt = 1 /\ reads[r].pc \in {"submit", "wait"} =>
             reads[r].sess # reads[r].first
        /\ reads[r].pc = "wait" =>
             LET pool == pools[reads[r].sess] IN
             /\ pool.st = "open"
             /\ \/ \E i \in DOMAIN pool.queue : pool.queue[i] = Call(r)
                \/ \E w \in Workers : pool.work[w].req = Call(r)

\* "the worker finishes or is cancelled by close() in its own task": once the
\* agent closes its memory pool, the workers end and close() returns.
ShutdownEnds == (phase = "closing") ~> (phase = "closed")
=============================================================================
