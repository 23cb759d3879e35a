------------------------- MODULE ChatStream_proofs -------------------------

(***************************************************************************)
(* Proofs about one Chat RPC (ChatStream).  The engine of a turn moves     *)
(* through some thirty awaits, but each of its steps changes only its own  *)
(* record, what that turn leaves behind, and perhaps takes the write lock; *)
(* a cancellation does the same for a set of turns at once.  So there are  *)
(* two lemmas that carry the invariant over a step, TurnStep and           *)
(* CancelStep, and each action is an instance of one of them.              *)
(***************************************************************************)
EXTENDS ChatStream, TLAPS

(***************************************************************************)
(* One turn by itself.                                                     *)
(***************************************************************************)
\* Where a turn has left nothing behind, and where it is under way.
Refused == {"none", "admit", "denied"}
Middle == {"crisis", "enqueue", "compile", "stream", "tools", "present", "say", "calls",
           "output", "answer", "finish", "return"}
Keeps(r) == r.mode \subseteq {"face"}

TurnGood(r) ==
    /\ r \in TurnType
    /\ r.task # "live" => r.out = None
    /\ r.task = "live" => r.gen >= 1
    /\ r.pos = "admit" => r.out = None /\ r.parts = 0
    /\ r.pos \in {"none", "abandoned", "closed"} => r.task # "live"
    /\ r.pos = "enqueue" => Keeps(r)
    /\ r.status # "ok" => r.pos \in {"end", "raise", "abandoned"}
    /\ r.final => r.pos \in {"feedback", "end", "raise", "abandoned"}
    /\ r.dispatch = "running" => r.pos \in {"tools", "abandoned"}
    /\ r.out = "DONE" => r.pos \in {"feedback", "end"}

\* What a turn has left behind: its record h in the history window, its persist
\* job j, its row w, and whether its input went to the memory service (o).
LeftGood(r, h, j, w, o) ==
    /\ r.pos \in Refused \/ ~Keeps(r) => h = None /\ ~o
    /\ r.pos \in Refused \/ "speculative" \in r.mode => j = None /\ w = None
    /\ ~Keeps(r) => (j # None => j.text = 0) /\ (w # None => w.text = 0)
    /\ Keeps(r) /\ r.pos \notin Refused => h # None
    /\ Keeps(r) /\ r.final => h = Record(r, r.status, r.text)
    /\ r.pos # "closed" => j = None /\ w = None
    /\ Keeps(r) /\ r.pos = "closed" =>
          h.status # "active" /\ (j # None => j = h) /\ (w # None => w = h)

(***************************************************************************)
(* The turns of the stream.                                                *)
(***************************************************************************)
\* A turn that runs is the active one of its conversation, and no newer than
\* the generation until the stream fails; one that was not accepted is unstarted.
TurnsInv ==
    \A t \in Turns :
        /\ TurnGood(turn[t])
        /\ LeftGood(turn[t], hist[t], job[t], row[t], t \in observed)
        /\ Live(t) => active[ConvOf[t]] = t
        /\ Live(t) /\ reader.pc \notin {"drain", "over"} =>
              turn[t].gen <= generation[ConvOf[t]]
        /\ t \notin accepted => turn[t] = Unstarted /\ wire[t] = "none"

ReaderInv ==
    /\ reader.pc \in {"cancelling", "ack", "acking", "starting"} => reader.turn \in Turns
    /\ reader.pc = "starting" =>
          /\ reader.turn \notin accepted
          /\ reader.gen >= 1 /\ reader.gen <= generation[ConvOf[reader.turn]]
    /\ \A c \in Convs : active[c] # None => ConvOf[active[c]] = c

\* The write lock is with somebody who will release it; what waits for it is of
\* the current generation; and a turn whose DONE is on the wire has nothing to add.
LockGood ==
    /\ \/ lock = "free"
       \/ lock = "reader" /\ reader.pc = "acking"
       \/ lock \in Turns /\ Live(lock) /\ turn[lock].out # None
    /\ reader.pc = "acking" => lock = "reader"
DoneGood(t) == rpc = "open" /\ wire[t] = "DONE" =>
                   /\ Live(t) => turn[t].pos \in {"feedback", "end", "raise"}
                   /\ turn[t].out = None \/ lock = t
WireInv ==
    /\ LockGood
    /\ \A t \in Turns : /\ turn[t].out # None => ~Stale(t)
                        /\ DoneGood(t)

ChatInv == TypeOK /\ TurnsInv /\ ReaderInv /\ WireInv

\* No turn writes that is cancelled or displaced, or whose DONE is on the wire.
WritesWell ==
    \A t \in Turns : Writes(t) => ~Stale(t) /\ (rpc = "open" => wire[t] # "DONE")

LEMMA Nothing ==
    /\ None \notin Kinds /\ None \notin Turns /\ None \notin Nat /\ None \notin RecordType
    /\ "free" \notin Turns /\ "reader" \notin Turns
BY ChatAssumption, NothingAssumption

LEMMA ConvTyped == \A t \in Turns : ConvOf[t] \in Convs
BY ChatAssumption

LEMMA UnstartedGood ==
    /\ TurnGood(Unstarted) /\ Unstarted.pos = "none" /\ Unstarted.out = None
    /\ Unstarted.task = "none" /\ Unstarted.mode = {}
<1>1. PICK f : f = Fresh(0, {})
  OBVIOUS
<1>2. f \in TurnType
  BY <1>1 DEF Fresh, TurnType, AllModes, AwaitPos, OtherPos, Kinds
<1>3. Unstarted = [f EXCEPT !.task = "none", !.pos = "none"]
  BY <1>1 DEF Unstarted
<1>4. Unstarted \in TurnType
  BY <1>2, <1>3 DEF TurnType, OtherPos
<1>5. f.out = None /\ f.mode = {} /\ f.status = "ok" /\ ~f.final /\ f.dispatch = "none"
  BY <1>1 DEF Fresh
<1>6. /\ Unstarted.pos = "none" /\ Unstarted.task = "none" /\ Unstarted.out = None
      /\ Unstarted.mode = {} /\ Unstarted.status = "ok" /\ ~Unstarted.final
      /\ Unstarted.dispatch = "none"
  BY <1>2, <1>3, <1>5 DEF TurnType
<1> QED BY <1>4, <1>6, Nothing DEF TurnGood, Kinds

LEMMA ChatInitInv == Init => ChatInv
<1> SUFFICES ASSUME Init PROVE ChatInv
  OBVIOUS
<1>1. Idle.pc = "read" /\ Idle.turn = None /\ Idle.gen = 0 /\ Idle.landed = FALSE
  BY DEF Idle
<1>2. TypeOK
  <2>1. Unstarted \in TurnType
    BY UnstartedGood DEF TurnGood
  <2>2. 0 \in 0 .. MaxCancels
    BY ChatAssumption
  <2> QED BY <2>1, <2>2 DEF Init, TypeOK, Idle
<1>3. TurnsInv
  <2>1. ~Unstarted.final
    BY UnstartedGood DEF TurnGood
  <2> QED BY <2>1, UnstartedGood DEF Init, TurnsInv, Live, LeftGood, Refused
<1>4. ReaderInv
  BY <1>1 DEF Init, ReaderInv
<1>5. WireInv
  BY <1>1, UnstartedGood DEF Init, WireInv, LockGood, DoneGood, Stale
<1> QED BY <1>2, <1>3, <1>4, <1>5 DEF ChatInv

(***************************************************************************)
(* A step of turn t: its record becomes r.                                 *)
(***************************************************************************)
\* The stores and the wire change for t alone.
OthersKept(t) ==
    /\ hist' \in [Turns -> RecordType \cup {None}]
    /\ job' \in [Turns -> RecordType \cup {None}]
    /\ row' \in [Turns -> RecordType \cup {None}]
    /\ wire' \in [Turns -> {"none", "DONE", "ERROR"}]
    /\ observed' \in SUBSET Turns
    /\ \A u \in Turns \ {t} :
          /\ hist'[u] = hist[u] /\ job'[u] = job[u] /\ row'[u] = row[u] /\ wire'[u] = wire[u]
          /\ u \in observed' <=> u \in observed

LEMMA TurnStep ==
    ASSUME ChatInv, NEW t \in Turns, NEW r, TurnGood(r), turn' = [turn EXCEPT ![t] = r],
           UNCHANGED <<reader, accepted, generation, rpc>>,
           active' \in [Convs -> Turns \cup {None}],
           \A c \in Convs : \/ active'[c] = active[c]
                            \/ active[c] = t /\ active'[c] = None /\ r.task # "live",
           watching' \in BOOLEAN, notified' \in BOOLEAN,
           UNCHANGED <<ack, cancels>>,
           t \in accepted, r.task = "live" => Live(t), r.gen = turn[t].gen,
           r.out # None => ~Stale(t),
           \/ lock' = lock /\ (lock = t => r.task = "live" /\ r.out # None)
           \/ /\ lock = "free" /\ lock' = t /\ r.task = "live" /\ r.out # None
              /\ rpc = "open" => wire[t] # "DONE"
           \/ lock = t /\ lock' = "free",
           rpc = "open" /\ wire'[t] = "DONE" =>
              /\ r.task = "live" => r.pos \in {"feedback", "end", "raise"}
              /\ r.out = None \/ lock' = t,
           OthersKept(t), LeftGood(r, hist'[t], job'[t], row'[t], t \in observed')
    PROVE  ChatInv' /\ WritesWell
<1>1. /\ turn \in [Turns -> TurnType] /\ turn'[t] = r
      /\ \A u \in Turns : u # t => turn'[u] = turn[u]
      /\ generation \in [Convs -> Nat]
  BY DEF ChatInv, TypeOK
<1>2. TypeOK'
  <2>1. turn' \in [Turns -> TurnType]
    BY <1>1 DEF TurnGood
  <2>2. lock' \in Turns \cup {"free", "reader"}
    BY DEF ChatInv, TypeOK
  <2> QED BY <2>1, <2>2 DEF ChatInv, TypeOK, OthersKept
<1>3. \A u \in Turns : Live(u)' => Live(u)
  BY <1>1 DEF Live
<1>4. \A u \in Turns : turn'[u].gen = turn[u].gen /\ (Stale(u)' <=> Stale(u))
  BY <1>1 DEF Stale
<1>5. TurnsInv'
  <2> SUFFICES ASSUME NEW u \in Turns
               PROVE  /\ TurnGood(turn'[u])
                      /\ LeftGood(turn'[u], hist'[u], job'[u], row'[u], u \in observed')
                      /\ Live(u)' => active'[ConvOf[u]] = u
                      /\ Live(u)' /\ reader.pc \notin {"drain", "over"} =>
                            turn'[u].gen <= generation[ConvOf[u]]
                      /\ u \notin accepted => turn'[u] = Unstarted /\ wire'[u] = "none"
    BY DEF TurnsInv, TurnGood, LeftGood
  <2>1. /\ TurnGood(turn[u])
        /\ LeftGood(turn[u], hist[u], job[u], row[u], u \in observed)
        /\ Live(u) => active[ConvOf[u]] = u
        /\ Live(u) /\ reader.pc \notin {"drain", "over"} =>
              turn[u].gen <= generation[ConvOf[u]]
        /\ u \notin accepted => turn[u] = Unstarted /\ wire[u] = "none"
    BY DEF ChatInv, TurnsInv
  <2>2. Live(u)' => active'[ConvOf[u]] = u
    BY <1>1, <1>3, <2>1, ConvTyped DEF Live
  <2>3. Live(u)' /\ reader.pc \notin {"drain", "over"} =>
           turn'[u].gen <= generation[ConvOf[u]]
    BY <1>3, <1>4, <2>1
  <2>4. CASE u = t
    BY <1>1, <2>2, <2>3, <2>4
  <2>5. CASE u # t
    <3>1. LeftGood(turn'[u], hist'[u], job'[u], row'[u], u \in observed')
      BY <1>1, <2>1, <2>5 DEF OthersKept, LeftGood
    <3>2. u \notin accepted => turn'[u] = Unstarted /\ wire'[u] = "none"
      BY <1>1, <2>1, <2>5 DEF OthersKept
    <3> QED BY <1>1, <2>1, <2>2, <2>3, <2>5, <3>1, <3>2
  <2> QED BY <2>4, <2>5
<1>6. ReaderInv'
  BY DEF ChatInv, ReaderInv
<1>7. LockGood'
  <2>1. LockGood
    BY DEF ChatInv, WireInv
  <2>2. CASE lock' = lock
    BY <1>1, <2>1, <2>2 DEF LockGood, Live
  <2>3. CASE lock = "free" /\ lock' = t /\ r.task = "live" /\ r.out # None
    BY <1>1, <2>1, <2>3 DEF LockGood, Live
  <2>4. CASE lock = t /\ lock' = "free"
    BY <2>1, <2>4, Nothing DEF LockGood
  <2> QED BY <2>2, <2>3, <2>4
<1>8. WireInv'
  <2> SUFFICES ASSUME NEW u \in Turns
               PROVE  /\ turn'[u].out # None => ~Stale(u)'
                      /\ DoneGood(u)'
    BY <1>7 DEF WireInv
  <2>1. (turn[u].out # None => ~Stale(u)) /\ DoneGood(u)
    BY DEF ChatInv, WireInv
  <2>2. CASE u = t
    BY <1>1, <1>4, <2>2 DEF DoneGood, Live
  <2>3. CASE u # t
    <3>1. lock = u => lock' = u
      BY <2>3, Nothing
    <3>2. DoneGood(u)'
      BY <1>1, <2>1, <2>3, <3>1 DEF DoneGood, OthersKept, Live
    <3> QED BY <1>1, <1>4, <2>1, <2>3, <3>2
  <2> QED BY <2>2, <2>3
<1>9. WritesWell
  BY Nothing DEF WritesWell, Writes
<1> QED BY <1>2, <1>5, <1>6, <1>8, <1>9 DEF ChatInv

(***************************************************************************)
(* The engine between admission and its end: nothing is left behind yet    *)
(* but the record of the input.                                            *)
(***************************************************************************)
LEMMA QuietMove ==
    ASSUME ChatInv, NEW t \in Turns, Live(t), turn[t].out = None, turn[t].pos \in Middle,
           NEW r \in TurnType, turn' = [turn EXCEPT ![t] = r],
           r.mode = turn[t].mode, r.gen = turn[t].gen, r.task = "live", ~r.final,
           r.pos \in Middle \cup {"end"}, r.status # "ok" => r.pos = "end",
           r.dispatch = "running" => r.pos = "tools", r.pos = "enqueue" => Keeps(r),
           r.out # "DONE", r.out # None => ~Stale(t),
           lock' = lock \/ (lock = "free" /\ lock' = t /\ r.out # None),
           wire' = wire \/ wire' = [wire EXCEPT ![t] = "ERROR"],
           UNCHANGED <<loop, hist, kept>>
    PROVE  ChatInv' /\ WritesWell
<1>1. UNCHANGED <<reader, accepted, generation, active, rpc, watching, notified, ack, cancels,
                  hist, observed, job, row>>
  BY DEF loop, kept
<1>2. /\ TurnGood(turn[t]) /\ LeftGood(turn[t], hist[t], job[t], row[t], t \in observed)
      /\ t \in accepted
  BY UnstartedGood DEF ChatInv, TurnsInv, Live
<1>3. TurnGood(r)
  <2>1. r.gen >= 1
    BY <1>2 DEF TurnGood, Live
  <2> QED BY <2>1 DEF TurnGood, Middle
<1>4. LeftGood(r, hist'[t], job'[t], row'[t], t \in observed')
  BY <1>1, <1>2 DEF LeftGood, Keeps, Refused, Middle
<1>5. OthersKept(t)
  BY <1>1 DEF OthersKept, ChatInv, TypeOK
<1>6. rpc = "open" => wire[t] # "DONE" /\ wire'[t] # "DONE"
  <2>1. rpc = "open" => wire[t] # "DONE"
    BY DEF ChatInv, WireInv, DoneGood, Middle
  <2> QED BY <2>1 DEF ChatInv, TypeOK
<1>7. lock # t
  BY Nothing DEF ChatInv, WireInv, LockGood
<1>8. active' \in [Convs -> Turns \cup {None}] /\ watching' \in BOOLEAN /\ notified' \in BOOLEAN
  BY <1>1 DEF ChatInv, TypeOK
<1> QED BY <1>1, <1>2, <1>3, <1>4, <1>5, <1>6, <1>7, <1>8, TurnStep

\* What Yield does to the record, the lock and the wire.
LEMMA Yielded ==
    ASSUME ChatInv, NEW t \in Turns, NEW r \in TurnType, NEW kind \in Kinds,
           NEW next \in AwaitPos \cup OtherPos, Yield(t, r, kind, next)
    PROVE  \E y \in TurnType :
              /\ turn' = [turn EXCEPT ![t] = y]
              /\ y.pos = next /\ y.out = (IF Stale(t) THEN None ELSE kind)
              /\ y.mode = r.mode /\ y.task = r.task /\ y.gen = r.gen /\ y.status = r.status
              /\ y.final = r.final /\ y.dispatch = r.dispatch /\ y.text = r.text
              /\ y.private = r.private /\ y.parts = r.parts
              /\ lock' = lock \/ (lock = "free" /\ lock' = t /\ y.out = kind /\ ~Stale(t))
              /\ \/ wire' = wire
                 \/ /\ wire' = [wire EXCEPT ![t] = kind] /\ kind \in {"DONE", "ERROR"}
                    /\ lock' = t /\ y.out = kind
<1> DEFINE o == IF Stale(t) THEN None ELSE kind
<1>1. o \in Kinds \cup {None}
  OBVIOUS
<1>2. PICK y : y = [r EXCEPT !.pos = next, !.out = o]
  OBVIOUS
<1>3. turn' = [turn EXCEPT ![t] = y]
  BY <1>2 DEF Yield
<1>4. /\ Stale(t) => o = None
      /\ ~Stale(t) => o = kind
  OBVIOUS
<1>5. /\ lock' = lock \/ (lock = "free" /\ lock' = t /\ ~Stale(t))
      /\ \/ wire' = wire
         \/ /\ wire' = [wire EXCEPT ![t] = kind] /\ kind \in {"DONE", "ERROR"}
            /\ lock' = t /\ ~Stale(t)
  BY DEF Yield, Send, stream
<1> HIDE DEF o
<1>6. y \in TurnType
  BY <1>1, <1>2 DEF TurnType
<1>7. /\ y.pos = next /\ y.out = o
      /\ y.mode = r.mode /\ y.task = r.task /\ y.gen = r.gen /\ y.status = r.status
      /\ y.final = r.final /\ y.dispatch = r.dispatch /\ y.text = r.text
      /\ y.private = r.private /\ y.parts = r.parts
  BY <1>2 DEF TurnType
<1> QED BY <1>3, <1>4, <1>5, <1>6, <1>7

LEMMA YieldMove ==
    ASSUME ChatInv, NEW t \in Turns, Live(t), turn[t].out = None, turn[t].pos \in Middle,
           NEW r \in TurnType, NEW kind \in Kinds \ {"DONE"}, NEW next \in Middle \cup {"end"},
           Yield(t, r, kind, next),
           r.mode = turn[t].mode, r.gen = turn[t].gen, r.task = "live", ~r.final,
           r.status # "ok" => next = "end", r.dispatch = "running" => next = "tools",
           next # "enqueue", UNCHANGED <<loop, hist, kept>>
    PROVE  ChatInv' /\ WritesWell
<1>1. next \in AwaitPos \cup OtherPos
  BY DEF Middle, AwaitPos, OtherPos
<1>2. PICK y \in TurnType :
         /\ turn' = [turn EXCEPT ![t] = y]
         /\ y.pos = next /\ y.out = (IF Stale(t) THEN None ELSE kind)
         /\ y.mode = r.mode /\ y.task = r.task /\ y.gen = r.gen /\ y.status = r.status
         /\ y.final = r.final /\ y.dispatch = r.dispatch
         /\ lock' = lock \/ (lock = "free" /\ lock' = t /\ y.out = kind /\ ~Stale(t))
         /\ \/ wire' = wire
            \/ wire' = [wire EXCEPT ![t] = kind] /\ kind \in {"DONE", "ERROR"}
  BY <1>1, Yielded
<1>3. y.out # "DONE" /\ (y.out # None => ~Stale(t)) /\ kind # None
  BY <1>2, Nothing DEF Kinds
<1>4. wire' = wire \/ wire' = [wire EXCEPT ![t] = "ERROR"]
  BY <1>2
<1>5. lock' = lock \/ (lock = "free" /\ lock' = t /\ y.out # None)
  BY <1>2, <1>3
<1> QED BY <1>2, <1>3, <1>4, <1>5, QuietMove

\* What the invariant says of a turn in the middle.
LEMMA InTheMiddle ==
    ASSUME ChatInv, NEW t \in Turns, Live(t), turn[t].pos \in Middle
    PROVE  /\ turn[t] \in TurnType /\ ~turn[t].final /\ turn[t].status = "ok"
           /\ turn[t].task = "live"
           /\ turn[t].dispatch = "running" => turn[t].pos = "tools"
BY DEF ChatInv, TurnsInv, TurnGood, Live, Middle

LEMMA PlainYields ==
    ASSUME ChatInv, NEW t \in Turns,
           SafeDelta(t) \/ Observed(t) \/ Compiled(t) \/ StreamToolCalls(t) \/ ToolResults(t)
    PROVE  ChatInv' /\ WritesWell
<1>1. PICK kind \in Kinds \ {"DONE"}, next \in Middle \ {"enqueue", "tools"} :
         Yield(t, turn[t], kind, next)
  BY DEF SafeDelta, Observed, Compiled, StreamToolCalls, ToolResults, Kinds, Middle
<1>2. Live(t) /\ turn[t].out = None /\ turn[t].pos \in Middle
  BY DEF SafeDelta, Observed, Compiled, StreamToolCalls, ToolResults, At, Middle
<1>3. turn[t].dispatch # "running"
  BY <1>2, InTheMiddle DEF SafeDelta, Observed, Compiled, StreamToolCalls, ToolResults, At
<1>4. UNCHANGED <<loop, hist, kept>>
  BY DEF SafeDelta, Observed, Compiled, StreamToolCalls, ToolResults
<1>5. turn[t] \in TurnType /\ ~turn[t].final /\ turn[t].status = "ok" /\ turn[t].task = "live"
  BY <1>2, InTheMiddle
<1> QED BY <1>1, <1>2, <1>3, <1>4, <1>5, YieldMove

\* The fixed answer of the crisis path.
LEMMA CrisisYields ==
    ASSUME ChatInv, NEW t \in Turns, CrisisHandled(t) \/ CrisisAnswer(t)
    PROVE  ChatInv' /\ WritesWell
<1>1. PICK r : r = [turn[t] EXCEPT !.text = 1, !.answer = 1]
  OBVIOUS
<1>2. PICK kind \in Kinds \ {"DONE"}, next \in Middle \ {"enqueue", "tools"} :
         Yield(t, r, kind, next)
  BY <1>1 DEF CrisisHandled, CrisisAnswer, SafeAnswer, Kinds, Middle
<1>3. /\ Live(t) /\ turn[t].out = None /\ turn[t].pos \in Middle /\ turn[t].pos # "tools"
      /\ UNCHANGED <<loop, hist, kept>>
  BY DEF CrisisHandled, CrisisAnswer, At, Middle
<1>4. /\ turn[t] \in TurnType /\ ~turn[t].final /\ turn[t].status = "ok"
      /\ turn[t].task = "live" /\ turn[t].dispatch # "running"
  BY <1>3, InTheMiddle
<1>5. r \in TurnType
  BY <1>1, <1>4 DEF TurnType
<1>6. /\ r.mode = turn[t].mode /\ r.gen = turn[t].gen /\ r.task = turn[t].task
      /\ r.final = turn[t].final /\ r.status = turn[t].status /\ r.dispatch = turn[t].dispatch
  BY <1>1, <1>4 DEF TurnType
<1> QED BY <1>2, <1>3, <1>4, <1>5, <1>6, YieldMove

LEMMA DeltaYields ==
    ASSUME ChatInv, NEW t \in Turns, StreamDelta(t)
    PROVE  ChatInv' /\ WritesWell
<1>3. /\ Live(t) /\ turn[t].out = None /\ turn[t].pos = "stream"
      /\ UNCHANGED <<loop, hist, kept>>
  BY DEF StreamDelta, At
<1>4. /\ turn[t] \in TurnType /\ ~turn[t].final /\ turn[t].status = "ok"
      /\ turn[t].task = "live" /\ turn[t].dispatch # "running" /\ turn[t].pos \in Middle
  BY <1>3, InTheMiddle DEF Middle
<1> DEFINE n == turn[t].parts + 1
<1>1. n \in Nat
  BY <1>4 DEF TurnType
<1>2. Yield(t, [turn[t] EXCEPT !.parts = n], "DELTA", "stream")
  BY DEF StreamDelta
<1> HIDE DEF n
<1>5. PICK r : r = [turn[t] EXCEPT !.parts = n]
  OBVIOUS
<1>6. r \in TurnType
  BY <1>1, <1>4, <1>5 DEF TurnType
<1>7. /\ r.mode = turn[t].mode /\ r.gen = turn[t].gen /\ r.task = turn[t].task
      /\ r.final = turn[t].final /\ r.status = turn[t].status /\ r.dispatch = turn[t].dispatch
  BY <1>4, <1>5 DEF TurnType
<1>8. "DELTA" \in Kinds \ {"DONE"} /\ "stream" \in Middle \cup {"end"}
  BY DEF Kinds, Middle
<1>9. Yield(t, r, "DELTA", "stream")
  BY <1>2, <1>5
<1> QED BY <1>3, <1>4, <1>6, <1>7, <1>8, <1>9, YieldMove

LEMMA HintYields ==
    ASSUME ChatInv, NEW t \in Turns, SlowHint(t)
    PROVE  ChatInv' /\ WritesWell
<1>1. PICK r : r = [turn[t] EXCEPT !.hinted = TRUE]
  OBVIOUS
<1>2. /\ Live(t) /\ turn[t].out = None /\ turn[t].pos = "tools"
      /\ UNCHANGED <<loop, hist, kept>> /\ Yield(t, r, "DELTA", "tools")
  BY <1>1 DEF SlowHint, At
<1>3. /\ turn[t] \in TurnType /\ ~turn[t].final /\ turn[t].status = "ok"
      /\ turn[t].task = "live" /\ turn[t].pos \in Middle
  BY <1>2, InTheMiddle DEF Middle
<1>4. r \in TurnType
  BY <1>1, <1>3 DEF TurnType
<1>5. /\ r.mode = turn[t].mode /\ r.gen = turn[t].gen /\ r.task = turn[t].task
      /\ r.final = turn[t].final /\ r.status = turn[t].status
  BY <1>1, <1>3 DEF TurnType
<1>6. "DELTA" \in Kinds \ {"DONE"} /\ "tools" \in Middle \cup {"end"}
  BY DEF Kinds, Middle
<1> QED BY <1>2, <1>3, <1>4, <1>5, <1>6, YieldMove

\* An exception of the engine ends its tool dispatch.
LEMMA RaisesYields ==
    ASSUME ChatInv, NEW t \in Turns, Live(t), turn[t].out = None, turn[t].pos \in Middle,
           Raises(t), UNCHANGED <<loop, hist, kept>>
    PROVE  ChatInv' /\ WritesWell
<1>1. /\ turn[t] \in TurnType /\ ~turn[t].final /\ turn[t].task = "live"
  BY InTheMiddle
<1> DEFINE d == IF turn[t].dispatch = "running" THEN "cancelled" ELSE turn[t].dispatch
<1>2. d \in {"none", "ended", "cancelled"}
  BY <1>1 DEF TurnType
<1>3. Yield(t, [turn[t] EXCEPT !.status = "errored", !.dispatch = d], "ERROR", "end")
  BY DEF Raises
<1> HIDE DEF d
<1>4. PICK r : r = [turn[t] EXCEPT !.status = "errored", !.dispatch = d]
  OBVIOUS
<1>5. r \in TurnType
  BY <1>1, <1>2, <1>4 DEF TurnType
<1>6. /\ r.mode = turn[t].mode /\ r.gen = turn[t].gen /\ r.task = turn[t].task
      /\ r.final = turn[t].final /\ r.dispatch = d
  BY <1>1, <1>4 DEF TurnType
<1>7. "ERROR" \in Kinds \ {"DONE"} /\ "end" \in Middle \cup {"end"}
  BY DEF Kinds
<1>8. Yield(t, r, "ERROR", "end")
  BY <1>3, <1>4
<1> QED BY <1>1, <1>2, <1>5, <1>6, <1>7, <1>8, YieldMove

LEMMA EngineRaisesStep ==
    ASSUME ChatInv, NEW t \in Turns, EngineRaises(t)
    PROVE  ChatInv' /\ WritesWell
<1>1. Live(t) /\ turn[t].out = None /\ turn[t].pos \in Middle
  BY DEF EngineRaises, At, AwaitPos, Middle
<1> QED BY <1>1, RaisesYields DEF EngineRaises

\* The tool loop: one more dispatch, or the bound is reached.
LEMMA DispatchStep ==
    ASSUME ChatInv, NEW t \in Turns, Dispatch(t)
    PROVE  ChatInv' /\ WritesWell
<1>1. /\ Live(t) /\ turn[t].out = None /\ turn[t].pos = "calls"
      /\ UNCHANGED <<loop, hist, kept>>
  BY DEF Dispatch, At
<1>2. /\ turn[t] \in TurnType /\ ~turn[t].final /\ turn[t].status = "ok"
      /\ turn[t].task = "live" /\ turn[t].dispatch # "running" /\ turn[t].pos \in Middle
  BY <1>1, InTheMiddle DEF Middle
<1>3. CASE turn[t].iters >= MaxToolIters
  <2>1. Yield(t, turn[t], "ERROR", "output")
    BY <1>3 DEF Dispatch
  <2>2. "ERROR" \in Kinds \ {"DONE"} /\ "output" \in Middle \cup {"end"}
    BY DEF Kinds, Middle
  <2> QED BY <1>1, <1>2, <2>1, <2>2, YieldMove
<1>4. CASE ~(turn[t].iters >= MaxToolIters)
  <2> DEFINE n == turn[t].iters + 1
  <2>1. n \in Nat
    BY <1>2 DEF TurnType
  <2>2. turn' = [turn EXCEPT ![t] =
                   [turn[t] EXCEPT !.iters = n, !.pos = "tools", !.dispatch = "running"]]
    BY <1>2, <1>4 DEF Dispatch, ChatInv, TypeOK
  <2> HIDE DEF n
  <2>3. PICK r : r = [turn[t] EXCEPT !.iters = n, !.pos = "tools", !.dispatch = "running"]
    OBVIOUS
  <2>4. r \in TurnType
    BY <1>2, <2>1, <2>3 DEF TurnType, AwaitPos
  <2>5. /\ r.mode = turn[t].mode /\ r.gen = turn[t].gen /\ r.task = turn[t].task
        /\ r.final = turn[t].final /\ r.status = turn[t].status /\ r.out = turn[t].out
        /\ r.pos = "tools"
    BY <1>2, <2>3 DEF TurnType
  <2>6. UNCHANGED <<lock, wire>>
    BY <1>4 DEF Dispatch, stream
  <2>7. "tools" \in Middle \cup {"end"} /\ None # "DONE"
    BY Nothing DEF Middle, Kinds
  <2>8. turn' = [turn EXCEPT ![t] = r]
    BY <2>2, <2>3
  <2> QED BY <1>1, <1>2, <2>4, <2>5, <2>6, <2>7, <2>8, QuietMove
<1> QED BY <1>3, <1>4

\* The model is done: the answer is announced, presented, or missing.
LEMMA OutputStep ==
    ASSUME ChatInv, NEW t \in Turns, Output(t)
    PROVE  ChatInv' /\ WritesWell
<1>1. /\ Live(t) /\ turn[t].out = None /\ turn[t].pos \in {"stream", "output"}
      /\ UNCHANGED <<loop, hist, kept>>
  BY DEF Output, At
<1>2. /\ turn[t] \in TurnType /\ ~turn[t].final /\ turn[t].status = "ok"
      /\ turn[t].task = "live" /\ turn[t].dispatch # "running" /\ turn[t].pos \in Middle
  BY <1>1, InTheMiddle DEF Middle
<1>3. turn[t].parts \in Nat /\ turn[t].parts + 1 \in Nat
  BY <1>2 DEF TurnType
<1>4. ASSUME NEW n \in Nat, NEW kind \in Kinds \ {"DONE"}, NEW next \in {"finish", "answer"},
             Yield(t, [turn[t] EXCEPT !.answer = n], kind, next)
      PROVE  ChatInv' /\ WritesWell
  <2>1. PICK r : r = [turn[t] EXCEPT !.answer = n]
    OBVIOUS
  <2>2. r \in TurnType
    BY <1>2, <2>1 DEF TurnType
  <2>3. /\ r.mode = turn[t].mode /\ r.gen = turn[t].gen /\ r.task = turn[t].task
        /\ r.final = turn[t].final /\ r.status = turn[t].status
        /\ r.dispatch = turn[t].dispatch
    BY <1>2, <2>1 DEF TurnType
  <2>4. next \in Middle \cup {"end"} /\ next # "enqueue"
    BY DEF Middle
  <2>5. Yield(t, r, kind, next)
    BY <1>4, <2>1
  <2> QED BY <1>1, <1>2, <2>2, <2>3, <2>4, <2>5, YieldMove
<1>5. CASE Yield(t, [turn[t] EXCEPT !.answer = turn[t].parts + 1], "DELTA", "finish")
  <2>1. PICK n : n = turn[t].parts + 1
    OBVIOUS
  <2>2. Yield(t, [turn[t] EXCEPT !.answer = n], "DELTA", "finish")
    BY <1>5, <2>1
  <2>3. n \in Nat /\ "DELTA" \in Kinds \ {"DONE"}
    BY <1>3, <2>1 DEF Kinds
  <2> QED BY <1>4, <2>2, <2>3
<1>6. CASE Yield(t, [turn[t] EXCEPT !.answer = 1], "PRESENTATION", "answer")
  <2>1. "PRESENTATION" \in Kinds \ {"DONE"}
    BY DEF Kinds
  <2> QED BY <1>4, <1>6, <2>1
<1>7. CASE Raises(t)
  BY <1>1, <1>2, <1>7, RaisesYields
<1>8. ASSUME NEW n \in Nat,
             turn' = [turn EXCEPT ![t].answer = n, ![t].pos = "finish"],
             UNCHANGED stream
      PROVE  ChatInv' /\ WritesWell
  <2>1. PICK r : r = [turn[t] EXCEPT !.answer = n, !.pos = "finish"]
    OBVIOUS
  <2>2. turn' = [turn EXCEPT ![t] = r]
    BY <1>8, <2>1 DEF ChatInv, TypeOK
  <2>3. r \in TurnType
    BY <1>2, <2>1 DEF TurnType, OtherPos
  <2>4. /\ r.mode = turn[t].mode /\ r.gen = turn[t].gen /\ r.task = turn[t].task
        /\ r.final = turn[t].final /\ r.status = turn[t].status /\ r.out = turn[t].out
        /\ r.dispatch = turn[t].dispatch /\ r.pos = "finish"
    BY <1>2, <2>1 DEF TurnType
  <2>5. "finish" \in Middle \cup {"end"} /\ None # "DONE"
    BY Nothing DEF Middle, Kinds
  <2>6. UNCHANGED <<lock, wire>>
    BY <1>8 DEF stream
  <2> QED BY <1>1, <1>2, <2>2, <2>3, <2>4, <2>5, <2>6, QuietMove
<1> QED BY <1>3, <1>5, <1>6, <1>7, <1>8 DEF Output

LEMMA AnswerStep ==
    ASSUME ChatInv, NEW t \in Turns, Answer(t)
    PROVE  ChatInv' /\ WritesWell
<1>1. /\ Live(t) /\ turn[t].out = None /\ turn[t].pos = "answer"
      /\ UNCHANGED <<loop, hist, kept>>
  BY DEF Answer, At
<1>2. /\ turn[t] \in TurnType /\ ~turn[t].final /\ turn[t].status = "ok"
      /\ turn[t].task = "live" /\ turn[t].dispatch # "running" /\ turn[t].pos \in Middle
  BY <1>1, InTheMiddle DEF Middle
<1>3. "finish" \in Middle \cup {"end"} /\ None # "DONE" /\ "DELTA" \in Kinds \ {"DONE"}
  BY Nothing DEF Middle, Kinds
<1>4. CASE Yield(t, [turn[t] EXCEPT !.parts = 1], "DELTA", "finish")
  <2>1. PICK r : r = [turn[t] EXCEPT !.parts = 1]
    OBVIOUS
  <2>2. r \in TurnType
    BY <1>2, <2>1 DEF TurnType
  <2>3. /\ r.mode = turn[t].mode /\ r.gen = turn[t].gen /\ r.task = turn[t].task
        /\ r.final = turn[t].final /\ r.status = turn[t].status
        /\ r.dispatch = turn[t].dispatch
    BY <1>2, <2>1 DEF TurnType
  <2>4. Yield(t, r, "DELTA", "finish")
    BY <1>4, <2>1
  <2> QED BY <1>1, <1>2, <1>3, <2>2, <2>3, <2>4, YieldMove
<1>5. CASE turn' = [turn EXCEPT ![t].pos = "finish"] /\ UNCHANGED stream
  <2>1. PICK r : r = [turn[t] EXCEPT !.pos = "finish"]
    OBVIOUS
  <2>2. turn' = [turn EXCEPT ![t] = r]
    BY <1>5, <2>1 DEF ChatInv, TypeOK
  <2>3. r \in TurnType
    BY <1>2, <2>1 DEF TurnType, OtherPos
  <2>4. /\ r.mode = turn[t].mode /\ r.gen = turn[t].gen /\ r.task = turn[t].task
        /\ r.final = turn[t].final /\ r.status = turn[t].status /\ r.out = turn[t].out
        /\ r.dispatch = turn[t].dispatch /\ r.pos = "finish"
    BY <1>2, <2>1 DEF TurnType
  <2>5. UNCHANGED <<lock, wire>>
    BY <1>5 DEF stream
  <2> QED BY <1>1, <1>2, <1>3, <2>2, <2>3, <2>4, <2>5, QuietMove
<1> QED BY <1>4, <1>5 DEF Answer

(***************************************************************************)
(* Steps that leave something behind.                                      *)
(***************************************************************************)
\* The record that is written for t, if its input is one to remember.
LEMMA Remembered ==
    ASSUME ChatInv, NEW t \in Turns, NEW r \in TurnType,
           NEW s \in {"active", "ok", "cancelled", "errored"}, NEW x \in Nat,
           _remember_turn(t, r, s, x)
    PROVE  /\ hist' \in [Turns -> RecordType \cup {None}]
           /\ \A u \in Turns \ {t} : hist'[u] = hist[u]
           /\ Record(r, s, x) \in RecordType /\ Record(r, s, x) # None
           /\ Record(r, s, x).status = s
           /\ hist'[t] = IF Keeps(turn[t]) THEN Record(r, s, x) ELSE hist[t]
<1>1. hist \in [Turns -> RecordType \cup {None}]
  BY DEF ChatInv, TypeOK
<1>2. Record(r, s, x) \in RecordType /\ Record(r, s, x).status = s
  BY DEF Record, RecordType, TurnType
<1>3. Record(r, s, x) # None
  BY <1>2, Nothing
<1> QED BY <1>1, <1>2, <1>3 DEF _remember_turn, Remembers, Keeps

\* ObservationCommits, Persist and DispatchEnds: the turn itself stays where it is.
LEMMA ObservationStep ==
    ASSUME ChatInv, NEW t \in Turns, ObservationCommits(t)
    PROVE  ChatInv' /\ WritesWell
<1>1. /\ Live(t) /\ turn[t].pos = "enqueue" /\ turn[t].out = None
      /\ observed' = observed \cup {t}
      /\ UNCHANGED <<reader, accepted, generation, active, rpc, watching, notified, ack, cancels,
                     lock, wire, turn, hist, job, row>>
  BY DEF ObservationCommits, loop, stream, At
<1>2. /\ TurnGood(turn[t]) /\ LeftGood(turn[t], hist[t], job[t], row[t], t \in observed)
      /\ t \in accepted /\ DoneGood(t) /\ LockGood /\ turn[t] \in TurnType
  BY <1>1, UnstartedGood DEF ChatInv, TurnsInv, Live, WireInv, TypeOK
<1>3. turn' = [turn EXCEPT ![t] = turn[t]]
  BY <1>1 DEF ChatInv, TypeOK
<1>4. OthersKept(t)
  BY <1>1 DEF OthersKept, ChatInv, TypeOK
<1>5. LeftGood(turn[t], hist'[t], job'[t], row'[t], t \in observed')
  BY <1>1, <1>2 DEF LeftGood, TurnGood, Refused
<1>6. lock # t
  BY <1>1, <1>2, Nothing DEF LockGood
<1>7. active' \in [Convs -> Turns \cup {None}] /\ watching' \in BOOLEAN /\ notified' \in BOOLEAN
  BY <1>1 DEF ChatInv, TypeOK
<1>8. rpc = "open" /\ wire'[t] = "DONE" =>
         /\ turn[t].task = "live" => turn[t].pos \in {"feedback", "end", "raise"}
         /\ turn[t].out = None \/ lock' = t
  BY <1>1, <1>2 DEF DoneGood, Live
<1> QED BY <1>1, <1>2, <1>3, <1>4, <1>5, <1>6, <1>7, <1>8, TurnStep

LEMMA PersistStep ==
    ASSUME ChatInv, NEW t \in Turns, Persist(t)
    PROVE  ChatInv' /\ WritesWell
<1>1. /\ job[t] # None /\ job' = [job EXCEPT ![t] = None]
      /\ row' = [row EXCEPT ![t] = job[t]] \/ row' = row
      /\ UNCHANGED <<reader, accepted, generation, active, rpc, watching, notified, ack, cancels,
                     lock, wire, turn, hist, observed>>
  BY DEF Persist, loop, stream
<1>2. /\ TurnGood(turn[t]) /\ LeftGood(turn[t], hist[t], job[t], row[t], t \in observed)
      /\ DoneGood(t) /\ LockGood /\ turn[t] \in TurnType
      /\ t \notin accepted => turn[t] = Unstarted
      /\ turn[t].out # None => ~Stale(t)
  BY DEF ChatInv, TurnsInv, WireInv, TypeOK
<1>3. turn' = [turn EXCEPT ![t] = turn[t]]
  BY <1>1 DEF ChatInv, TypeOK
<1>4. /\ job \in [Turns -> RecordType \cup {None}] /\ row \in [Turns -> RecordType \cup {None}]
      /\ job' \in [Turns -> RecordType \cup {None}] /\ row' \in [Turns -> RecordType \cup {None}]
      /\ job'[t] = None /\ row'[t] \in {job[t], row[t]}
      /\ \A u \in Turns \ {t} : job'[u] = job[u] /\ row'[u] = row[u]
  BY <1>1 DEF ChatInv, TypeOK
<1>5. OthersKept(t)
  BY <1>1, <1>4 DEF OthersKept, ChatInv, TypeOK
<1>6. t \in accepted
  BY <1>1, <1>2, UnstartedGood DEF LeftGood, Refused
<1>7. LeftGood(turn[t], hist'[t], job'[t], row'[t], t \in observed')
  BY <1>1, <1>2, <1>4 DEF LeftGood
<1>8. lock = t => turn[t].task = "live" /\ turn[t].out # None
  BY <1>2, Nothing DEF LockGood, Live
<1>9. active' \in [Convs -> Turns \cup {None}] /\ watching' \in BOOLEAN /\ notified' \in BOOLEAN
  BY <1>1 DEF ChatInv, TypeOK
<1>10. rpc = "open" /\ wire'[t] = "DONE" =>
         /\ turn[t].task = "live" => turn[t].pos \in {"feedback", "end", "raise"}
         /\ turn[t].out = None \/ lock' = t
  BY <1>1, <1>2 DEF DoneGood, Live
<1> QED BY <1>1, <1>2, <1>3, <1>5, <1>6, <1>7, <1>8, <1>9, <1>10, TurnStep DEF Live

(***************************************************************************)
(* Steps of a turn that leave nothing behind.                              *)
(***************************************************************************)
LEMMA NothingLeftStep ==
    ASSUME ChatInv, NEW t \in Turns, NEW r, TurnGood(r), turn' = [turn EXCEPT ![t] = r],
           UNCHANGED <<reader, accepted, generation, rpc, ack, cancels, hist, kept>>,
           watching' \in BOOLEAN, notified' \in BOOLEAN,
           active' \in [Convs -> Turns \cup {None}],
           \A c \in Convs : \/ active'[c] = active[c]
                            \/ active[c] = t /\ active'[c] = None /\ r.task # "live",
           wire' \in [Turns -> {"none", "DONE", "ERROR"}],
           \A u \in Turns \ {t} : wire'[u] = wire[u],
           t \in accepted, r.task = "live" => Live(t), r.gen = turn[t].gen,
           r.mode = turn[t].mode, r.status = turn[t].status, r.text = turn[t].text,
           r.private = turn[t].private, r.final = turn[t].final,
           r.pos \in Refused <=> turn[t].pos \in Refused,
           r.pos = "closed" <=> turn[t].pos = "closed",
           r.out # None => ~Stale(t),
           \/ lock' = lock /\ (lock = t => r.task = "live" /\ r.out # None)
           \/ /\ lock = "free" /\ lock' = t /\ r.task = "live" /\ r.out # None
              /\ rpc = "open" => wire[t] # "DONE"
           \/ lock = t /\ lock' = "free",
           rpc = "open" /\ wire'[t] = "DONE" =>
              /\ r.task = "live" => r.pos \in {"feedback", "end", "raise"}
              /\ r.out = None \/ lock' = t
    PROVE  ChatInv' /\ WritesWell
<1>1. UNCHANGED <<observed, job, row>>
  BY DEF kept
<1>2. LeftGood(turn[t], hist[t], job[t], row[t], t \in observed)
  BY DEF ChatInv, TurnsInv
<1>3. OthersKept(t)
  BY <1>1 DEF OthersKept, ChatInv, TypeOK
<1>4. Record(r, r.status, r.text) = Record(turn[t], turn[t].status, turn[t].text)
  BY DEF Record
<1>5. LeftGood(r, hist'[t], job'[t], row'[t], t \in observed')
  BY <1>1, <1>2, <1>4 DEF LeftGood, Keeps
<1> QED BY <1>3, <1>5, TurnStep

\* What the invariant says of one turn, and of what the loop keeps.
LEMMA OneTurn ==
    ASSUME ChatInv, NEW t \in Turns
    PROVE  /\ TurnGood(turn[t]) /\ turn[t] \in TurnType /\ turn \in [Turns -> TurnType]
           /\ LeftGood(turn[t], hist[t], job[t], row[t], t \in observed)
           /\ DoneGood(t) /\ LockGood
           /\ lock = t => turn[t].task = "live" /\ turn[t].out # None
           /\ turn[t].pos # "none" => t \in accepted
           /\ turn[t].task # "none" => t \in accepted
           /\ turn[t].out # None => ~Stale(t)
           /\ active \in [Convs -> Turns \cup {None}]
           /\ wire \in [Turns -> {"none", "DONE", "ERROR"}]
           /\ watching \in BOOLEAN /\ notified \in BOOLEAN
<1>1. /\ TurnGood(turn[t]) /\ LeftGood(turn[t], hist[t], job[t], row[t], t \in observed)
      /\ t \notin accepted => turn[t] = Unstarted
  BY DEF ChatInv, TurnsInv
<1>2. DoneGood(t) /\ LockGood /\ (turn[t].out # None => ~Stale(t))
  BY DEF ChatInv, WireInv
<1>3. lock = t => turn[t].task = "live" /\ turn[t].out # None
  BY <1>2, Nothing DEF LockGood, Live
<1>4. /\ turn \in [Turns -> TurnType] /\ active \in [Convs -> Turns \cup {None}]
      /\ wire \in [Turns -> {"none", "DONE", "ERROR"}]
      /\ watching \in BOOLEAN /\ notified \in BOOLEAN
  BY DEF ChatInv, TypeOK
<1> QED BY <1>1, <1>2, <1>3, <1>4, UnstartedGood

LEMMA DispatchEndsStep ==
    ASSUME ChatInv, NEW t \in Turns, DispatchEnds(t)
    PROVE  ChatInv' /\ WritesWell
<1>1. /\ turn[t].dispatch = "running"
      /\ UNCHANGED <<reader, accepted, generation, active, rpc, watching, notified, ack, cancels,
                     lock, wire, hist, kept>>
  BY DEF DispatchEnds, loop, stream
<1>2. PICK r : r = [turn[t] EXCEPT !.dispatch = "ended"]
  OBVIOUS
<1>3. turn' = [turn EXCEPT ![t] = r]
  BY <1>2, OneTurn DEF DispatchEnds
<1>4. TurnGood(turn[t]) /\ turn[t] \in TurnType
  BY OneTurn
<1>5. r \in TurnType
  BY <1>2, <1>4 DEF TurnType
<1>6. /\ r.mode = turn[t].mode /\ r.gen = turn[t].gen /\ r.task = turn[t].task
      /\ r.final = turn[t].final /\ r.status = turn[t].status /\ r.out = turn[t].out
      /\ r.pos = turn[t].pos /\ r.text = turn[t].text /\ r.private = turn[t].private
      /\ r.parts = turn[t].parts /\ r.dispatch = "ended"
  BY <1>2, <1>4 DEF TurnType
<1>7. TurnGood(r)
  BY <1>4, <1>5, <1>6 DEF TurnGood, Keeps
<1>8. turn[t].pos # "none"
  BY <1>1, <1>4 DEF TurnGood
<1>9. /\ t \in accepted /\ (r.out # None => ~Stale(t))
      /\ lock = t => r.task = "live" /\ r.out # None
      /\ rpc = "open" /\ wire'[t] = "DONE" =>
            /\ r.task = "live" => r.pos \in {"feedback", "end", "raise"}
            /\ r.out = None \/ lock' = t
  BY <1>1, <1>6, <1>8, OneTurn DEF DoneGood, Live
<1>10. /\ active' \in [Convs -> Turns \cup {None}] /\ wire' \in [Turns -> {"none", "DONE", "ERROR"}]
       /\ watching' \in BOOLEAN /\ notified' \in BOOLEAN
  BY <1>1, OneTurn
<1> QED BY <1>1, <1>3, <1>6, <1>7, <1>9, <1>10, NothingLeftStep DEF Live

LEMMA FeedbackStep ==
    ASSUME ChatInv, NEW t \in Turns, FeedbackEnds(t)
    PROVE  ChatInv' /\ WritesWell
<1>1. /\ Live(t) /\ turn[t].pos = "feedback" /\ turn[t].out = None
      /\ UNCHANGED <<reader, accepted, generation, active, rpc, watching, notified, ack, cancels,
                     lock, wire, hist, kept>>
  BY DEF FeedbackEnds, loop, stream, At
<1>2. PICK r : r = [turn[t] EXCEPT !.pos = "end"]
  OBVIOUS
<1>3. turn' = [turn EXCEPT ![t] = r]
  BY <1>2, OneTurn DEF FeedbackEnds
<1>4. TurnGood(turn[t]) /\ turn[t] \in TurnType
  BY OneTurn
<1>5. r \in TurnType
  BY <1>2, <1>4 DEF TurnType, OtherPos
<1>6. /\ r.mode = turn[t].mode /\ r.gen = turn[t].gen /\ r.task = turn[t].task
      /\ r.final = turn[t].final /\ r.status = turn[t].status /\ r.out = turn[t].out
      /\ r.pos = "end" /\ r.text = turn[t].text /\ r.private = turn[t].private
      /\ r.parts = turn[t].parts /\ r.dispatch = turn[t].dispatch
  BY <1>2, <1>4 DEF TurnType
<1>7. TurnGood(r)
  BY <1>1, <1>4, <1>5, <1>6 DEF TurnGood, Keeps
<1>8. /\ t \in accepted /\ lock # t
      /\ rpc = "open" /\ wire'[t] = "DONE" =>
            /\ r.task = "live" => r.pos \in {"feedback", "end", "raise"}
            /\ r.out = None \/ lock' = t
      /\ r.pos \notin Refused /\ turn[t].pos \notin Refused
  BY <1>1, <1>6, OneTurn DEF Refused
<1>9. /\ active' \in [Convs -> Turns \cup {None}] /\ wire' \in [Turns -> {"none", "DONE", "ERROR"}]
      /\ watching' \in BOOLEAN /\ notified' \in BOOLEAN
  BY <1>1, OneTurn
<1> QED BY <1>1, <1>3, <1>6, <1>7, <1>8, <1>9, NothingLeftStep DEF Live

\* A waiting turn gets the write lock.
LEMMA LockStep ==
    ASSUME ChatInv, NEW t \in Turns, LockAcquired(t)
    PROVE  ChatInv' /\ WritesWell
<1>1. /\ Live(t) /\ turn[t].out # None /\ lock = "free" /\ lock' = t
      /\ UNCHANGED <<reader, accepted, generation, active, rpc, watching, notified, ack, cancels,
                     turn, hist, kept>>
      /\ \/ wire' = wire
         \/ /\ turn[t].out \in {"DONE", "ERROR"}
            /\ wire' = [wire EXCEPT ![t] = turn[t].out]
  BY DEF LockAcquired, Send, loop
<1>2. turn' = [turn EXCEPT ![t] = turn[t]]
  BY <1>1, OneTurn
<1>3. /\ TurnGood(turn[t]) /\ turn[t] \in TurnType /\ t \in accepted /\ ~Stale(t)
      /\ rpc = "open" => wire[t] # "DONE"
  BY <1>1, OneTurn, Nothing DEF Live, DoneGood
<1>4. /\ wire' \in [Turns -> {"none", "DONE", "ERROR"}] /\ wire'[t] \in {wire[t], turn[t].out}
      /\ \A u \in Turns \ {t} : wire'[u] = wire[u]
  BY <1>1, OneTurn
<1>5. rpc = "open" /\ wire'[t] = "DONE" => turn[t].pos \in {"feedback", "end", "raise"}
  BY <1>3, <1>4 DEF TurnGood
<1>6. /\ active' \in [Convs -> Turns \cup {None}]
      /\ watching' \in BOOLEAN /\ notified' \in BOOLEAN
  BY <1>1, OneTurn
<1> QED BY <1>1, <1>2, <1>3, <1>4, <1>5, <1>6, NothingLeftStep DEF Live

LEMMA WrittenStep ==
    ASSUME ChatInv, NEW t \in Turns, Written(t)
    PROVE  ChatInv' /\ WritesWell
<1>1. /\ lock = t /\ lock' = "free"
      /\ UNCHANGED <<reader, accepted, generation, active, rpc, watching, notified, ack, cancels,
                     wire, hist, kept>>
  BY DEF Written, loop
<1>2. /\ TurnGood(turn[t]) /\ turn[t] \in TurnType /\ turn[t].task = "live"
      /\ t \in accepted /\ turn[t].pos # "admit"
  BY <1>1, OneTurn DEF TurnGood
<1> DEFINE k == IF turn[t].pos = "denied" THEN "done" ELSE turn[t].task
<1>3. k \in {"live", "done"}
  BY <1>2
<1>4. PICK r : r = [turn[t] EXCEPT !.out = None, !.task = k]
  OBVIOUS
<1>5. turn' = [turn EXCEPT ![t] = r]
  BY <1>4, OneTurn DEF Written
<1> HIDE DEF k
<1>6. r \in TurnType
  BY <1>2, <1>3, <1>4 DEF TurnType
<1>7. /\ r.mode = turn[t].mode /\ r.gen = turn[t].gen /\ r.task = k
      /\ r.final = turn[t].final /\ r.status = turn[t].status /\ r.out = None
      /\ r.pos = turn[t].pos /\ r.text = turn[t].text /\ r.private = turn[t].private
      /\ r.parts = turn[t].parts /\ r.dispatch = turn[t].dispatch
  BY <1>2, <1>4 DEF TurnType
<1>8. TurnGood(r)
  BY <1>2, <1>3, <1>6, <1>7, Nothing DEF TurnGood, Keeps, Kinds
<1>9. rpc = "open" /\ wire'[t] = "DONE" =>
         /\ r.task = "live" => r.pos \in {"feedback", "end", "raise"}
         /\ r.out = None \/ lock' = t
  BY <1>1, <1>2, <1>7, OneTurn DEF DoneGood, Live
<1>10. /\ active' \in [Convs -> Turns \cup {None}] /\ wire' \in [Turns -> {"none", "DONE", "ERROR"}]
       /\ watching' \in BOOLEAN /\ notified' \in BOOLEAN
  BY <1>1, OneTurn
<1> QED BY <1>1, <1>2, <1>5, <1>7, <1>8, <1>9, <1>10, NothingLeftStep DEF Live

(***************************************************************************)
(* What a cancellation, or a write on a dead RPC, makes of a turn.         *)
(***************************************************************************)
LEMMA HeardIsNat == ASSUME NEW r \in TurnType PROVE HeardText(r) \in Nat
BY DEF HeardText, TurnType

LEMMA AbandonGood ==
    ASSUME NEW r, TurnGood(r), r.task = "live", r.pos # "admit",
           NEW outcome \in {"done", "failed"}, NEW y, y = Abandon(r, outcome)
    PROVE  /\ TurnGood(y) /\ y.task = outcome /\ y.out = None
           /\ y.mode = r.mode /\ y.gen = r.gen /\ y.status = r.status /\ y.text = r.text
           /\ y.private = r.private /\ y.final = r.final
           /\ y.pos \in Refused <=> r.pos \in Refused
           /\ y.pos # "closed" /\ r.pos # "closed"
<1> DEFINE p == IF r.pos = "denied" THEN r.pos ELSE "abandoned"
<1>1. /\ r.pos = "denied" => p = "denied"
      /\ r.pos # "denied" => p = "abandoned"
  OBVIOUS
<1>2. y = [r EXCEPT !.task = outcome, !.out = None, !.pos = p]
  BY DEF Abandon
<1> HIDE DEF p
<1>3. p \in AwaitPos \cup OtherPos
  BY <1>1 DEF OtherPos
<1>4. r \in TurnType /\ r.pos \notin {"none", "closed", "admit", "abandoned"}
  BY DEF TurnGood
<1>5. y \in TurnType
  BY <1>2, <1>3, <1>4 DEF TurnType
<1>6. /\ y.task = outcome /\ y.out = None /\ y.pos = p
      /\ y.mode = r.mode /\ y.gen = r.gen /\ y.status = r.status /\ y.text = r.text
      /\ y.private = r.private /\ y.final = r.final /\ y.dispatch = r.dispatch
      /\ y.parts = r.parts
  BY <1>2, <1>4 DEF TurnType
<1>7. TurnGood(y)
  BY <1>1, <1>5, <1>6, Nothing DEF TurnGood, Kinds
<1> QED BY <1>1, <1>4, <1>6, <1>7 DEF Refused

LEMMA InterruptedGood ==
    ASSUME NEW r, TurnGood(r), r.task = "live", NEW stale \in BOOLEAN,
           NEW y, y = Interrupted(r, stale)
    PROVE  /\ TurnGood(y) /\ y.task = "live" /\ y.out = (IF stale THEN None ELSE "ERROR")
           /\ y.mode = r.mode /\ y.gen = r.gen /\ y.status = "cancelled"
           /\ y.text = HeardText(r) /\ y.private = r.private /\ y.final /\ y.pos = "raise"
<1> DEFINE d == IF r.dispatch = "running" THEN "cancelled" ELSE r.dispatch
           o == IF stale THEN None ELSE "ERROR"
<1>1. r \in TurnType
  BY DEF TurnGood
<1>2. d \in {"none", "ended", "cancelled"}
  BY <1>1 DEF TurnType
<1>3. o \in {None, "ERROR"} /\ o \in Kinds \cup {None}
  BY DEF Kinds
<1>4. HeardText(r) \in Nat
  BY <1>1, HeardIsNat
<1>5. y = [r EXCEPT !.status = "cancelled", !.text = HeardText(r), !.final = TRUE,
                    !.pos = "raise", !.out = o, !.dispatch = d]
  BY DEF Interrupted
<1>6. PICK x : x = HeardText(r)
  OBVIOUS
<1>7. y = [r EXCEPT !.status = "cancelled", !.text = x, !.final = TRUE,
                    !.pos = "raise", !.out = o, !.dispatch = d]
  BY <1>5, <1>6
<1>8. o = (IF stale THEN None ELSE "ERROR")
  OBVIOUS
<1> HIDE DEF d, o
<1>9. y \in TurnType
  <2>1. x \in Nat /\ d \in {"none", "running", "ended", "cancelled"}
    BY <1>2, <1>4, <1>6
  <2>2. "raise" \in AwaitPos \cup OtherPos /\ o \in Kinds \cup {None}
    BY <1>3 DEF OtherPos
  <2> QED BY <1>1, <1>7, <2>1, <2>2, ZenonT(40) DEF TurnType
<1>10. /\ y.status = "cancelled" /\ y.text = x /\ y.final /\ y.pos = "raise" /\ y.out = o
       /\ y.dispatch = d /\ y.mode = r.mode /\ y.gen = r.gen /\ y.task = r.task
       /\ y.private = r.private /\ y.parts = r.parts
  BY <1>1, <1>7 DEF TurnType
<1>11. TurnGood(y)
  BY <1>2, <1>3, <1>9, <1>10, Nothing DEF TurnGood, Kinds
<1> QED BY <1>6, <1>8, <1>10, <1>11

LEMMA WriteRaisesStep ==
    ASSUME ChatInv, NEW t \in Turns, WriteRaises(t)
    PROVE  ChatInv' /\ WritesWell
<1>1. /\ lock = t /\ lock' = "free" /\ rpc = "gone"
      /\ UNCHANGED <<reader, accepted, generation, active, rpc, watching, notified, ack, cancels,
                     wire, hist, kept>>
  BY DEF WriteRaises, loop
<1>2. /\ TurnGood(turn[t]) /\ turn[t].task = "live" /\ t \in accepted /\ turn[t].pos # "admit"
  BY <1>1, OneTurn DEF TurnGood
<1>3. PICK y : y = Abandon(turn[t], "failed")
  OBVIOUS
<1>4. turn' = [turn EXCEPT ![t] = y]
  BY <1>3, OneTurn DEF WriteRaises
<1>5. /\ TurnGood(y) /\ y.task = "failed" /\ y.out = None
      /\ y.mode = turn[t].mode /\ y.gen = turn[t].gen /\ y.status = turn[t].status
      /\ y.text = turn[t].text /\ y.private = turn[t].private /\ y.final = turn[t].final
      /\ y.pos \in Refused <=> turn[t].pos \in Refused
      /\ y.pos # "closed" /\ turn[t].pos # "closed"
  BY <1>2, <1>3, AbandonGood
<1>6. /\ active' \in [Convs -> Turns \cup {None}] /\ wire' \in [Turns -> {"none", "DONE", "ERROR"}]
      /\ watching' \in BOOLEAN /\ notified' \in BOOLEAN
  BY <1>1, OneTurn
<1> QED BY <1>1, <1>2, <1>4, <1>5, <1>6, NothingLeftStep

\* The done callback: the conversation has no active turn any more.
LEMMA DiscardStep ==
    ASSUME ChatInv, NEW t \in Turns, _discard_done(t)
    PROVE  ChatInv' /\ WritesWell
<1>1. /\ turn[t].task \in {"done", "failed"}
      /\ UNCHANGED <<reader, accepted, generation, rpc, watching, notified, ack, cancels,
                     lock, wire, hist, kept>>
  BY DEF _discard_done, stream
<1>2. TurnGood(turn[t]) /\ turn[t] \in TurnType /\ t \in accepted /\ lock # t
  BY <1>1, OneTurn
<1>3. PICK r : r = [turn[t] EXCEPT !.task = "discarded"]
  OBVIOUS
<1>4. turn' = [turn EXCEPT ![t] = r]
  BY <1>3, OneTurn DEF _discard_done
<1>5. r \in TurnType
  BY <1>2, <1>3 DEF TurnType
<1>6. /\ r.mode = turn[t].mode /\ r.gen = turn[t].gen /\ r.task = "discarded"
      /\ r.final = turn[t].final /\ r.status = turn[t].status /\ r.out = turn[t].out
      /\ r.pos = turn[t].pos /\ r.text = turn[t].text /\ r.private = turn[t].private
      /\ r.parts = turn[t].parts /\ r.dispatch = turn[t].dispatch
  BY <1>2, <1>3 DEF TurnType
<1>7. TurnGood(r) /\ r.out = None
  BY <1>1, <1>2, <1>5, <1>6 DEF TurnGood, Keeps
<1>8. /\ active' \in [Convs -> Turns \cup {None}]
      /\ \A c \in Convs : \/ active'[c] = active[c]
                          \/ active[c] = t /\ active'[c] = None /\ r.task # "live"
  BY <1>6, OneTurn, ConvTyped DEF _discard_done
<1>9. /\ wire' \in [Turns -> {"none", "DONE", "ERROR"}]
      /\ watching' \in BOOLEAN /\ notified' \in BOOLEAN
  BY <1>1, OneTurn
<1>10. /\ r.task # "live" /\ (r.pos \in Refused <=> turn[t].pos \in Refused)
       /\ r.pos = "closed" <=> turn[t].pos = "closed"
       /\ \A u \in Turns \ {t} : wire'[u] = wire[u]
       /\ r.out # None => ~Stale(t)
  BY <1>1, <1>6, <1>7
<1>11. /\ r.mode = turn[t].mode /\ r.gen = turn[t].gen /\ r.final = turn[t].final
       /\ r.status = turn[t].status /\ r.text = turn[t].text /\ r.private = turn[t].private
  BY <1>6
<1> QED BY <1>1, <1>2, <1>4, <1>7, <1>8, <1>9, <1>10, <1>11, NothingLeftStep

(***************************************************************************)
(* Steps that write the record of the turn: admission and the end of the   *)
(* answer.                                                                 *)
(***************************************************************************)
LEMMA RememberStep ==
    ASSUME ChatInv, NEW t \in Turns, Live(t), turn[t].out = None,
           turn[t].pos \in Middle \cup {"admit"},
           NEW r, TurnGood(r), turn' = [turn EXCEPT ![t] = r], UNCHANGED <<loop, kept>>,
           NEW y \in TurnType, y.private = r.private,
           NEW s \in {"active", "ok", "cancelled", "errored"}, NEW x \in Nat,
           _remember_turn(t, y, s, x),
           r.task = "live", r.gen = turn[t].gen, r.mode = turn[t].mode,
           r.pos \notin Refused, r.final => r.status = s /\ r.text = x,
           r.out # None => ~Stale(t),
           lock' = lock \/ (lock = "free" /\ lock' = t /\ r.out # None),
           \/ wire' = wire
           \/ /\ wire' = [wire EXCEPT ![t] = r.out] /\ r.out \in {"DONE", "ERROR"}
              /\ lock' = t
    PROVE  ChatInv' /\ WritesWell
<1>1. UNCHANGED <<reader, accepted, generation, active, rpc, watching, notified, ack, cancels,
                  observed, job, row>>
  BY DEF loop, kept
<1>2. /\ hist' \in [Turns -> RecordType \cup {None}]
      /\ \A u \in Turns \ {t} : hist'[u] = hist[u]
      /\ Record(y, s, x) # None
      /\ hist'[t] = IF Keeps(turn[t]) THEN Record(y, s, x) ELSE hist[t]
  BY Remembered
<1>3. Record(y, s, x) = Record(r, s, x)
  BY DEF Record
<1>4. /\ LeftGood(turn[t], hist[t], job[t], row[t], t \in observed)
      /\ t \in accepted /\ lock # t /\ turn[t].pos # "closed" /\ DoneGood(t)
      /\ wire \in [Turns -> {"none", "DONE", "ERROR"}]
  BY OneTurn DEF Middle
<1>5. r.pos # "closed"
  BY DEF TurnGood
<1>6. LeftGood(r, hist'[t], job'[t], row'[t], t \in observed')
  BY <1>1, <1>2, <1>3, <1>4, <1>5 DEF LeftGood, Keeps
<1>7. /\ wire' \in [Turns -> {"none", "DONE", "ERROR"}]
      /\ \A u \in Turns \ {t} : wire'[u] = wire[u]
      /\ wire'[t] = wire[t] \/ (wire'[t] = r.out /\ lock' = t)
  BY <1>4
<1>8. OthersKept(t)
  BY <1>1, <1>2, <1>7 DEF OthersKept, ChatInv, TypeOK
<1>9. rpc = "open" => wire[t] # "DONE"
  BY <1>4 DEF DoneGood, Middle
<1>10. rpc = "open" /\ wire'[t] = "DONE" =>
          /\ r.task = "live" => r.pos \in {"feedback", "end", "raise"}
          /\ r.out = None \/ lock' = t
  BY <1>7, <1>9 DEF TurnGood
<1>11. active' \in [Convs -> Turns \cup {None}] /\ watching' \in BOOLEAN /\ notified' \in BOOLEAN
  BY <1>1, OneTurn
<1> QED BY <1>1, <1>4, <1>6, <1>8, <1>9, <1>10, <1>11, TurnStep

\* The answer is complete: its record is finished, then DONE is yielded.
LEMMA FinishStep ==
    ASSUME ChatInv, NEW t \in Turns, Finish(t)
    PROVE  ChatInv' /\ WritesWell
<1>1. /\ Live(t) /\ turn[t].out = None /\ turn[t].pos \in {"finish", "return"}
      /\ UNCHANGED <<loop, kept>>
  BY DEF Finish, At
<1>2. /\ turn[t] \in TurnType /\ turn[t].status = "ok" /\ turn[t].task = "live"
      /\ turn[t].dispatch # "running" /\ turn[t].pos \in Middle /\ TurnGood(turn[t])
      /\ turn[t].gen >= 1
  BY <1>1, InTheMiddle, OneTurn DEF Middle, TurnGood
<1>3. PICK x : x = turn[t].answer
  OBVIOUS
<1>4. x \in Nat
  BY <1>2, <1>3 DEF TurnType
<1>5. PICK r : r = [turn[t] EXCEPT !.text = x, !.final = TRUE]
  OBVIOUS
<1>6. r \in TurnType
  BY <1>2, <1>4, <1>5 DEF TurnType
<1>7. /\ r.mode = turn[t].mode /\ r.gen = turn[t].gen /\ r.task = turn[t].task
      /\ r.final /\ r.status = turn[t].status /\ r.dispatch = turn[t].dispatch /\ r.text = x
      /\ r.private = turn[t].private
  BY <1>2, <1>5 DEF TurnType
<1>8. PICK next \in {"feedback", "end"} : Yield(t, r, "DONE", next)
  BY <1>3, <1>5 DEF Finish
<1>9. _remember_turn(t, turn[t], "ok", x)
  BY <1>3 DEF Finish
<1>10. "DONE" \in Kinds /\ next \in AwaitPos \cup OtherPos
  BY DEF Kinds, AwaitPos, OtherPos
<1>11. PICK y \in TurnType :
          /\ turn' = [turn EXCEPT ![t] = y]
          /\ y.pos = next /\ y.out = (IF Stale(t) THEN None ELSE "DONE")
          /\ y.mode = r.mode /\ y.task = r.task /\ y.gen = r.gen /\ y.status = r.status
          /\ y.final = r.final /\ y.dispatch = r.dispatch /\ y.text = r.text
          /\ y.private = r.private
          /\ lock' = lock \/ (lock = "free" /\ lock' = t /\ y.out = "DONE" /\ ~Stale(t))
          /\ \/ wire' = wire
             \/ wire' = [wire EXCEPT ![t] = "DONE"] /\ lock' = t /\ y.out = "DONE"
  BY <1>6, <1>8, <1>10, Yielded
<1>12. TurnGood(y)
  BY <1>2, <1>7, <1>11 DEF TurnGood
<1>13. None # "DONE"
  BY Nothing DEF Kinds
<1>14. y.pos \notin Refused
  BY <1>11 DEF Refused
<1>15. /\ y.out # None => ~Stale(t)
       /\ lock' = lock \/ (lock = "free" /\ lock' = t /\ y.out # None)
       /\ \/ wire' = wire
          \/ wire' = [wire EXCEPT ![t] = y.out] /\ y.out \in {"DONE", "ERROR"} /\ lock' = t
  BY <1>11, <1>13
<1> QED BY <1>1, <1>2, <1>4, <1>7, <1>9, <1>11, <1>12, <1>14, <1>15, RememberStep

\* The first event of an admitted turn that goes on.
LEMMA AdmittedYield ==
    ASSUME ChatInv, NEW t \in Turns, At(t, "admit"), UNCHANGED <<loop, kept>>,
           NEW r \in TurnType, r.mode = turn[t].mode, r.gen = turn[t].gen, r.task = "live",
           ~r.final, r.status = "ok", r.dispatch # "running",
           NEW kind \in Kinds \ {"DONE", "ERROR"}, NEW next \in {"say", "return", "compile"},
           Yield(t, r, kind, next), _remember_turn(t, turn[t], "active", 0),
           r.private = turn[t].private
    PROVE  ChatInv' /\ WritesWell
<1>1. Live(t) /\ turn[t].out = None /\ turn[t].pos = "admit"
  BY DEF At
<1>2. turn[t] \in TurnType /\ TurnGood(turn[t]) /\ turn[t].gen >= 1
  BY <1>1, OneTurn DEF TurnGood, Live
<1>3. next \in AwaitPos \cup OtherPos
  BY DEF AwaitPos, OtherPos
<1>4. PICK y \in TurnType :
         /\ turn' = [turn EXCEPT ![t] = y]
         /\ y.pos = next /\ y.out = (IF Stale(t) THEN None ELSE kind)
         /\ y.mode = r.mode /\ y.task = r.task /\ y.gen = r.gen /\ y.status = r.status
         /\ y.final = r.final /\ y.dispatch = r.dispatch
         /\ y.private = r.private
         /\ lock' = lock \/ (lock = "free" /\ lock' = t /\ y.out = kind /\ ~Stale(t))
         /\ wire' = wire
  BY <1>3, Yielded
<1>5. kind # None /\ None # "DONE"
  BY Nothing DEF Kinds
<1>6. TurnGood(y)
  BY <1>2, <1>4, <1>5 DEF TurnGood
<1>7. y.pos \notin Refused
  BY <1>4 DEF Refused
<1>8. /\ y.out # None => ~Stale(t)
      /\ lock' = lock \/ (lock = "free" /\ lock' = t /\ y.out # None)
  BY <1>4, <1>5
<1> QED BY <1>1, <1>2, <1>4, <1>6, <1>7, <1>8, RememberStep

\* The guard's verdict: a cancellation caught meanwhile, crisis, refusal, or the turn goes on.
LEMMA AdmittedStep ==
    ASSUME ChatInv, NEW t \in Turns, Admitted(t)
    PROVE  ChatInv' /\ WritesWell
<1>1. /\ Live(t) /\ turn[t].out = None /\ turn[t].pos = "admit" /\ At(t, "admit")
      /\ UNCHANGED <<loop, kept>>
  BY DEF Admitted, At
<1>2. /\ turn[t] \in TurnType /\ TurnGood(turn[t]) /\ turn[t].gen >= 1 /\ turn[t].parts = 0
      /\ turn[t].task = "live" /\ ~turn[t].final /\ turn[t].status = "ok"
      /\ turn[t].dispatch # "running" /\ turn \in [Turns -> TurnType]
  BY <1>1, OneTurn DEF TurnGood, Live
<1>3. ASSUME NEW p \in BOOLEAN,
             LET judged == [turn[t] EXCEPT !.private = p] IN
             /\ turn' = [turn EXCEPT ![t] = Interrupted(judged, Stale(t))]
             /\ _remember_turn(t, judged, "cancelled", 0),
             UNCHANGED stream
      PROVE  ChatInv' /\ WritesWell
  <2>1. PICK b \in BOOLEAN : b = Stale(t)
    BY DEF Stale
  <2>2. PICK j : j = [turn[t] EXCEPT !.private = p]
    OBVIOUS
  <2>3. /\ j \in TurnType /\ j.private = p /\ j.mode = turn[t].mode /\ j.gen = turn[t].gen
        /\ j.task = turn[t].task /\ j.pos = turn[t].pos /\ j.out = turn[t].out
        /\ j.parts = turn[t].parts /\ j.status = turn[t].status
        /\ j.final = turn[t].final /\ j.dispatch = turn[t].dispatch
    BY <1>2, <2>2 DEF TurnType
  <2>4. TurnGood(j) /\ HeardText(j) = 0
    BY <1>2, <2>3 DEF TurnGood, Keeps, HeardText, TurnType
  <2>5. PICK y : y = Interrupted(j, b)
    OBVIOUS
  <2>6. /\ TurnGood(y) /\ y.task = "live" /\ y.out = (IF b THEN None ELSE "ERROR")
        /\ y.mode = turn[t].mode /\ y.gen = turn[t].gen /\ y.status = "cancelled"
        /\ y.text = 0 /\ y.private = j.private /\ y.pos = "raise"
    BY <1>2, <2>3, <2>4, <2>5, InterruptedGood
  <2>7. turn' = [turn EXCEPT ![t] = y] /\ _remember_turn(t, j, "cancelled", 0)
    BY <1>3, <2>1, <2>2, <2>5
  <2>8. UNCHANGED <<lock, wire>> /\ y.pos \notin Refused /\ (y.out # None => ~Stale(t))
    BY <1>3, <2>1, <2>6 DEF stream, Refused
  <2> QED BY <1>1, <1>2, <2>3, <2>6, <2>7, <2>8, RememberStep
<1>4. CASE /\ turn' = [turn EXCEPT ![t].pos = "crisis", ![t].private = TRUE]
           /\ UNCHANGED stream
           /\ _remember_turn(t, [turn[t] EXCEPT !.private = TRUE], "active", 0)
  <2>1. PICK p : p = [turn[t] EXCEPT !.private = TRUE]
    OBVIOUS
  <2>2. PICK r : r = [turn[t] EXCEPT !.pos = "crisis", !.private = TRUE]
    OBVIOUS
  <2>3. p \in TurnType /\ p.private = TRUE
    BY <1>2, <2>1 DEF TurnType
  <2>4. r \in TurnType
    BY <1>2, <2>2 DEF TurnType, AwaitPos
  <2>5. /\ r.mode = turn[t].mode /\ r.gen = turn[t].gen /\ r.task = turn[t].task
        /\ r.final = turn[t].final /\ r.status = turn[t].status /\ r.out = turn[t].out
        /\ r.dispatch = turn[t].dispatch /\ r.pos = "crisis" /\ r.private = TRUE
    BY <1>2, <2>2 DEF TurnType
  <2>6. turn' = [turn EXCEPT ![t] = r]
    BY <1>2, <1>4, <2>2
  <2>7. TurnGood(r) /\ r.pos \notin Refused
    BY <1>1, <1>2, <2>4, <2>5, Nothing DEF TurnGood, Kinds, Refused
  <2>8. UNCHANGED <<lock, wire>> /\ _remember_turn(t, p, "active", 0)
    BY <1>4, <2>1 DEF stream
  <2>9. ~r.final /\ r.out = None /\ p.private = r.private /\ r.task = "live"
    BY <1>1, <1>2, <2>3, <2>5
  <2> QED BY <1>1, <2>3, <2>5, <2>6, <2>7, <2>8, <2>9, RememberStep
<1>5. CASE SafeAnswer(t, turn[t]) /\ _remember_turn(t, turn[t], "active", 0)
  <2>1. PICK r : r = [turn[t] EXCEPT !.text = 1, !.answer = 1]
    OBVIOUS
  <2>2. r \in TurnType
    BY <1>2, <2>1 DEF TurnType
  <2>3. /\ r.mode = turn[t].mode /\ r.gen = turn[t].gen /\ r.task = turn[t].task
        /\ r.final = turn[t].final /\ r.status = turn[t].status
        /\ r.dispatch = turn[t].dispatch /\ r.private = turn[t].private
    BY <1>2, <2>1 DEF TurnType
  <2>4. PICK kind \in Kinds \ {"DONE", "ERROR"}, next \in {"say", "return", "compile"} :
           Yield(t, r, kind, next)
    BY <1>5, <2>1 DEF SafeAnswer, Kinds
  <2> QED BY <1>1, <1>2, <1>5, <2>2, <2>3, <2>4, AdmittedYield
<1>6. CASE /\ Remembers(t) /\ turn' = [turn EXCEPT ![t].pos = "enqueue"]
           /\ UNCHANGED stream
           /\ _remember_turn(t, turn[t], "active", 0)
  <2>1. PICK r : r = [turn[t] EXCEPT !.pos = "enqueue"]
    OBVIOUS
  <2>2. r \in TurnType
    BY <1>2, <2>1 DEF TurnType, AwaitPos
  <2>3. /\ r.mode = turn[t].mode /\ r.gen = turn[t].gen /\ r.task = turn[t].task
        /\ r.final = turn[t].final /\ r.status = turn[t].status /\ r.out = turn[t].out
        /\ r.dispatch = turn[t].dispatch /\ r.pos = "enqueue" /\ r.private = turn[t].private
    BY <1>2, <2>1 DEF TurnType
  <2>4. turn' = [turn EXCEPT ![t] = r]
    BY <1>2, <1>6, <2>1
  <2>5. TurnGood(r) /\ r.pos \notin Refused
    BY <1>1, <1>2, <1>6, <2>2, <2>3, Nothing DEF TurnGood, Kinds, Refused, Keeps, Remembers
  <2>6. UNCHANGED <<lock, wire>> /\ _remember_turn(t, turn[t], "active", 0)
    BY <1>6 DEF stream
  <2>7. ~r.final /\ r.out = None /\ r.task = "live" /\ turn[t] \in TurnType
    BY <1>1, <1>2, <2>3
  <2> QED BY <1>1, <2>3, <2>4, <2>5, <2>6, <2>7, RememberStep
<1>7. CASE Yield(t, turn[t], "STATE", "compile") /\ _remember_turn(t, turn[t], "active", 0)
  <2>1. "STATE" \in Kinds \ {"DONE", "ERROR"}
    BY DEF Kinds
  <2> QED BY <1>1, <1>2, <1>7, <2>1, AdmittedYield
<1> QED BY <1>3, <1>4, <1>5, <1>6, <1>7 DEF Admitted

\* The guard refuses the turn, or fails: its ERROR is written if it is still wanted.
LEMMA DeniedStep ==
    ASSUME ChatInv, NEW t \in Turns, Denied(t)
    PROVE  ChatInv' /\ WritesWell
<1>1. /\ Live(t) /\ turn[t].out = None /\ turn[t].pos = "admit"
      /\ UNCHANGED <<reader, accepted, generation, active, rpc, watching, notified, ack, cancels,
                     hist, kept>>
  BY DEF Denied, At, loop
<1>2. /\ turn[t] \in TurnType /\ TurnGood(turn[t]) /\ turn[t].gen >= 1
      /\ turn[t].task = "live" /\ ~turn[t].final /\ turn[t].status = "ok"
      /\ turn[t].dispatch # "running" /\ turn \in [Turns -> TurnType]
      /\ t \in accepted /\ lock # t /\ DoneGood(t)
      /\ wire \in [Turns -> {"none", "DONE", "ERROR"}]
  BY <1>1, OneTurn DEF TurnGood, Live
<1>3. /\ active' \in [Convs -> Turns \cup {None}]
      /\ watching' \in BOOLEAN /\ notified' \in BOOLEAN
  BY <1>1, OneTurn
<1>4. rpc = "open" => wire[t] # "DONE"
  BY <1>1, <1>2 DEF DoneGood
<1>5. turn[t].pos \in Refused /\ "denied" \in Refused
  BY <1>1 DEF Refused
<1>6. CASE turn' = [turn EXCEPT ![t].task = "failed", ![t].pos = "denied"] /\ UNCHANGED stream
  <2>1. PICK r : r = [turn[t] EXCEPT !.task = "failed", !.pos = "denied"]
    OBVIOUS
  <2>2. r \in TurnType
    BY <1>2, <2>1 DEF TurnType, OtherPos
  <2>3. /\ r.mode = turn[t].mode /\ r.gen = turn[t].gen /\ r.task = "failed"
        /\ r.final = turn[t].final /\ r.status = turn[t].status /\ r.out = turn[t].out
        /\ r.dispatch = turn[t].dispatch /\ r.pos = "denied" /\ r.private = turn[t].private
        /\ r.text = turn[t].text
    BY <1>2, <2>1 DEF TurnType
  <2>4. turn' = [turn EXCEPT ![t] = r]
    BY <1>2, <1>6, <2>1
  <2>5. TurnGood(r)
    BY <1>1, <1>2, <2>2, <2>3, Nothing DEF TurnGood, Kinds
  <2>6. UNCHANGED <<lock, wire>>
    BY <1>6 DEF stream
  <2> QED BY <1>1, <1>2, <1>3, <1>4, <1>5, <2>3, <2>4, <2>5, <2>6, NothingLeftStep
<1>7. CASE Yield(t, [turn[t] EXCEPT !.task = IF Stale(t) THEN "done" ELSE @], "ERROR", "denied")
  <2> DEFINE k == IF Stale(t) THEN "done" ELSE turn[t].task
  <2>1. k \in {"live", "done"} /\ (Stale(t) => k = "done") /\ (~Stale(t) => k = "live")
    BY <1>2
  <2>2. Yield(t, [turn[t] EXCEPT !.task = k], "ERROR", "denied")
    BY <1>7
  <2> HIDE DEF k
  <2>3. PICK r : r = [turn[t] EXCEPT !.task = k]
    OBVIOUS
  <2>4. r \in TurnType
    BY <1>2, <2>1, <2>3 DEF TurnType
  <2>5. /\ r.mode = turn[t].mode /\ r.gen = turn[t].gen /\ r.task = k
        /\ r.final = turn[t].final /\ r.status = turn[t].status
        /\ r.dispatch = turn[t].dispatch /\ r.private = turn[t].private
        /\ r.text = turn[t].text
    BY <1>2, <2>3 DEF TurnType
  <2>6. "ERROR" \in Kinds /\ "denied" \in AwaitPos \cup OtherPos /\ None # "ERROR" /\ None # "DONE"
    BY Nothing DEF Kinds, OtherPos
  <2>7. Yield(t, r, "ERROR", "denied")
    BY <2>2, <2>3
  <2>8. PICK y \in TurnType :
           /\ turn' = [turn EXCEPT ![t] = y]
           /\ y.pos = "denied" /\ y.out = (IF Stale(t) THEN None ELSE "ERROR")
           /\ y.mode = r.mode /\ y.task = r.task /\ y.gen = r.gen /\ y.status = r.status
           /\ y.final = r.final /\ y.dispatch = r.dispatch /\ y.text = r.text
           /\ y.private = r.private
           /\ lock' = lock \/ (lock = "free" /\ lock' = t /\ y.out = "ERROR" /\ ~Stale(t))
           /\ wire' = wire \/ wire' = [wire EXCEPT ![t] = "ERROR"]
    BY <2>4, <2>6, <2>7, Yielded
  <2>9. TurnGood(y)
    BY <1>2, <2>1, <2>5, <2>6, <2>8 DEF TurnGood
  <2>10. /\ wire' \in [Turns -> {"none", "DONE", "ERROR"}]
         /\ \A u \in Turns \ {t} : wire'[u] = wire[u]
         /\ rpc = "open" => wire'[t] # "DONE"
    BY <1>2, <1>4, <2>8
  <2>11. /\ y.out # None => ~Stale(t)
         /\ lock' = lock \/ (lock = "free" /\ lock' = t /\ y.out # None /\ y.task = "live")
    BY <2>1, <2>5, <2>6, <2>8
  <2>12. /\ y.mode = turn[t].mode /\ y.gen = turn[t].gen /\ y.status = turn[t].status
         /\ y.final = turn[t].final /\ y.text = turn[t].text /\ y.private = turn[t].private
         /\ y.pos \in Refused /\ y.pos # "closed" /\ turn[t].pos # "closed"
    BY <1>1, <1>5, <2>5, <2>8
  <2> QED BY <1>1, <1>2, <1>3, <1>4, <1>5, <2>8, <2>9, <2>10, <2>11, <2>12, NothingLeftStep
<1> QED BY <1>6, <1>7 DEF Denied

\* The finally block: an unfinished record is finished, and the same record goes
\* to the turn table, without its text if the input is not one to remember.
LEMMA FinallyStep ==
    ASSUME ChatInv, NEW t \in Turns, turn[t].pos \in {"end", "raise", "abandoned"},
           turn[t].out = None, NEW k \in {"none", "done", "failed", "discarded"},
           Finally(t, k), UNCHANGED <<loop, stream, observed, row>>
    PROVE  ChatInv' /\ WritesWell
<1>1. UNCHANGED <<reader, accepted, generation, active, rpc, watching, notified, ack, cancels,
                  lock, wire, observed, row>>
  BY DEF loop, stream
<1>2. /\ turn[t] \in TurnType /\ TurnGood(turn[t]) /\ turn \in [Turns -> TurnType]
      /\ LeftGood(turn[t], hist[t], job[t], row[t], t \in observed)
      /\ t \in accepted /\ lock # t
      /\ wire \in [Turns -> {"none", "DONE", "ERROR"}]
  BY OneTurn
<1>3. /\ turn[t].status \in {"ok", "cancelled", "errored"} /\ turn[t].text \in Nat
      /\ turn[t].mode \in AllModes /\ turn[t].gen \in Nat
      /\ turn[t].played \in Nat \cup {None}
  BY <1>2 DEF TurnType
<1>4. PICK y : y = [Unstarted EXCEPT !.mode = turn[t].mode, !.task = k, !.pos = "closed",
                                     !.gen = turn[t].gen, !.played = turn[t].played]
  OBVIOUS
<1>5. turn' = [turn EXCEPT ![t] = y]
  BY <1>4 DEF Finally
<1>6. Unstarted \in TurnType /\ TurnGood(Unstarted) /\ Unstarted.out = None
  BY UnstartedGood DEF TurnGood
<1>7. y \in TurnType
  BY <1>3, <1>4, <1>6 DEF TurnType, OtherPos
<1>8. /\ y.mode = turn[t].mode /\ y.task = k /\ y.pos = "closed" /\ y.gen = turn[t].gen
      /\ y.out = None /\ y.status = Unstarted.status /\ y.final = Unstarted.final
      /\ y.dispatch = Unstarted.dispatch
  BY <1>4, <1>6 DEF TurnType
<1>9. Unstarted.status = "ok" /\ ~Unstarted.final /\ Unstarted.dispatch # "running"
  BY <1>6, UnstartedGood DEF TurnGood
<1>10. TurnGood(y) /\ ~y.final
  BY <1>7, <1>8, <1>9, Nothing DEF TurnGood, Kinds
<1>11. PICK h : h = Record(turn[t], turn[t].status, turn[t].text)
  OBVIOUS
<1>12. h \in RecordType /\ h.status # "active" /\ h # None
  <2>1. h \in RecordType /\ h.status # "active"
    BY <1>2, <1>3, <1>11 DEF Record, RecordType, TurnType
  <2> QED BY <2>1, Nothing
<1>13. /\ hist' \in [Turns -> RecordType \cup {None}]
       /\ \A u \in Turns \ {t} : hist'[u] = hist[u]
       /\ hist'[t] = IF Keeps(turn[t]) THEN h ELSE hist[t]
  <2>1. CASE turn[t].final
    BY <1>2, <1>11, <2>1 DEF Finally, LeftGood, ChatInv, TypeOK
  <2>2. CASE ~turn[t].final
    <3>1. _remember_turn(t, turn[t], turn[t].status, turn[t].text)
      BY <2>2 DEF Finally
    <3>2. hist \in [Turns -> RecordType \cup {None}]
      BY DEF ChatInv, TypeOK
    <3> QED BY <1>11, <1>12, <3>1, <3>2 DEF _remember_turn, Remembers, Keeps
  <2> QED BY <2>1, <2>2
<1>14. PICK z : z = Record(turn[t], turn[t].status, IF Keeps(turn[t]) THEN turn[t].text ELSE 0)
  OBVIOUS
<1>15. /\ z \in RecordType /\ (~Keeps(turn[t]) => z.text = 0)
       /\ Keeps(turn[t]) => z = h
  BY <1>2, <1>3, <1>11, <1>14 DEF Record, RecordType, TurnType
<1>16. /\ job' \in [Turns -> RecordType \cup {None}]
       /\ \A u \in Turns \ {t} : job'[u] = job[u]
       /\ job'[t] = IF Ephemeral(t) THEN job[t] ELSE z
  <2>1. job' = IF Ephemeral(t) THEN job ELSE [job EXCEPT ![t] = z]
    BY <1>14 DEF Finally, Remembers, Keeps
  <2>2. job \in [Turns -> RecordType \cup {None}]
    BY DEF ChatInv, TypeOK
  <2> QED BY <1>15, <2>1, <2>2
<1>17. job[t] = None /\ row[t] = None /\ (~Keeps(turn[t]) => hist[t] = None /\ t \notin observed)
  BY <1>2 DEF LeftGood
<1>18. LeftGood(y, hist'[t], job'[t], row'[t], t \in observed')
  <2>1. Keeps(y) <=> Keeps(turn[t])
    BY <1>8 DEF Keeps
  <2>2. /\ Keeps(y) => "speculative" \notin y.mode
        /\ Ephemeral(t) <=> "speculative" \in y.mode
    BY <1>8 DEF Keeps, Ephemeral
  <2>3. y.pos \notin Refused
    BY <1>8 DEF Refused
  <2>4. CASE Keeps(y)
    BY <1>1, <1>8, <1>10, <1>12, <1>13, <1>15, <1>16, <1>17, <2>1, <2>2, <2>3, <2>4 DEF LeftGood
  <2>5. CASE ~Keeps(y)
    BY <1>1, <1>8, <1>10, <1>13, <1>15, <1>16, <1>17, <2>1, <2>2, <2>3, <2>5 DEF LeftGood
  <2> QED BY <2>4, <2>5
<1>19. OthersKept(t)
  BY <1>1, <1>2, <1>13, <1>16 DEF OthersKept, ChatInv, TypeOK
<1>20. /\ active' \in [Convs -> Turns \cup {None}]
       /\ watching' \in BOOLEAN /\ notified' \in BOOLEAN
  BY <1>1, OneTurn
<1>21. y.task # "live"
  BY <1>8
<1> QED BY <1>1, <1>2, <1>5, <1>8, <1>10, <1>18, <1>19, <1>20, <1>21, TurnStep

LEMMA EngineEndsStep ==
    ASSUME ChatInv, NEW t \in Turns, EngineEnds(t) \/ GeneratorClosed(t)
    PROVE  ChatInv' /\ WritesWell
<1>1. CASE EngineEnds(t)
  <2>1. /\ turn[t].pos \in {"end", "raise", "abandoned"} /\ turn[t].out = None
        /\ turn[t].task = "live" /\ Finally(t, "done")
        /\ UNCHANGED <<loop, stream, observed, row>>
    BY <1>1 DEF EngineEnds, At, Live
  <2> QED BY <2>1, FinallyStep
<1>2. CASE GeneratorClosed(t)
  <2>1. /\ turn[t].pos = "abandoned" /\ Finally(t, turn[t].task)
        /\ UNCHANGED <<loop, stream, observed, row>>
    BY <1>2 DEF GeneratorClosed
  <2>2. /\ turn[t].task \in {"none", "done", "failed", "discarded"} /\ turn[t].out = None
    BY <2>1, OneTurn DEF TurnGood, TurnType
  <2> QED BY <2>1, <2>2, FinallyStep
<1> QED BY <1>1, <1>2

(***************************************************************************)
(* task.cancel() of a set of turns, by the reader or by the watcher.       *)
(***************************************************************************)
\* What becomes of one of them, r: it is interrupted in the engine, or it is
\* dropped at a write, or it is left to the admission guard.
CancelGood(r, stale, y) ==
    /\ TurnGood(y) /\ y.mode = r.mode /\ y.gen = r.gen /\ y.private = r.private
    /\ y.task = "live" => r.task = "live"
    /\ r.task # "live" => y = r
    /\ r.task = "live" /\ InEngine(r) =>
          /\ y.task = "live" /\ y.pos = "raise" /\ y.final /\ y.status = "cancelled"
          /\ y.text = HeardText(r) /\ (y.out # None => ~stale)
    /\ ~(r.task = "live" /\ InEngine(r)) =>
          /\ y.out = None /\ y.status = r.status /\ y.text = r.text /\ y.final = r.final
          /\ y.pos \in Refused <=> r.pos \in Refused
          /\ y.pos = "closed" <=> r.pos = "closed"
          /\ y.task = "live" => r.pos = "admit"

LEMMA CancelledTurn ==
    ASSUME NEW r, TurnGood(r), NEW stale \in BOOLEAN, NEW y, y = CancelOf(r, stale)
    PROVE  CancelGood(r, stale, y)
<1>1. r \in TurnType
  BY DEF TurnGood
<1>2. CASE r.task # "live"
  <2>1. y = r /\ r.out = None
    BY <1>2 DEF CancelOf, TurnGood
  <2> QED BY <1>2, <2>1 DEF CancelGood
<1>3. CASE r.task = "live" /\ r.pos = "admit"
  <2>1. y = [r EXCEPT !.late = TRUE]
    BY <1>3 DEF CancelOf
  <2>2. y \in TurnType
    BY <1>1, <2>1 DEF TurnType
  <2>3. /\ y.mode = r.mode /\ y.gen = r.gen /\ y.private = r.private /\ y.task = r.task
        /\ y.out = r.out /\ y.status = r.status /\ y.text = r.text /\ y.final = r.final
        /\ y.pos = r.pos /\ y.parts = r.parts /\ y.dispatch = r.dispatch
    BY <1>1, <2>1 DEF TurnType
  <2>4. TurnGood(y) /\ r.out = None
    BY <1>3, <2>2, <2>3 DEF TurnGood, Keeps
  <2>5. ~InEngine(r)
    BY <1>3 DEF InEngine
  <2> QED BY <1>3, <2>3, <2>4, <2>5 DEF CancelGood
<1>4. CASE r.task = "live" /\ r.pos # "admit" /\ InEngine(r)
  <2>1. y = Interrupted(r, stale)
    BY <1>4 DEF CancelOf
  <2>2. /\ TurnGood(y) /\ y.task = "live" /\ y.out = (IF stale THEN None ELSE "ERROR")
        /\ y.mode = r.mode /\ y.gen = r.gen /\ y.status = "cancelled"
        /\ y.text = HeardText(r) /\ y.private = r.private /\ y.final /\ y.pos = "raise"
    BY <1>4, <2>1, InterruptedGood
  <2> QED BY <1>4, <2>2 DEF CancelGood
<1>5. CASE r.task = "live" /\ r.pos # "admit" /\ ~InEngine(r)
  <2>1. y = Abandon(r, "done")
    BY <1>5 DEF CancelOf
  <2>2. /\ TurnGood(y) /\ y.task = "done" /\ y.out = None
        /\ y.mode = r.mode /\ y.gen = r.gen /\ y.status = r.status /\ y.text = r.text
        /\ y.private = r.private /\ y.final = r.final
        /\ y.pos \in Refused <=> r.pos \in Refused
        /\ y.pos # "closed" /\ r.pos # "closed"
    BY <1>5, <2>1, AbandonGood
  <2> QED BY <1>5, <2>2 DEF CancelGood
<1> QED BY <1>2, <1>3, <1>4, <1>5

\* The input of a cancellation: the turns as they are, but for what was played.
InputGood(i, r) ==
    /\ TurnGood(i) /\ i.mode = r.mode /\ i.gen = r.gen /\ i.private = r.private
    /\ i.task = r.task /\ i.pos = r.pos /\ i.out = r.out /\ i.status = r.status
    /\ i.text = r.text /\ i.final = r.final
    /\ r.task # "live" => i = r

LEMMA CancelStep ==
    ASSUME ChatInv, NEW S \in SUBSET Turns, NEW now \in [Convs -> Nat], generation' = now,
           NEW input, \A u \in Turns : InputGood(input[u], turn[u]),
           CancelAll(S, now, input),
           reader' \in [pc : {"read", "cancelling", "ack", "acking", "starting",
                              "drain", "over"}, turn : Turns \cup {None},
                        gen : Nat, landed : BOOLEAN],
           watching' \in BOOLEAN, notified' \in BOOLEAN, cancels' \in 0 .. MaxCancels,
           UNCHANGED <<accepted, active, rpc, wire, ack, kept>>, ReaderInv',
           \A u \in Turns \ S : Live(u) => now[ConvOf[u]] = generation[ConvOf[u]],
           \A u \in S : rpc = "open" /\ Live(u) => now[ConvOf[u]] # turn[u].gen,
           reader'.pc \notin {"drain", "over"} =>
              /\ reader.pc \notin {"drain", "over"}
              /\ \A c \in Convs : generation[c] <= now[c],
           lock = "reader" <=> reader'.pc = "acking"
    PROVE  ChatInv' /\ WritesWell
<1>1. UNCHANGED <<accepted, active, rpc, wire, ack, observed, job, row>>
  BY DEF kept
<1> DEFINE stale(u) == now[ConvOf[u]] # turn[u].gen
           caught(u) == u \in S /\ Live(u) /\ InEngine(turn[u])
<1>2. /\ turn' = [u \in Turns |-> IF u \in S THEN CancelOf(input[u], stale(u)) ELSE turn[u]]
      /\ hist' = [u \in Turns |-> IF caught(u) /\ Remembers(u)
                                  THEN Record(input[u], "cancelled", HeardText(input[u]))
                                  ELSE hist[u]]
      /\ lock' = IF lock \in S /\ turn'[lock].task # "live" THEN "free" ELSE lock
  BY DEF CancelAll
<1>3. /\ turn \in [Turns -> TurnType] /\ generation \in [Convs -> Nat]
      /\ hist \in [Turns -> RecordType \cup {None}]
      /\ lock \in Turns \cup {"free", "reader"}
  BY DEF ChatInv, TypeOK
<1>4. ASSUME NEW u \in Turns
      PROVE  /\ TurnGood(turn'[u]) /\ turn'[u].mode = turn[u].mode /\ turn'[u].gen = turn[u].gen
             /\ turn'[u].private = turn[u].private
             /\ turn'[u].task = "live" => turn[u].task = "live"
             /\ turn[u].task # "live" => turn'[u] = turn[u]
             /\ u \notin S => turn'[u] = turn[u]
             /\ caught(u) =>
                   /\ turn'[u].pos = "raise" /\ turn'[u].final /\ turn'[u].status = "cancelled"
                   /\ turn'[u].text = HeardText(input[u])
                   /\ turn'[u].out # None => ~stale(u)
             /\ u \in S /\ ~caught(u) =>
                   /\ turn'[u].out = None /\ turn'[u].status = turn[u].status
                   /\ turn'[u].text = turn[u].text /\ turn'[u].final = turn[u].final
                   /\ turn'[u].pos \in Refused <=> turn[u].pos \in Refused
                   /\ turn'[u].pos = "closed" <=> turn[u].pos = "closed"
                   /\ turn'[u].task = "live" => turn[u].pos = "admit"
             /\ hist'[u] = IF caught(u) /\ Keeps(turn[u])
                           THEN Record(input[u], "cancelled", HeardText(input[u]))
                           ELSE hist[u]
  <2>1. TurnGood(turn[u])
    BY DEF ChatInv, TurnsInv
  <2>2. PICK i : i = input[u]
    OBVIOUS
  <2>3. InputGood(i, turn[u])
    BY <2>2
  <2>4. InEngine(i) <=> InEngine(turn[u])
    BY <2>3 DEF InEngine, InputGood
  <2>5. PICK b \in BOOLEAN : b = stale(u)
    OBVIOUS
  <2>6. hist'[u] = IF caught(u) /\ Keeps(turn[u])
                   THEN Record(input[u], "cancelled", HeardText(input[u])) ELSE hist[u]
    BY <1>2 DEF Remembers, Keeps
  <2>7. CASE u \notin S
    BY <1>2, <2>1, <2>6, <2>7
  <2>8. CASE u \in S
    <3>1. PICK y : y = CancelOf(i, b)
      OBVIOUS
    <3>2. turn'[u] = y
      BY <1>2, <2>2, <2>5, <2>8, <3>1
    <3>3. CancelGood(i, b, y)
      <4>1. TurnGood(i) /\ b \in BOOLEAN
        BY <2>3, <2>5 DEF InputGood
      <4> QED BY <3>1, <4>1, CancelledTurn
    <3>4. caught(u) <=> i.task = "live" /\ InEngine(i)
      BY <2>3, <2>4, <2>8 DEF InputGood, Live
    <3> HIDE DEF stale, caught
    <3> QED BY <2>2, <2>3, <2>5, <2>6, <2>8, <3>2, <3>3, <3>4 DEF InputGood, CancelGood
  <2> QED BY <2>7, <2>8
<1>5. ASSUME NEW u \in Turns, caught(u)
      PROVE  /\ turn[u].pos \notin Refused /\ turn[u].pos # "closed" /\ turn[u].task = "live"
             /\ turn[u].out = None
             /\ Record(input[u], "cancelled", HeardText(input[u])) \in RecordType
             /\ Record(input[u], "cancelled", HeardText(input[u])) # None
             /\ Record(input[u], "cancelled", HeardText(input[u]))
                   = Record(turn'[u], turn'[u].status, turn'[u].text)
  <2>1. /\ turn[u].pos \notin Refused /\ turn[u].pos # "closed" /\ turn[u].task = "live"
        /\ turn[u].out = None
    BY <1>5 DEF InEngine, AwaitPos, Refused, Live
  <2>2. PICK i : i = input[u]
    OBVIOUS
  <2>3. i \in TurnType /\ i.private = turn[u].private
    BY <2>2 DEF InputGood, TurnGood
  <2>4. HeardText(i) \in Nat
    BY <2>3, HeardIsNat
  <2>5. Record(i, "cancelled", HeardText(i)) \in RecordType
    BY <2>3, <2>4 DEF Record, RecordType, TurnType
  <2>6. Record(i, "cancelled", HeardText(i)) = Record(turn'[u], turn'[u].status, turn'[u].text)
    BY <1>4, <1>5, <2>2, <2>3 DEF Record
  <2> QED BY <2>1, <2>2, <2>5, <2>6, Nothing
<1>6. \A u \in Turns : Live(u)' => Live(u)
  BY <1>4 DEF Live
<1>7. /\ lock \in S => lock' = "free"
      /\ lock \notin S => lock' = lock
  <2>1. ASSUME lock \in S PROVE turn'[lock].task # "live"
    <3>1. PICK u \in Turns : u = lock
      BY <2>1
    <3>2. turn[u].task = "live" /\ turn[u].out # None /\ turn[u].pos # "admit"
      BY <3>1, OneTurn DEF TurnGood
    <3>3. u \in S /\ ~caught(u)
      BY <2>1, <3>1, <3>2 DEF InEngine
    <3> HIDE DEF caught
    <3> QED BY <1>4, <3>1, <3>2, <3>3
  <2> QED BY <1>2, <2>1
<1> HIDE DEF caught
<1>8. TypeOK'
  <2>1. turn' \in [Turns -> TurnType]
    BY <1>2, <1>4 DEF TurnGood
  <2>2. \A u \in Turns : hist'[u] \in RecordType \cup {None}
    BY <1>3, <1>4, <1>5
  <2>3. hist' \in [Turns -> RecordType \cup {None}]
    BY <1>2, <2>2
  <2>4. lock' \in Turns \cup {"free", "reader"}
    BY <1>3, <1>7
  <2> QED BY <1>1, <2>1, <2>3, <2>4 DEF ChatInv, TypeOK
<1>9. TurnsInv'
  <2> SUFFICES ASSUME NEW u \in Turns
               PROVE  /\ TurnGood(turn'[u])
                      /\ LeftGood(turn'[u], hist'[u], job'[u], row'[u], u \in observed')
                      /\ Live(u)' => active'[ConvOf[u]] = u
                      /\ Live(u)' /\ reader'.pc \notin {"drain", "over"} =>
                            turn'[u].gen <= generation'[ConvOf[u]]
                      /\ u \notin accepted' => turn'[u] = Unstarted /\ wire'[u] = "none"
    BY DEF TurnsInv, TurnGood, LeftGood
  <2>1. /\ TurnGood(turn[u])
        /\ LeftGood(turn[u], hist[u], job[u], row[u], u \in observed)
        /\ Live(u) => active[ConvOf[u]] = u
        /\ Live(u) /\ reader.pc \notin {"drain", "over"} =>
              turn[u].gen <= generation[ConvOf[u]]
        /\ u \notin accepted => turn[u] = Unstarted /\ wire[u] = "none"
    BY DEF ChatInv, TurnsInv
  <2>2. LeftGood(turn'[u], hist'[u], job'[u], row'[u], u \in observed')
    <3>1. CASE u \notin S
      <4>1. ~caught(u)
        BY <3>1 DEF caught
      <4> QED BY <1>1, <1>4, <2>1, <3>1, <4>1 DEF LeftGood
    <3>2. CASE caught(u)
      <4>1. turn'[u].pos = "raise" /\ turn'[u].mode = turn[u].mode
        BY <1>4, <3>2
      <4>2. turn'[u].pos \notin Refused /\ turn'[u].pos # "closed"
        BY <4>1 DEF Refused
      <4>3. /\ job[u] = None /\ row[u] = None
            /\ ~Keeps(turn[u]) => hist[u] = None /\ u \notin observed
        BY <1>5, <2>1, <3>2 DEF LeftGood
      <4>4. CASE Keeps(turn[u])
        <5>1. /\ hist'[u] # None
              /\ hist'[u] = Record(turn'[u], turn'[u].status, turn'[u].text)
          BY <1>4, <1>5, <3>2, <4>4
        <5> QED BY <1>1, <4>1, <4>2, <4>3, <4>4, <5>1 DEF LeftGood, Keeps
      <4>5. CASE ~Keeps(turn[u])
        <5>1. hist'[u] = hist[u]
          BY <1>4, <4>5
        <5> QED BY <1>1, <4>1, <4>2, <4>3, <4>5, <5>1 DEF LeftGood, Keeps
      <4> QED BY <4>4, <4>5
    <3>3. CASE u \in S /\ ~caught(u)
      <4>1. /\ turn'[u].mode = turn[u].mode /\ turn'[u].private = turn[u].private
            /\ turn'[u].status = turn[u].status
            /\ turn'[u].text = turn[u].text /\ turn'[u].final = turn[u].final
            /\ turn'[u].pos \in Refused <=> turn[u].pos \in Refused
            /\ turn'[u].pos = "closed" <=> turn[u].pos = "closed"
            /\ hist'[u] = hist[u]
        BY <1>4, <3>3
      <4>2. Record(turn'[u], turn'[u].status, turn'[u].text)
               = Record(turn[u], turn[u].status, turn[u].text)
        BY <4>1 DEF Record
      <4> QED BY <1>1, <2>1, <4>1, <4>2 DEF LeftGood, Keeps
    <3> QED BY <3>1, <3>2, <3>3
  <2>3. Live(u)' => active'[ConvOf[u]] = u
    BY <1>1, <1>6, <2>1
  <2>4. Live(u)' /\ reader'.pc \notin {"drain", "over"} =>
           turn'[u].gen <= generation'[ConvOf[u]]
    <3>1. SUFFICES ASSUME Live(u)', reader'.pc \notin {"drain", "over"}
                   PROVE  turn'[u].gen <= generation'[ConvOf[u]]
      OBVIOUS
    <3>2. turn[u].gen <= generation[ConvOf[u]]
      BY <1>6, <2>1, <3>1
    <3>3. generation[ConvOf[u]] <= now[ConvOf[u]] /\ turn'[u].gen = turn[u].gen
      BY <1>4, <3>1, ConvTyped
    <3>4. /\ generation[ConvOf[u]] \in Nat /\ now[ConvOf[u]] \in Nat /\ turn[u].gen \in Nat
      BY <1>3, <2>1, ConvTyped DEF TurnGood, TurnType
    <3> QED BY <3>2, <3>3, <3>4
  <2>5. u \notin accepted' => turn'[u] = Unstarted /\ wire'[u] = "none"
    BY <1>1, <1>4, <2>1, UnstartedGood
  <2> QED BY <1>4, <2>2, <2>3, <2>4, <2>5
<1>10. LockGood'
  <2>1. CASE lock \in S
    BY <1>7, <2>1, Nothing DEF LockGood
  <2>2. CASE lock \notin S
    BY <1>4, <1>7, <2>2, OneTurn DEF LockGood, Live, ChatInv, WireInv
  <2> QED BY <2>1, <2>2
<1>11. WireInv'
  <2> SUFFICES ASSUME NEW u \in Turns
               PROVE  /\ turn'[u].out # None => ~Stale(u)'
                      /\ DoneGood(u)'
    BY <1>10 DEF WireInv
  <2>1. /\ turn[u].out # None => ~Stale(u)
        /\ DoneGood(u) /\ TurnGood(turn[u])
        /\ Stale(u)' <=> stale(u)
    BY <1>4 DEF ChatInv, WireInv, TurnsInv, Stale
  <2>2. CASE u \notin S
    <3>1. turn'[u] = turn[u]
      BY <1>4, <2>2
    <3>2. turn'[u].out # None => ~Stale(u)'
      BY <2>1, <2>2, <3>1 DEF TurnGood, Live, Stale
    <3>3. lock = u => lock' = u
      BY <1>7, <2>2
    <3> QED BY <1>1, <2>1, <3>1, <3>2, <3>3 DEF DoneGood, Live
  <2>3. CASE caught(u)
    <3>1. u \in S /\ Live(u)
      BY <2>3 DEF caught
    <3>2. turn'[u].pos = "raise" /\ (turn'[u].out # None => ~stale(u))
      BY <1>4, <2>3
    <3>3. rpc = "open" => turn'[u].out = None
      BY <3>1, <3>2
    <3> QED BY <1>1, <2>1, <3>2, <3>3 DEF DoneGood
  <2>4. CASE u \in S /\ ~caught(u)
    <3>1. turn'[u].out = None /\ (Live(u)' => Live(u) /\ turn[u].pos = "admit")
      BY <1>4, <2>4 DEF Live
    <3> QED BY <1>1, <2>1, <3>1 DEF DoneGood
  <2> QED BY <2>2, <2>3, <2>4
<1>12. WritesWell
  BY <1>7, Nothing DEF WritesWell, Writes
<1> QED BY <1>8, <1>9, <1>11, <1>12 DEF ChatInv

\* A cancellation of the turns as they are.
LEMMA SameInput == ChatInv => \A u \in Turns : InputGood(turn[u], turn[u])
BY DEF ChatInv, TurnsInv, InputGood

\* What the invariant says of what the reader holds.
LEMMA TheReader ==
    ASSUME ChatInv
    PROVE  /\ reader \in [pc : {"read", "cancelling", "ack", "acking", "starting",
                                "drain", "over"}, turn : Turns \cup {None},
                          gen : Nat, landed : BOOLEAN]
           /\ generation \in [Convs -> Nat] /\ cancels \in 0 .. MaxCancels
           /\ watching \in BOOLEAN /\ notified \in BOOLEAN
           /\ active \in [Convs -> Turns \cup {None}]
           /\ lock = "reader" <=> reader.pc = "acking"
           /\ \A c \in Convs : active[c] # None => ConvOf[active[c]] = c
           /\ \A u \in Turns : Live(u) => active[ConvOf[u]] = u /\ turn[u].gen >= 1
                                          /\ turn[u].gen \in Nat
           /\ \A u \in Turns : Live(u) /\ reader.pc \notin {"drain", "over"} =>
                 turn[u].gen <= generation[ConvOf[u]]
<1>1. lock = "reader" <=> reader.pc = "acking"
  BY Nothing DEF ChatInv, WireInv, LockGood
<1>2. \A u \in Turns : Live(u) => active[ConvOf[u]] = u /\ turn[u].gen >= 1 /\ turn[u].gen \in Nat
  BY DEF ChatInv, TurnsInv, TurnGood, TurnType, Live
<1> QED BY <1>1, <1>2 DEF ChatInv, TypeOK, TurnsInv, ReaderInv

\* The stream fails: nothing more of any turn is sent.
LEMMA FailStep ==
    ASSUME ChatInv, Fail, reader.pc # "acking", notified' \in BOOLEAN,
           UNCHANGED <<accepted, active, rpc, wire, ack, kept, cancels>>
    PROVE  ChatInv' /\ WritesWell
<1>1. PICK now : now = [c \in Convs |-> 0]
  OBVIOUS
<1>2. PICK S : S = {t \in Turns : Live(t)}
  OBVIOUS
<1>3. PICK i : i = turn
  OBVIOUS
<1>4. /\ generation' = now /\ CancelAll(S, now, i) /\ watching' = FALSE
      /\ reader' = [Idle EXCEPT !.pc = "drain"]
  BY <1>1, <1>2, <1>3 DEF Fail
<1>5. now \in [Convs -> Nat] /\ S \in SUBSET Turns
  BY <1>1, <1>2
<1>6. \A u \in Turns : InputGood(i[u], turn[u])
  BY <1>3, SameInput
<1>7. /\ reader' \in [pc : {"read", "cancelling", "ack", "acking", "starting",
                            "drain", "over"}, turn : Turns \cup {None},
                      gen : Nat, landed : BOOLEAN]
      /\ reader'.pc = "drain"
  BY <1>4 DEF Idle
<1>8. ReaderInv'
  BY <1>7, TheReader DEF ReaderInv
<1>9. \A u \in S : rpc = "open" /\ Live(u) => now[ConvOf[u]] # turn[u].gen
  BY <1>1, <1>2, ConvTyped, TheReader
<1>10. \A u \in Turns \ S : Live(u) => now[ConvOf[u]] = generation[ConvOf[u]]
  BY <1>2
<1>11. (lock = "reader" <=> reader'.pc = "acking") /\ cancels' \in 0 .. MaxCancels
  BY <1>7, TheReader
<1> QED BY <1>4, <1>5, <1>6, <1>7, <1>8, <1>9, <1>10, <1>11, CancelStep

LEMMA RefusedStep ==
    ASSUME ChatInv, StartRefused \/ HandlerCancelled
    PROVE  ChatInv' /\ WritesWell
<1>1. /\ Fail /\ reader.pc # "acking" /\ notified' \in BOOLEAN
      /\ UNCHANGED <<accepted, active, rpc, wire, ack, kept, cancels>>
  BY TheReader DEF StartRefused, HandlerCancelled
<1> QED BY <1>1, FailStep

\* A cancellation that leaves the generations alone.
LEMMA LateCancelStep ==
    ASSUME ChatInv, NEW S \in SUBSET Turns, CancelAll(S, generation, turn),
           reader' = reader \/ (reader.pc = "read" /\ reader' = [Idle EXCEPT !.pc = "drain"]),
           \A u \in S : rpc = "gone", watching' \in BOOLEAN, notified' \in BOOLEAN,
           UNCHANGED <<generation, cancels, accepted, active, rpc, wire, ack, kept>>
    PROVE  ChatInv' /\ WritesWell
<1>1. PICK now : now = generation
  OBVIOUS
<1>2. PICK i : i = turn
  OBVIOUS
<1>3. CancelAll(S, now, i) /\ generation' = now /\ now \in [Convs -> Nat]
  BY <1>1, <1>2, TheReader
<1>4. \A u \in Turns : InputGood(i[u], turn[u])
  BY <1>2, SameInput
<1>5. /\ [Idle EXCEPT !.pc = "drain"] \in
            [pc : {"read", "cancelling", "ack", "acking", "starting", "drain", "over"},
             turn : Turns \cup {None}, gen : Nat, landed : BOOLEAN]
      /\ [Idle EXCEPT !.pc = "drain"].pc = "drain"
  BY DEF Idle
<1>6. /\ reader' \in [pc : {"read", "cancelling", "ack", "acking", "starting",
                            "drain", "over"}, turn : Turns \cup {None},
                      gen : Nat, landed : BOOLEAN]
      /\ reader' = reader \/ (reader.pc = "read" /\ reader'.pc = "drain")
  BY <1>5, TheReader
<1>7. ReaderInv'
  BY <1>6 DEF ReaderInv, ChatInv
<1>8. /\ lock = "reader" <=> reader'.pc = "acking"
      /\ cancels' \in 0 .. MaxCancels
      /\ reader'.pc \notin {"drain", "over"} => reader.pc \notin {"drain", "over"}
      /\ \A c \in Convs : generation[c] <= now[c]
  BY <1>1, <1>6, TheReader
<1>9. /\ \A u \in S : rpc = "open" /\ Live(u) => now[ConvOf[u]] # turn[u].gen
      /\ \A u \in Turns \ S : Live(u) => now[ConvOf[u]] = generation[ConvOf[u]]
  BY <1>1
<1> QED BY <1>3, <1>4, <1>6, <1>7, <1>8, <1>9, CancelStep

LEMMA LateCancels ==
    ASSUME ChatInv, RequestsEnd \/ WatcherFires \/ (\E t \in Turns : DrainCancelled(t))
    PROVE  ChatInv' /\ WritesWell
<1>1. PICK S \in SUBSET Turns : CancelAll(S, generation, turn) /\ \A u \in S : rpc = "gone"
  <2>1. CASE RequestsEnd
    <3>1. PICK S : S = {t \in Turns : Live(t) /\ rpc = "gone"}
      OBVIOUS
    <3>2. S \in SUBSET Turns /\ CancelAll(S, generation, turn) /\ \A u \in S : rpc = "gone"
      BY <2>1, <3>1 DEF RequestsEnd
    <3> QED BY <3>2
  <2>2. CASE WatcherFires
    <3>1. PICK S : S = {t \in Turns : Live(t)}
      OBVIOUS
    <3>2. S \in SUBSET Turns /\ CancelAll(S, generation, turn) /\ \A u \in S : rpc = "gone"
      BY <2>2, <3>1 DEF WatcherFires
    <3> QED BY <3>2
  <2>3. CASE \E t \in Turns : DrainCancelled(t)
    <3>1. PICK t \in Turns : DrainCancelled(t)
      BY <2>3
    <3>2. PICK S : S = {t}
      OBVIOUS
    <3>3. S \in SUBSET Turns /\ CancelAll(S, generation, turn) /\ \A u \in S : rpc = "gone"
      BY <3>1, <3>2 DEF DrainCancelled
    <3> QED BY <3>3
  <2> QED BY <2>1, <2>2, <2>3
<1>2. /\ reader' = reader \/ (reader.pc = "read" /\ reader' = [Idle EXCEPT !.pc = "drain"])
      /\ watching' \in BOOLEAN /\ notified' \in BOOLEAN
      /\ UNCHANGED <<generation, cancels, accepted, active, rpc, wire, ack, kept>>
  BY TheReader DEF RequestsEnd, WatcherFires, DrainCancelled
<1> QED BY <1>1, <1>2, LateCancelStep

\* A cancel frame for a turn that runs.
LEMMA CancelFrameStep ==
    ASSUME ChatInv, NEW t \in Turns, NEW k \in (0 .. MaxDeltas) \cup {None}, ReadCancel(t, k),
           Live(t)
    PROVE  ChatInv' /\ WritesWell
<1> DEFINE c == ConvOf[t]
<1>1. c \in Convs
  BY ConvTyped
<1>2. /\ generation \in [Convs -> Nat] /\ active \in [Convs -> Turns \cup {None}]
      /\ turn \in [Turns -> TurnType] /\ turn[t] \in TurnType /\ TurnGood(turn[t])
  BY TheReader, OneTurn
<1> DEFINE g == generation[c] + 1
           p == IF k = None THEN turn[t].played ELSE k
<1>3. g \in Nat
  BY <1>1, <1>2
<1>4. p \in Nat \cup {None}
  <2>1. turn[t].played \in Nat \cup {None}
    BY <1>2 DEF TurnType
  <2> QED BY <2>1, ChatAssumption
<1>5. PICK now : now = [generation EXCEPT ![c] = g]
  OBVIOUS
<1>6. PICK x : x = [turn[t] EXCEPT !.played = p]
  OBVIOUS
<1>7. PICK i : i = [turn EXCEPT ![t] = x]
  OBVIOUS
<1>8. /\ generation' = now /\ CancelAll({t}, now, i)
      /\ reader' = [Idle EXCEPT !.pc = "cancelling", !.turn = t, !.landed = TRUE]
      /\ reader.pc = "read" /\ cancels < MaxCancels /\ cancels' = cancels + 1
      /\ UNCHANGED <<accepted, active, rpc, watching, notified, wire, ack, kept>>
  <2>1. now = [generation EXCEPT ![ConvOf[t]] = @ + 1]
    BY <1>1, <1>2, <1>5
  <2>2. i = [turn EXCEPT ![t].played = IF k = None THEN @ ELSE k]
    BY <1>2, <1>6, <1>7
  <2> QED BY <2>1, <2>2 DEF ReadCancel
<1> HIDE DEF p, g
<1>9. InputGood(x, turn[t])
  <2>1. x \in TurnType
    BY <1>2, <1>4, <1>6 DEF TurnType
  <2>2. /\ x.mode = turn[t].mode /\ x.gen = turn[t].gen /\ x.private = turn[t].private
        /\ x.task = turn[t].task /\ x.pos = turn[t].pos /\ x.out = turn[t].out
        /\ x.status = turn[t].status /\ x.text = turn[t].text /\ x.final = turn[t].final
        /\ x.parts = turn[t].parts /\ x.dispatch = turn[t].dispatch
    BY <1>2, <1>6 DEF TurnType
  <2>3. TurnGood(x)
    BY <1>2, <2>1, <2>2 DEF TurnGood, Keeps
  <2> QED BY <2>2, <2>3 DEF InputGood, Live
<1>10. \A u \in Turns : InputGood(i[u], turn[u])
  <2>1. i[t] = x /\ \A u \in Turns \ {t} : i[u] = turn[u]
    BY <1>2, <1>7
  <2> QED BY <1>9, <2>1, SameInput
<1>11. /\ reader' \in [pc : {"read", "cancelling", "ack", "acking", "starting",
                             "drain", "over"}, turn : Turns \cup {None},
                       gen : Nat, landed : BOOLEAN]
       /\ reader'.pc = "cancelling" /\ reader'.turn = t
  BY <1>8 DEF Idle
<1>12. ReaderInv'
  BY <1>8, <1>11, TheReader DEF ReaderInv
<1>13. /\ now \in [Convs -> Nat] /\ now[c] = g
       /\ \A d \in Convs : d # c => now[d] = generation[d]
  BY <1>1, <1>2, <1>3, <1>5
<1>14. \A d \in Convs : generation[d] <= now[d]
  BY <1>1, <1>2, <1>13 DEF g
<1>15. now[ConvOf[t]] # turn[t].gen
  <2>1. turn[t].gen <= generation[c] /\ turn[t].gen \in Nat
    BY <1>8, TheReader
  <2> QED BY <1>1, <1>2, <1>13, <2>1 DEF g
<1>16. \A u \in Turns \ {t} : Live(u) => now[ConvOf[u]] = generation[ConvOf[u]]
  <2> SUFFICES ASSUME NEW u \in Turns \ {t}, Live(u)
               PROVE  ConvOf[u] # ConvOf[t]
    BY <1>13, ConvTyped
  <2> QED BY TheReader
<1>17. /\ lock = "reader" <=> reader'.pc = "acking"
       /\ cancels' \in 0 .. MaxCancels /\ {t} \in SUBSET Turns
  BY <1>8, <1>11, TheReader, ChatAssumption
<1>18. watching' \in BOOLEAN /\ notified' \in BOOLEAN
  BY <1>8, TheReader
<1> HIDE DEF c
<1> QED BY <1>8, <1>10, <1>11, <1>12, <1>13, <1>14, <1>15, <1>16, <1>17, <1>18, CancelStep

\* A start frame of a new turn: the turn it displaces is cancelled.
LEMMA StartFrameStep ==
    ASSUME ChatInv, NEW t \in Turns, ReadStart(t), t \notin accepted
    PROVE  ChatInv' /\ WritesWell
<1> DEFINE c == ConvOf[t]
<1>1. c \in Convs
  BY ConvTyped
<1>2. generation \in [Convs -> Nat] /\ active \in [Convs -> Turns \cup {None}]
  BY TheReader
<1> DEFINE g == generation[c] + 1
<1>3. g \in Nat
  BY <1>1, <1>2
<1>4. PICK now : now = [generation EXCEPT ![c] = g]
  OBVIOUS
<1>5. PICK S : S = IF active[c] = None THEN {} ELSE {active[c]}
  OBVIOUS
<1>6. PICK i : i = turn
  OBVIOUS
<1>7. /\ now \in [Convs -> Nat] /\ now[c] = g
      /\ \A d \in Convs : d # c => now[d] = generation[d]
  BY <1>1, <1>2, <1>3, <1>4
<1>8. /\ generation' = now /\ CancelAll(S, now, i)
      /\ reader' = [Idle EXCEPT !.pc = "starting", !.turn = t, !.gen = g]
      /\ reader.pc = "read"
      /\ UNCHANGED <<accepted, active, rpc, watching, notified, wire, ack, kept, cancels>>
  <2>1. now = [generation EXCEPT ![ConvOf[t]] = @ + 1]
    BY <1>1, <1>2, <1>4
  <2> QED BY <1>5, <1>6, <1>7, <2>1 DEF ReadStart
<1>9. S \in SUBSET Turns
  BY <1>1, <1>2, <1>5
<1>10. \A d \in Convs : generation[d] <= now[d]
  BY <1>1, <1>2, <1>7
<1> HIDE DEF g
<1>11. \A u \in Turns : InputGood(i[u], turn[u])
  BY <1>6, SameInput
<1>12. /\ reader' \in [pc : {"read", "cancelling", "ack", "acking", "starting",
                             "drain", "over"}, turn : Turns \cup {None},
                       gen : Nat, landed : BOOLEAN]
       /\ reader'.pc = "starting" /\ reader'.turn = t /\ reader'.gen = g
  BY <1>3, <1>8 DEF Idle
<1>13. ReaderInv'
  <2>1. g >= 1
    BY <1>1, <1>2 DEF g
  <2>2. g <= now[ConvOf[t]]
    BY <1>3, <1>7
  <2>3. \A d \in Convs : active[d] # None => ConvOf[active[d]] = d
    BY TheReader
  <2> QED BY <1>8, <1>12, <2>1, <2>2, <2>3 DEF ReaderInv
<1>14. ASSUME NEW u \in S, Live(u) PROVE now[ConvOf[u]] # turn[u].gen
  <2>1. u \in Turns /\ ConvOf[u] = c
    BY <1>1, <1>5, <1>9, <1>14, TheReader
  <2>2. turn[u].gen <= generation[c] /\ turn[u].gen \in Nat
    BY <1>8, <1>14, <2>1, TheReader
  <2> QED BY <1>1, <1>2, <1>7, <2>1, <2>2 DEF g
<1>15. \A u \in Turns \ S : Live(u) => now[ConvOf[u]] = generation[ConvOf[u]]
  <2> SUFFICES ASSUME NEW u \in Turns \ S, Live(u)
               PROVE  ConvOf[u] # c
    BY <1>7, ConvTyped
  <2> QED BY <1>5, TheReader, Nothing
<1>16. /\ lock = "reader" <=> reader'.pc = "acking"
       /\ cancels' \in 0 .. MaxCancels /\ watching' \in BOOLEAN /\ notified' \in BOOLEAN
  BY <1>8, <1>12, TheReader
<1> HIDE DEF c
<1> QED BY <1>7, <1>8, <1>9, <1>10, <1>11, <1>12, <1>13, <1>14, <1>15, <1>16, CancelStep

(***************************************************************************)
(* Steps of the reader that leave the turns alone.                         *)
(***************************************************************************)
LEMMA ReaderStep ==
    ASSUME ChatInv,
           UNCHANGED <<accepted, generation, active, turn, wire, hist, kept>>,
           watching' \in BOOLEAN, notified' \in BOOLEAN, cancels' \in 0 .. MaxCancels,
           reader' \in [pc : {"read", "cancelling", "ack", "acking", "starting",
                              "drain", "over"}, turn : Turns \cup {None},
                        gen : Nat, landed : BOOLEAN],
           ack' \in [Turns -> {"none", "landed", "already_done"}],
           rpc' \in {"open", "gone"}, rpc' = "open" => rpc = "open", ReaderInv',
           \/ lock' = lock
           \/ lock = "free" /\ lock' = "reader"
           \/ lock = "reader" /\ lock' = "free",
           lock' = "reader" <=> reader'.pc = "acking",
           reader.pc \in {"drain", "over"} => reader'.pc \in {"drain", "over"}
    PROVE  ChatInv' /\ WritesWell
<1>1. UNCHANGED <<observed, job, row>>
  BY DEF kept
<1>2. TypeOK'
  BY <1>1 DEF ChatInv, TypeOK
<1>3. TurnsInv'
  <2> SUFFICES ASSUME NEW u \in Turns
               PROVE  /\ TurnGood(turn'[u])
                      /\ LeftGood(turn'[u], hist'[u], job'[u], row'[u], u \in observed')
                      /\ Live(u)' => active'[ConvOf[u]] = u
                      /\ Live(u)' /\ reader'.pc \notin {"drain", "over"} =>
                            turn'[u].gen <= generation'[ConvOf[u]]
                      /\ u \notin accepted' => turn'[u] = Unstarted /\ wire'[u] = "none"
    BY DEF TurnsInv, TurnGood, LeftGood
  <2>1. /\ TurnGood(turn[u])
        /\ LeftGood(turn[u], hist[u], job[u], row[u], u \in observed)
        /\ Live(u) => active[ConvOf[u]] = u
        /\ Live(u) /\ reader.pc \notin {"drain", "over"} =>
              turn[u].gen <= generation[ConvOf[u]]
        /\ u \notin accepted => turn[u] = Unstarted /\ wire[u] = "none"
    BY DEF ChatInv, TurnsInv
  <2>2. LeftGood(turn'[u], hist'[u], job'[u], row'[u], u \in observed')
    BY <1>1, <2>1 DEF LeftGood
  <2> QED BY <2>1, <2>2 DEF Live
<1>4. \A u \in Turns : lock' = u <=> lock = u
  BY Nothing
<1>5. WireInv'
  <2>1. LockGood'
    BY <1>4, Nothing DEF ChatInv, WireInv, LockGood, Live
  <2> SUFFICES ASSUME NEW u \in Turns
               PROVE  /\ turn'[u].out # None => ~Stale(u)'
                      /\ DoneGood(u)'
    BY <2>1 DEF WireInv
  <2>2. (turn[u].out # None => ~Stale(u)) /\ DoneGood(u)
    BY DEF ChatInv, WireInv
  <2> QED BY <1>4, <2>2 DEF DoneGood, Stale, Live
<1>6. WritesWell
  BY <1>4 DEF WritesWell, Writes
<1> QED BY <1>2, <1>3, <1>5, <1>6 DEF ChatInv

\* An ACK, the end of a drained stream, the client going away.
LEMMA ReaderSteps ==
    ASSUME ChatInv,
           \/ CancelLanded \/ WriteAck \/ AckWritten \/ ChatReturns \/ ClientGone
           \/ \E t \in Turns : ReadStart(t) /\ t \in accepted
           \/ \E t \in Turns, k \in (0 .. MaxDeltas) \cup {None} : ReadCancel(t, k) /\ ~Live(t)
    PROVE  ChatInv' /\ WritesWell
<1> DEFINE type == [pc : {"read", "cancelling", "ack", "acking", "starting",
                          "drain", "over"}, turn : Turns \cup {None},
                    gen : Nat, landed : BOOLEAN]
<1>0. /\ reader \in type /\ cancels \in 0 .. MaxCancels /\ watching \in BOOLEAN
      /\ notified \in BOOLEAN /\ (lock = "reader" <=> reader.pc = "acking") /\ ReaderInv
      /\ ack \in [Turns -> {"none", "landed", "already_done"}] /\ rpc \in {"open", "gone"}
  BY TheReader DEF ChatInv, TypeOK
<1>1. CASE CancelLanded
  <2>1. /\ reader' = [reader EXCEPT !.pc = "ack"] /\ reader.pc = "cancelling"
        /\ UNCHANGED <<accepted, generation, active, turn, lock, wire, rpc, watching,
                       notified, ack, hist, kept, cancels>>
    BY <1>1 DEF CancelLanded, stream
  <2>2. reader' \in type /\ reader'.pc = "ack" /\ reader'.turn = reader.turn
    BY <1>0, <2>1
  <2>3. ReaderInv'
    BY <1>0, <2>1, <2>2 DEF ReaderInv
  <2> QED BY <1>0, <2>1, <2>2, <2>3, ReaderStep
<1>2. CASE WriteAck
  <2>1. /\ reader' = [reader EXCEPT !.pc = "acking"] /\ reader.pc = "ack"
        /\ lock = "free" /\ lock' = "reader"
        /\ UNCHANGED <<accepted, generation, active, turn, wire, rpc, watching,
                       notified, hist, kept, cancels>>
        /\ ack' = [ack EXCEPT ![reader.turn] = IF reader.landed THEN "landed" ELSE "already_done"]
    BY <1>2 DEF WriteAck
  <2>2. reader' \in type /\ reader'.pc = "acking" /\ reader'.turn = reader.turn
    BY <1>0, <2>1
  <2>3. ReaderInv'
    BY <1>0, <2>1, <2>2 DEF ReaderInv
  <2>4. ack' \in [Turns -> {"none", "landed", "already_done"}]
    BY <1>0, <2>1
  <2> QED BY <1>0, <2>1, <2>2, <2>3, <2>4, ReaderStep
<1>3. CASE AckWritten
  <2>1. /\ reader' = Idle /\ reader.pc = "acking" /\ lock' = "free"
        /\ UNCHANGED <<accepted, generation, active, turn, wire, rpc, watching,
                       notified, ack, hist, kept, cancels>>
    BY <1>3 DEF AckWritten
  <2>2. reader' \in type /\ reader'.pc = "read"
    BY <2>1 DEF Idle
  <2>3. ReaderInv'
    BY <1>0, <2>1, <2>2 DEF ReaderInv
  <2> QED BY <1>0, <2>1, <2>2, <2>3, ReaderStep
<1>4. CASE ChatReturns
  <2>1. /\ reader' = [Idle EXCEPT !.pc = "over"] /\ reader.pc = "drain"
        /\ UNCHANGED <<accepted, generation, active, turn, lock, wire, rpc, watching,
                       notified, ack, hist, kept, cancels>>
    BY <1>4 DEF ChatReturns, stream
  <2>2. reader' \in type /\ reader'.pc = "over"
    BY <2>1 DEF Idle
  <2>3. ReaderInv'
    BY <1>0, <2>1, <2>2 DEF ReaderInv
  <2> QED BY <1>0, <2>1, <2>2, <2>3, ReaderStep
<1>5. CASE ClientGone
  <2>1. /\ rpc' = "gone"
        /\ UNCHANGED <<reader, accepted, generation, active, turn, lock, wire, watching,
                       notified, ack, hist, kept, cancels>>
    BY <1>5 DEF ClientGone, stream
  <2>2. ReaderInv'
    BY <1>0, <2>1 DEF ReaderInv
  <2> QED BY <1>0, <2>1, <2>2, ReaderStep
<1>6. CASE \E t \in Turns : ReadStart(t) /\ t \in accepted
  <2>1. UNCHANGED <<reader, accepted, generation, active, turn, lock, wire, rpc, watching,
                    notified, ack, hist, kept, cancels>>
    BY <1>6 DEF ReadStart
  <2>2. ReaderInv'
    BY <1>0, <2>1 DEF ReaderInv
  <2> QED BY <1>0, <2>1, <2>2, ReaderStep
<1>7. CASE \E t \in Turns, k \in (0 .. MaxDeltas) \cup {None} : ReadCancel(t, k) /\ ~Live(t)
  <2>1. PICK t \in Turns, k \in (0 .. MaxDeltas) \cup {None} : ReadCancel(t, k) /\ ~Live(t)
    BY <1>7
  <2>2. /\ reader' = [Idle EXCEPT !.pc = "ack", !.turn = t] /\ reader.pc = "read"
        /\ UNCHANGED <<accepted, generation, active, turn, lock, wire, rpc, watching,
                       notified, ack, hist, kept>>
        /\ cancels < MaxCancels /\ cancels' = cancels + 1
    BY <2>1 DEF ReadCancel
  <2>3. reader' \in type /\ reader'.pc = "ack" /\ reader'.turn = t
    BY <2>2 DEF Idle
  <2>4. ReaderInv'
    BY <1>0, <2>2, <2>3 DEF ReaderInv
  <2>5. cancels' \in 0 .. MaxCancels
    BY <1>0, <2>2, ChatAssumption
  <2> QED BY <1>0, <2>2, <2>3, <2>4, <2>5, ReaderStep
<1> QED BY <1>1, <1>2, <1>3, <1>4, <1>5, <1>6, <1>7

\* A new turn starts: nothing of its conversation runs, and it has left nothing yet.
LEMMA StartTurnStep ==
    ASSUME ChatInv, StartTurn
    PROVE  ChatInv' /\ WritesWell
<1>1. /\ reader.pc = "starting" /\ PreviousDone /\ accepted' = accepted \cup {reader.turn}
      /\ active' = [active EXCEPT ![ConvOf[reader.turn]] = reader.turn]
      /\ reader' = Idle
      /\ UNCHANGED <<generation, lock, wire, rpc, watching, notified, ack, hist, observed, job,
                     row, cancels>>
  BY DEF StartTurn, stream, kept
<1>2. PICK t \in Turns : t = reader.turn
  BY <1>1 DEF ChatInv, ReaderInv
<1>3. PICK g : g = reader.gen
  OBVIOUS
<1>4. g \in Nat /\ g >= 1 /\ t \notin accepted /\ g <= generation[ConvOf[t]]
  BY <1>1, <1>2, <1>3, TheReader DEF ChatInv, ReaderInv
<1>5. PICK mode \in Modes : turn' = [turn EXCEPT ![t] = Fresh(g, mode)]
  BY <1>2, <1>3 DEF StartTurn
<1>6. PICK r : r = Fresh(g, mode)
  OBVIOUS
<1>7. mode \in AllModes
  BY ChatAssumption
<1>8. r \in TurnType
  BY <1>4, <1>6, <1>7 DEF Fresh, TurnType, AwaitPos, Kinds
<1>9. /\ r.task = "live" /\ r.pos = "admit" /\ r.out = None /\ r.gen = g /\ r.parts = 0
      /\ r.status = "ok" /\ ~r.final /\ r.dispatch = "none" /\ r.mode = mode
  BY <1>6 DEF Fresh
<1>10. TurnGood(r)
  BY <1>4, <1>8, <1>9, Nothing DEF TurnGood, Kinds
<1>11. /\ turn \in [Turns -> TurnType] /\ turn'[t] = r
       /\ \A u \in Turns \ {t} : turn'[u] = turn[u]
  BY <1>5, <1>6, OneTurn
<1>12. /\ turn[t] = Unstarted /\ wire[t] = "none" /\ lock # t
       /\ LeftGood(turn[t], hist[t], job[t], row[t], t \in observed)
  BY <1>4, OneTurn, UnstartedGood DEF ChatInv, TurnsInv
<1>13. \A u \in Turns : Live(u) => ConvOf[u] # ConvOf[t]
  BY <1>1, <1>2, TheReader DEF PreviousDone
<1>14. /\ active \in [Convs -> Turns \cup {None}] /\ active'[ConvOf[t]] = t
       /\ \A c \in Convs : c # ConvOf[t] => active'[c] = active[c]
       /\ active' \in [Convs -> Turns \cup {None}]
  BY <1>1, <1>2, ConvTyped, TheReader
<1>15. /\ reader' \in [pc : {"read", "cancelling", "ack", "acking", "starting",
                             "drain", "over"}, turn : Turns \cup {None},
                       gen : Nat, landed : BOOLEAN]
       /\ reader'.pc = "read"
  BY <1>1 DEF Idle
<1>16. TypeOK'
  <2>1. turn' \in [Turns -> TurnType]
    BY <1>5, <1>6, <1>8, <1>11
  <2>2. accepted' \subseteq Turns
    BY <1>1, <1>2 DEF ChatInv, TypeOK
  <2> QED BY <1>1, <1>14, <1>15, <2>1, <2>2 DEF ChatInv, TypeOK
<1>17. TurnsInv'
  <2> SUFFICES ASSUME NEW u \in Turns
               PROVE  /\ TurnGood(turn'[u])
                      /\ LeftGood(turn'[u], hist'[u], job'[u], row'[u], u \in observed')
                      /\ Live(u)' => active'[ConvOf[u]] = u
                      /\ Live(u)' /\ reader'.pc \notin {"drain", "over"} =>
                            turn'[u].gen <= generation'[ConvOf[u]]
                      /\ u \notin accepted' => turn'[u] = Unstarted /\ wire'[u] = "none"
    BY DEF TurnsInv, TurnGood, LeftGood
  <2>1. CASE u = t
    <3>1. hist[t] = None /\ job[t] = None /\ row[t] = None /\ t \notin observed
      BY <1>12, UnstartedGood DEF LeftGood, Refused
    <3>2. LeftGood(turn'[u], hist'[u], job'[u], row'[u], u \in observed')
      BY <1>1, <1>9, <1>11, <2>1, <3>1 DEF LeftGood, Refused
    <3> QED BY <1>1, <1>2, <1>4, <1>9, <1>10, <1>11, <1>14, <2>1, <3>2
  <2>2. CASE u # t
    <3>1. /\ TurnGood(turn[u])
          /\ LeftGood(turn[u], hist[u], job[u], row[u], u \in observed)
          /\ Live(u) => active[ConvOf[u]] = u
          /\ Live(u) => turn[u].gen <= generation[ConvOf[u]]
          /\ u \notin accepted => turn[u] = Unstarted /\ wire[u] = "none"
      BY <1>1 DEF ChatInv, TurnsInv
    <3>2. LeftGood(turn'[u], hist'[u], job'[u], row'[u], u \in observed')
      BY <1>1, <1>11, <2>2, <3>1 DEF LeftGood
    <3>3. Live(u)' => active'[ConvOf[u]] = u
      BY <1>11, <1>13, <1>14, <2>2, <3>1, ConvTyped DEF Live
    <3> QED BY <1>1, <1>2, <1>11, <2>2, <3>1, <3>2, <3>3 DEF Live
  <2> QED BY <2>1, <2>2
<1>18. ReaderInv'
  <2>1. \A c \in Convs : active[c] # None => ConvOf[active[c]] = c
    BY TheReader
  <2> QED BY <1>14, <1>15, <2>1 DEF ReaderInv
<1>19. WireInv'
  <2>1. LockGood'
    BY <1>1, <1>11, <1>12, <1>15, Nothing DEF ChatInv, WireInv, LockGood, Live
  <2> SUFFICES ASSUME NEW u \in Turns
               PROVE  /\ turn'[u].out # None => ~Stale(u)'
                      /\ DoneGood(u)'
    BY <2>1 DEF WireInv
  <2>2. (turn[u].out # None => ~Stale(u)) /\ DoneGood(u)
    BY DEF ChatInv, WireInv
  <2>3. CASE u = t
    BY <1>1, <1>9, <1>11, <1>12, <2>3 DEF DoneGood
  <2>4. CASE u # t
    BY <1>1, <1>11, <2>2, <2>4 DEF DoneGood, Stale, Live
  <2> QED BY <2>3, <2>4
<1>20. WritesWell
  BY <1>1 DEF WritesWell, Writes
<1> QED BY <1>16, <1>17, <1>18, <1>19, <1>20 DEF ChatInv

(***************************************************************************)
(* Every step.                                                             *)
(***************************************************************************)
LEMMA ChatNextInv == ChatInv /\ Next => ChatInv' /\ WritesWell
<1> SUFFICES ASSUME ChatInv, Next PROVE ChatInv' /\ WritesWell
  OBVIOUS
<1>1. CASE Reader
  <2>1. CASE \E t \in Turns, k \in (0 .. MaxDeltas) \cup {None} : ReadCancel(t, k)
    BY <2>1, CancelFrameStep, ReaderSteps
  <2>2. CASE \E t \in Turns : ReadStart(t)
    BY <2>2, StartFrameStep, ReaderSteps
  <2>3. CASE CancelLanded \/ WriteAck \/ AckWritten \/ ChatReturns
    BY <2>3, ReaderSteps
  <2>4. CASE StartTurn
    BY <2>4, StartTurnStep
  <2>5. CASE StartRefused \/ HandlerCancelled
    BY <2>5, RefusedStep
  <2>6. CASE RequestsEnd
    BY <2>6, LateCancels
  <2> QED BY <1>1, <2>1, <2>2, <2>3, <2>4, <2>5, <2>6 DEF Reader
<1>2. CASE Environment
  <2>1. CASE ClientGone
    BY <2>1, ReaderSteps
  <2>2. CASE WatcherFires \/ \E t \in Turns : DrainCancelled(t)
    BY <2>2, LateCancels
  <2> QED BY <1>2, <2>1, <2>2 DEF Environment
<1>3. ASSUME NEW t \in Turns, Engine(t) PROVE ChatInv' /\ WritesWell
  BY <1>3, AdmittedStep, DeniedStep, CrisisYields, PlainYields, ObservationStep, DeltaYields,
     DispatchStep, HintYields, EngineRaisesStep, OutputStep, AnswerStep, FinishStep,
     FeedbackStep, EngineEndsStep DEF Engine
<1>4. ASSUME NEW t \in Turns, Emitter(t) PROVE ChatInv' /\ WritesWell
  BY <1>4, LockStep, WrittenStep, WriteRaisesStep DEF Emitter
<1>5. ASSUME NEW t \in Turns, Loop(t) PROVE ChatInv' /\ WritesWell
  BY <1>5, DiscardStep, EngineEndsStep, PersistStep, DispatchEndsStep DEF Loop
<1> QED BY <1>1, <1>2, <1>3, <1>4, <1>5 DEF Next

LEMMA ChatStutter == ChatInv /\ UNCHANGED vars => ChatInv'
<1> SUFFICES ASSUME ChatInv, UNCHANGED vars PROVE ChatInv'
  OBVIOUS
<1>1. /\ UNCHANGED <<reader, accepted, generation, active, turn, lock, rpc, watching, notified,
                     wire, ack, hist, observed, job, row, cancels>>
      /\ kept' = kept
  BY DEF vars, kept
<1>2. /\ reader \in [pc : {"read", "cancelling", "ack", "acking", "starting",
                           "drain", "over"}, turn : Turns \cup {None},
                     gen : Nat, landed : BOOLEAN]
      /\ ack \in [Turns -> {"none", "landed", "already_done"}] /\ rpc \in {"open", "gone"}
      /\ cancels \in 0 .. MaxCancels /\ watching \in BOOLEAN /\ notified \in BOOLEAN
      /\ lock = "reader" <=> reader.pc = "acking"
  BY TheReader DEF ChatInv, TypeOK
<1>3. ReaderInv'
  BY <1>1 DEF ChatInv, ReaderInv
<1> QED BY <1>1, <1>2, <1>3, ReaderStep

LEMMA ChatInvariant == Spec => []ChatInv
BY ChatInitInv, ChatNextInv, ChatStutter, PTL DEF Spec

(***************************************************************************)
(* The theorems.                                                           *)
(***************************************************************************)
\* Every variable of the Chat RPC keeps its type, for any set of turns and
\* conversations, any number of cancel frames and any bound of the tool loop.
THEOREM ChatWellTyped == Spec => []TypeOK
BY ChatInvariant, PTL DEF ChatInv

\* At any moment at most one turn of a conversation runs, because a start frame
\* waits for the turn it displaces, and write_lock is with the reader that
\* acknowledges or with a running turn whose event is out.
THEOREM OneTurnSpeaks == Spec => []OneSpeaker
<1>1. ChatInv => OneSpeaker
  <2> SUFFICES ASSUME ChatInv PROVE OneSpeaker
    OBVIOUS
  <2>1. ASSUME NEW t \in Turns, NEW u \in Turns, t # u, ConvOf[t] = ConvOf[u]
        PROVE  ~(Live(t) /\ Live(u))
    BY <2>1, TheReader
  <2>2. LockGood
    BY DEF ChatInv, WireInv
  <2> QED BY <2>1, <2>2 DEF OneSpeaker, LockGood
<1> QED BY <1>1, ChatInvariant, PTL

\* What _remember_turn left in the history window and what _persist_turn writes
\* to the turn table are the same record, however the turn ended: answered,
\* cancelled at any await, failed, or abandoned at a write and closed later.
THEOREM RowIsTheHistory == Spec => []HistoryMatchesRow
<1>1. ChatInv => HistoryMatchesRow
  <2> SUFFICES ASSUME ChatInv, NEW t \in Turns, Remembers(t)
               PROVE  /\ turn[t].pos = "closed" => hist[t] # None /\ hist[t].status # "active"
                      /\ job[t] # None => job[t] = hist[t]
                      /\ row[t] # None => row[t] = hist[t]
    BY DEF HistoryMatchesRow
  <2>1. LeftGood(turn[t], hist[t], job[t], row[t], t \in observed) /\ Keeps(turn[t])
    BY OneTurn DEF Remembers, Keeps
  <2>2. turn[t].pos = "closed" => turn[t].pos \notin Refused
    BY DEF Refused
  <2> QED BY <2>1, <2>2 DEF LeftGood
<1> QED BY <1>1, ChatInvariant, PTL

\* The input of an admitted turn is in the history window from its admission on,
\* also when a cancel frame met it before the guard answered; a refused,
\* speculative or uncommitted turn leaves no text in the history window, in the
\* turn table or in the memory outbox.
THEOREM AdmittedInputIsKept == Spec => []InputIsKept
<1>1. ChatInv => InputIsKept
  <2> SUFFICES ASSUME ChatInv, NEW t \in Turns
               PROVE  LET refused == turn[t].pos \in {"none", "admit", "denied"} IN
                      /\ Remembers(t) /\ ~refused => hist[t] # None
                      /\ refused \/ ~Remembers(t) => hist[t] = None /\ t \notin observed
                      /\ refused \/ Ephemeral(t) => job[t] = None /\ row[t] = None
                      /\ row[t] # None /\ ~Remembers(t) => row[t].text = 0
    BY DEF InputIsKept
  <2>1. LeftGood(turn[t], hist[t], job[t], row[t], t \in observed)
    BY OneTurn
  <2>2. Remembers(t) <=> Keeps(turn[t])
    BY DEF Remembers, Keeps
  <2> QED BY <2>1, <2>2 DEF LeftGood, Refused, Ephemeral
<1> QED BY <1>1, ChatInvariant, PTL

\* _emit_turn never writes an event of a turn that was cancelled or displaced:
\* it compares the generation before it waits for write_lock and not after, and
\* that is enough, because what makes the generation stale also drops the event.
THEOREM NoEventIsStale == Spec => NoStaleEvent
<1>1. ChatInv /\ [Next]_vars => [\A t \in Turns : Writes(t) => ~Stale(t)]_vars
  BY ChatNextInv DEF WritesWell
<1> QED BY <1>1, ChatInvariant, PTL DEF Spec, NoStaleEvent

\* Nothing follows the DONE of a turn on an open stream, even when a cancel
\* lands while the engine waits for the presentation receipt; and a tool
\* dispatch runs only while its turn waits for it or is about to be closed.
THEOREM TurnsEndCleanly == Spec => EndIsClean
<1> DEFINE Clean == \A t \in Turns :
              /\ rpc = "open" /\ Writes(t) => wire[t] # "DONE"
              /\ turn'[t].dispatch = "running" => turn'[t].pos \in {"tools", "abandoned"}
<1>1. ChatInv /\ [Next]_vars => [Clean]_vars
  <2> SUFFICES ASSUME ChatInv, Next PROVE Clean
    OBVIOUS
  <2>1. ChatInv' /\ WritesWell
    BY ChatNextInv
  <2>2. \A t \in Turns : TurnGood(turn'[t])
    BY <2>1 DEF ChatInv, TurnsInv, TurnGood
  <2> QED BY <2>1, <2>2 DEF WritesWell, TurnGood
<1> QED BY <1>1, ChatInvariant, PTL DEF Spec, EndIsClean
=============================================================================
