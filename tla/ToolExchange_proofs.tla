------------------------ MODULE ToolExchange_proofs ------------------------
(***************************************************************************)
(* Proofs about the tool calls of a turn, for every set of tools, every     *)
(* batch the model may ask for and every number of rounds and runs.         *)
(***************************************************************************)
EXTENDS ToolExchange, NumberLemmas

(***************************************************************************)
(* The invariant.                                                          *)
(***************************************************************************)
\* The states in which execute() is between opening its future and popping it.
Owning == {"send", "wait", "retract"}

\* A future in _pending belongs to a call of this batch that is still inside
\* execute() for that key.
PendingInv ==
    \A k \in Keys : pending[k] # None =>
        /\ pending[k] \in Positions /\ Key(calls[pending[k]]) = k
        /\ job[pending[k]].st \in Owning

\* Where the loop of _dispatch_batch_inner is.
LoopInv ==
    /\ pc \in {"model", "ended"} => calls = <<>>
    /\ \A i \in Positions :
          /\ i >= next => job[i].st \in {"waiting", "suppressed"}
          /\ i < next => job[i].st # "waiting"
          /\ job[i].st = "batched" => ~Serial(calls[i])
          /\ job[i].st = "join" => job[i].on \in Positions
          /\ pc = "dispatch" => job[i].st # "cancelled" /\ job[i].why # "cancel"

\* A call awaited by itself: a side effect or a name that does not resolve.
AloneInv ==
    \A i \in Positions : Serial(calls[i]) /\ job[i].st \in Active =>
        \A j \in Positions : /\ j < i => job[j].st \in {"done", "suppressed"}
                             /\ j > i => job[j].st \in {"waiting", "suppressed"}

\* The states from which a call may still reach the device.
Reaching == {"start", "get", "send", "wait", "join", "put"}
CancelInv == pc = "cancelling" =>
                \A i \in Positions : Serial(calls[i]) => job[i].st \notin Reaching

Inv == TypeOK /\ PendingInv /\ LoopInv /\ AloneInv /\ CancelInv
(***************************************************************************)
(* Facts about the constants and the tables.                               *)
(***************************************************************************)
LEMMA CallFacts ==
    /\ \A c \in Calls : Key(c) \in Keys /\ c.name \in DOMAIN Tools /\ c.args \in Arguments
    /\ Fail \in Outcomes /\ Fail \in [ok : BOOLEAN, from : Calls \union {None}]
BY ToolsAssumption DEF Keys, Fail, Outcomes

\* calls and job have the same positions, and each position its call.
LEMMA BatchFacts ==
    ASSUME TypeOK
    PROVE  /\ Len(calls) \in 0 .. MaxCalls /\ Positions = 1 .. Len(calls)
           /\ Positions \subseteq 1 .. MaxCalls /\ MaxCalls \in Nat
           /\ \A i \in Positions : /\ calls[i] \in Calls /\ job[i] \in JobType
                                   /\ Key(calls[i]) \in Keys /\ i \in Nat
<1>1. MaxCalls \in Nat
  BY ToolsAssumption
<1>2. calls \in Seq(Calls) /\ Len(calls) \in 0 .. MaxCalls
  <2>1. CASE calls = <<>>
    BY <1>1, <2>1
  <2>2. CASE calls \in Batches
    BY <1>1, <2>2, ToolsAssumption
  <2> QED BY <2>1, <2>2 DEF TypeOK
<1>3. Positions = 1 .. Len(calls)
  BY DEF TypeOK, Positions
<1>4. \A i \in Positions : calls[i] \in Calls
  BY <1>2, <1>3
<1>5. \A i \in Positions : i \in Nat /\ i \in 1 .. MaxCalls
  BY <1>1, <1>2, <1>3
<1> QED BY <1>1, <1>2, <1>3, <1>4, <1>5, CallFacts DEF TypeOK

(***************************************************************************)
(* A step of one call.                                                     *)
(***************************************************************************)
\* x is what becomes of the call at position i.
JobMoves(i, x) ==
    /\ x \in JobType /\ job' = [job EXCEPT ![i] = x]
    /\ x.st \in {"get", "send", "wait", "join", "retract", "put", "done", "cancelled"}
    /\ x.st = "join" => x.on \in Positions
    /\ x.why = "cancel" => job[i].why = "cancel"

\* The future of the call is opened, popped, or left to whoever has it.
PendingMoves(i, x) ==
    /\ pending' \in [Keys -> 1..MaxCalls \union {None}]
    /\ \A k \in Keys : pending'[k] # None =>
          \/ pending'[k] = pending[k] /\ (pending[k] = i => x.st \in Owning)
          \/ pending'[k] = i /\ k = Key(calls[i]) /\ x.st = "send"

Moved(i, x) ==
    /\ job[i].st \in Active
    /\ JobMoves(i, x) /\ PendingMoves(i, x)
    /\ job[i].st = "retract" => x.st \in {"done", "cancelled"}
    /\ x.st = "cancelled" => pc' = "cancelling" \/ job[i].why = "cancel"
    /\ pc' = pc \/ (pc' = "cancelling" /\ job[i].st = "join" /\ x.st = "cancelled")
    /\ UNCHANGED <<iters, runs, failed, told, batch>>
    /\ completed' \in [Keys -> [req : Calls, res : Outcomes] \union {None}]
    /\ kv' \in [Arguments -> Outcomes \union {None}]
    /\ asked' \subseteq Calls

LEMMA MovedAt ==
    ASSUME TypeOK, NEW i \in Positions, NEW x, JobMoves(i, x)
    PROVE  /\ Positions' = Positions /\ job'[i] = x
           /\ \A j \in Positions : j # i => job'[j] = job[j]
           /\ \A j \in Positions : job'[j] \in JobType
BY DEF JobMoves, Positions, TypeOK

LEMMA MovedKeepsInv ==
    ASSUME Inv, NEW i \in Positions, NEW x, Moved(i, x)
    PROVE  Inv'
<1>1. TypeOK /\ JobMoves(i, x) /\ PendingMoves(i, x) /\ UNCHANGED <<calls, next>>
  BY DEF Inv, Moved, batch
<1>2. /\ Positions' = Positions /\ job'[i] = x
      /\ \A j \in Positions : j # i => job'[j] = job[j]
      /\ \A j \in Positions : job'[j] \in JobType
  BY <1>1, MovedAt
<1>3. TypeOK'
  BY <1>1, <1>2 DEF TypeOK, Moved, JobMoves, PendingMoves, Positions
<1>4. PendingInv'
  <2> SUFFICES ASSUME NEW k \in Keys, pending'[k] # None
               PROVE  /\ pending'[k] \in Positions' /\ Key(calls'[pending'[k]]) = k
                      /\ job'[pending'[k]].st \in Owning
    BY DEF PendingInv, Key, Schema, Keys
  <2>1. CASE pending'[k] = pending[k] /\ (pending[k] = i => x.st \in Owning)
    BY <1>1, <1>2, <2>1 DEF Inv, PendingInv
  <2>2. CASE pending'[k] = i /\ k = Key(calls[i]) /\ x.st = "send"
    BY <1>1, <1>2, <2>2 DEF Owning
  <2> QED BY <1>1, <2>1, <2>2 DEF PendingMoves
<1>5. x.st \notin {"waiting", "suppressed", "batched"}
      /\ job[i].st \notin {"waiting", "suppressed", "batched", "done", "cancelled"}
  BY DEF Moved, JobMoves, Active
<1>6. LoopInv'
  <2>1. pc' \in {"model", "ended"} => calls' = <<>>
    BY <1>1 DEF Inv, LoopInv, Moved
  <2>2. i < next
    <3>1. i >= next => job[i].st \in {"waiting", "suppressed"}
      BY DEF Inv, LoopInv
    <3>2. i \in Nat /\ next \in Nat
      BY <1>1, BatchFacts DEF TypeOK
    <3> QED BY <1>5, <3>1, <3>2
  <2>3. i \in Nat /\ next \in Nat
    BY <1>1, BatchFacts DEF TypeOK
  <2>4. ASSUME NEW j \in Positions
        PROVE  /\ j >= next => job'[j].st \in {"waiting", "suppressed"}
               /\ j < next => job'[j].st # "waiting"
               /\ job'[j].st = "batched" => ~Serial(calls[j])
               /\ job'[j].st = "join" => job'[j].on \in Positions
               /\ pc' = "dispatch" => job'[j].st # "cancelled" /\ job'[j].why # "cancel"
    <3>1. CASE j # i
      <4>1. job'[j] = job[j]
        BY <1>2, <3>1
      <4> QED BY <4>1 DEF Inv, LoopInv, Moved
    <3>2. CASE j = i
      <4>1. pc' = "dispatch" => x.st # "cancelled" /\ x.why # "cancel"
        BY DEF Moved, JobMoves, Inv, LoopInv
      <4>2. x.st = "join" => x.on \in Positions
        BY <1>1 DEF JobMoves
      <4> QED BY <1>2, <1>5, <2>2, <2>3, <3>2, <4>1, <4>2
    <3> QED BY <3>1, <3>2
  <2> QED BY <1>1, <1>2, <2>1, <2>4 DEF LoopInv, Serial, Schema
\* While one call moves no other awaited call is under way.
<1>7. ASSUME NEW j \in Positions, j # i, Serial(calls[j]), job[j].st \in Active PROVE FALSE
  <2>1. i < j \/ i > j
    BY <1>1, <1>7, BatchFacts
  <2>2. job[i].st \in {"done", "suppressed", "waiting"}
    BY <1>7, <2>1 DEF Inv, AloneInv
  <2> QED BY <1>5, <2>2
<1>8. AloneInv'
  <2> SUFFICES ASSUME NEW j \in Positions, Serial(calls[j]), job'[j].st \in Active, NEW l \in Positions
               PROVE  /\ l < j => job'[l].st \in {"done", "suppressed"}
                      /\ l > j => job'[l].st \in {"waiting", "suppressed"}
    BY <1>1, <1>2 DEF AloneInv, Serial, Schema
  <2>1. j = i
    BY <1>2, <1>7
  <2>2. job[i].st \in Active
    BY DEF Moved
  <2>3. /\ l < i => job[l].st \in {"done", "suppressed"}
        /\ l > i => job[l].st \in {"waiting", "suppressed"}
    BY <2>1, <2>2 DEF Inv, AloneInv
  <2>4. l < i \/ l > i => l # i
    BY <1>1, BatchFacts
  <2> QED BY <1>2, <2>1, <2>3, <2>4
<1>9. CancelInv'
  <2> SUFFICES ASSUME pc' = "cancelling", NEW j \in Positions, Serial(calls[j])
               PROVE  job'[j].st \notin Reaching
    BY <1>1, <1>2 DEF CancelInv, Serial, Schema
  <2>1. CASE j # i
    <3>1. job[j].st \notin Active /\ job'[j] = job[j]
      BY <1>2, <1>7, <2>1
    <3> QED BY <3>1 DEF Active, Reaching
  <2>2. CASE j = i /\ pc' = pc
    <3>1. job[i].st \notin Reaching /\ job[i].st \in Active
      BY <2>2 DEF Inv, CancelInv, Moved
    <3>2. job[i].st = "retract"
      BY <3>1 DEF Active, Reaching
    <3> QED BY <1>2, <2>2, <3>2 DEF Moved, Reaching
  <2>3. CASE j = i /\ pc' # pc
    BY <1>2, <2>3 DEF Moved, Reaching
  <2> QED BY <2>1, <2>2, <2>3
<1> QED BY <1>3, <1>4, <1>6, <1>8, <1>9 DEF Inv
(***************************************************************************)
(* Which step each part of a call takes.                                   *)
(***************************************************************************)
LEMMA DoneMoves ==
    ASSUME TypeOK, NEW i \in Positions, NEW r \in Outcomes, Done(i, r)
    PROVE  \E x : JobMoves(i, x) /\ x.st = "done"
<1> DEFINE x == [job[i] EXCEPT !.st = "done", !.res = r]
<1>1. job[i] \in JobType /\ DOMAIN job = Positions
  BY BatchFacts DEF Positions
<1>2. x \in JobType /\ x.st = "done" /\ x.why = job[i].why
  BY <1>1 DEF JobType
<1>3. job' = [job EXCEPT ![i] = x]
  BY <1>1 DEF Done
<1> HIDE DEF x
<1> QED BY <1>2, <1>3 DEF JobMoves

LEMMA SettleMoves ==
    ASSUME TypeOK, NEW i \in Positions, NEW r \in Outcomes, Settle(i, r)
    PROVE  \E x : JobMoves(i, x) /\ x.st \in {"done", "put"}
<1> DEFINE st == IF Schema(calls[i]).keyed /\ r.ok THEN "put" ELSE "done"
           x == [job[i] EXCEPT !.res = r, !.st = st]
<1>1. job[i] \in JobType /\ DOMAIN job = Positions
  BY BatchFacts DEF Positions
<1>2. st \in {"done", "put"}
  OBVIOUS
<1>3. job' = [job EXCEPT ![i].res = r, ![i].st = st]
  BY DEF Settle
<1> HIDE DEF st
<1>4. x \in JobType /\ x.st = st /\ x.why = job[i].why
  BY <1>1, <1>2 DEF JobType, Active
<1>5. job' = [job EXCEPT ![i] = x]
  BY <1>1, <1>3
<1> HIDE DEF x
<1> QED BY <1>2, <1>4, <1>5 DEF JobMoves

\* A call that only changes its state.
LEMMA StateMoves ==
    ASSUME TypeOK, NEW i \in Positions, NEW st \in {"get", "send", "wait", "cancelled"},
           job' = [job EXCEPT ![i].st = st]
    PROVE  \E x : JobMoves(i, x) /\ x.st = st
<1> DEFINE x == [job[i] EXCEPT !.st = st]
<1>1. job[i] \in JobType /\ DOMAIN job = Positions
  BY BatchFacts DEF Positions
<1>2. x \in JobType /\ x.st = st /\ x.why = job[i].why
  BY <1>1 DEF JobType, Active
<1>3. job' = [job EXCEPT ![i] = x]
  BY <1>1
<1> HIDE DEF x
<1> QED BY <1>2, <1>3 DEF JobMoves

\* CancelledError in a call: it retracts, or it is over.
LEMMA StruckFacts ==
    ASSUME TypeOK, NEW i \in Positions, NEW w \in {"timeout", "late", "cancel"}
    PROVE  /\ Struck(i, w) \in JobType
           /\ job[i].st \in Active =>
                 Struck(i, w).st \in {"retract", "done", "cancelled"}
           /\ job[i].st \notin Active => Struck(i, w) = job[i]
           /\ job[i].st \in Active /\ w # "cancel" =>
                 Struck(i, w).st # "cancelled" /\ (Struck(i, w).why = "cancel" => job[i].why = "cancel")
           /\ Struck(i, w).st = "retract" => job[i].st \in {"send", "wait"}
           /\ job[i].st \in Active /\ w = "cancel" => Struck(i, w).st # "done"
<1>1. job[i] \in JobType
  BY BatchFacts
<1>2. CASE job[i].st \in {"send", "wait"} /\ Schema(calls[i]).via = "channel"
  <2> DEFINE f == IF job[i].st = "wait" /\ job[i].fut = None THEN Lost ELSE job[i].fut
             x == [job[i] EXCEPT !.st = "retract", !.why = w, !.fut = f]
  <2>1. Struck(i, w) = x
    BY <1>1, <1>2 DEF Struck, JobType
  <2>2. f \in Outcomes \union {None, Lost}
    BY <1>1 DEF JobType
  <2> HIDE DEF f
  <2>3. x \in JobType /\ x.st = "retract" /\ x.why = w
    BY <1>1, <2>2 DEF JobType, Active
  <2> HIDE DEF x
  <2>4. job[i].st \in Active
    BY <1>2 DEF Active
  <2> QED BY <1>2, <2>1, <2>3, <2>4
<1>3. CASE ~(job[i].st \in {"send", "wait"} /\ Schema(calls[i]).via = "channel") /\ job[i].st \in Active
  <2> DEFINE st == IF w = "cancel" THEN "cancelled" ELSE "done"
             x == [job[i] EXCEPT !.st = st, !.res = Fail]
  <2>1. Struck(i, w) = x
    BY <1>3 DEF Struck
  <2>2. st \in {"cancelled", "done"} /\ (w # "cancel" => st = "done") /\ (w = "cancel" => st = "cancelled")
    OBVIOUS
  <2> HIDE DEF st
  <2>3. x \in JobType /\ x.st = st /\ x.why = job[i].why
    BY <1>1, <2>2, CallFacts DEF JobType
  <2> HIDE DEF x
  <2> QED BY <1>3, <2>1, <2>2, <2>3
<1>4. CASE job[i].st \notin Active
  <2>1. Struck(i, w) = job[i]
    BY <1>4 DEF Struck, Active
  <2>2. job[i].st # "retract"
    BY <1>4 DEF Active
  <2> QED BY <1>1, <1>4, <2>1, <2>2
<1> QED BY <1>2, <1>3, <1>4

LEMMA StruckMoves ==
    ASSUME TypeOK, NEW i \in Positions, NEW w \in {"timeout", "late"}, job[i].st \in Active,
           job' = [job EXCEPT ![i] = Struck(i, w)]
    PROVE  LET x == Struck(i, w) IN JobMoves(i, x) /\ x.st \in {"retract", "done"} /\ job'[i] = x
<1>1. DOMAIN job = Positions
  BY DEF Positions
<1> QED BY <1>1, StruckFacts DEF JobMoves

\* What the steps do to the futures.
LEMMA PoppedMoves ==
    ASSUME Inv, NEW i \in Positions, NEW x, pending' = Popped(i)
    PROVE  PendingMoves(i, x)
<1>1. Key(calls[i]) \in Keys /\ pending \in [Keys -> 1..MaxCalls \union {None}]
  BY BatchFacts DEF Inv, TypeOK
<1>2. pending' = [pending EXCEPT ![Key(calls[i])] = None]
  BY DEF Popped
<1>3. pending' \in [Keys -> 1..MaxCalls \union {None}]
  BY <1>1, <1>2
<1>4. \A k \in Keys : pending'[k] # None => pending'[k] = pending[k] /\ k # Key(calls[i])
  BY <1>1, <1>2
<1>5. \A k \in Keys : pending[k] # None /\ pending[k] = i => k = Key(calls[i])
  BY DEF Inv, PendingInv
<1> QED BY <1>3, <1>4, <1>5 DEF PendingMoves

\* A call that has no future in _pending leaves the table alone.
LEMMA KeptMoves ==
    ASSUME Inv, NEW i \in Positions, NEW x, UNCHANGED pending,
           job[i].st \in Owning => x.st \in Owning
    PROVE  PendingMoves(i, x)
<1>1. pending \in [Keys -> 1..MaxCalls \union {None}]
  BY DEF Inv, TypeOK
<1>2. \A k \in Keys : pending[k] # None /\ pending[k] = i => job[i].st \in Owning
  BY DEF Inv, PendingInv
<1> QED BY <1>1, <1>2 DEF PendingMoves
\* execute() up to its first await: replay, share, or open a future.
LEMMA ExecuteMoves ==
    ASSUME Inv, NEW i \in Positions, job[i].st \notin Owning, Execute(i)
    PROVE  \E x : /\ JobMoves(i, x) /\ PendingMoves(i, x)
                  /\ x.st \in {"done", "put", "join", "send"}
<1> DEFINE k == Key(calls[i])
<1>1. TypeOK /\ k \in Keys /\ job[i] \in JobType /\ DOMAIN job = Positions
  BY BatchFacts DEF Inv, Positions
<1>2. /\ pending \in [Keys -> 1..MaxCalls \union {None}]
      /\ completed \in [Keys -> [req : Calls, res : Outcomes] \union {None}]
  BY <1>1 DEF TypeOK
<1>3. ASSUME NEW r \in Outcomes, Settle(i, r), UNCHANGED pending
      PROVE  \E x : /\ JobMoves(i, x) /\ PendingMoves(i, x)
                    /\ x.st \in {"done", "put", "join", "send"}
  <2>1. PICK x : JobMoves(i, x) /\ x.st \in {"done", "put"}
    BY <1>1, <1>3, SettleMoves
  <2>2. PendingMoves(i, x)
    BY <1>3, KeptMoves
  <2> QED BY <2>1, <2>2
<1>4. CASE Replayed(i)
  <2> DEFINE r == IF Schema(calls[i]).via = "motion" \/ Same(completed[k].req, calls[i])
                  THEN completed[k].res ELSE Fail
  <2>1. Settle(i, r) /\ UNCHANGED pending /\ completed[k] # None
    BY <1>4 DEF Replayed
  <2>2. r \in Outcomes
    BY <1>1, <1>2, <2>1, CallFacts
  <2> HIDE DEF r
  <2> QED BY <1>3, <2>1, <2>2
<1>5. CASE Joined(i)
  <2>1. pending[k] # None /\ UNCHANGED pending
    BY <1>5 DEF Joined
  <2>2. CASE Settle(i, Fail)
    BY <1>3, <2>1, <2>2, CallFacts
  <2>3. CASE job' = [job EXCEPT ![i].st = "join", ![i].on = pending[k]]
    <3> DEFINE x == [job[i] EXCEPT !.st = "join", !.on = pending[k]]
    <3>1. pending[k] \in Positions
      BY <1>1, <2>1 DEF Inv, PendingInv
    <3>2. pending[k] \in 0 .. MaxCalls
      BY <1>1, <3>1, BatchFacts
    <3>3. PICK own : own = pending[k]
      OBVIOUS
    <3>4. x = [job[i] EXCEPT !.st = "join", !.on = own]
      BY <3>3
    <3>5. job' = [job EXCEPT ![i] = x]
      BY <1>1, <2>3
    <3> HIDE DEF x
    <3>6. x \in JobType /\ x.st = "join" /\ x.why = job[i].why /\ x.on = own
      BY <1>1, <3>2, <3>3, <3>4 DEF JobType, Active
    <3>7. JobMoves(i, x)
      BY <3>1, <3>3, <3>5, <3>6 DEF JobMoves
    <3>8. PendingMoves(i, x)
      BY <2>1, KeptMoves
    <3> QED BY <3>6, <3>7, <3>8
  <2> QED BY <1>5, <2>2, <2>3 DEF Joined
<1>6. CASE Opened(i)
  <2>1. job' = [job EXCEPT ![i].st = "send"] /\ pending' = [pending EXCEPT ![k] = i]
    BY <1>6 DEF Opened
  <2>2. PICK x : JobMoves(i, x) /\ x.st = "send"
    BY <1>1, <2>1, StateMoves
  <2>3. i \in 1..MaxCalls
    BY <1>1, BatchFacts
  <2>4. pending' \in [Keys -> 1..MaxCalls \union {None}] /\ pending'[k] = i
        /\ \A m \in Keys : m # k => pending'[m] = pending[m]
    BY <1>1, <1>2, <2>1, <2>3
  <2>5. \A m \in Keys : pending[m] # None /\ pending[m] = i => FALSE
    BY DEF Inv, PendingInv
  <2>6. PendingMoves(i, x)
    BY <2>2, <2>4, <2>5 DEF PendingMoves
  <2> QED BY <2>2, <2>6
<1> QED BY <1>4, <1>5, <1>6 DEF Execute

\* The steps that leave the device and the answers kept alone.
Local == UNCHANGED <<engine, batch, completed, kv, asked>>

LEMMA LocalMoved ==
    ASSUME Inv, NEW i \in Positions, NEW x, job[i].st \in Active, JobMoves(i, x),
           PendingMoves(i, x), Local, x.st # "cancelled",
           job[i].st = "retract" => x.st = "done"
    PROVE  Moved(i, x)
BY DEF Moved, Local, engine, Inv, TypeOK

LEMMA DispatchMoves ==
    ASSUME Inv, NEW i \in Positions, Start(i) \/ Lookup(i) \/ Store(i) \/ Share(i) \/ ShareIsCancelled(i)
    PROVE  \E x : Moved(i, x)
<1>1. TypeOK /\ Fail \in Outcomes /\ job[i] \in JobType /\ calls[i] \in Calls /\ calls[i].args \in Arguments
  BY BatchFacts, CallFacts DEF Inv
<1>2. kv \in [Arguments -> Outcomes \union {None}]
  BY <1>1 DEF TypeOK
<1>3. ASSUME job[i].st \in Active \ Owning, Local, UNCHANGED pending,
             NEW r \in Outcomes, Done(i, r) \/ Settle(i, r)
      PROVE  \E x : Moved(i, x)
  <2>1. PICK x : JobMoves(i, x) /\ x.st \in {"done", "put"}
    BY <1>1, <1>3, DoneMoves, SettleMoves
  <2>2. PendingMoves(i, x)
    BY <1>3, KeptMoves
  <2>3. Moved(i, x)
    BY <1>3, <2>1, <2>2, LocalMoved DEF Owning
  <2> QED BY <2>3
<1>4. ASSUME job[i].st \in Active \ Owning, Local, Execute(i) PROVE \E x : Moved(i, x)
  <2>1. PICK x : JobMoves(i, x) /\ PendingMoves(i, x) /\ x.st \in {"done", "put", "join", "send"}
    BY <1>4, ExecuteMoves
  <2>2. Moved(i, x)
    BY <1>4, <2>1, LocalMoved DEF Owning
  <2> QED BY <2>2
<1>5. CASE Start(i)
  <2>1. job[i].st \in Active \ Owning /\ Local
    BY <1>5 DEF Start, At, Active, Owning, Local
  <2>2. CASE Done(i, Fail) /\ UNCHANGED pending
    BY <1>1, <1>3, <2>1, <2>2
  <2>3. CASE job' = [job EXCEPT ![i].st = "get"] /\ UNCHANGED pending
    <3>1. PICK x : JobMoves(i, x) /\ x.st = "get"
      BY <1>1, <2>3, StateMoves
    <3>2. Moved(i, x)
      BY <2>1, <2>3, <3>1, KeptMoves, LocalMoved DEF Owning
    <3> QED BY <3>2
  <2>4. CASE Execute(i)
    BY <1>4, <2>1, <2>4
  <2> QED BY <1>5, <2>2, <2>3, <2>4 DEF Start
<1>6. CASE Lookup(i)
  <2>1. job[i].st \in Active \ Owning /\ Local
    BY <1>6 DEF Lookup, At, Active, Owning, Local
  <2>2. CASE kv[calls[i].args] # None /\ Done(i, kv[calls[i].args]) /\ UNCHANGED pending
    <3>1. kv[calls[i].args] \in Outcomes
      BY <1>1, <1>2, <2>2
    <3> QED BY <1>3, <2>1, <2>2, <3>1
  <2>3. CASE Done(i, Fail) /\ UNCHANGED pending
    BY <1>1, <1>3, <2>1, <2>3
  <2>4. CASE Execute(i)
    BY <1>4, <2>1, <2>4
  <2> QED BY <1>6, <2>2, <2>3, <2>4 DEF Lookup
<1>7. CASE Store(i)
  <2>1. job[i].st \in Active \ Owning /\ UNCHANGED <<engine, batch, pending, completed, asked>>
        /\ job[i].res \in Outcomes
    BY <1>1, <1>7 DEF Store, At, Active, Owning, JobType
  <2>2. kv' \in [Arguments -> Outcomes \union {None}]
    BY <1>1, <1>2, <1>7, <2>1 DEF Store
  <2>3. PICK x : JobMoves(i, x) /\ x.st = "done"
    BY <1>1, <1>7, <2>1, DoneMoves DEF Store
  <2>4. PendingMoves(i, x)
    BY <2>1, KeptMoves
  <2>5. Moved(i, x)
    BY <1>1, <2>1, <2>2, <2>3, <2>4 DEF Moved, engine, TypeOK, Owning
  <2> QED BY <2>5
<1>8. CASE Share(i)
  <2> DEFINE f == job[job[i].on].fut
  <2>1. job[i].st = "join" /\ Local /\ UNCHANGED pending /\ f \notin {None, Lost} /\ Settle(i, f)
    BY <1>8 DEF Share, At, Local
  <2>2. job[i].on \in Positions
    BY <2>1 DEF Inv, LoopInv
  <2>3. f \in Outcomes
    BY <1>1, <2>1, <2>2, BatchFacts DEF JobType
  <2>4. job[i].st \in Active \ Owning
    BY <2>1 DEF Active, Owning
  <2> HIDE DEF f
  <2> QED BY <1>3, <2>1, <2>3, <2>4
<1>9. CASE ShareIsCancelled(i)
  <2>1. /\ job[i].st = "join" /\ job' = [job EXCEPT ![i].st = "cancelled"] /\ pc' = "cancelling"
        /\ UNCHANGED <<iters, runs, failed, told, batch, pending, completed, kv, asked>>
    BY <1>9 DEF ShareIsCancelled, At
  <2>2. PICK x : JobMoves(i, x) /\ x.st = "cancelled"
    BY <1>1, <2>1, StateMoves
  <2>3. PendingMoves(i, x)
    BY <2>1, KeptMoves DEF Owning
  <2>4. job[i].st \in Active
    BY <2>1 DEF Active
  <2>5. Moved(i, x)
    BY <1>1, <2>1, <2>2, <2>3, <2>4 DEF Moved, TypeOK
  <2> QED BY <2>5
<1> QED BY <1>5, <1>6, <1>7, <1>8, <1>9

LEMMA DeviceMoves ==
    ASSUME Inv, NEW i \in Positions,
           \/ Send(i) \/ SendFails(i) \/ Receive(i) \/ Retract(i)
           \/ ToolTimesOut(i) \/ ExchangeTimesOut(i)
    PROVE  \E x : Moved(i, x)
<1>1. TypeOK /\ Fail \in Outcomes /\ job[i] \in JobType /\ calls[i] \in Calls
      /\ Key(calls[i]) \in Keys /\ DOMAIN job = Positions
  BY BatchFacts, CallFacts DEF Inv, Positions
<1>2. /\ completed \in [Keys -> [req : Calls, res : Outcomes] \union {None}]
      /\ kv \in [Arguments -> Outcomes \union {None}] /\ asked \subseteq Calls
  BY <1>1 DEF TypeOK
<1>3. ASSUME NEW r \in Outcomes PROVE
        [completed EXCEPT ![Key(calls[i])] = [req |-> calls[i], res |-> r]]
          \in [Keys -> [req : Calls, res : Outcomes] \union {None}]
  BY <1>1, <1>2
<1>4. CASE Send(i)
  <2>1. job[i].st = "send" /\ asked' = asked \union {calls[i]} /\ job' = [job EXCEPT ![i].st = "wait"]
        /\ UNCHANGED <<engine, batch, pending, completed, kv>>
    BY <1>4 DEF Send, At
  <2>2. PICK x : JobMoves(i, x) /\ x.st = "wait"
    BY <1>1, <2>1, StateMoves
  <2>3. PendingMoves(i, x)
    BY <2>1, <2>2, KeptMoves DEF Owning
  <2>4. job[i].st \in Active /\ asked' \subseteq Calls
    BY <1>1, <1>2, <2>1 DEF Active
  <2>5. Moved(i, x)
    BY <1>2, <2>1, <2>2, <2>3, <2>4 DEF Moved, engine
  <2> QED BY <2>5
<1>5. CASE SendFails(i)
  <2>1. job[i].st = "send" /\ pending' = Popped(i) /\ Done(i, Fail) /\ Local
    BY <1>5 DEF SendFails, At, Local
  <2>2. PICK x : JobMoves(i, x) /\ x.st = "done"
    BY <1>1, <2>1, DoneMoves
  <2>3. Moved(i, x)
    BY <2>1, <2>2, PoppedMoves, LocalMoved DEF Active
  <2> QED BY <2>3
<1>6. CASE Receive(i)
  <2>1. /\ job[i].st = "wait" /\ job[i].fut \notin {None, Lost} /\ pending' = Popped(i)
        /\ completed' = [completed EXCEPT ![Key(calls[i])] = [req |-> calls[i], res |-> job[i].fut]]
        /\ Settle(i, job[i].fut) /\ UNCHANGED <<engine, batch, kv, asked>>
    BY <1>6 DEF Receive, At
  <2>2. job[i].fut \in Outcomes
    BY <1>1, <2>1 DEF JobType
  <2>3. PICK x : JobMoves(i, x) /\ x.st \in {"done", "put"}
    BY <1>1, <2>1, <2>2, SettleMoves
  <2>4. PendingMoves(i, x) /\ job[i].st \in Active
    BY <2>1, PoppedMoves DEF Active
  <2>5. completed' \in [Keys -> [req : Calls, res : Outcomes] \union {None}]
    BY <1>3, <2>1, <2>2
  <2>6. Moved(i, x)
    BY <1>2, <2>1, <2>3, <2>4, <2>5 DEF Moved, engine
  <2> QED BY <2>6
<1>7. CASE Retract(i)
  <2> DEFINE st == IF job[i].why = "cancel" THEN "cancelled" ELSE "done"
             x == [job[i] EXCEPT !.st = st, !.res = Fail]
  <2>1. /\ job[i].st = "retract" /\ pending' = Popped(i)
        /\ \/ completed' = completed
           \/ completed' = [completed EXCEPT ![Key(calls[i])] = [req |-> calls[i], res |-> Fail]]
        /\ job' = [job EXCEPT ![i].st = st, ![i].res = Fail] /\ UNCHANGED <<engine, batch, kv, asked>>
    BY <1>7 DEF Retract, At
  <2>2. st \in {"cancelled", "done"} /\ (st = "cancelled" => job[i].why = "cancel")
    OBVIOUS
  <2> HIDE DEF st
  <2>3. x \in JobType /\ x.st = st /\ x.why = job[i].why
    BY <1>1, <2>2 DEF JobType
  <2>4. job' = [job EXCEPT ![i] = x]
    BY <1>1, <2>1
  <2> HIDE DEF x
  <2>5. JobMoves(i, x)
    BY <2>2, <2>3, <2>4 DEF JobMoves
  <2>6. PendingMoves(i, x) /\ job[i].st \in Active
    BY <2>1, PoppedMoves DEF Active
  <2>7. completed' \in [Keys -> [req : Calls, res : Outcomes] \union {None}]
    BY <1>1, <1>2, <1>3, <2>1
  <2>8. Moved(i, x)
    BY <1>2, <2>1, <2>2, <2>3, <2>5, <2>6, <2>7 DEF Moved, engine
  <2> QED BY <2>8
<1>8. CASE ToolTimesOut(i)
  <2> DEFINE x == Struck(i, "timeout")
  <2>1. /\ job[i].st \in {"send", "wait", "join"} /\ MaybeSent({i})
        /\ job' = [job EXCEPT ![i] = x] /\ UNCHANGED <<engine, batch, completed, kv>>
        /\ pending' = IF job'[i].st = "done" /\ job[i].st # "join" THEN Popped(i) ELSE pending
    BY <1>8 DEF ToolTimesOut, At
  <2>2. job[i].st \in Active
    BY <2>1 DEF Active
  <2>3. JobMoves(i, x) /\ x.st \in {"retract", "done"} /\ job'[i] = x
    BY <1>1, <2>1, <2>2, StruckMoves
  <2> HIDE DEF x
  <2>4. asked' \subseteq Calls
    <3>1. PICK T \in SUBSET {calls[j] : j \in {j \in {i} : At(j, "send")}} : asked' = asked \union T
      BY <2>1 DEF MaybeSent
    <3>2. T \subseteq Calls
      BY <1>1, <3>1
    <3> QED BY <1>2, <3>1, <3>2
  <2>5. PendingMoves(i, x)
    <3>1. CASE x.st = "done" /\ job[i].st # "join"
      BY <2>1, <2>3, <3>1, PoppedMoves
    <3>2. CASE ~(x.st = "done" /\ job[i].st # "join")
      BY <2>1, <2>3, <3>2, KeptMoves DEF Owning
    <3> QED BY <3>1, <3>2
  <2>6. Moved(i, x)
    BY <1>2, <2>1, <2>2, <2>3, <2>4, <2>5 DEF Moved, engine
  <2> QED BY <2>6
<1>9. CASE ExchangeTimesOut(i)
  <2>1. job[i].st = "wait" /\ job[i].st \in Active /\ UNCHANGED <<engine, batch, kv, asked>>
    BY <1>9 DEF ExchangeTimesOut, At, Active
  <2>2. CASE job' = [job EXCEPT ![i] = Struck(i, "late")] /\ UNCHANGED <<pending, completed>>
             /\ Schema(calls[i]).via = "channel"
    <3> DEFINE x == Struck(i, "late")
    <3>1. JobMoves(i, x) /\ x.st \in {"retract", "done"}
      BY <1>1, <2>1, <2>2, StruckMoves
    <3>2. x.st = "retract"
      BY <1>1, <2>1, <2>2 DEF Struck, JobType
    <3> HIDE DEF x
    <3>3. PendingMoves(i, x)
      BY <2>2, <3>2, KeptMoves DEF Owning
    <3>4. Moved(i, x)
      BY <1>2, <2>1, <2>2, <3>1, <3>2, <3>3 DEF Moved, engine
    <3> QED BY <3>4
  <2>3. CASE /\ completed' = [completed EXCEPT ![Key(calls[i])] = [req |-> calls[i], res |-> Fail]]
             /\ pending' = Popped(i) /\ Settle(i, Fail)
    <3>1. PICK x : JobMoves(i, x) /\ x.st \in {"done", "put"}
      BY <1>1, <2>3, SettleMoves
    <3>2. PendingMoves(i, x)
      BY <2>3, PoppedMoves
    <3>3. completed' \in [Keys -> [req : Calls, res : Outcomes] \union {None}]
      BY <1>1, <1>3, <2>3
    <3>4. Moved(i, x)
      BY <1>2, <2>1, <3>1, <3>2, <3>3 DEF Moved, engine
    <3> QED BY <3>4
  <2> QED BY <1>9, <2>2, <2>3 DEF ExchangeTimesOut
<1> QED BY <1>4, <1>5, <1>6, <1>7, <1>8, <1>9
(***************************************************************************)
(* The engine and the loop of the dispatcher.                              *)
(***************************************************************************)
\* The engine holds no batch.
LEMMA NoBatch ==
    ASSUME TypeOK', job' = <<>>, calls' = <<>>, \A k \in Keys : pending'[k] = None
    PROVE  Inv'
<1>1. Positions' = {}
  BY DEF Positions
<1>2. PendingInv' /\ AloneInv' /\ CancelInv'
  BY <1>1 DEF PendingInv, AloneInv, CancelInv, Keys, Key, Schema
<1>3. LoopInv'
  BY <1>1 DEF LoopInv
<1> QED BY <1>2, <1>3 DEF Inv

\* Nobody is inside execute() when no call is under way.
LEMMA QuietPending == ASSUME Inv, ~Busy PROVE \A k \in Keys : pending[k] = None
BY DEF Inv, PendingInv, Busy, Owning, Active

LEMMA EmptyTyped ==
    /\ \A k \in Keys : Empty[k] = None
    /\ Empty \in [Keys -> 1..MaxCalls \union {None}]
    /\ Empty \in [Keys -> [req : Calls, res : Outcomes] \union {None}]
BY DEF Empty

LEMMA NoJobs == /\ DOMAIN <<>> = 1 .. Len(<<>>) /\ \A i \in DOMAIN <<>> : <<>>[i] \in JobType
                /\ 1 \in 1 .. (MaxCalls + 1)
BY ToolsAssumption

LEMMA InitInv == ASSUME Init PROVE Inv
<1>1. 0 \in 0 .. MaxIters /\ 1 \in 0 .. MaxRuns
  BY ToolsAssumption
<1>2. TypeOK
  BY <1>1, NoJobs, EmptyTyped DEF Init, TypeOK, Positions
<1>3. Positions = {}
  BY DEF Init, Positions
<1>4. PendingInv /\ LoopInv /\ AloneInv /\ CancelInv
  BY <1>3, EmptyTyped DEF Init, PendingInv, LoopInv, AloneInv, CancelInv
<1> QED BY <1>2, <1>4 DEF Inv

LEMMA RequestKeepsInv == ASSUME Inv, NEW b \in Batches, RequestTools(b) PROVE Inv'
<1>1. /\ pc = "model" /\ calls' = b /\ next' = 1 /\ pc' = "dispatch" /\ iters' = iters + 1
      /\ job' = [i \in 1..Len(b) |-> IF b[i].name \in failed
                                     THEN [Idle EXCEPT !.st = "suppressed"] ELSE Idle]
      /\ UNCHANGED <<runs, failed, pending, completed, kv, asked, told>>
  BY DEF RequestTools
<1>2. TypeOK /\ MaxCalls \in Nat /\ Len(b) \in 1 .. MaxCalls
  BY ToolsAssumption DEF Inv
<1>3. iters' \in 0 .. MaxIters
  BY <1>1, <1>2, ToolsAssumption DEF RequestTools, TypeOK
<1> DEFINE zero == 0
           other == [Idle EXCEPT !.st = "suppressed"]
<1>4. /\ zero \in 0 .. MaxCalls
      /\ Idle = [st |-> "waiting", fut |-> None, on |-> zero, why |-> "none", res |-> Fail]
  BY <1>2 DEF Idle
<1> HIDE DEF zero
<1>5. Idle \in JobType /\ Idle.st = "waiting" /\ Idle.why = "none"
  BY <1>4, CallFacts DEF JobType
<1>6. other \in JobType /\ other.st = "suppressed" /\ other.why = "none"
  BY <1>5 DEF JobType
<1> HIDE DEF other
<1>7. Positions' = 1 .. Len(b)
      /\ \A i \in 1 .. Len(b) : job'[i] = Idle \/ job'[i] = other
  BY <1>1 DEF Positions, other
<1>8. \A i \in 1 .. Len(b) : /\ job'[i] \in JobType /\ job'[i].why = "none"
                             /\ job'[i].st \in {"waiting", "suppressed"}
  BY <1>5, <1>6, <1>7
<1>9. \A k \in Keys : pending[k] = None
  <2>1. Positions = {}
    BY <1>1, <1>2, BatchFacts DEF Inv, LoopInv
  <2> QED BY <2>1 DEF Inv, PendingInv
<1>10. TypeOK'
  <2>1. 1 \in 1 .. (MaxCalls + 1)
    BY <1>2
  <2> QED BY <1>1, <1>2, <1>3, <1>7, <1>8, <2>1 DEF TypeOK, Positions
<1>11. PendingInv' /\ AloneInv' /\ CancelInv'
  <2>1. \A i \in Positions' : job'[i].st \notin Active
    BY <1>7, <1>8 DEF Active
  <2> QED BY <1>1, <1>9, <2>1 DEF PendingInv, AloneInv, CancelInv, Key, Schema, Keys
<1>12. LoopInv'
  <2>1. \A i \in 1 .. Len(b) : i >= 1 /\ ~(i < 1)
    BY <1>2
  <2> QED BY <1>1, <1>7, <1>8, <2>1 DEF LoopInv, Serial, Schema
<1> QED BY <1>10, <1>11, <1>12 DEF Inv

\* _merge_tool_results picks an outcome of the batch.
LEMMA LastIsPosition ==
    ASSUME TypeOK, NEW i \in Positions PROVE LastOf(calls[i].id) \in Positions
<1> DEFINE same == {j \in Positions : calls[j].id = calls[i].id}
           late == {j \in same : At(j, "suppressed")}
           pool == IF late = {} THEN same ELSE late
<1>1. pool \in SUBSET Positions /\ pool # {}
  OBVIOUS
<1>2. LastOf(calls[i].id) = CHOOSE j \in pool : \A l \in pool : l <= j
  BY DEF LastOf
<1> HIDE DEF pool
<1>3. pool \in SUBSET Int /\ MaxCalls \in Int /\ \A x \in pool : x <= MaxCalls
  BY <1>1, BatchFacts
<1>4. \E j \in pool : \A l \in pool : l <= j
  BY <1>1, <1>3, GreatestBelow
<1> QED BY <1>1, <1>2, <1>4

LEMMA ReportKeepsInv ==
    ASSUME Inv, ~Busy, NEW out, \A i \in Positions : out[i] \in Outcomes, Report(out)
    PROVE  Inv'
<1>1. /\ pc' = "model" /\ calls' = <<>> /\ job' = <<>> /\ next' = 1
      /\ UNCHANGED <<iters, runs, pending, completed, kv, asked>>
      /\ failed' \subseteq DOMAIN Tools
  BY DEF Report
<1>2. TypeOK
  BY DEF Inv
<1>3. told' \subseteq Calls \X (Calls \union {None})
  <2> DEFINE merged == [i \in Positions |-> LastOf(calls[i].id)]
  <2>1. told' = told \union {<<calls[i], out[merged[i]].from>> :
                               i \in {i \in Positions : out[merged[i]].ok}}
    BY DEF Report
  <2>2. \A i \in Positions : merged[i] \in Positions
    BY <1>2, LastIsPosition
  <2> HIDE DEF merged
  <2>3. \A i \in Positions : calls[i] \in Calls /\ out[merged[i]].from \in Calls \union {None}
    BY <1>2, <2>2, BatchFacts DEF Outcomes
  <2> QED BY <1>2, <2>1, <2>3 DEF TypeOK
<1>4. TypeOK'
  BY <1>1, <1>2, <1>3, NoJobs DEF TypeOK, Positions
<1> QED BY <1>1, <1>4, QuietPending, NoBatch

LEMMA ReturnKeepsInv == ASSUME Inv, Return \/ Expire PROVE Inv'
<1>1. TypeOK
  BY DEF Inv
<1>2. ASSUME NEW i \in Positions PROVE job[i].res \in Outcomes /\ Fail \in Outcomes
  BY <1>1, BatchFacts, CallFacts DEF JobType
<1>3. CASE Return
  <2> DEFINE out == [i \in Positions |-> job[i].res]
  <2>1. ~Busy /\ Report(out) /\ \A i \in Positions : out[i] \in Outcomes
    BY <1>2, <1>3 DEF Return
  <2> HIDE DEF out
  <2> QED BY <2>1, ReportKeepsInv
<1>4. CASE Expire
  <2> DEFINE out == [i \in Positions |-> Fail]
  <2>1. ~Busy /\ Report(out) /\ \A i \in Positions : out[i] \in Outcomes
    BY <1>2, <1>4 DEF Expire
  <2> HIDE DEF out
  <2> QED BY <2>1, ReportKeepsInv
<1> QED BY <1>3, <1>4

LEMMA TurnKeepsInv == ASSUME Inv, EndTurn \/ RunAgain \/ Wind PROVE Inv'
<1>1. TypeOK
  BY DEF Inv
<1>2. CASE EndTurn
  <2>1. /\ pc' = "ended" /\ pc = "model" /\ UNCHANGED <<calls, job, next, pending>>
        /\ UNCHANGED <<iters, runs, failed, completed, kv, asked, told>>
    BY <1>2 DEF EndTurn
  <2>2. TypeOK'
    BY <1>1, <2>1 DEF TypeOK, Positions
  <2>3. Positions' = {}
    BY <1>1, <2>1, BatchFacts DEF Inv, LoopInv, Positions
  <2>4. Positions = {} /\ calls = <<>>
    BY <1>1, <2>1, BatchFacts DEF Inv, LoopInv
  <2>5. \A k \in Keys : pending[k] = None
    BY <2>4 DEF Inv, PendingInv
  <2>6. PendingInv' /\ AloneInv' /\ CancelInv' /\ LoopInv'
    BY <2>1, <2>3, <2>4, <2>5 DEF PendingInv, AloneInv, CancelInv, LoopInv, Key, Schema, Keys
  <2> QED BY <2>2, <2>6 DEF Inv
<1>3. CASE RunAgain
  <2>1. 0 \in 0 .. MaxIters /\ runs' \in 0 .. MaxRuns
    BY <1>1, <1>3, ToolsAssumption DEF RunAgain, TypeOK
  <2>2. TypeOK'
    BY <1>1, <1>3, <2>1, NoJobs, EmptyTyped DEF RunAgain, TypeOK, Positions
  <2> QED BY <1>3, <2>2, EmptyTyped, NoBatch DEF RunAgain
<1>4. CASE Wind
  <2>1. TypeOK'
    BY <1>1, <1>4, NoJobs DEF Wind, TypeOK, Positions
  <2> QED BY <1>4, <2>1, QuietPending, NoBatch DEF Wind
<1> QED BY <1>2, <1>3, <1>4

\* The device answers: only the future of the call changes.
LEMMA AnswerKeepsInv ==
    ASSUME Inv, NEW q \in asked, NEW ok \in BOOLEAN, Accept(q, ok) PROVE Inv'
<1> DEFINE own == pending[Key(q)]
           f == [ok |-> ok, from |-> q]
           x == [job[own] EXCEPT !.fut = f]
<1>1. TypeOK /\ q \in Calls
  BY DEF Inv, TypeOK
<1>2. own # None /\ job' = [job EXCEPT ![own].fut = f]
      /\ UNCHANGED <<engine, batch, pending, completed, kv, asked>>
  BY DEF Accept
<1>3. own \in Positions /\ f \in Outcomes
  BY <1>1, <1>2, CallFacts DEF Inv, PendingInv, Outcomes
<1>4. job[own] \in JobType /\ DOMAIN job = Positions
  BY <1>1, <1>3, BatchFacts DEF Positions
<1>5. PICK o : o = own
  OBVIOUS
<1> HIDE DEF f
<1>6. x \in JobType /\ x.st = job[own].st /\ x.why = job[own].why /\ x.on = job[own].on
  BY <1>3, <1>4 DEF JobType
<1>7. job' = [job EXCEPT ![o] = x] /\ o \in Positions
  BY <1>2, <1>3, <1>4, <1>5
<1> HIDE DEF own, x
<1>8. Positions' = Positions
      /\ \A i \in Positions : /\ job'[i] \in JobType /\ job'[i].st = job[i].st
                              /\ job'[i].why = job[i].why /\ job'[i].on = job[i].on
  BY <1>1, <1>4, <1>5, <1>6, <1>7, BatchFacts DEF Positions
<1>9. TypeOK'
  BY <1>1, <1>2, <1>8 DEF TypeOK, Positions, engine, batch
<1>10. PendingInv'
  BY <1>2, <1>8 DEF Inv, PendingInv, batch, Key, Schema, Keys
<1>11. LoopInv' /\ AloneInv' /\ CancelInv'
  BY <1>2, <1>8 DEF Inv, LoopInv, AloneInv, CancelInv, batch, engine, Serial, Schema
<1> QED BY <1>9, <1>10, <1>11 DEF Inv
\* The loop starts, collects or skips calls while none is under way; `st` says
\* what state each position is left in.
LEMMA LoopMoves ==
    ASSUME Inv, pc = "dispatch", ~Busy, NEW n \in 1 .. (MaxCalls + 1), next' = n,
           UNCHANGED <<engine, calls, pending, completed, kv, asked>>,
           DOMAIN job' = Positions,
           \A i \in Positions : /\ job'[i] \in JobType /\ job'[i].why = job[i].why
                                /\ job'[i].st \in {job[i].st, "batched", "start"},
           \A i \in Positions : i >= n => job'[i].st \in {"waiting", "suppressed"},
           \A i \in Positions : i < n => job'[i].st # "waiting",
           \A i \in Positions : job'[i].st = "batched" => ~Serial(calls[i]),
           \A i \in Positions : Serial(calls[i]) /\ job'[i].st = "start" =>
               \A j \in Positions : /\ j < i => job'[j].st \in {"done", "suppressed"}
                                    /\ j > i => job'[j].st \in {"waiting", "suppressed"}
    PROVE  Inv'
<1>1. TypeOK /\ Positions' = Positions
  BY DEF Inv, Positions
<1>2. \A i \in Positions : job[i].st \notin Active
  BY DEF Busy
<1>3. TypeOK'
  BY <1>1 DEF TypeOK, Positions, engine
<1>4. PendingInv'
  BY QuietPending DEF PendingInv, Keys, Key, Schema
<1>5. \A i \in Positions : job'[i].st # "join" /\ job'[i].st # "cancelled" /\ job'[i].why # "cancel"
  BY <1>2 DEF Inv, LoopInv, Active
<1>6. LoopInv'
  BY <1>1, <1>5 DEF LoopInv, Serial, Schema, engine
<1>7. \A i \in Positions : job'[i].st \in Active => job'[i].st = "start"
  BY <1>2 DEF Active
<1>8. AloneInv'
  BY <1>1, <1>7 DEF AloneInv, Serial, Schema
<1>9. CancelInv'
  BY DEF CancelInv, engine
<1> QED BY <1>3, <1>4, <1>6, <1>8, <1>9 DEF Inv

LEMMA StartTyped ==
    ASSUME NEW y \in JobType, NEW st \in {"batched", "start"}
    PROVE  /\ [y EXCEPT !.st = st] \in JobType /\ [y EXCEPT !.st = st].st = st
           /\ [y EXCEPT !.st = st].why = y.why
BY DEF JobType, Active

LEMMA LoopKeepsInv == ASSUME Inv, Collect \/ Flush \/ RunAlone PROVE Inv'
<1>1. TypeOK /\ DOMAIN job = Positions /\ Positions = 1 .. Len(calls) /\ next \in Nat
      /\ Len(calls) \in 0 .. MaxCalls /\ MaxCalls \in Nat
  BY BatchFacts DEF Inv, Positions, TypeOK
<1>2. \A i \in Positions : /\ i \in Nat /\ job[i] \in JobType
                           /\ i >= next => job[i].st \in {"waiting", "suppressed"}
                           /\ i < next => job[i].st # "waiting"
                           /\ job[i].st = "batched" => ~Serial(calls[i])
  BY <1>1, BatchFacts DEF Inv, LoopInv
<1>3. PICK m \in Nat : m = next
  BY <1>1
<1>4. next \in Positions => m + 1 \in 1 .. (MaxCalls + 1)
  BY <1>1, <1>3
\* One position leaves the waiting state.
<1>5. ASSUME NEW st \in {"batched", "start"}, m \in Positions,
             job' = [job EXCEPT ![m].st = st]
      PROVE  /\ DOMAIN job' = Positions
             /\ job'[m] \in JobType /\ job'[m].st = st /\ job'[m].why = job[m].why
             /\ \A i \in Positions : i # m => job'[i] = job[i]
  <2> DEFINE x == [job[m] EXCEPT !.st = st]
  <2>1. job' = [job EXCEPT ![m] = x]
    BY <1>1, <1>5
  <2>2. job[m] \in JobType
    BY <1>2, <1>5
  <2>3. x \in JobType /\ x.st = st /\ x.why = job[m].why
    BY <2>2 DEF JobType, Active
  <2> HIDE DEF x
  <2> QED BY <1>1, <1>5, <2>1, <2>3
<1>6. CASE Collect
  <2>1. /\ pc = "dispatch" /\ ~Busy /\ m \in Positions /\ next' = m + 1
        /\ UNCHANGED <<engine, calls, pending, completed, kv, asked>>
    BY <1>3, <1>6 DEF Collect, LoopAt
  <2>2. CASE job[m].st = "suppressed" /\ job' = job
    <3>1. \A i \in Positions : /\ i >= m + 1 => job'[i].st \in {"waiting", "suppressed"}
                               /\ i < m + 1 => job'[i].st # "waiting"
      BY <1>2, <1>3, <2>2
    <3>2. \A i \in Positions : job'[i].st # "start"
      BY <2>1, <2>2 DEF Busy, Active
    <3> QED BY <1>1, <1>2, <1>3, <1>4, <2>1, <2>2, <3>1, <3>2, LoopMoves
  <2>3. CASE job[m].st = "waiting" /\ ~Serial(calls[m]) /\ job' = [job EXCEPT ![m].st = "batched"]
    <3>1. /\ DOMAIN job' = Positions
          /\ job'[m] \in JobType /\ job'[m].st = "batched" /\ job'[m].why = job[m].why
          /\ \A i \in Positions : i # m => job'[i] = job[i]
      BY <1>5, <2>1, <2>3
    <3>2. \A i \in Positions : /\ i >= m + 1 => job'[i].st \in {"waiting", "suppressed"}
                               /\ i < m + 1 => job'[i].st # "waiting"
      BY <1>2, <1>3, <3>1
    <3>3. \A i \in Positions : job'[i].st # "start"
      BY <2>1, <3>1 DEF Busy, Active
    <3>4. \A i \in Positions : /\ job'[i] \in JobType /\ job'[i].why = job[i].why
                               /\ job'[i].st \in {job[i].st, "batched", "start"}
                               /\ job'[i].st = "batched" => ~Serial(calls[i])
      BY <1>2, <2>3, <3>1
    <3> QED BY <1>3, <1>4, <2>1, <3>1, <3>2, <3>3, <3>4, LoopMoves
  <2> QED BY <1>3, <1>6, <2>2, <2>3 DEF Collect, At
<1>7. CASE RunAlone
  <2>1. /\ pc = "dispatch" /\ ~Busy /\ m \in Positions /\ next' = m + 1 /\ Batched = {}
        /\ job[m].st = "waiting" /\ Serial(calls[m]) /\ job' = [job EXCEPT ![m].st = "start"]
        /\ UNCHANGED <<engine, calls, pending, completed, kv, asked>>
    BY <1>3, <1>7 DEF RunAlone, LoopAt, At
  <2>2. /\ DOMAIN job' = Positions
        /\ job'[m] \in JobType /\ job'[m].st = "start" /\ job'[m].why = job[m].why
        /\ \A i \in Positions : i # m => job'[i] = job[i]
    BY <1>5, <2>1
  <2>3. \A i \in Positions : /\ i >= m + 1 => job'[i].st \in {"waiting", "suppressed"}
                             /\ i < m + 1 => job'[i].st # "waiting"
    BY <1>2, <1>3, <2>2
  <2>4. \A i \in Positions : /\ job'[i] \in JobType /\ job'[i].why = job[i].why
                             /\ job'[i].st \in {job[i].st, "batched", "start"}
                             /\ job'[i].st = "batched" => ~Serial(calls[i])
    BY <1>2, <2>2
  <2>5. ASSUME NEW j \in Positions, j < m PROVE job'[j].st \in {"done", "suppressed"}
    <3>1. job[j] \in JobType /\ job[j].st # "waiting" /\ job'[j] = job[j]
      BY <1>2, <1>3, <2>2, <2>5
    <3>2. job[j].st \notin Active /\ job[j].st # "batched" /\ job[j].st # "cancelled"
      BY <2>1 DEF Busy, Batched, At, Inv, LoopInv
    <3>3. job[j].st \in Active \union {"waiting", "suppressed", "batched", "done", "cancelled"}
      BY <3>1 DEF JobType
    <3> QED BY <3>1, <3>2, <3>3
  <2>6. ASSUME NEW j \in Positions, j > m PROVE job'[j].st \in {"waiting", "suppressed"}
    BY <1>2, <1>3, <2>3, <2>6
  <2>7. \A i \in Positions : job'[i].st = "start" => i = m
    BY <2>1, <2>2 DEF Busy, Active
  <2> QED BY <1>3, <1>4, <2>1, <2>2, <2>3, <2>4, <2>5, <2>6, <2>7, LoopMoves
<1>8. CASE Flush
  <2>1. /\ pc = "dispatch" /\ ~Busy /\ next' = m
        /\ UNCHANGED <<engine, calls, pending, completed, kv, asked>>
        /\ job' = [i \in Positions |-> IF i \in Batched THEN [job[i] EXCEPT !.st = "start"] ELSE job[i]]
    BY <1>3, <1>8 DEF Flush, batch
  <2>2. DOMAIN job' = Positions
    BY <2>1
  <2>3. \A i \in Positions : job[i].st = "batched" =>
           job'[i] \in JobType /\ job'[i].st = "start" /\ job'[i].why = job[i].why
    BY <1>2, <2>1, StartTyped DEF Batched, At
  <2>4. \A i \in Positions : job[i].st # "batched" => job'[i] = job[i]
    BY <2>1 DEF Batched, At
  <2>5. \A i \in Positions : /\ job'[i] \in JobType /\ job'[i].why = job[i].why
                             /\ job'[i].st \in {job[i].st, "batched", "start"}
                             /\ job'[i].st = "batched" => ~Serial(calls[i])
    BY <1>2, <2>3, <2>4
  <2>6. \A i \in Positions : /\ i >= m => job'[i].st \in {"waiting", "suppressed"}
                             /\ i < m => job'[i].st # "waiting"
    BY <1>2, <1>3, <2>3, <2>4
  <2>7. \A i \in Positions : job'[i].st = "start" => ~Serial(calls[i])
    BY <1>2, <2>1, <2>3, <2>4 DEF Busy, Active
  <2>8. m \in 1 .. (MaxCalls + 1)
    BY <1>1, <1>3 DEF TypeOK
  <2> QED BY <2>1, <2>2, <2>5, <2>6, <2>7, <2>8, LoopMoves
<1> QED BY <1>6, <1>7, <1>8

\* Cancelling the dispatch task strikes every call: what was under way
\* retracts or is over, what had not begun never does.
LEMMA StrikeKeepsInv ==
    ASSUME Inv, pc \in {"dispatch", "expiring"}, pc' \in {"cancelling", "expiring"}, StrikeAll
    PROVE  Inv'
<1> DEFINE x(i) == [Struck(i, "cancel") EXCEPT !.res = Fail]
<1>1. TypeOK /\ DOMAIN job = Positions
  BY DEF Inv, Positions
<1>2. /\ job' = [i \in Positions |-> x(i)]
      /\ pending' = [k \in Keys |-> IF pending[k] # None /\ job'[pending[k]].st = "cancelled"
                                    THEN None ELSE pending[k]]
      /\ UNCHANGED <<iters, runs, failed, told, calls, next, completed>>
  BY DEF StrikeAll, batch
<1>3. ASSUME NEW i \in Positions
      PROVE  /\ x(i) \in JobType /\ x(i).on = Struck(i, "cancel").on
             /\ job[i].st \in Active => x(i).st \in {"retract", "cancelled"}
             /\ job[i].st \notin Active => x(i).st = job[i].st
             /\ x(i).st = "retract" => job[i].st \in {"send", "wait"}
  <2>1. Struck(i, "cancel") \in JobType
    BY <1>1, StruckFacts
  <2>2. x(i) \in JobType /\ x(i).st = Struck(i, "cancel").st /\ x(i).on = Struck(i, "cancel").on
    BY <2>1, CallFacts DEF JobType
  <2> HIDE DEF x
  <2> QED BY <1>1, <2>2, StruckFacts
<1> HIDE DEF x
<1>4. Positions' = Positions /\ \A i \in Positions : job'[i] = x(i)
  BY <1>2 DEF Positions
<1>5. pending \in [Keys -> 1..MaxCalls \union {None}]
  BY <1>1 DEF TypeOK
<1>6. pending' \in [Keys -> 1..MaxCalls \union {None}]
      /\ \A k \in Keys : pending'[k] # None => /\ pending'[k] = pending[k]
                                               /\ job'[pending[k]].st # "cancelled"
  BY <1>2, <1>5
<1>7. kv' \in [Arguments -> Outcomes \union {None}] /\ asked' \subseteq Calls
  <2>1. kv \in [Arguments -> Outcomes \union {None}] /\ asked \subseteq Calls
    BY <1>1 DEF TypeOK
  <2>2. \A i \in Positions : calls[i] \in Calls /\ calls[i].args \in Arguments /\ job[i].res \in Outcomes
    BY <1>1, BatchFacts, CallFacts DEF JobType
  <2>3. kv' \in [Arguments -> Outcomes \union {None}]
    BY <2>1, <2>2 DEF StrikeAll
  <2>4. PICK T \in SUBSET {calls[i] : i \in {i \in Positions : At(i, "send")}} : asked' = asked \union T
    BY DEF StrikeAll, MaybeSent
  <2> QED BY <2>1, <2>2, <2>3, <2>4
<1>8. TypeOK'
  BY <1>1, <1>2, <1>3, <1>4, <1>6, <1>7 DEF TypeOK, Positions
<1>9. PendingInv'
  <2> SUFFICES ASSUME NEW k \in Keys, pending'[k] # None
               PROVE  /\ pending'[k] \in Positions' /\ Key(calls'[pending'[k]]) = k
                      /\ job'[pending'[k]].st \in Owning
    BY DEF PendingInv, Key, Schema, Keys
  <2>1. PICK i : i = pending[k]
    OBVIOUS
  <2>2. pending'[k] = i /\ i \in Positions /\ Key(calls[i]) = k /\ job[i].st \in Owning
        /\ job'[i].st # "cancelled"
    BY <1>6, <2>1 DEF Inv, PendingInv
  <2>3. job[i].st \in Active
    BY <2>2 DEF Owning, Active
  <2> QED BY <1>2, <1>3, <1>4, <2>2, <2>3 DEF Owning
<1>10. \A i \in Positions : job'[i].st \notin Reaching
       /\ (job'[i].st \in {"waiting", "suppressed", "batched", "done"} <=>
             job[i].st \in {"waiting", "suppressed", "batched", "done"})
       /\ (job'[i].st \in {"waiting", "suppressed", "batched", "done"} => job'[i].st = job[i].st)
  <2> SUFFICES ASSUME NEW i \in Positions
               PROVE  /\ x(i).st \notin Reaching
                      /\ (x(i).st \in {"waiting", "suppressed", "batched", "done"} <=>
                            job[i].st \in {"waiting", "suppressed", "batched", "done"})
                      /\ (x(i).st \in {"waiting", "suppressed", "batched", "done"} => x(i).st = job[i].st)
    BY <1>4
  <2>1. CASE job[i].st \in Active
    BY <1>3, <2>1 DEF Active, Reaching
  <2>2. CASE job[i].st \notin Active
    BY <1>3, <2>2 DEF Active, Reaching
  <2> QED BY <2>1, <2>2
<1>11. LoopInv'
  <2>1. \A i \in Positions : /\ i >= next => job'[i].st \in {"waiting", "suppressed"}
                             /\ i < next => job'[i].st # "waiting"
                             /\ job'[i].st = "batched" => ~Serial(calls[i])
                             /\ job'[i].st # "join"
    BY <1>10 DEF Inv, LoopInv, Reaching
  <2> QED BY <1>2, <1>4, <2>1 DEF LoopInv, Serial, Schema
<1>12. AloneInv'
  <2> SUFFICES ASSUME NEW i \in Positions, Serial(calls[i]), job'[i].st \in Active, NEW j \in Positions
               PROVE  /\ j < i => job'[j].st \in {"done", "suppressed"}
                      /\ j > i => job'[j].st \in {"waiting", "suppressed"}
    BY <1>2, <1>4 DEF AloneInv, Serial, Schema
  <2>1. job[i].st \in Active
    BY <1>3, <1>4
  <2>2. /\ j < i => job[j].st \in {"done", "suppressed"}
        /\ j > i => job[j].st \in {"waiting", "suppressed"}
    BY <2>1 DEF Inv, AloneInv
  <2> QED BY <1>3, <1>4, <2>2 DEF Active
<1>13. CancelInv'
  BY <1>4, <1>10 DEF CancelInv
<1> QED BY <1>8, <1>9, <1>11, <1>12, <1>13 DEF Inv

LEMMA StutterInv == ASSUME Inv, UNCHANGED vars PROVE Inv'
<1>1. TypeOK'
  BY DEF Inv, vars, TypeOK, Positions
<1>2. PendingInv' /\ LoopInv' /\ AloneInv' /\ CancelInv'
  BY DEF Inv, vars, PendingInv, LoopInv, AloneInv, CancelInv, Positions, Keys, Key, Serial, Schema
<1> QED BY <1>1, <1>2 DEF Inv

LEMMA NextInv == ASSUME Inv, [Next]_vars PROVE Inv'
<1>1. CASE \E b \in Batches : RequestTools(b)
  BY <1>1, RequestKeepsInv
<1>2. CASE EndTurn \/ RunAgain \/ Wind
  BY <1>2, TurnKeepsInv
<1>3. CASE CancelTurn \/ BatchTimesOut
  BY <1>3, StrikeKeepsInv DEF CancelTurn, BatchTimesOut
<1>4. CASE Collect \/ Flush \/ RunAlone
  BY <1>4, LoopKeepsInv
<1>5. CASE Return \/ Expire
  BY <1>5, ReturnKeepsInv
<1>6. ASSUME NEW i \in Positions, CallStep(i) \/ ExchangeTimesOut(i) PROVE Inv'
  <2>1. PICK x : Moved(i, x)
    BY <1>6, DispatchMoves, DeviceMoves DEF CallStep
  <2> QED BY <2>1, MovedKeepsInv
<1>7. CASE \E q \in asked, ok \in BOOLEAN : Accept(q, ok)
  BY <1>7, AnswerKeepsInv
<1> QED BY <1>1, <1>2, <1>3, <1>4, <1>5, <1>6, <1>7, StutterInv DEF Next, Loop

LEMMA ExchangeInv == Spec => []Inv
<1>1. Init => Inv
  BY InitInv
<1>2. Inv /\ [Next]_vars => Inv'
  BY NextInv
<1> QED BY <1>1, <1>2, PTL DEF Spec

\* The loop, the jobs, the tables of both exchanges and the bucket keep their
\* types; in particular a call that shares a future shares one of this batch.
THEOREM ExchangeWellTyped == Spec => []TypeOK
<1>1. Inv => TypeOK
  BY DEF Inv
<1> QED BY <1>1, ExchangeInv, PTL

\* _dispatch_batch_inner runs a side effect by itself: whatever times out, is
\* retracted or is cancelled, every earlier call of the batch is over and no
\* later one has begun.
THEOREM SideEffectsRunAlone == Spec => []SideEffectsAlone
<1>1. Inv => SideEffectsAlone
  BY DEF Inv, AloneInv, SideEffectsAlone, Serial
<1> QED BY <1>1, ExchangeInv, PTL

\* Once the turn is cancelled, by the client or because a shared future was
\* cancelled with its owner, no side effect goes on towards the device.
THEOREM CancelStopsActions == Spec => []NoActionAfterCancel
<1>1. Inv => NoActionAfterCancel
  <2> SUFFICES ASSUME Inv, pc \in {"cancelling", "ended"}, NEW i \in Positions,
                      Schema(calls[i]).effect
               PROVE  job[i].st \notin {"start", "get", "send", "wait", "put"}
    BY DEF NoActionAfterCancel
  <2>1. CASE pc = "ended"
    <3>1. Positions = {}
      BY <2>1, BatchFacts DEF Inv, LoopInv
    <3> QED BY <3>1
  <2>2. CASE pc = "cancelling"
    BY <2>2 DEF Inv, CancelInv, Serial, Reaching
  <2> QED BY <2>1, <2>2
<1> QED BY <1>1, ExchangeInv, PTL

(***************************************************************************)
(* What the outcomes are about.                                            *)
(***************************************************************************)
Keyed(c) == Schema(c).keyed

\* q is an answer to c; the device was asked for d's tool and arguments under
\* the id of q; q may stand as the outcome of c.  S is what the device received.
Answers(q, c, S) == q \in S /\ q.name = c.name /\ q.id = c.id
AskedAs(q, n, a, S) == \E d \in S : d.name = n /\ d.args = a /\ d.id = q.id
Backed(q, c, S) ==
    q \in S /\ q.name = c.name /\ (q.id = c.id \/ AskedAs(q, c.name, c.args, S))

\* A call at job j: K is the bucket, R what the model was told.
JobTrue(j, c, S, K, R) ==
    /\ j.fut \notin {None, Lost} => Answers(j.fut.from, c, S)
    /\ j.res.ok => j.st \in {"put", "done"} /\ Backed(j.res.from, c, S)
    /\ j.st = "done" /\ j.res.ok /\ Keyed(c) => K[c.args] # None
    /\ j.st = "put" => Keyed(c) /\ j.res.ok /\ AskedAs(j.res.from, c.name, c.args, S)
    /\ j.st = "wait" => c \in S
    /\ j.st = "send" /\ Keyed(c) => \A t \in R : ~Same(t[1], c)
    /\ j.st \in {"get", "send", "wait", "join", "retract", "put"} =>
          c.args \in Schema(c).args
    /\ j.st = "join" => ~Keyed(c)
    /\ j.st = "get" => Keyed(c)

\* A call that shares a future shares that of the same request.
Shares(j) == \A i \in DOMAIN j : j[i].st = "join" =>
                Same(calls[j[i].on], calls[i]) /\ calls[j[i].on].id = calls[i].id

\* The answers kept by the exchanges, and those kept in the bucket.
TablesTrue(C, S) ==
    \A k \in Keys : C[k] # None =>
        /\ Key(C[k].req) = k
        /\ C[k].res.ok => C[k].req \in S /\ Answers(C[k].res.from, C[k].req, S)
KvTrue(K, S) ==
    \A a \in Arguments : K[a] # None /\ K[a].ok =>
        \E n \in DOMAIN Tools :
            /\ Tools[n].keyed /\ a \in Tools[n].args
            /\ K[a].from \in S /\ K[a].from.name = n /\ AskedAs(K[a].from, n, a, S)
\* What the model was told.
ToldTrue(R, S, K) ==
    \A t \in R : Backed(t[2], t[1], S) /\ (Keyed(t[1]) => K[t[1].args] # None)

TruthInv ==
    /\ \A i \in Positions : JobTrue(job[i], calls[i], asked, kv, told)
    /\ Shares(job)
    /\ TablesTrue(completed, asked) /\ KvTrue(kv, asked) /\ ToldTrue(told, asked, kv)

\* Requests are only added, and the bucket forgets nothing.
Grows(K, L) == \A a \in Arguments : K[a] # None => L[a] # None
LEMMA BackedGrows ==
    ASSUME NEW q, NEW c, NEW S, NEW T, S \subseteq T
    PROVE  /\ Answers(q, c, S) => Answers(q, c, T)
           /\ AskedAs(q, c.name, c.args, S) => AskedAs(q, c.name, c.args, T)
           /\ Backed(q, c, S) => Backed(q, c, T)
BY DEF Answers, AskedAs, Backed

LEMMA JobGrows ==
    ASSUME NEW j, NEW c \in Calls, NEW S, NEW T, NEW K, NEW L, NEW R,
           S \subseteq T, Grows(K, L), JobTrue(j, c, S, K, R)
    PROVE  JobTrue(j, c, T, L, R)
<1>1. /\ Answers(j.fut.from, c, S) => Answers(j.fut.from, c, T)
      /\ Backed(j.res.from, c, S) => Backed(j.res.from, c, T)
      /\ AskedAs(j.res.from, c.name, c.args, S) => AskedAs(j.res.from, c.name, c.args, T)
      /\ c \in S => c \in T
  BY BackedGrows
<1>2. K[c.args] # None => L[c.args] # None
  BY CallFacts DEF Grows
<1> QED BY <1>1, <1>2 DEF JobTrue

LEMMA TablesGrow ==
    ASSUME NEW C, NEW S, NEW T, S \subseteq T, TablesTrue(C, S) PROVE TablesTrue(C, T)
BY DEF TablesTrue, Answers

LEMMA KvGrows ==
    ASSUME NEW K, NEW S, NEW T, S \subseteq T, KvTrue(K, S) PROVE KvTrue(K, T)
BY DEF KvTrue, AskedAs

LEMMA ToldGrows ==
    ASSUME NEW R, R \subseteq Calls \X (Calls \union {None}), NEW S, NEW T, NEW K, NEW L,
           S \subseteq T, Grows(K, L), ToldTrue(R, S, K)
    PROVE  ToldTrue(R, T, L)
<1> SUFFICES ASSUME NEW t \in R
             PROVE  Backed(t[2], t[1], T) /\ (Keyed(t[1]) => L[t[1].args] # None)
  BY DEF ToldTrue
<1>1. Backed(t[2], t[1], S) /\ (Keyed(t[1]) => K[t[1].args] # None)
  BY DEF ToldTrue
<1>2. t[1] \in Calls /\ t[1].args \in Arguments
  BY CallFacts
<1>3. Backed(t[2], t[1], T)
  BY <1>1, BackedGrows
<1> QED BY <1>1, <1>2, <1>3 DEF Grows

(***************************************************************************)
(* A step of one call.                                                     *)
(***************************************************************************)
\* x is what becomes of the call at position i, the device and the bucket
\* having received what they may have.
LEMMA StepTrue ==
    ASSUME Inv, TruthInv, NEW i \in Positions, NEW x, job' = [job EXCEPT ![i] = x],
           UNCHANGED <<calls, told>>, asked \subseteq asked', Grows(kv, kv'),
           JobTrue(x, calls[i], asked', kv', told),
           x.st = "join" => \/ job[i].st = "join" /\ x.on = job[i].on
                            \/ Same(calls[x.on], calls[i]) /\ calls[x.on].id = calls[i].id,
           TablesTrue(completed', asked'), KvTrue(kv', asked')
    PROVE  TruthInv'
<1>1. DOMAIN job = Positions /\ DOMAIN job' = Positions /\ Positions' = Positions
      /\ job'[i] = x /\ \A j \in Positions : j # i => job'[j] = job[j]
  BY DEF Positions
<1>2. \A j \in Positions : calls[j] \in Calls
  BY BatchFacts DEF Inv
<1>3. told \subseteq Calls \X (Calls \union {None})
  BY DEF Inv, TypeOK
<1>4. \A j \in Positions : JobTrue(job'[j], calls[j], asked', kv', told)
  <2> TAKE j \in Positions
  <2>1. CASE j = i
    BY <1>1, <2>1
  <2>2. CASE j # i
    <3>1. JobTrue(job[j], calls[j], asked, kv, told)
      BY DEF TruthInv
    <3>2. PICK S, T, K, L : S = asked /\ T = asked' /\ K = kv /\ L = kv'
      OBVIOUS
    <3>3. PICK u, c : u = job[j] /\ c = calls[j]
      OBVIOUS
    <3>4. c \in Calls /\ S \subseteq T /\ Grows(K, L) /\ JobTrue(u, c, S, K, told)
      BY <1>2, <3>1, <3>2, <3>3
    <3>5. JobTrue(u, c, T, L, told)
      BY <3>4, JobGrows
    <3> QED BY <1>1, <2>2, <3>2, <3>3, <3>5
  <2> QED BY <2>1, <2>2
<1>5. Shares(job)'
  <2> SUFFICES ASSUME NEW j \in Positions, job'[j].st = "join"
               PROVE  Same(calls[job'[j].on], calls[j]) /\ calls[job'[j].on].id = calls[j].id
    BY <1>1 DEF Shares, Same
  <2>1. \A l \in Positions : job[l].st = "join" =>
                Same(calls[job[l].on], calls[l]) /\ calls[job[l].on].id = calls[l].id
    BY <1>1 DEF TruthInv, Shares
  <2>2. CASE j # i
    BY <1>1, <2>1, <2>2
  <2>3. CASE j = i
    <3>1. x.st = "join" /\ job'[j].on = x.on
      BY <1>1, <2>3
    <3> QED BY <2>1, <2>3, <3>1
  <2> QED BY <2>2, <2>3
<1>6. ToldTrue(told, asked', kv')
  <2>1. PICK S, T, K, L : S = asked /\ T = asked' /\ K = kv /\ L = kv'
    OBVIOUS
  <2>2. S \subseteq T /\ Grows(K, L) /\ ToldTrue(told, S, K)
    BY <2>1 DEF TruthInv
  <2>3. ToldTrue(told, T, L)
    BY <1>3, <2>2, ToldGrows
  <2> QED BY <2>1, <2>3
<1>7. ToldTrue(told, asked, kv)' /\ TablesTrue(completed, asked)' /\ KvTrue(kv, asked)'
      /\ \A j \in Positions' : JobTrue(job[j], calls[j], asked, kv, told)'
  <2>1. told' = told /\ calls' = calls
    OBVIOUS
  <2>2. ToldTrue(told', asked', kv')
    BY <1>6, <2>1
  <2>3. \A j \in Positions' : JobTrue(job'[j], calls'[j], asked', kv', told')
    BY <1>1, <1>4, <2>1
  <2>4. TablesTrue(completed', asked') /\ KvTrue(kv', asked')
    OBVIOUS
  <2>5. ToldTrue(told, asked, kv)'
    BY <2>2 DEF ToldTrue, Backed, AskedAs, Keyed, Schema
  <2>6. TablesTrue(completed, asked)' /\ KvTrue(kv, asked)'
    BY <2>4 DEF TablesTrue, KvTrue, Answers, AskedAs, Keys, Key, Schema
  <2>7. \A j \in Positions' : JobTrue(job[j], calls[j], asked, kv, told)'
    BY <2>3 DEF JobTrue, Answers, Backed, AskedAs, Keyed, Schema, Same
  <2> QED BY <2>5, <2>6, <2>7
<1> QED BY <1>5, <1>7 DEF TruthInv

\* The fields of a call that is over, or whose outcome is being stored.
LEMMA OutcomeFields ==
    ASSUME TypeOK, NEW i \in Positions, NEW r \in Outcomes, Done(i, r) \/ Settle(i, r)
    PROVE  \E x : /\ job' = [job EXCEPT ![i] = x] /\ x.fut = job[i].fut /\ x.res = r
                  /\ x.st \in {"done", "put"}
                  /\ Done(i, r) => x.st = "done"
                  /\ Settle(i, r) => (x.st = "put" <=> Keyed(calls[i]) /\ r.ok)
<1>1. job[i] \in JobType /\ DOMAIN job = Positions
  BY BatchFacts DEF Positions
<1>2. CASE Done(i, r)
  <2> DEFINE x == [job[i] EXCEPT !.st = "done", !.res = r]
  <2>1. x.fut = job[i].fut /\ x.res = r /\ x.st = "done"
    BY <1>1 DEF JobType
  <2>2. job' = [job EXCEPT ![i] = x]
    BY <1>1, <1>2 DEF Done
  <2>3. ASSUME Settle(i, r) PROVE ~(Keyed(calls[i]) /\ r.ok)
    <3>1. job'[i].st = IF Keyed(calls[i]) /\ r.ok THEN "put" ELSE "done"
      BY <1>1, <2>3 DEF Settle, Keyed, JobType
    <3>2. job'[i].st = "done"
      BY <1>1, <1>2 DEF Done, JobType
    <3> QED BY <3>1, <3>2
  <2> HIDE DEF x
  <2> QED BY <2>1, <2>2, <2>3
<1>3. CASE Settle(i, r) /\ ~Done(i, r)
  <2> DEFINE st == IF Keyed(calls[i]) /\ r.ok THEN "put" ELSE "done"
             x == [job[i] EXCEPT !.res = r, !.st = st]
  <2>1. st \in {"done", "put"} /\ (st = "put" <=> Keyed(calls[i]) /\ r.ok)
    OBVIOUS
  <2>2. job' = [job EXCEPT ![i].res = r, ![i].st = st]
    BY <1>3 DEF Settle, Keyed
  <2> HIDE DEF st
  <2>3. x.fut = job[i].fut /\ x.res = r /\ x.st = st
    BY <1>1 DEF JobType
  <2>4. job' = [job EXCEPT ![i] = x]
    BY <1>1, <2>2
  <2> HIDE DEF x
  <2> QED BY <1>3, <2>1, <2>3, <2>4
<1> QED BY <1>2, <1>3

\* The fields of a call that only changes its state.
TurnsTo(i, x, st) ==
    /\ job' = [job EXCEPT ![i] = x] /\ x.st = st
    /\ x.fut = job[i].fut /\ x.res = job[i].res
LEMMA StateFields ==
    ASSUME TypeOK, NEW i \in Positions, NEW st, job' = [job EXCEPT ![i].st = st]
    PROVE  \E x : TurnsTo(i, x, st)
<1> DEFINE x == [job[i] EXCEPT !.st = st]
<1>1. job[i] \in JobType /\ DOMAIN job = Positions
  BY BatchFacts DEF Positions
<1>2. x.st = st /\ x.fut = job[i].fut /\ x.res = job[i].res
  BY <1>1 DEF JobType
<1>3. job' = [job EXCEPT ![i] = x]
  BY <1>1
<1> HIDE DEF x
<1> QED BY <1>2, <1>3 DEF TurnsTo

\* A call that has failed, or was cancelled, has nothing to show.
LEMMA FailedTrue ==
    ASSUME NEW j, NEW x, NEW c, NEW S, NEW K, NEW R, JobTrue(j, c, S, K, R),
           x.fut = j.fut, ~x.res.ok, x.st \in {"done", "cancelled"}
    PROVE  JobTrue(x, c, S, K, R)
BY DEF JobTrue

\* The outcome r is one for c, and stands in the bucket once it is final.
Settled(x, r, c, S, K) ==
    /\ x.res = r
    /\ x.st \in {"done", "put"} /\ (x.st = "put" => Keyed(c) /\ r.ok)
    /\ r.ok => Backed(r.from, c, S)
    /\ x.st = "put" => AskedAs(r.from, c.name, c.args, S) /\ c.args \in Schema(c).args
    /\ x.st = "done" /\ r.ok /\ Keyed(c) => K[c.args] # None

LEMMA SettledTrue ==
    ASSUME NEW j, NEW x, NEW c, NEW r, NEW S, NEW K, NEW R, JobTrue(j, c, S, K, R),
           x.fut = j.fut, Settled(x, r, c, S, K)
    PROVE  JobTrue(x, c, S, K, R)
BY DEF JobTrue, Settled

\* A call that fails in place, whatever else its exchange remembers.
LEMMA FailingTrue ==
    ASSUME Inv, TruthInv, NEW i \in Positions, NEW x, job' = [job EXCEPT ![i] = x],
           x.fut = job[i].fut, ~x.res.ok, x.st \in {"done", "cancelled"},
           UNCHANGED <<calls, told, kv, asked>>, TablesTrue(completed', asked)
    PROVE  TruthInv'
<1>1. JobTrue(x, calls[i], asked, kv, told)
  <2>1. JobTrue(job[i], calls[i], asked, kv, told)
    BY DEF TruthInv
  <2> QED BY <2>1, FailedTrue
<1>2. JobTrue(x, calls[i], asked', kv', told) /\ Grows(kv, kv') /\ asked \subseteq asked'
      /\ TablesTrue(completed', asked')
  <2>1. kv' = kv /\ asked' = asked
    OBVIOUS
  <2> QED BY <1>1, <2>1 DEF Grows
<1>3. KvTrue(kv', asked')
  <2>1. KvTrue(kv, asked) /\ kv' = kv /\ asked' = asked
    BY DEF TruthInv
  <2> QED BY <2>1
<1> QED BY <1>2, <1>3, StepTrue

\* A call whose outcome is r.
LEMMA SettlingTrue ==
    ASSUME Inv, TruthInv, NEW i \in Positions, NEW x, NEW r, job' = [job EXCEPT ![i] = x],
           x.fut = job[i].fut, Settled(x, r, calls[i], asked, kv),
           UNCHANGED <<calls, told, kv, asked>>, TablesTrue(completed', asked)
    PROVE  TruthInv'
<1>1. JobTrue(x, calls[i], asked, kv, told)
  <2>1. JobTrue(job[i], calls[i], asked, kv, told)
    BY DEF TruthInv
  <2> QED BY <2>1, SettledTrue
<1>2. JobTrue(x, calls[i], asked', kv', told) /\ Grows(kv, kv') /\ asked \subseteq asked'
      /\ TablesTrue(completed', asked') /\ x.st # "join"
  <2>1. kv' = kv /\ asked' = asked
    OBVIOUS
  <2> QED BY <1>1, <2>1 DEF Grows, Settled
<1>3. KvTrue(kv', asked')
  <2>1. KvTrue(kv, asked) /\ kv' = kv /\ asked' = asked
    BY DEF TruthInv
  <2> QED BY <2>1
<1> QED BY <1>2, <1>3, StepTrue

(***************************************************************************)
(* execute() up to its first await.                                        *)
(***************************************************************************)
\* A keyed call runs by itself, so that nobody has a future it could share.
LEMMA KeyedIsAlone ==
    ASSUME Inv, NEW i \in Positions, Keyed(calls[i]), job[i].st \in {"start", "get"}
    PROVE  \A k \in Keys : pending[k] = None
<1> SUFFICES ASSUME NEW k \in Keys, pending[k] # None PROVE FALSE
  OBVIOUS
<1>1. PICK own : own = pending[k]
  OBVIOUS
<1>2. own \in Positions /\ job[own].st \in Owning
  BY <1>1 DEF Inv, PendingInv
<1>3. own \in Nat /\ i \in Nat /\ calls[i] \in Calls
  BY <1>2, BatchFacts DEF Inv
<1>4. Serial(calls[i])
  BY <1>3, CallFacts, KeyedAssumption DEF Serial, Keyed, Schema
<1>5. job[i].st \in Active
  BY DEF Active
<1>6. /\ own < i => job[own].st \in {"done", "suppressed"}
      /\ own > i => job[own].st \in {"waiting", "suppressed"}
  BY <1>2, <1>4, <1>5 DEF Inv, AloneInv
<1>7. own < i \/ own > i \/ own = i
  BY <1>3
<1> QED BY <1>2, <1>6, <1>7 DEF Owning

\* The answer kept for this id answers this request.
LEMMA ReplayIsTrue ==
    ASSUME Inv, TruthInv, NEW i \in Positions, completed[Key(calls[i])] # None,
           Schema(calls[i]).via = "motion" \/ Same(completed[Key(calls[i])].req, calls[i]),
           completed[Key(calls[i])].res.ok
    PROVE  LET q == completed[Key(calls[i])].res.from
           IN  /\ Answers(q, calls[i], asked)
               /\ Keyed(calls[i]) => AskedAs(q, calls[i].name, calls[i].args, asked)
<1>1. calls[i] \in Calls /\ Key(calls[i]) \in Keys
  BY BatchFacts DEF Inv
<1>2. PICK c, hit : c = calls[i] /\ hit = completed[Key(calls[i])]
  OBVIOUS
<1>3. hit # None /\ hit.res.ok /\ (Schema(c).via = "motion" \/ Same(hit.req, c)) /\ c \in Calls
  BY <1>1, <1>2
<1>4. hit.req \in Calls
  BY <1>1, <1>2, <1>3 DEF Inv, TypeOK
<1>5. Key(hit.req) = Key(c) /\ hit.req \in asked /\ Answers(hit.res.from, hit.req, asked)
  BY <1>1, <1>2, <1>3 DEF TruthInv, TablesTrue
<1>6. Schema(hit.req).via = Schema(c).via /\ hit.req.id = c.id
  BY <1>5 DEF Key
<1>7. hit.req.name = c.name
  <2>1. CASE Same(hit.req, c)
    BY <2>1 DEF Same
  <2>2. CASE Schema(c).via = "motion"
    BY <1>3, <1>4, <1>6, <2>2, CallFacts, KeyedAssumption DEF Schema
  <2> QED BY <1>3, <2>1, <2>2
<1>8. Answers(hit.res.from, c, asked)
  BY <1>5, <1>6, <1>7 DEF Answers
<1>9. Keyed(c) => AskedAs(hit.res.from, c.name, c.args, asked)
  <2> SUFFICES ASSUME Keyed(c) PROVE AskedAs(hit.res.from, c.name, c.args, asked)
    OBVIOUS
  <2>1. Schema(c).via = "channel"
    BY <1>3, CallFacts, KeyedAssumption DEF Keyed, Schema
  <2>2. Same(hit.req, c)
    BY <1>3, <2>1
  <2> QED BY <1>5, <1>6, <2>2 DEF AskedAs, Answers, Same
<1> QED BY <1>2, <1>8, <1>9

LEMMA ExecuteTrue ==
    ASSUME Inv, TruthInv, NEW i \in Positions, job[i].st \in {"start", "get"}, Execute(i),
           calls[i].args \in Schema(calls[i]).args,
           Keyed(calls[i]) => kv[calls[i].args] = None,
           UNCHANGED <<calls, told, completed, kv, asked>>
    PROVE  TruthInv'
<1>1. TypeOK /\ calls[i] \in Calls /\ Key(calls[i]) \in Keys /\ DOMAIN job = Positions
      /\ job[i] \in JobType /\ Fail \in Outcomes /\ ~Fail.ok
  BY BatchFacts, CallFacts DEF Inv, Positions, Fail
<1>2. TablesTrue(completed', asked)
  BY DEF TruthInv
<1>3. JobTrue(job[i], calls[i], asked, kv, told)
  BY DEF TruthInv
<1>4. ~job[i].res.ok
  BY <1>3 DEF JobTrue
<1>5. ASSUME Settle(i, Fail) PROVE TruthInv'
  <2>1. PICK x : /\ job' = [job EXCEPT ![i] = x] /\ x.fut = job[i].fut /\ x.res = Fail
                 /\ x.st \in {"done", "put"} /\ (x.st = "put" <=> Keyed(calls[i]) /\ Fail.ok)
    BY <1>1, <1>5, OutcomeFields
  <2> QED BY <1>1, <1>2, <2>1, FailingTrue
<1>6. ASSUME NEW st \in {"join", "send"}, NEW x, job' = [job EXCEPT ![i] = x], x.st = st,
             x.fut = job[i].fut, x.res = job[i].res, st = "join" => ~Keyed(calls[i]),
             st = "join" => /\ Same(calls[x.on], calls[i]) /\ calls[x.on].id = calls[i].id
      PROVE  TruthInv'
  <2>1. ASSUME st = "send", Keyed(calls[i]), NEW t \in told PROVE ~Same(t[1], calls[i])
    <3>1. Keyed(t[1]) => kv[t[1].args] # None
      BY DEF TruthInv, ToldTrue
    <3> QED BY <2>1, <3>1 DEF Same, Keyed, Schema
  <2>2. JobTrue(x, calls[i], asked, kv, told)
    BY <1>3, <1>4, <1>6, <2>1 DEF JobTrue
  <2>3. kv' = kv /\ asked' = asked /\ KvTrue(kv, asked)
    BY DEF TruthInv
  <2>4. JobTrue(x, calls[i], asked', kv', told) /\ Grows(kv, kv') /\ asked \subseteq asked'
        /\ TablesTrue(completed', asked') /\ KvTrue(kv', asked')
    BY <1>2, <2>2, <2>3 DEF Grows
  <2> QED BY <1>6, <2>4, StepTrue
<1>7. CASE Replayed(i)
  <2>1. PICK c, hit, r : /\ c = calls[i] /\ hit = completed[Key(calls[i])]
                         /\ r = IF Schema(c).via = "motion" \/ Same(hit.req, c)
                                THEN hit.res ELSE Fail
    OBVIOUS
  <2>2. hit # None /\ Settle(i, r)
    BY <1>7, <2>1 DEF Replayed
  <2>3. r \in Outcomes
    <3>1. hit.res \in Outcomes
      BY <1>1, <2>1, <2>2 DEF TypeOK
    <3> QED BY <1>1, <2>1, <3>1
  <2>4. CASE ~r.ok
    <3>1. PICK x : /\ job' = [job EXCEPT ![i] = x] /\ x.fut = job[i].fut /\ x.res = r
                   /\ x.st \in {"done", "put"} /\ (x.st = "put" <=> Keyed(calls[i]) /\ r.ok)
      BY <1>1, <2>2, <2>3, OutcomeFields
    <3> QED BY <1>2, <2>4, <3>1, FailingTrue
  <2>5. CASE r.ok
    <3>1. (Schema(c).via = "motion" \/ Same(hit.req, c)) /\ r = hit.res
      BY <1>1, <2>1, <2>5
    <3>2. Answers(r.from, c, asked) /\ (Keyed(c) => AskedAs(r.from, c.name, c.args, asked))
      BY <2>1, <2>2, <2>5, <3>1, ReplayIsTrue
    <3>3. PICK x : /\ job' = [job EXCEPT ![i] = x] /\ x.fut = job[i].fut /\ x.res = r
                   /\ x.st \in {"done", "put"} /\ (x.st = "put" <=> Keyed(c) /\ r.ok)
      BY <1>1, <2>1, <2>2, <2>3, OutcomeFields
    <3>4. Settled(x, r, calls[i], asked, kv)
      BY <2>1, <2>5, <3>2, <3>3 DEF Settled, Backed, Answers
    <3> QED BY <1>2, <3>3, <3>4, SettlingTrue
  <2> QED BY <2>4, <2>5
<1>8. CASE Joined(i)
  <2>1. PICK own : own = pending[Key(calls[i])]
    OBVIOUS
  <2>2. own # None /\ ~Keyed(calls[i])
    BY <1>1, <1>8, <2>1, KeyedIsAlone DEF Joined
  <2>3. CASE job' = [job EXCEPT ![i].st = "join", ![i].on = own] /\ Same(calls[own], calls[i])
    <3> DEFINE x == [job[i] EXCEPT !.st = "join", !.on = own]
    <3>1. x.st = "join" /\ x.fut = job[i].fut /\ x.res = job[i].res /\ x.on = own
      BY <1>1 DEF JobType
    <3>2. job' = [job EXCEPT ![i] = x]
      BY <1>1, <2>3
    <3>3. Key(calls[own]) = Key(calls[i])
      BY <1>1, <2>1, <2>2 DEF Inv, PendingInv
    <3>4. calls[own].id = calls[i].id
      BY <3>3 DEF Key
    <3> HIDE DEF x
    <3>5. PICK st \in {"join", "send"} : st = "join"
      OBVIOUS
    <3> QED BY <1>6, <2>2, <2>3, <3>1, <3>2, <3>4, <3>5
  <2> QED BY <1>5, <1>8, <2>1, <2>3 DEF Joined
<1>9. CASE Opened(i)
  <2>1. job' = [job EXCEPT ![i].st = "send"]
    BY <1>9 DEF Opened
  <2>2. PICK st \in {"join", "send"} : st = "send"
    OBVIOUS
  <2>3. job' = [job EXCEPT ![i].st = st]
    BY <2>1, <2>2
  <2>4. PICK x : TurnsTo(i, x, st)
    BY <1>1, <2>3, StateFields
  <2> QED BY <1>6, <2>2, <2>4 DEF TurnsTo
<1> QED BY <1>7, <1>8, <1>9 DEF Execute

(***************************************************************************)
(* The steps of the dispatcher.                                            *)
(***************************************************************************)
\* What holds of a call before each of its steps.
LEMMA CallAt ==
    ASSUME Inv, TruthInv, NEW i \in Positions
    PROVE  /\ TypeOK /\ calls[i] \in Calls /\ Key(calls[i]) \in Keys
           /\ job[i] \in JobType /\ DOMAIN job = Positions
           /\ Fail \in Outcomes /\ ~Fail.ok
           /\ JobTrue(job[i], calls[i], asked, kv, told)
           /\ TablesTrue(completed, asked) /\ KvTrue(kv, asked)
           /\ calls[i].args \in Arguments /\ calls[i].name \in DOMAIN Tools
BY BatchFacts, CallFacts DEF Inv, TruthInv, Positions, Fail

\* invoke() was not reached, or raised: the exchange remembers nothing of it.
LEMMA FailsTrue ==
    ASSUME Inv, TruthInv, NEW i \in Positions, Done(i, Fail) \/ Settle(i, Fail),
           UNCHANGED <<calls, told, kv, asked>>, TablesTrue(completed', asked)
    PROVE  TruthInv'
<1>1. TypeOK /\ Fail \in Outcomes /\ ~Fail.ok
  BY CallAt
<1>2. PICK x : /\ job' = [job EXCEPT ![i] = x] /\ x.fut = job[i].fut /\ x.res = Fail
               /\ x.st \in {"done", "put"}
               /\ Done(i, Fail) => x.st = "done"
               /\ Settle(i, Fail) => (x.st = "put" <=> Keyed(calls[i]) /\ Fail.ok)
  BY <1>1, OutcomeFields
<1> QED BY <1>1, <1>2, FailingTrue

LEMMA StartTrue ==
    ASSUME StrictSchemas, Inv, TruthInv, NEW i \in Positions, Start(i)
    PROVE  TruthInv'
<1>1. /\ job[i].st = "start" /\ calls' = calls /\ told' = told /\ kv' = kv
      /\ asked' = asked /\ completed' = completed
  BY DEF Start, At, engine, batch
<1>2. /\ TypeOK /\ calls[i] \in Calls /\ JobTrue(job[i], calls[i], asked, kv, told)
      /\ TablesTrue(completed, asked) /\ KvTrue(kv, asked)
  BY CallAt
<1>3. TablesTrue(completed', asked) /\ TablesTrue(completed', asked') /\ KvTrue(kv', asked')
      /\ Grows(kv, kv') /\ asked \subseteq asked'
  BY <1>1, <1>2 DEF Grows
<1>4. ~job[i].res.ok
  BY <1>1, <1>2 DEF JobTrue
<1>5. CASE Done(i, Fail)
  BY <1>1, <1>3, <1>5, FailsTrue
<1>6. CASE ~Refused(calls[i]) /\ Keyed(calls[i]) /\ job' = [job EXCEPT ![i].st = "get"]
  <2>1. PICK st : st = "get"
    OBVIOUS
  <2>2. job' = [job EXCEPT ![i].st = st]
    BY <1>6, <2>1
  <2>3. PICK x : TurnsTo(i, x, st)
    BY <1>2, <2>2, StateFields
  <2>4. job' = [job EXCEPT ![i] = x] /\ x.st = "get" /\ x.fut = job[i].fut /\ ~x.res.ok
    BY <1>4, <2>1, <2>3 DEF TurnsTo
  <2>5. calls[i].args \in Schema(calls[i]).args
    BY <1>6 DEF Refused
  <2>6. JobTrue(x, calls[i], asked, kv, told)
    BY <1>2, <1>6, <2>4, <2>5 DEF JobTrue
  <2>7. JobTrue(x, calls[i], asked', kv', told)
    BY <1>1, <2>6
  <2> QED BY <1>1, <1>3, <2>4, <2>7, StepTrue
<1>7. CASE ~Refused(calls[i]) /\ ~Keyed(calls[i]) /\ Execute(i)
  <2>1. calls[i].args \in Schema(calls[i]).args
    BY <1>7 DEF Refused
  <2> QED BY <1>1, <1>7, <2>1, ExecuteTrue
<1> QED BY <1>5, <1>6, <1>7 DEF Start, Keyed

\* An outcome in the bucket is that of the tool the arguments are valid for.
LEMMA LookupTrue ==
    ASSUME Inv, TruthInv, NEW i \in Positions, Lookup(i)
    PROVE  TruthInv'
<1>1. /\ job[i].st = "get" /\ calls' = calls /\ told' = told /\ kv' = kv
      /\ asked' = asked /\ completed' = completed
  BY DEF Lookup, At, engine, batch
<1>2. /\ TypeOK /\ calls[i] \in Calls /\ JobTrue(job[i], calls[i], asked, kv, told)
      /\ TablesTrue(completed, asked) /\ KvTrue(kv, asked)
      /\ calls[i].args \in Arguments /\ calls[i].name \in DOMAIN Tools
  BY CallAt
<1>3. TablesTrue(completed', asked)
  BY <1>1, <1>2
<1>4. Keyed(calls[i]) /\ calls[i].args \in Schema(calls[i]).args
  BY <1>1, <1>2 DEF JobTrue
<1>5. CASE kv[calls[i].args] # None /\ Done(i, kv[calls[i].args])
  <2>1. PICK c, r : c = calls[i] /\ r = kv[calls[i].args]
    OBVIOUS
  <2>2. r \in Outcomes /\ r # None /\ Done(i, r)
    BY <1>2, <1>5, <2>1 DEF TypeOK
  <2>3. PICK x : /\ job' = [job EXCEPT ![i] = x] /\ x.fut = job[i].fut /\ x.res = r
                 /\ x.st = "done"
    BY <1>2, <2>2, OutcomeFields
  <2>4. ASSUME r.ok PROVE Backed(r.from, c, asked)
    <3>1. PICK n \in DOMAIN Tools :
             /\ Tools[n].keyed /\ c.args \in Tools[n].args
             /\ r.from \in asked /\ r.from.name = n /\ AskedAs(r.from, n, c.args, asked)
      BY <1>2, <2>1, <2>2, <2>4 DEF KvTrue
    <3>2. Tools[c.name].keyed /\ c.args \in Tools[c.name].args /\ c.name \in DOMAIN Tools
      BY <1>2, <1>4, <2>1 DEF Keyed, Schema
    <3>3. n = c.name
      BY <3>1, <3>2, KeyedAssumption
    <3> QED BY <3>1, <3>3 DEF Backed
  <2>5. Settled(x, r, calls[i], asked, kv)
    BY <2>1, <2>2, <2>3, <2>4 DEF Settled
  <2> QED BY <1>1, <1>3, <2>3, <2>5, SettlingTrue
<1>6. CASE Done(i, Fail)
  BY <1>1, <1>3, <1>6, FailsTrue
<1>7. CASE kv[calls[i].args] = None /\ Execute(i)
  BY <1>1, <1>4, <1>7, ExecuteTrue
<1> QED BY <1>5, <1>6, <1>7 DEF Lookup

\* What is stored is the outcome of this request, and stays.
LEMMA PutTrue ==
    ASSUME Inv, TruthInv, NEW i \in Positions, job[i].st = "put",
           kv' = [kv EXCEPT ![calls[i].args] = job[i].res]
    PROVE  /\ Grows(kv, kv') /\ KvTrue(kv', asked)
           /\ kv'[calls[i].args] # None /\ job[i].res \in Outcomes
           /\ Keyed(calls[i]) /\ Backed(job[i].res.from, calls[i], asked)
<1>1. /\ calls[i] \in Calls /\ JobTrue(job[i], calls[i], asked, kv, told)
      /\ KvTrue(kv, asked) /\ job[i] \in JobType
      /\ calls[i].args \in Arguments /\ calls[i].name \in DOMAIN Tools
      /\ kv \in [Arguments -> Outcomes \union {None}]
  BY CallAt DEF TypeOK
<1>2. PICK c, r : c = calls[i] /\ r = job[i].res
  OBVIOUS
<1>3. /\ Keyed(c) /\ r.ok /\ AskedAs(r.from, c.name, c.args, asked)
      /\ c.args \in Schema(c).args /\ Backed(r.from, c, asked) /\ r \in Outcomes /\ r # None
  BY <1>1, <1>2, NoneAssumption DEF JobTrue, JobType
<1>4. kv'[c.args] = r /\ c.args \in Arguments
      /\ \A a \in Arguments : a # c.args => kv'[a] = kv[a]
  BY <1>1, <1>2
<1>5. Grows(kv, kv')
  BY <1>3, <1>4 DEF Grows
<1>6. KvTrue(kv', asked)
  <2> SUFFICES ASSUME NEW a \in Arguments, kv'[a] # None, kv'[a].ok
               PROVE  \E n \in DOMAIN Tools :
                         /\ Tools[n].keyed /\ a \in Tools[n].args
                         /\ kv'[a].from \in asked /\ kv'[a].from.name = n
                         /\ AskedAs(kv'[a].from, n, a, asked)
    BY DEF KvTrue
  <2>1. CASE a # c.args
    BY <1>1, <1>4, <2>1 DEF KvTrue
  <2>2. CASE a = c.args
    <3>1. c.name \in DOMAIN Tools /\ Tools[c.name].keyed /\ c.args \in Tools[c.name].args
      BY <1>1, <1>2, <1>3 DEF Keyed, Schema
    <3>2. r.from \in asked /\ r.from.name = c.name /\ AskedAs(r.from, c.name, c.args, asked)
      BY <1>3 DEF Backed
    <3> QED BY <1>4, <2>2, <3>1, <3>2
  <2> QED BY <2>1, <2>2
<1> QED BY <1>2, <1>3, <1>4, <1>5, <1>6

LEMMA StoreTrue ==
    ASSUME Inv, TruthInv, NEW i \in Positions, Store(i)
    PROVE  TruthInv'
<1>1. /\ job[i].st = "put" /\ calls' = calls /\ told' = told
      /\ asked' = asked /\ completed' = completed
  BY DEF Store, At, engine, batch
<1>2. /\ TypeOK /\ JobTrue(job[i], calls[i], asked, kv, told) /\ TablesTrue(completed, asked)
  BY CallAt
<1>3. CASE kv' = kv /\ Done(i, Fail)
  <2>1. TablesTrue(completed', asked)
    BY <1>1, <1>2
  <2> QED BY <1>1, <1>3, <2>1, FailsTrue
<1>4. CASE kv' = [kv EXCEPT ![calls[i].args] = job[i].res] /\ Done(i, job[i].res)
  <2>1. PICK c, r : c = calls[i] /\ r = job[i].res
    OBVIOUS
  <2>2. /\ Grows(kv, kv') /\ KvTrue(kv', asked) /\ kv'[c.args] # None /\ r \in Outcomes
        /\ Keyed(c) /\ Backed(r.from, c, asked)
    BY <1>1, <1>4, <2>1, PutTrue
  <2>3. Done(i, r)
    BY <1>4, <2>1
  <2>4. PICK x : /\ job' = [job EXCEPT ![i] = x] /\ x.fut = job[i].fut /\ x.res = r
                 /\ x.st = "done"
    BY <1>2, <2>2, <2>3, OutcomeFields
  <2>5. JobTrue(x, calls[i], asked, kv', told)
    BY <1>2, <2>1, <2>2, <2>4 DEF JobTrue
  <2>6. JobTrue(x, calls[i], asked', kv', told) /\ asked \subseteq asked'
        /\ TablesTrue(completed', asked') /\ KvTrue(kv', asked')
    BY <1>1, <1>2, <2>2, <2>5
  <2> QED BY <1>1, <2>2, <2>4, <2>6, StepTrue
<1> QED BY <1>3, <1>4 DEF Store

\* A shared future answers both calls.
LEMMA ShareTrue ==
    ASSUME Inv, TruthInv, NEW i \in Positions, Share(i) \/ ShareIsCancelled(i)
    PROVE  TruthInv'
<1>1. /\ job[i].st = "join" /\ calls' = calls /\ told' = told /\ kv' = kv
      /\ asked' = asked /\ completed' = completed
  BY DEF Share, ShareIsCancelled, At, engine, batch
<1>2. /\ TypeOK /\ JobTrue(job[i], calls[i], asked, kv, told) /\ TablesTrue(completed, asked)
      /\ DOMAIN job = Positions
  BY CallAt
<1>3. TablesTrue(completed', asked)
  BY <1>1, <1>2
<1>4. CASE Share(i)
  <2>1. PICK own, f : own = job[i].on /\ f = job[own].fut
    OBVIOUS
  <2>2. f \notin {None, Lost} /\ Settle(i, f) /\ own \in Positions
    BY <1>1, <1>4, <2>1 DEF Share, Inv, LoopInv
  <2>3. f \in Outcomes /\ JobTrue(job[own], calls[own], asked, kv, told)
    BY <2>1, <2>2, CallAt DEF JobType
  <2>4. Same(calls[own], calls[i]) /\ calls[own].id = calls[i].id
    BY <1>1, <1>2, <2>1 DEF TruthInv, Shares
  <2>5. Answers(f.from, calls[i], asked)
    BY <2>1, <2>2, <2>3, <2>4 DEF JobTrue, Answers, Same
  <2>6. ~Keyed(calls[i])
    BY <1>1, <1>2 DEF JobTrue
  <2>7. PICK x : /\ job' = [job EXCEPT ![i] = x] /\ x.fut = job[i].fut /\ x.res = f
                 /\ x.st \in {"done", "put"} /\ (x.st = "put" <=> Keyed(calls[i]) /\ f.ok)
    BY <1>2, <2>2, <2>3, OutcomeFields
  <2>8. Settled(x, f, calls[i], asked, kv)
    BY <2>5, <2>6, <2>7 DEF Settled, Backed, Answers
  <2> QED BY <1>1, <1>3, <2>7, <2>8, SettlingTrue
<1>5. CASE ShareIsCancelled(i)
  <2>1. PICK st : st = "cancelled"
    OBVIOUS
  <2>2. job' = [job EXCEPT ![i].st = st]
    BY <1>5, <2>1 DEF ShareIsCancelled
  <2>3. PICK x : TurnsTo(i, x, st)
    BY <1>2, <2>2, StateFields
  <2>4. ~job[i].res.ok
    BY <1>1, <1>2 DEF JobTrue
  <2>5. job' = [job EXCEPT ![i] = x] /\ x.st = "cancelled" /\ x.fut = job[i].fut /\ ~x.res.ok
    BY <2>1, <2>3, <2>4 DEF TurnsTo
  <2> QED BY <1>1, <1>3, <2>5, FailingTrue
<1> QED BY <1>4, <1>5

(***************************************************************************)
(* The steps of the exchanges.                                             *)
(***************************************************************************)
\* The device receives more requests, the tables staying as they are.
LEMMA SendTrue ==
    ASSUME Inv, TruthInv, NEW i \in Positions, Send(i)
    PROVE  TruthInv'
<1>1. /\ job[i].st = "send" /\ asked' = asked \union {calls[i]} /\ job' = [job EXCEPT ![i].st = "wait"]
      /\ calls' = calls /\ told' = told /\ kv' = kv /\ completed' = completed
  BY DEF Send, At, engine, batch
<1>2. /\ TypeOK /\ calls[i] \in Calls /\ JobTrue(job[i], calls[i], asked, kv, told)
      /\ TablesTrue(completed, asked) /\ KvTrue(kv, asked)
  BY CallAt
<1>3. PICK T, c : T = asked' /\ c = calls[i]
  OBVIOUS
<1>4. asked \subseteq T /\ c \in T /\ c \in Calls /\ Grows(kv, kv)
  BY <1>1, <1>2, <1>3 DEF Grows
<1>5. TablesTrue(completed, T) /\ KvTrue(kv, T)
  BY <1>2, <1>4, TablesGrow, KvGrows
<1>6. PICK j : j = job[i]
  OBVIOUS
<1>7. JobTrue(j, c, T, kv, told)
  BY <1>2, <1>3, <1>4, <1>6, JobGrows
<1>8. PICK st : st = "wait"
  OBVIOUS
<1>9. job' = [job EXCEPT ![i].st = st]
  BY <1>1, <1>8
<1>10. PICK x : TurnsTo(i, x, st)
  BY <1>2, <1>9, StateFields
<1>11. job' = [job EXCEPT ![i] = x] /\ x.st = "wait" /\ x.fut = j.fut /\ x.res = j.res
  BY <1>6, <1>8, <1>10 DEF TurnsTo
<1>12. JobTrue(x, c, T, kv, told)
  BY <1>1, <1>4, <1>6, <1>7, <1>11 DEF JobTrue
<1>13. /\ JobTrue(x, calls[i], asked', kv', told) /\ Grows(kv, kv') /\ asked \subseteq asked'
       /\ TablesTrue(completed', asked') /\ KvTrue(kv', asked')
  BY <1>1, <1>3, <1>4, <1>5, <1>12
<1> QED BY <1>1, <1>11, <1>13, StepTrue

\* An exchange that remembers a failure remembers nothing to be wrong about.
LEMMA FailureKept ==
    ASSUME Inv, TruthInv, NEW i \in Positions,
           \/ completed' = completed
           \/ completed' = [completed EXCEPT ![Key(calls[i])] = [req |-> calls[i], res |-> Fail]]
    PROVE  TablesTrue(completed', asked)
<1>1. /\ TablesTrue(completed, asked) /\ Key(calls[i]) \in Keys /\ ~Fail.ok
      /\ completed \in [Keys -> [req : Calls, res : Outcomes] \union {None}]
  BY CallAt DEF TypeOK
<1>2. CASE completed' = completed
  BY <1>1, <1>2
<1>3. CASE completed' = [completed EXCEPT ![Key(calls[i])] = [req |-> calls[i], res |-> Fail]]
  <2>1. PICK m : m = Key(calls[i])
    OBVIOUS
  <2>2. PICK h : h = [req |-> calls[i], res |-> Fail]
    OBVIOUS
  <2>3. Key(h.req) = m /\ ~h.res.ok
    BY <1>1, <2>1, <2>2
  <2>4. completed'[m] = h /\ \A k \in Keys : k # m => completed'[k] = completed[k]
    BY <1>1, <1>3, <2>1, <2>2
  <2> QED BY <1>1, <2>3, <2>4 DEF TablesTrue
<1> QED BY <1>2, <1>3

LEMMA ReceiveTrue ==
    ASSUME Inv, TruthInv, NEW i \in Positions, Receive(i)
    PROVE  TruthInv'
<1>1. PICK c, f : c = calls[i] /\ f = job[i].fut
  OBVIOUS
<1>2. /\ job[i].st = "wait" /\ f \notin {None, Lost} /\ Settle(i, f)
      /\ completed' = [completed EXCEPT ![Key(c)] = [req |-> c, res |-> f]]
      /\ calls' = calls /\ told' = told /\ kv' = kv /\ asked' = asked
  BY <1>1 DEF Receive, At, engine, batch
<1>3. /\ TypeOK /\ Key(c) \in Keys /\ JobTrue(job[i], c, asked, kv, told)
      /\ TablesTrue(completed, asked) /\ f \in Outcomes
      /\ completed \in [Keys -> [req : Calls, res : Outcomes] \union {None}]
  BY <1>1, <1>2, CallAt DEF JobType, TypeOK
<1>4. Answers(f.from, c, asked) /\ c \in asked /\ c.args \in Schema(c).args
  BY <1>1, <1>2, <1>3 DEF JobTrue
<1>5. TablesTrue(completed', asked)
  <2>1. PICK m : m = Key(c)
    OBVIOUS
  <2>2. PICK h : h = [req |-> c, res |-> f]
    OBVIOUS
  <2>3. Key(h.req) = m /\ h.req \in asked /\ Answers(h.res.from, h.req, asked)
    BY <1>4, <2>1, <2>2
  <2>4. completed'[m] = h /\ \A k \in Keys : k # m => completed'[k] = completed[k]
    BY <1>2, <1>3, <2>1, <2>2
  <2> QED BY <1>3, <2>3, <2>4 DEF TablesTrue
<1>6. PICK x : /\ job' = [job EXCEPT ![i] = x] /\ x.fut = job[i].fut /\ x.res = f
               /\ x.st \in {"done", "put"} /\ (x.st = "put" <=> Keyed(c) /\ f.ok)
  BY <1>1, <1>2, <1>3, OutcomeFields
<1>7. AskedAs(f.from, c.name, c.args, asked) /\ Backed(f.from, c, asked)
  BY <1>4 DEF AskedAs, Answers, Backed
<1>8. Settled(x, f, calls[i], asked, kv)
  BY <1>1, <1>4, <1>6, <1>7 DEF Settled
<1> QED BY <1>2, <1>5, <1>6, <1>8, SettlingTrue

\* CancelledError leaves a call with nothing to show.
LEMMA StruckTrue ==
    ASSUME Inv, TruthInv, NEW i \in Positions, NEW w \in {"timeout", "late", "cancel"},
           NEW j, j = Struck(i, w) \/ j = [Struck(i, w) EXCEPT !.res = Fail],
           job[i].st \in Active \/ ~j.res.ok
    PROVE  JobTrue(j, calls[i], asked, kv, told) /\ j.st # "join"
<1>1. job[i] \in JobType /\ ~Fail.ok /\ JobTrue(job[i], calls[i], asked, kv, told)
  BY CallAt
<1>2. Struck(i, w) \in JobType
  BY StruckFacts, CallAt
<1>3. PICK y : y = Struck(i, w)
  OBVIOUS
<1>4. /\ y.fut \in {job[i].fut, Lost}
      /\ \/ y.st = "retract" /\ job[i].st \in {"send", "wait"} /\ y.res = job[i].res
         \/ y.st \in {"done", "cancelled"} /\ y.res = Fail
         \/ job[i].st \notin Active /\ y = job[i]
  <2>1. CASE job[i].st \in {"send", "wait"} /\ Schema(calls[i]).via = "channel"
    BY <1>1, <1>3, <2>1 DEF Struck, JobType
  <2>2. CASE ~(job[i].st \in {"send", "wait"} /\ Schema(calls[i]).via = "channel") /\ job[i].st \in Active
    BY <1>1, <1>3, <2>2 DEF Struck, JobType
  <2>3. CASE job[i].st \notin Active
    BY <1>1, <1>3, <2>3, StruckFacts, CallAt
  <2> QED BY <2>1, <2>2, <2>3
<1>5. j.fut = y.fut /\ j.st = y.st /\ j.res \in {y.res, Fail}
  BY <1>2, <1>3 DEF JobType
<1>6. CASE y.st = "retract" /\ job[i].st \in {"send", "wait"} /\ y.res = job[i].res
  BY <1>1, <1>4, <1>5, <1>6 DEF JobTrue
<1>7. CASE y.st \in {"done", "cancelled"} /\ y.res = Fail
  BY <1>1, <1>4, <1>5, <1>7 DEF JobTrue
<1>8. CASE job[i].st \notin Active /\ y = job[i]
  <2>1. ~j.res.ok /\ j.st \notin Active
    BY <1>5, <1>8
  <2> QED BY <1>1, <1>4, <1>5, <1>8, <2>1 DEF JobTrue, Active
<1> QED BY <1>4, <1>6, <1>7, <1>8

\* A write that is cut short may add requests, and nothing else.
LEMMA SentGrows ==
    ASSUME Inv, NEW P \in SUBSET Positions, MaybeSent(P) PROVE asked \subseteq asked'
BY DEF MaybeSent

LEMMA RetractTrue ==
    ASSUME Inv, TruthInv, NEW i \in Positions, Retract(i)
    PROVE  TruthInv'
<1> DEFINE st == IF job[i].why = "cancel" THEN "cancelled" ELSE "done"
           x == [job[i] EXCEPT !.st = st, !.res = Fail]
<1>1. /\ \/ completed' = completed
         \/ completed' = [completed EXCEPT ![Key(calls[i])] = [req |-> calls[i], res |-> Fail]]
      /\ job' = [job EXCEPT ![i].st = st, ![i].res = Fail]
      /\ calls' = calls /\ told' = told /\ kv' = kv /\ asked' = asked
  BY DEF Retract, engine, batch
<1>2. job[i] \in JobType /\ DOMAIN job = Positions /\ ~Fail.ok
  BY CallAt
<1>3. st \in {"cancelled", "done"}
  OBVIOUS
<1> HIDE DEF st
<1>4. x.st = st /\ x.fut = job[i].fut /\ x.res = Fail
  BY <1>2 DEF JobType
<1>5. job' = [job EXCEPT ![i] = x]
  BY <1>1, <1>2
<1> HIDE DEF x
<1>6. TablesTrue(completed', asked)
  BY <1>1, FailureKept
<1>7. x.st \in {"done", "cancelled"} /\ ~x.res.ok
  BY <1>2, <1>3, <1>4
<1> QED BY <1>1, <1>4, <1>5, <1>6, <1>7, FailingTrue

LEMMA TimeoutTrue ==
    ASSUME Inv, TruthInv, NEW i \in Positions, ToolTimesOut(i) \/ ExchangeTimesOut(i)
    PROVE  TruthInv'
<1>1. calls' = calls /\ told' = told /\ kv' = kv /\ job[i].st \in Active
  BY DEF ToolTimesOut, ExchangeTimesOut, engine, batch, At, Active
<1>2. /\ calls[i] \in Calls /\ TablesTrue(completed, asked) /\ KvTrue(kv, asked)
  BY CallAt
<1>3. ASSUME NEW w \in {"timeout", "late", "cancel"}, job' = [job EXCEPT ![i] = Struck(i, w)],
             completed' = completed, asked \subseteq asked'
      PROVE  TruthInv'
  <2>1. PICK x, c, T : x = Struck(i, w) /\ c = calls[i] /\ T = asked'
    OBVIOUS
  <2>2. JobTrue(x, c, asked, kv, told) /\ x.st # "join"
    BY <1>1, <2>1, StruckTrue
  <2>3. asked \subseteq T /\ Grows(kv, kv) /\ c \in Calls
    BY <1>2, <1>3, <2>1 DEF Grows
  <2>4. JobTrue(x, c, T, kv, told) /\ TablesTrue(completed, T) /\ KvTrue(kv, T)
    BY <1>2, <2>2, <2>3, JobGrows, TablesGrow, KvGrows
  <2>5. JobTrue(x, calls[i], asked', kv', told) /\ TablesTrue(completed', asked')
        /\ KvTrue(kv', asked') /\ Grows(kv, kv')
    BY <1>1, <1>3, <2>1, <2>3, <2>4
  <2>6. job' = [job EXCEPT ![i] = x]
    BY <1>3, <2>1
  <2> QED BY <1>1, <1>3, <2>2, <2>5, <2>6, StepTrue
<1>4. CASE ToolTimesOut(i)
  <2>1. MaybeSent({i}) /\ {i} \in SUBSET Positions
    BY <1>4 DEF ToolTimesOut
  <2>2. asked \subseteq asked'
    BY <2>1, SentGrows
  <2>3. job' = [job EXCEPT ![i] = Struck(i, "timeout")] /\ completed' = completed
    BY <1>4 DEF ToolTimesOut
  <2> QED BY <1>3, <2>2, <2>3
<1>5. CASE ExchangeTimesOut(i)
  <2>1. asked' = asked
    BY <1>5 DEF ExchangeTimesOut
  <2>2. CASE job' = [job EXCEPT ![i] = Struck(i, "late")] /\ completed' = completed
    BY <1>3, <2>1, <2>2
  <2>3. CASE /\ completed' = [completed EXCEPT ![Key(calls[i])] = [req |-> calls[i], res |-> Fail]]
             /\ Settle(i, Fail)
    <3>1. TablesTrue(completed', asked)
      BY <2>3, FailureKept
    <3> QED BY <1>1, <2>1, <2>3, <3>1, FailsTrue
  <2> QED BY <1>5, <2>2, <2>3 DEF ExchangeTimesOut
<1> QED BY <1>4, <1>5

\* accept() compares the id and the tool of the request with its owner's.
LEMMA AcceptTrue ==
    ASSUME Inv, TruthInv, NEW q \in asked, NEW ok \in BOOLEAN, Accept(q, ok)
    PROVE  TruthInv'
<1>1. PICK own, f : own = pending[Key(q)] /\ f = [ok |-> ok, from |-> q]
  OBVIOUS
<1>2. /\ own # None /\ job[own].fut = None /\ calls[own].name = q.name
      /\ job' = [job EXCEPT ![own].fut = f]
      /\ calls' = calls /\ told' = told /\ kv' = kv /\ asked' = asked /\ completed' = completed
  BY <1>1 DEF Accept, engine, batch
<1>3. q \in Calls /\ Key(q) \in Keys
  BY CallFacts DEF Inv, TypeOK
<1>4. own \in Positions /\ Key(calls[own]) = Key(q)
  BY <1>1, <1>2, <1>3 DEF Inv, PendingInv
<1>5. Answers(f.from, calls[own], asked)
  <2>1. calls[own].id = q.id
    BY <1>4 DEF Key
  <2> QED BY <1>1, <1>2, <2>1 DEF Answers
<1> DEFINE x == [job[own] EXCEPT !.fut = f]
<1>6. /\ job[own] \in JobType /\ DOMAIN job = Positions
      /\ JobTrue(job[own], calls[own], asked, kv, told)
      /\ TablesTrue(completed, asked) /\ KvTrue(kv, asked)
  BY <1>4, CallAt
<1>7. x.fut = f /\ x.st = job[own].st /\ x.res = job[own].res /\ x.on = job[own].on
  BY <1>6 DEF JobType
<1>8. job' = [job EXCEPT ![own] = x]
  BY <1>2, <1>6
<1> HIDE DEF x
<1>9. JobTrue(x, calls[own], asked, kv, told)
  BY <1>5, <1>6, <1>7 DEF JobTrue
<1>10. /\ JobTrue(x, calls[own], asked', kv', told) /\ Grows(kv, kv') /\ asked \subseteq asked'
       /\ TablesTrue(completed', asked') /\ KvTrue(kv', asked')
       /\ x.st = "join" => job[own].st = "join" /\ x.on = job[own].on
  BY <1>2, <1>6, <1>7, <1>9 DEF Grows
<1> QED BY <1>2, <1>4, <1>8, <1>10, StepTrue

(***************************************************************************)
(* The steps of the loop and of the engine.                                *)
(***************************************************************************)
\* Every call of the batch may change at once.
LEMMA BatchTrue ==
    ASSUME Inv, TruthInv, UNCHANGED <<calls, told, completed>>, asked \subseteq asked',
           Grows(kv, kv'), KvTrue(kv', asked), Positions' = Positions,
           \A i \in Positions : JobTrue(job'[i], calls[i], asked, kv, told),
           \A i \in Positions : job'[i].st = "join" => job' = job
    PROVE  TruthInv'
<1>1. PICK S, T, K, L : S = asked /\ T = asked' /\ K = kv /\ L = kv'
  OBVIOUS
<1>2. /\ S \subseteq T /\ Grows(K, L) /\ TablesTrue(completed, S) /\ ToldTrue(told, S, K)
      /\ KvTrue(L, S) /\ told \subseteq Calls \X (Calls \union {None})
  BY <1>1 DEF TruthInv, Inv, TypeOK
<1>3. TablesTrue(completed, T) /\ ToldTrue(told, T, L) /\ KvTrue(L, T)
  BY <1>2, TablesGrow, ToldGrows, KvGrows
<1>4. \A i \in Positions : JobTrue(job'[i], calls[i], T, L, told)
  <2> TAKE i \in Positions
  <2>1. PICK j, c : j = job'[i] /\ c = calls[i]
    OBVIOUS
  <2>2. JobTrue(j, c, S, K, told) /\ c \in Calls
    BY <1>1, <2>1, CallAt
  <2>3. JobTrue(j, c, T, L, told)
    BY <1>2, <2>2, JobGrows
  <2> QED BY <2>1, <2>3
<1>5. calls' = calls /\ told' = told /\ completed' = completed /\ asked' = T /\ kv' = L
  BY <1>1
<1>6. \A i \in Positions' : JobTrue(job[i], calls[i], asked, kv, told)'
  <2>1. \A i \in Positions' : JobTrue(job'[i], calls'[i], asked', kv', told')
    BY <1>4, <1>5
  <2> QED BY <2>1 DEF JobTrue, Answers, Backed, AskedAs, Keyed, Schema, Same
<1>7. ToldTrue(told, asked, kv)' /\ TablesTrue(completed, asked)' /\ KvTrue(kv, asked)'
  <2>1. ToldTrue(told', asked', kv') /\ TablesTrue(completed', asked') /\ KvTrue(kv', asked')
    BY <1>3, <1>5
  <2>2. ToldTrue(told, asked, kv)'
    BY <2>1 DEF ToldTrue, Backed, AskedAs, Keyed, Schema
  <2>3. TablesTrue(completed, asked)' /\ KvTrue(kv, asked)'
    BY <2>1 DEF TablesTrue, KvTrue, Answers, AskedAs, Keys, Key, Schema
  <2> QED BY <2>2, <2>3
<1>8. Shares(job)'
  <2> SUFFICES ASSUME NEW i \in Positions, job'[i].st = "join"
               PROVE  Same(calls[job'[i].on], calls[i]) /\ calls[job'[i].on].id = calls[i].id
    BY <1>5 DEF Shares, Same, Positions
  <2>1. job' = job
    OBVIOUS
  <2>2. DOMAIN job = Positions
    BY DEF Positions
  <2> QED BY <2>1, <2>2 DEF TruthInv, Shares
<1> QED BY <1>6, <1>7, <1>8 DEF TruthInv

LEMMA LoopTrue ==
    ASSUME Inv, TruthInv, Collect \/ Flush \/ RunAlone
    PROVE  TruthInv'
<1>1. /\ ~Busy /\ calls' = calls /\ told' = told /\ kv' = kv
      /\ asked' = asked /\ completed' = completed
  BY DEF Collect, Flush, RunAlone, LoopAt, engine, batch
<1>2. KvTrue(kv, asked) /\ DOMAIN job = Positions /\ \A i \in Positions : job[i] \in JobType
  BY CallAt DEF TruthInv, Positions
<1>3. KvTrue(kv', asked) /\ Grows(kv, kv') /\ asked \subseteq asked'
  BY <1>1, <1>2 DEF Grows
<1>4. ASSUME NEW i \in Positions, NEW st \in {"batched", "start"}, NEW j,
             job[i].st \in {"waiting", "batched"}, j = [job[i] EXCEPT !.st = st]
      PROVE  JobTrue(j, calls[i], asked, kv, told) /\ j.st # "join"
  <2>1. j.st = st /\ j.fut = job[i].fut /\ j.res = job[i].res
    BY <1>2, <1>4 DEF JobType
  <2>2. JobTrue(job[i], calls[i], asked, kv, told)
    BY CallAt
  <2> QED BY <1>4, <2>1, <2>2 DEF JobTrue
<1>5. ASSUME NEW i \in Positions
      PROVE  JobTrue(job[i], calls[i], asked, kv, told) /\ job[i].st # "join"
  BY <1>1, CallAt DEF Busy, Active
<1>6. /\ Positions' = Positions
      /\ \A i \in Positions : \/ job'[i] = job[i]
                              \/ /\ job[i].st \in {"waiting", "batched"}
                                 /\ \E st \in {"batched", "start"} :
                                       job'[i] = [job[i] EXCEPT !.st = st]
  <2>1. PICK m : m = next
    OBVIOUS
  <2>2. CASE Collect
    <3>1. \/ job' = job
          \/ m \in Positions /\ job[m].st = "waiting" /\ job' = [job EXCEPT ![m].st = "batched"]
      BY <2>1, <2>2 DEF Collect, LoopAt, At
    <3> QED BY <1>2, <3>1 DEF Positions
  <2>3. CASE RunAlone
    <3>1. m \in Positions /\ job[m].st = "waiting" /\ job' = [job EXCEPT ![m].st = "start"]
      BY <2>1, <2>3 DEF RunAlone, LoopAt, At
    <3> QED BY <1>2, <3>1 DEF Positions
  <2>4. CASE Flush
    <3>1. job' = [i \in Positions |-> IF i \in Batched THEN [job[i] EXCEPT !.st = "start"]
                                      ELSE job[i]]
      BY <2>4 DEF Flush
    <3> QED BY <3>1 DEF Positions, Batched, At
  <2> QED BY <2>2, <2>3, <2>4
<1>7. \A i \in Positions : JobTrue(job'[i], calls[i], asked, kv, told) /\ job'[i].st # "join"
  <2> TAKE i \in Positions
  <2>1. PICK j : j = job'[i]
    OBVIOUS
  <2>2. CASE j = job[i]
    BY <1>5, <2>1, <2>2
  <2>3. CASE j # job[i]
    <3>1. PICK st \in {"batched", "start"} : j = [job[i] EXCEPT !.st = st]
      BY <1>6, <2>1, <2>3
    <3>2. job[i].st \in {"waiting", "batched"}
      BY <1>6, <2>1, <2>3
    <3> QED BY <1>4, <2>1, <3>1, <3>2
  <2> QED BY <2>2, <2>3
<1> QED BY <1>1, <1>3, <1>6, <1>7, BatchTrue

\* A call that is struck has no outcome left, whatever it had stored.
LEMMA StrikeTrue ==
    ASSUME Inv, TruthInv, StrikeAll
    PROVE  TruthInv'
<1>1. /\ job' = [i \in Positions |-> [Struck(i, "cancel") EXCEPT !.res = Fail]]
      /\ calls' = calls /\ told' = told /\ completed' = completed /\ MaybeSent(Positions)
  BY DEF StrikeAll, batch
<1>2. asked \subseteq asked'
  BY <1>1, SentGrows
<1>3. Grows(kv, kv') /\ KvTrue(kv', asked)
  <2>1. CASE kv' = kv
    BY <2>1 DEF TruthInv, Grows
  <2>2. CASE \E i \in Positions :
                At(i, "put") /\ kv' = [kv EXCEPT ![calls[i].args] = job[i].res]
    BY <2>2, PutTrue DEF At
  <2> QED BY <2>1, <2>2 DEF StrikeAll
<1>4. Positions' = Positions
  BY <1>1 DEF Positions
<1>5. \A i \in Positions : JobTrue(job'[i], calls[i], asked, kv, told) /\ job'[i].st # "join"
  <2> TAKE i \in Positions
  <2>1. PICK w \in {"timeout", "late", "cancel"} : w = "cancel"
    OBVIOUS
  <2>2. PICK j : j = [Struck(i, w) EXCEPT !.res = Fail]
    OBVIOUS
  <2>3. Struck(i, w) \in JobType /\ ~Fail.ok
    BY StruckFacts, CallAt
  <2>4. ~j.res.ok
    BY <2>2, <2>3 DEF JobType
  <2>5. JobTrue(j, calls[i], asked, kv, told) /\ j.st # "join"
    BY <2>2, <2>4, StruckTrue
  <2> QED BY <1>1, <2>1, <2>2, <2>5
<1> QED BY <1>1, <1>2, <1>3, <1>4, <1>5, BatchTrue

\* No batch is at hand, and the exchanges are as they were or new.
LEMMA NoBatchTrue ==
    ASSUME Inv, TruthInv, Positions' = {}, UNCHANGED <<kv, asked>>,
           ToldTrue(told', asked, kv), completed' = completed \/ completed' = Empty
    PROVE  TruthInv'
<1>1. TablesTrue(completed', asked)
  BY EmptyTyped DEF TablesTrue, TruthInv
<1>2. kv' = kv /\ asked' = asked /\ KvTrue(kv, asked)
  BY DEF TruthInv
<1>3. ToldTrue(told', asked', kv') /\ TablesTrue(completed', asked') /\ KvTrue(kv', asked')
  BY <1>1, <1>2
<1>4. ToldTrue(told, asked, kv)'
  BY <1>3 DEF ToldTrue, Backed, AskedAs, Keyed, Schema
<1>5. TablesTrue(completed, asked)' /\ KvTrue(kv, asked)'
  BY <1>3 DEF TablesTrue, KvTrue, Answers, AskedAs, Keys, Key, Schema
<1>6. Shares(job)'
  BY DEF Shares, Positions
<1> QED BY <1>4, <1>5, <1>6 DEF TruthInv

LEMMA TurnTrue ==
    ASSUME Inv, TruthInv, EndTurn \/ RunAgain \/ Wind
    PROVE  TruthInv'
<1>1. ToldTrue(told, asked, kv)
  BY DEF TruthInv
<1>2. told' = told /\ kv' = kv /\ asked' = asked /\ (completed' = completed \/ completed' = Empty)
  BY DEF EndTurn, RunAgain, Wind
<1>3. Positions' = {}
  <2>1. CASE EndTurn
    <3>1. Positions = {}
      BY <2>1, BatchFacts DEF EndTurn, Inv, LoopInv
    <3> QED BY <2>1, <3>1 DEF EndTurn, Positions
  <2>2. CASE RunAgain \/ Wind
    BY <2>2 DEF RunAgain, Wind, Positions
  <2> QED BY <2>1, <2>2
<1>4. ToldTrue(told', asked, kv)
  BY <1>1, <1>2
<1> QED BY <1>2, <1>3, <1>4, NoBatchTrue

\* A new batch has no outcomes and no futures.
LEMMA RequestTrue ==
    ASSUME Inv, TruthInv, NEW b \in Batches, RequestTools(b)
    PROVE  TruthInv'
<1>1. /\ told' = told /\ kv' = kv /\ asked' = asked /\ completed' = completed
      /\ job' = [i \in 1..Len(b) |-> IF b[i].name \in failed
                                     THEN [Idle EXCEPT !.st = "suppressed"] ELSE Idle]
  BY DEF RequestTools
<1> DEFINE other == [Idle EXCEPT !.st = "suppressed"]
<1>2. /\ Idle.st = "waiting" /\ Idle.fut = None /\ ~Idle.res.ok
      /\ other.st = "suppressed" /\ other.fut = None /\ ~other.res.ok
  BY DEF Idle, Fail
<1>3. Positions' = 1 .. Len(b) /\ \A i \in 1 .. Len(b) : job'[i] \in {Idle, other}
  BY <1>1 DEF Positions
<1> HIDE DEF other
<1>4. \A i \in Positions' : JobTrue(job'[i], calls'[i], asked', kv', told') /\ job'[i].st # "join"
  BY <1>2, <1>3 DEF JobTrue
<1>5. \A i \in Positions' : JobTrue(job[i], calls[i], asked, kv, told)'
  BY <1>4 DEF JobTrue, Answers, Backed, AskedAs, Keyed, Schema, Same
<1>6. Shares(job)'
  BY <1>4 DEF Shares, Positions
<1>7. ToldTrue(told, asked, kv)' /\ TablesTrue(completed, asked)' /\ KvTrue(kv, asked)'
  <2>1. ToldTrue(told', asked', kv') /\ TablesTrue(completed', asked') /\ KvTrue(kv', asked')
    BY <1>1 DEF TruthInv
  <2>2. ToldTrue(told, asked, kv)'
    BY <2>1 DEF ToldTrue, Backed, AskedAs, Keyed, Schema
  <2>3. TablesTrue(completed, asked)' /\ KvTrue(kv, asked)'
    BY <2>1 DEF TablesTrue, KvTrue, Answers, AskedAs, Keys, Key, Schema
  <2> QED BY <2>2, <2>3
<1> QED BY <1>5, <1>6, <1>7 DEF TruthInv

\* The result that _merge_tool_results keeps for an id is that of its call.
LEMMA LastIsOfTheCall ==
    ASSUME TypeOK, NEW i \in Positions
    PROVE  LastOf(calls[i].id) \in Positions /\ calls[LastOf(calls[i].id)] = calls[i]
<1> DEFINE same == {j \in Positions : calls[j].id = calls[i].id}
           late == {j \in same : At(j, "suppressed")}
           pool == IF late = {} THEN same ELSE late
<1>1. pool \in SUBSET Positions /\ pool # {} /\ \A j \in pool : calls[j].id = calls[i].id
  OBVIOUS
<1>2. LastOf(calls[i].id) = CHOOSE j \in pool : \A l \in pool : l <= j
  BY DEF LastOf
<1> HIDE DEF pool
<1>3. pool \in SUBSET Int /\ MaxCalls \in Int /\ \A x \in pool : x <= MaxCalls
  BY <1>1, BatchFacts
<1>4. \E j \in pool : \A l \in pool : l <= j
  BY <1>1, <1>3, GreatestBelow
<1>5. PICK m \in pool : m = LastOf(calls[i].id)
  BY <1>2, <1>4
<1>6. m \in Positions /\ calls[m].id = calls[i].id
  BY <1>1, <1>5
<1>7. Positions = 1 .. Len(calls) /\ Len(calls) \in 0 .. MaxCalls
  BY BatchFacts
<1>8. calls \in Batches
  <2>1. calls # <<>>
    BY <1>6, <1>7
  <2> QED BY <2>1 DEF TypeOK
<1>9. DOMAIN calls = Positions
  BY <1>7, <1>8, ToolsAssumption
<1>10. calls[m] = calls[i]
  BY <1>6, <1>8, <1>9, IdsAssumption
<1> QED BY <1>5, <1>6, <1>10

\* Feeding the results back: out holds outcomes of calls that are over.
LEMMA ReportTrue ==
    ASSUME Inv, TruthInv, NEW out, Report(out),
           \A i \in Positions : out[i].ok =>
              /\ Backed(out[i].from, calls[i], asked)
              /\ Keyed(calls[i]) => kv[calls[i].args] # None
    PROVE  TruthInv'
<1> DEFINE merged == [i \in Positions |-> LastOf(calls[i].id)]
<1>1. /\ told' = told \union {<<calls[i], out[merged[i]].from>> :
                                i \in {i \in Positions : out[merged[i]].ok}}
      /\ job' = <<>> /\ UNCHANGED <<completed, kv, asked>>
  BY DEF Report
<1>2. \A i \in Positions : merged[i] \in Positions /\ calls[merged[i]] = calls[i]
  BY LastIsOfTheCall DEF Inv
<1> HIDE DEF merged
<1>3. ToldTrue(told', asked, kv)
  <2> SUFFICES ASSUME NEW t \in told'
               PROVE  Backed(t[2], t[1], asked) /\ (Keyed(t[1]) => kv[t[1].args] # None)
    BY DEF ToldTrue
  <2>1. CASE t \in told
    BY <2>1 DEF TruthInv, ToldTrue
  <2>2. CASE t \notin told
    <3>1. PICK i \in Positions : out[merged[i]].ok /\ t = <<calls[i], out[merged[i]].from>>
      BY <1>1, <2>2
    <3>2. PICK m \in Positions : m = merged[i] /\ calls[m] = calls[i]
      BY <1>2
    <3>3. t[1] = calls[m] /\ t[2] = out[m].from /\ out[m].ok
      BY <3>1, <3>2
    <3> QED BY <3>3
  <2> QED BY <2>1, <2>2
<1>4. Positions' = {}
  BY <1>1 DEF Positions
<1> QED BY <1>1, <1>3, <1>4, NoBatchTrue

LEMMA ReturnTrue ==
    ASSUME Inv, TruthInv, Return \/ Expire
    PROVE  TruthInv'
<1>1. CASE Return
  <2> DEFINE out == [i \in Positions |-> job[i].res]
  <2>1. ~Busy /\ Report(out)
    BY <1>1 DEF Return
  <2>2. \A i \in Positions : out[i].ok =>
              /\ Backed(out[i].from, calls[i], asked)
              /\ Keyed(calls[i]) => kv[calls[i].args] # None
    <3> SUFFICES ASSUME NEW i \in Positions, job[i].res.ok
                 PROVE  /\ Backed(job[i].res.from, calls[i], asked)
                        /\ Keyed(calls[i]) => kv[calls[i].args] # None
      OBVIOUS
    <3>1. JobTrue(job[i], calls[i], asked, kv, told) /\ job[i].st # "put"
      BY <2>1, CallAt DEF Busy, Active
    <3> QED BY <3>1 DEF JobTrue
  <2> HIDE DEF out
  <2> QED BY <2>1, <2>2, ReportTrue
<1>2. CASE Expire
  <2> DEFINE out == [i \in Positions |-> Fail]
  <2>1. Report(out)
    BY <1>2 DEF Expire
  <2>2. \A i \in Positions : ~out[i].ok
    BY DEF Fail
  <2> HIDE DEF out
  <2> QED BY <2>1, <2>2, ReportTrue
<1> QED BY <1>1, <1>2

LEMMA InitTrue == ASSUME Init PROVE TruthInv
<1>1. Positions = {} /\ asked = {} /\ told = {} /\ completed = Empty
      /\ \A a \in Arguments : kv[a] = None
  BY DEF Init, Positions
<1>2. Shares(job) /\ ToldTrue(told, asked, kv)
  BY <1>1 DEF Shares, Positions, ToldTrue
<1>3. TablesTrue(completed, asked) /\ KvTrue(kv, asked)
  BY <1>1, EmptyTyped DEF TablesTrue, KvTrue
<1> QED BY <1>1, <1>2, <1>3 DEF TruthInv

LEMMA NextTrue == ASSUME StrictSchemas, Inv, TruthInv, [Next]_vars PROVE TruthInv'
<1>1. CASE \E b \in Batches : RequestTools(b)
  BY <1>1, RequestTrue
<1>2. CASE EndTurn \/ RunAgain \/ Wind
  BY <1>2, TurnTrue
<1>3. CASE CancelTurn \/ BatchTimesOut
  BY <1>3, StrikeTrue DEF CancelTurn, BatchTimesOut
<1>4. CASE Collect \/ Flush \/ RunAlone
  BY <1>4, LoopTrue
<1>5. CASE Return \/ Expire
  BY <1>5, ReturnTrue
<1>6. ASSUME NEW i \in Positions, CallStep(i) \/ ExchangeTimesOut(i) PROVE TruthInv'
  <2>1. CASE Start(i) \/ Lookup(i) \/ Store(i) \/ Share(i) \/ ShareIsCancelled(i)
    BY <2>1, StartTrue, LookupTrue, StoreTrue, ShareTrue
  <2>2. CASE SendFails(i)
    <3>1. /\ Done(i, Fail) /\ calls' = calls /\ told' = told /\ kv' = kv
          /\ asked' = asked /\ completed' = completed
      BY <2>2 DEF SendFails, engine, batch
    <3>2. TablesTrue(completed', asked)
      BY <3>1, CallAt
    <3> QED BY <3>1, <3>2, FailsTrue
  <2>3. CASE Send(i) \/ Receive(i) \/ Retract(i)
    BY <2>3, SendTrue, ReceiveTrue, RetractTrue
  <2>4. CASE ToolTimesOut(i) \/ ExchangeTimesOut(i)
    BY <2>4, TimeoutTrue
  <2> QED BY <1>6, <2>1, <2>2, <2>3, <2>4 DEF CallStep
<1>7. CASE \E q \in asked, ok \in BOOLEAN : Accept(q, ok)
  BY <1>7, AcceptTrue
<1>8. CASE UNCHANGED vars
  <2>1. job' = job /\ calls' = calls /\ told' = told /\ completed' = completed
        /\ kv' = kv /\ asked' = asked
    BY <1>8 DEF vars
  <2>2. KvTrue(kv', asked) /\ Grows(kv, kv') /\ Positions' = Positions
    BY <2>1 DEF TruthInv, Grows, Positions
  <2>3. \A i \in Positions : JobTrue(job'[i], calls[i], asked, kv, told)
    BY <2>1 DEF TruthInv
  <2> QED BY <2>1, <2>2, <2>3, BatchTrue
<1> QED BY <1>1, <1>2, <1>3, <1>4, <1>5, <1>6, <1>7, <1>8 DEF Next, Loop

LEMMA ExchangeTrue == ASSUME StrictSchemas PROVE Spec => [](Inv /\ TruthInv)
<1>1. Init => Inv /\ TruthInv
  BY InitInv, InitTrue
<1>2. Inv /\ TruthInv /\ [Next]_vars => (Inv /\ TruthInv)'
  BY NextInv, NextTrue
<1> QED BY <1>1, <1>2, PTL DEF Spec

\* The bucket of the turn id outlives its runs: whatever times out, is struck,
\* shared or replayed, the device is not sent an idempotent side effect again
\* once the model was told that it succeeded.  The key in the bucket does not
\* name the tool, so this needs arguments that are valid for the tool called.
THEOREM AcknowledgedIsNotRepeated == ASSUME StrictSchemas PROVE Spec => []AckedNotRepeated
<1>1. TruthInv => AckedNotRepeated
  BY DEF TruthInv, JobTrue, AckedNotRepeated, At, Keyed
<1> QED BY <1>1, ExchangeTrue, PTL

\* What the model is told to be done was asked of the device and answered by
\* it, for the tool of the call, and under the id of the call or of a request
\* for the same arguments; in the strict mode of the schemas, as above.
THEOREM ToldIsTrue == ASSUME StrictSchemas PROVE Spec => []TruthfulResult
<1>1. TruthInv => TruthfulResult
  BY DEF TruthInv, ToldTrue, Backed, AskedAs, TruthfulResult, Same
<1> QED BY <1>1, ExchangeTrue, PTL
=============================================================================
