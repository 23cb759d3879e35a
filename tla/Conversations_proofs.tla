------------------------ MODULE Conversations_proofs ------------------------
(***************************************************************************)
(* Isolation of conversations and what a turn remembers of its own, for      *)
(* every number of runs, turns, conversations and identifiers, every window *)
(* size and every number of deletions and restarts.                         *)
(***************************************************************************)
EXTENDS Conversations, NumberLemmas, TLAPS

(***************************************************************************)
(* The boundary check                                                       *)
(***************************************************************************)
\* What the guard lets share a conversation is one party, and the device
\* update of the persister does not change the party of a conversation.
LEMMA VerifiedIsSameParty ==
    ASSUME NEW a \in ScopeType, NEW b \in ScopeType,
           _verify_conversation_scope(a, b)
    PROVE  /\ Party(b) = Party(a)
           /\ [a EXCEPT !.device = b.device] \in ScopeType
           /\ Party([a EXCEPT !.device = b.device]) = Party(a)
  <1> DEFINE d == [a EXCEPT !.device = b.device]
  <1>1. d \in ScopeType
    BY DEF ScopeType
  <1>2. /\ d.room = a.room /\ d.owner = a.owner /\ d.realm = a.realm
        /\ d.policy = a.policy /\ d.memory = a.memory /\ d.person = a.person
        /\ d.epoch = a.epoch /\ d.session = a.session /\ d.device = b.device
    BY DEF ScopeType
  <1>3. CASE a.room \/ b.room
    <2>1. /\ a.room /\ b.room /\ d.room /\ b.owner = a.owner
          /\ b.device = a.device /\ b.session = a.session
      BY <1>2, <1>3 DEF _verify_conversation_scope
    <2> HIDE DEF d
    <2> QED BY <1>1, <1>2, <2>1 DEF Party, d
  <1>4. CASE ~(a.room \/ b.room)
    <2>1. /\ ~a.room /\ ~b.room /\ ~d.room /\ b.owner = a.owner
          /\ b.realm = a.realm /\ b.policy = a.policy
          /\ b.memory = a.memory /\ b.person = a.person
          /\ b.person # None \/ ~b.memory =>
                b.epoch = a.epoch /\ b.session = a.session /\ b.device = a.device
      BY <1>2, <1>4 DEF _verify_conversation_scope
    <2> DEFINE tag(s) == IF s.person # None \/ ~ s.memory
                         THEN <<s.epoch, s.session, s.device>> ELSE None
    <2>2. tag(b) = tag(a) /\ tag(d) = tag(a)
      BY <1>2, <2>1
    <2>3. \A s : ~s.room => Party(s) = <<"personal", s.owner, s.realm,
                            s.policy, s.memory, s.person, tag(s)>>
      BY DEF Party
    <2> HIDE DEF d, tag
    <2>4. Party(b) = Party(a) /\ Party(d) = Party(a)
      BY <1>2, <2>1, <2>2, <2>3
    <2> QED BY <1>1, <2>4 DEF d
  <1> QED BY <1>3, <1>4

(***************************************************************************)
(* Helpers of the history window return subsets of their arguments          *)
(***************************************************************************)
\* Eviction, merging and filtering of a window invent no message.
LEMMA WindowSubsets ==
    /\ \A ms, k : Tail(ms, k) \subseteq ms
    /\ \A h, w, k : _merge_tail(h, w, k) \subseteq h \cup w
    /\ \A ms, r : Visible(ms, r) \subseteq ms
    /\ \A r : _cached_window(r) \subseteq window[ConvOf(r)]
  <1>1. \A ms, k : Tail(ms, k) \subseteq ms
    BY DEF Tail
  <1>2. \A h, w, k : _merge_tail(h, w, k) \subseteq h \cup w
    BY <1>1 DEF _merge_tail
  <1>3. \A ms, r : Visible(ms, r) \subseteq ms
    BY DEF Visible, Public
  <1>4. \A r : _cached_window(r) \subseteq window[ConvOf(r)]
    BY <1>1, <1>3 DEF _cached_window
  <1> QED BY <1>1, <1>2, <1>3, <1>4

\* The tables yield messages of the runs their rows name, of their
\* conversation.
LEMMA StoredMessages ==
    ASSUME TypeOK, NEW c \in Convs, NEW m \in Stored(c)
    PROVE  /\ m \in MessageType
           /\ \E t \in Turns : /\ turns[t] # None /\ turns[t].conv = c
                               /\ m.by \in {turns[t].user, turns[t].answer} \ {None}
  <1> DEFINE mine == {t \in Turns : turns[t] # None /\ turns[t].conv = c}
             at(t) == run[turns[t].by].at
  <1>1. PICK t \in mine : \/ m = Message(turns[t].user, 0, at(t))
                          \/ /\ turns[t].answer # None
                             /\ m = Message(turns[t].answer, 1, at(t))
    BY DEF Stored
  <1>2. turns[t] \in RowType
    BY <1>1 DEF TypeOK
  <1>3. at(t) \in Nat
    BY <1>2 DEF TypeOK, RowType, RunType
  <1>4. /\ turns[t].user \in Runs /\ turns[t].user # None
        /\ turns[t].answer \in Runs \cup {None}
    BY <1>2, ConversationsAssumption DEF RowType
  <1> HIDE DEF at
  <1>5. m \in MessageType
    BY <1>1, <1>3, <1>4 DEF Message, MessageType
  <1>6. m.by \in {turns[t].user, turns[t].answer} \ {None}
    BY <1>1, <1>4 DEF Message
  <1> QED BY <1>1, <1>5, <1>6

(***************************************************************************)
(* The inductive invariant                                                  *)
(***************************************************************************)
Present(r) == run[r].pc \notin {"idle", "refused"}
Parts(w) == {w.by, w.user, w.answer} \ {None}

\* A run that has begun has the input it was begun with.
Given == \A r \in Runs : run[r].pc # "idle" => run[r].input \in Inputs

\* RowsOfOneParty, and the runs of a row were admitted.
Rows ==
    \A t \in Turns : turns[t] # None =>
        /\ convs[turns[t].conv] # None
        /\ \A r \in Parts(turns[t]) :
              /\ Present(r)
              /\ TurnOf(r) = t /\ ConvOf(r) = turns[t].conv
              /\ Party(ScopeOf(r)) = Party(convs[turns[t].conv])

\* An admitted run belongs to the party of its conversation as long as the
\* conversation was never deleted.
Members ==
    \A r \in Runs : Present(r) /\ ConvOf(r) \notin deleted =>
        /\ convs[ConvOf(r)] # None
        /\ Party(ScopeOf(r)) = Party(convs[ConvOf(r)])

\* The messages were written by admitted runs of the conversation.
InConv(ms, c) == \A m \in ms : Present(m.by) /\ ConvOf(m.by) = c

Windows == \A c \in Convs : InConv(window[c], c)

Results ==
    \A r \in Runs :
        /\ ~Present(r) => run[r].result = {} /\ run[r].hydrated = None
        /\ InConv(run[r].result, ConvOf(r))
        /\ run[r].hydrated # None => InConv(run[r].hydrated, ConvOf(r))

IInv == TypeOK /\ Given /\ Rows /\ Members /\ Windows /\ Results

\* The invariant holds initially.
LEMMA InitIInv == Init => IInv
  <1> SUFFICES ASSUME Init PROVE IInv
    OBVIOUS
  <1> USE DEF Init
  <1>1. TypeOK
    BY ConversationsAssumption DEF TypeOK, NoRun, RunType
  <1>2. Given /\ Rows /\ Members
    BY DEF Given, Rows, Members, Present, NoRun
  <1>3. Windows /\ Results
    BY DEF Windows, Results, InConv, NoRun, Present
  <1> QED BY <1>1, <1>2, <1>3 DEF IInv

\* What is claimed for an input is a scope, and what the guard allows is of
\* its party.
LEMMA ClaimedScope ==
    ASSUME TypeOK, NEW i \in Inputs
    PROVE  /\ i.scope \in ScopeType /\ i.conv \in Convs /\ i.turn \in Turns
           /\ Claimed(i) \in ScopeType
  <1>1. i.scope \in ScopeType /\ i.conv \in Convs /\ i.turn \in Turns
    BY ConversationsAssumption DEF InputType
  <1> QED BY <1>1 DEF Claimed, TypeOK

(***************************************************************************)
(* Steps                                                                    *)
(***************************************************************************)
\* A step of an admitted run that leaves the tables alone keeps the invariant
\* if what it reads and records was written by admitted runs of its
\* conversation.
LEMMA RunStepKeeps ==
    ASSUME IInv, NEW r \in Runs, NEW q \in RunType, Present(r),
           run' = [run EXCEPT ![r] = q], q.input = run[r].input,
           q.pc \notin {"idle", "refused"},
           InConv(q.result, ConvOf(r)),
           q.hydrated # None => InConv(q.hydrated, ConvOf(r)),
           window' \in [Convs -> SUBSET MessageType],
           \A c \in Convs : InConv(window'[c], c),
           ledger' \in [Convs -> SUBSET MessageType],
           clock' \in Nat, lost' \subseteq Convs,
           UNCHANGED <<convs, turns, deleted, faults>>
    PROVE  IInv'
  <1> USE DEF IInv
  <1>1. TypeOK'
    BY DEF TypeOK
  <1>2. \A x \in Runs : /\ run'[x].input = run[x].input
                        /\ x # r => run'[x] = run[x]
    BY DEF TypeOK
  <1>2a. run'[r] = q
    BY DEF TypeOK
  <1>3. \A x \in Runs : Present(x) <=> Present(x)'
    BY <1>2, <1>2a DEF Present
  <1>4. Given'
    BY <1>2, <1>2a, <1>3 DEF Given, Present
  <1>5. \A t \in Turns : turns[t] # None => Parts(turns[t]) \subseteq Runs
    BY DEF TypeOK, RowType, Parts
  <1>6. Rows'
    BY <1>2, <1>3, <1>5 DEF Rows, TurnOf, ConvOf, ScopeOf
  <1>7. Members'
    BY <1>2, <1>3 DEF Members, ConvOf, ScopeOf
  <1>8. \A ms, c : ms \subseteq MessageType /\ InConv(ms, c) =>
            \A m \in ms : Present(m.by)' /\ ConvOf(m.by)' = c
    BY <1>2, <1>3 DEF InConv, ConvOf, MessageType
  <1>9. Windows'
    BY <1>1, <1>8 DEF Windows, TypeOK, InConv
  <1>10. ASSUME NEW x \in Runs
         PROVE  /\ ~Present(x)' => run'[x].result = {}
                                          /\ run'[x].hydrated = None
                /\ InConv(run[x].result, ConvOf(x))'
                /\ run'[x].hydrated # None =>
                      InConv(run[x].hydrated, ConvOf(x))'
    <2>1. /\ ~Present(x)' => run'[x].result = {} /\ run'[x].hydrated = None
          /\ InConv(run'[x].result, ConvOf(x))
          /\ run'[x].hydrated # None => InConv(run'[x].hydrated, ConvOf(x))
      <3>1. CASE x = r
        BY <3>1, <1>2a DEF Results, Present
      <3>2. CASE x # r
        BY <3>2, <1>2 DEF Results, Present
      <3> QED BY <3>1, <3>2
    <2>2. /\ run'[x].result \subseteq MessageType
          /\ run'[x].hydrated # None => run'[x].hydrated \subseteq MessageType
      BY <1>1 DEF TypeOK, RunType
    <2>3. ConvOf(x)' = ConvOf(x)
      BY <1>2 DEF ConvOf
    <2>4. \A m \in run'[x].result : Present(m.by)' /\ ConvOf(m.by)' = ConvOf(x)
      BY <1>8, <2>1, <2>2
    <2>5. run'[x].hydrated # None =>
            \A m \in run'[x].hydrated : Present(m.by)' /\ ConvOf(m.by)' = ConvOf(x)
      BY <1>8, <2>1, <2>2
    <2> QED BY <2>1, <2>3, <2>4, <2>5 DEF InConv
  <1>11. Results'
    BY <1>10 DEF Results
  <1> QED BY <1>1, <1>4, <1>6, <1>7, <1>9, <1>11

\* What replace_turn leaves in the windows was there before or is new.
LEMMA ReplaceTurnKeeps ==
    ASSUME IInv, NEW r \in Runs, NEW ms \in SUBSET MessageType, Present(r),
           \A m \in ms : m.by = r,
           replace_turn(r, ms)
    PROVE  /\ window' \in [Convs -> SUBSET MessageType]
           /\ ledger' \in [Convs -> SUBSET MessageType]
           /\ \A c \in Convs : InConv(window'[c], c)
  <1> DEFINE k == ConvOf(r)
             others(old) == old \ OfTurn(old, TurnOf(r))
             new == _merge_tail(others(window[k]), ms, WindowSize)
  <1>1. run[r].input \in Inputs
    BY DEF IInv, Given, Present
  <1>2. k \in Convs
    BY <1>1, ClaimedScope DEF IInv, ConvOf
  <1>3. window' = [window EXCEPT ![k] = new]
    BY DEF replace_turn
  <1>4. ledger' = [ledger EXCEPT ![k] = others(ledger[k]) \cup ms]
    BY DEF replace_turn
  <1>5. new \subseteq window[k] \cup ms
    BY WindowSubsets
  <1> HIDE DEF new
  <1>6. ledger' \in [Convs -> SUBSET MessageType]
    BY <1>2, <1>4 DEF IInv, TypeOK
  <1>7. window' \in [Convs -> SUBSET MessageType]
    BY <1>2, <1>3, <1>5 DEF IInv, TypeOK
  <1>8. ASSUME NEW c \in Convs PROVE InConv(window'[c], c)
    <2>1. CASE c = k
      <3>1. window'[c] = new
        BY <1>2, <1>3, <2>1 DEF IInv, TypeOK
      <3>2. InConv(window[k], k)
        BY <1>2 DEF IInv, Windows
      <3>3. InConv(ms, k)
        BY DEF InConv
      <3> QED BY <1>5, <2>1, <3>1, <3>2, <3>3 DEF InConv
    <2>2. CASE c # k
      <3>1. window'[c] = window[c]
        BY <1>2, <1>3, <2>2 DEF IInv, TypeOK
      <3> QED BY <3>1 DEF IInv, Windows
    <2> QED BY <2>1, <2>2
  <1> QED BY <1>6, <1>7, <1>8

\* What a read of run r may see was written by admitted runs of its
\* conversation.
LEMMA ReadableMessages ==
    ASSUME IInv, NEW r \in Runs, Present(r)
    PROVE  /\ ConvOf(r) \in Convs
           /\ window[ConvOf(r)] \subseteq MessageType
           /\ InConv(window[ConvOf(r)], ConvOf(r))
           /\ Stored(ConvOf(r)) \subseteq MessageType
           /\ InConv(Stored(ConvOf(r)), ConvOf(r))
  <1> DEFINE c == ConvOf(r)
  <1>1. run[r].input \in Inputs
    BY DEF IInv, Given, Present
  <1>2. c \in Convs
    BY <1>1, ClaimedScope DEF IInv, ConvOf
  <1>3. window[c] \subseteq MessageType /\ InConv(window[c], c)
    BY <1>2 DEF IInv, TypeOK, Windows
  <1>4. ASSUME NEW m \in Stored(c)
        PROVE  m \in MessageType /\ Present(m.by) /\ ConvOf(m.by) = c
    <2>1. m \in MessageType
      BY <1>2, StoredMessages DEF IInv
    <2>2. PICK t \in Turns :
              /\ turns[t] # None /\ turns[t].conv = c
              /\ m.by \in {turns[t].user, turns[t].answer} \ {None}
      BY <1>2, StoredMessages DEF IInv
    <2> QED BY <2>1, <2>2 DEF IInv, Rows, Parts
  <1> QED BY <1>2, <1>3, <1>4 DEF InConv

\* The actions of an admitted run that do not write the tables.
LEMMA RunActionsKeep ==
    ASSUME IInv, NEW r \in Runs,
           \/ Remember(r) \/ ReadCached(r) \/ Hydrate(r) \/ HydrateFails(r)
           \/ Merge(r) \/ PersistFails(r)
           \/ \E answered \in BOOLEAN : Finalize(r, answered)
    PROVE  IInv'
  <1>0. Present(r)
    BY DEF Present, Remember, ReadCached, Hydrate, HydrateFails, Merge,
           PersistFails, Finalize
  <1>0a. /\ run[r] \in RunType /\ clock \in Nat
         /\ run \in [Runs -> RunType]
         /\ window \in [Convs -> SUBSET MessageType]
         /\ ledger \in [Convs -> SUBSET MessageType]
         /\ lost \subseteq Convs
    BY DEF IInv, TypeOK
  <1>0b. \A c \in Convs : InConv(window[c], c)
    BY DEF IInv, Windows
  <1>0c. /\ InConv(run[r].result, ConvOf(r))
         /\ run[r].hydrated # None => InConv(run[r].hydrated, ConvOf(r))
    BY DEF IInv, Results
  <1>0d. InConv({}, ConvOf(r)) /\ {} \subseteq MessageType
    BY DEF InConv
  <1>1. CASE Remember(r)
    <2> DEFINE now == clock + 1
               q == [run[r] EXCEPT !.pc = "remembered", !.at = now]
               m == Message(r, 0, now)
    <2>0. now \in Nat
      BY <1>0a
    <2>1a. /\ replace_turn(r, {m}) /\ clock' = now
           /\ run' = [run EXCEPT ![r].pc = "remembered", ![r].at = now]
           /\ UNCHANGED <<convs, turns, deleted, lost, faults>>
      BY <1>1 DEF Remember
    <2> HIDE DEF now
    <2>1. {m} \in SUBSET MessageType /\ m.by = r
      BY <2>0 DEF Message, MessageType
    <2>2. replace_turn(r, {m})
      BY <2>1a
    <2>3. q \in RunType /\ q.input = run[r].input /\ q.pc = "remembered"
          /\ q.result = run[r].result /\ q.hydrated = run[r].hydrated
      BY <1>0a, <2>0 DEF RunType
    <2>4. run' = [run EXCEPT ![r] = q] /\ clock' \in Nat
          /\ UNCHANGED <<convs, turns, deleted, lost, faults>>
      BY <1>0a, <2>0, <2>1a
    <2> HIDE DEF q, m
    <2>5. /\ window' \in [Convs -> SUBSET MessageType]
          /\ ledger' \in [Convs -> SUBSET MessageType]
          /\ \A c \in Convs : InConv(window'[c], c)
      BY <1>0, <2>1, <2>2, ReplaceTurnKeeps
    <2> QED BY <1>0, <1>0a, <1>0c, <2>3, <2>4, <2>5, RunStepKeeps
  <1>2. CASE ReadCached(r)
    <2> DEFINE full == Cardinality(_cached_window(r)) >= ReadSize
               q == IF full
                    THEN [run[r] EXCEPT !.pc = "read",
                                        !.result = _cached_window(r)]
                    ELSE [run[r] EXCEPT !.pc = "hydrating"]
    <2>1. _cached_window(r) \subseteq MessageType
          /\ InConv(_cached_window(r), ConvOf(r))
      BY <1>0, ReadableMessages, WindowSubsets DEF InConv
    <2>2. q \in RunType /\ q.input = run[r].input
          /\ q.pc \in {"read", "hydrating"}
          /\ q.result \in {run[r].result, _cached_window(r)}
          /\ q.hydrated = run[r].hydrated
      BY <1>0a, <2>1 DEF RunType
    <2>3. run' = [run EXCEPT ![r] = q]
          /\ UNCHANGED <<convs, turns, window, clock, ledger, deleted, lost, faults>>
      BY <1>0a, <1>2 DEF ReadCached
    <2> HIDE DEF q
    <2> QED BY <1>0, <1>0a, <1>0b, <1>0c, <2>1, <2>2, <2>3, RunStepKeeps
  <1>3. CASE Hydrate(r)
    <2> DEFINE h == Visible(Tail(Stored(ConvOf(r)), ReadSize + 2), r)
               q == [run[r] EXCEPT !.pc = "merge", !.hydrated = h]
    <2>1. h \subseteq MessageType /\ InConv(h, ConvOf(r))
      <3>1. h \subseteq Stored(ConvOf(r))
        BY WindowSubsets
      <3> QED BY <1>0, <3>1, ReadableMessages DEF InConv
    <2> HIDE DEF h
    <2>2. q \in RunType /\ q.input = run[r].input /\ q.pc = "merge"
          /\ q.result = run[r].result /\ q.hydrated = h
      BY <1>0a, <2>1 DEF RunType
    <2>3. run' = [run EXCEPT ![r] = q]
          /\ UNCHANGED <<convs, turns, window, clock, ledger, deleted, lost, faults>>
      BY <1>0a, <1>3 DEF Hydrate, h
    <2> HIDE DEF q
    <2> QED BY <1>0, <1>0a, <1>0b, <1>0c, <2>1, <2>2, <2>3, RunStepKeeps
  <1>4. CASE HydrateFails(r)
    <2> DEFINE q == [run[r] EXCEPT !.pc = "merge"]
    <2>1. q \in RunType /\ q.input = run[r].input /\ q.pc = "merge"
          /\ q.result = run[r].result /\ q.hydrated = run[r].hydrated
      BY <1>0a DEF RunType
    <2>2. run' = [run EXCEPT ![r] = q]
          /\ UNCHANGED <<convs, turns, window, clock, ledger, deleted, lost, faults>>
      BY <1>0a, <1>4 DEF HydrateFails
    <2> HIDE DEF q
    <2> QED BY <1>0, <1>0a, <1>0b, <1>0c, <2>1, <2>2, RunStepKeeps
  <1>5. CASE Merge(r)
    <2> DEFINE g == IF run[r].hydrated = None THEN _cached_window(r)
                    ELSE _merge_tail(run[r].hydrated, _cached_window(r), ReadSize)
               q == [run[r] EXCEPT !.pc = "read", !.hydrated = None, !.result = g]
    <2>1. g \subseteq MessageType /\ InConv(g, ConvOf(r))
      <3>1. /\ _cached_window(r) \subseteq MessageType
            /\ InConv(_cached_window(r), ConvOf(r))
        BY <1>0, ReadableMessages, WindowSubsets DEF InConv
      <3>2. CASE run[r].hydrated = None
        BY <3>1, <3>2
      <3>3. CASE run[r].hydrated # None
        <4>1. g \subseteq run[r].hydrated \cup _cached_window(r)
          BY <3>3, WindowSubsets
        <4>2. run[r].hydrated \subseteq MessageType
          BY <1>0a, <3>3 DEF RunType
        <4> QED BY <1>0c, <3>1, <3>3, <4>1, <4>2 DEF InConv
      <3> QED BY <3>2, <3>3
    <2> HIDE DEF g
    <2>2. q \in RunType /\ q.input = run[r].input /\ q.pc = "read"
          /\ q.result = g /\ q.hydrated = None
      BY <1>0a, <2>1 DEF RunType
    <2>3. run' = [run EXCEPT ![r] = q]
          /\ UNCHANGED <<convs, turns, window, clock, ledger, deleted, lost, faults>>
      BY <1>0a, <1>5 DEF Merge, g
    <2> HIDE DEF q
    <2> QED BY <1>0, <1>0a, <1>0b, <2>1, <2>2, <2>3, RunStepKeeps
  <1>6. CASE PersistFails(r)
    <2> DEFINE q == [run[r] EXCEPT !.pc = "done"]
    <2>1. q \in RunType /\ q.input = run[r].input /\ q.pc = "done"
          /\ q.result = run[r].result /\ q.hydrated = run[r].hydrated
      BY <1>0a DEF RunType
    <2>2. run' = [run EXCEPT ![r] = q]
          /\ UNCHANGED <<convs, turns, window, clock, ledger, deleted, faults>>
      BY <1>0a, <1>6 DEF PersistFails
    <2>3. lost' \subseteq Convs
      BY <1>0, <1>0a, <1>6, ReadableMessages DEF PersistFails
    <2> HIDE DEF q
    <2> QED BY <1>0, <1>0a, <1>0b, <1>0c, <2>1, <2>2, <2>3, RunStepKeeps
  <1>7. ASSUME NEW answered \in BOOLEAN, Finalize(r, answered) PROVE IInv'
    <2> DEFINE q == [run[r] EXCEPT !.pc = "persist", !.answered = answered,
                                   !.hydrated = None, !.result = {}]
               ms == {Message(r, 0, run[r].at)} \cup
                       (IF answered THEN {Message(r, 1, run[r].at)} ELSE {})
    <2>1. ms \in SUBSET MessageType /\ \A m \in ms : m.by = r
      BY <1>0a DEF Message, MessageType, RunType
    <2>2. replace_turn(r, ms)
      BY <1>7 DEF Finalize
    <2>3. q \in RunType /\ q.input = run[r].input /\ q.pc = "persist"
          /\ q.result = {} /\ q.hydrated = None
      BY <1>0a DEF RunType
    <2>4. run' = [run EXCEPT ![r] = q]
          /\ UNCHANGED <<convs, turns, clock, deleted, lost, faults>>
      BY <1>0a, <1>7 DEF Finalize
    <2> HIDE DEF q, ms
    <2>5. /\ window' \in [Convs -> SUBSET MessageType]
          /\ ledger' \in [Convs -> SUBSET MessageType]
          /\ \A c \in Convs : InConv(window'[c], c)
      BY <1>0, <2>1, <2>2, ReplaceTurnKeeps
    <2> QED BY <1>0, <1>0a, <1>0d, <2>3, <2>4, <2>5, RunStepKeeps
  <1> QED BY <1>1, <1>2, <1>3, <1>4, <1>5, <1>6, <1>7


\* As long as admitted runs stay admitted and keep their input, messages stay
\* messages of their conversation.
LEMMA InputsStay ==
    ASSUME \A x \in Runs : Present(x) =>
               Present(x)' /\ run'[x].input = run[x].input
    PROVE  \A ms \in SUBSET MessageType : \A c :
               InConv(ms, c) => \A m \in ms : Present(m.by)' /\ ConvOf(m.by)' = c
  BY DEF InConv, ConvOf, MessageType

\* Windows and reads of the other runs are not touched by a step that only
\* moves run r.
LEMMA ReadsStay ==
    ASSUME IInv, TypeOK', NEW r \in Runs, NEW q \in RunType,
           run' = [run EXCEPT ![r] = q],
           Present(r) => q.input = run[r].input /\ q.pc \notin {"idle", "refused"},
           q.pc # "idle",
           run[r].pc = "idle" \/ q.input = run[r].input,
           q.result = run[r].result, q.hydrated = run[r].hydrated,
           window' = window
    PROVE  /\ Windows' /\ Results'
           /\ \A x \in Runs : Present(x) =>
                  Present(x)' /\ run'[x].input = run[x].input
  <1>1. run'[r] = q /\ \A x \in Runs : x # r => run'[x] = run[x]
    BY DEF IInv, TypeOK
  <1>2. \A x \in Runs : Present(x) =>
            Present(x)' /\ run'[x].input = run[x].input
    BY <1>1 DEF Present
  <1>3. \A ms \in SUBSET MessageType : \A c :
            InConv(ms, c) => \A m \in ms : Present(m.by)' /\ ConvOf(m.by)' = c
    BY <1>2, InputsStay
  <1>4. Windows'
    <2> SUFFICES ASSUME NEW c \in Convs
                 PROVE  \A m \in window'[c] : Present(m.by)' /\ ConvOf(m.by)' = c
      BY DEF Windows, InConv
    <2>1. window[c] \in SUBSET MessageType /\ InConv(window[c], c)
      BY DEF IInv, TypeOK, Windows
    <2> QED BY <1>3, <2>1
  <1>5. ASSUME NEW x \in Runs
        PROVE  /\ ~Present(x)' => run'[x].result = {}
                                         /\ run'[x].hydrated = None
               /\ InConv(run[x].result, ConvOf(x))'
               /\ run'[x].hydrated # None => InConv(run[x].hydrated, ConvOf(x))'
    <2>1. /\ run'[x].result = run[x].result /\ run'[x].hydrated = run[x].hydrated
          /\ ~Present(x)' => ~Present(x)
          /\ run[x].pc = "idle" \/ run'[x].input = run[x].input
      BY <1>1 DEF Present
    <2>2. /\ run[x].result \in SUBSET MessageType
          /\ run[x].hydrated # None => run[x].hydrated \in SUBSET MessageType
      BY DEF IInv, TypeOK, RunType
    <2>3. /\ ~Present(x) => run[x].result = {} /\ run[x].hydrated = None
          /\ InConv(run[x].result, ConvOf(x))
          /\ run[x].hydrated # None => InConv(run[x].hydrated, ConvOf(x))
      BY DEF IInv, Results
    <2>4. CASE run[x].pc = "idle"
      BY <2>1, <2>3, <2>4 DEF InConv, Present
    <2>5. CASE run[x].pc # "idle"
      <3>1. ConvOf(x)' = ConvOf(x)
        BY <2>1, <2>5 DEF ConvOf
      <3>2. \A m \in run[x].result : Present(m.by)' /\ ConvOf(m.by)' = ConvOf(x)
        BY <1>3, <2>2, <2>3
      <3>3. run[x].hydrated # None => \A m \in run[x].hydrated :
                Present(m.by)' /\ ConvOf(m.by)' = ConvOf(x)
        BY <1>3, <2>2, <2>3
      <3> QED BY <2>1, <2>3, <2>5, <3>1, <3>2, <3>3 DEF InConv
    <2> QED BY <2>4, <2>5
  <1>6. Results'
    BY <1>5 DEF Results
  <1> QED BY <1>2, <1>4, <1>6

\* The runs a row names are runs.
LEMMA PartsAreRuns ==
    ASSUME TypeOK, NEW t \in Turns, turns[t] # None
    PROVE  turns[t] \in RowType /\ Parts(turns[t]) \subseteq Runs
  BY DEF TypeOK, RowType, Parts

\* A refused run leaves no trace.
LEMMA RefuseKeeps ==
    ASSUME IInv, NEW r \in Runs, NEW i \in Inputs, Refuse(r, i)
    PROVE  IInv'
  <1> DEFINE q == [run[r] EXCEPT !.pc = "refused", !.input = i]
  <1>0. run \in [Runs -> RunType] /\ run[r].pc = "idle"
    BY DEF IInv, TypeOK, Refuse
  <1>1. q \in RunType /\ q.pc = "refused" /\ q.input = i
        /\ q.result = run[r].result /\ q.hydrated = run[r].hydrated
    BY <1>0 DEF RunType
  <1>2. run' = [run EXCEPT ![r] = q]
        /\ UNCHANGED <<convs, turns, window, clock, ledger, deleted, lost, faults>>
    BY <1>0 DEF Refuse
  <1> HIDE DEF q
  <1>3. TypeOK'
    BY <1>1, <1>2 DEF IInv, TypeOK
  <1>4. ~Present(r) /\ run'[r] = q /\ \A x \in Runs : x # r => run'[x] = run[x]
    BY <1>0, <1>2 DEF Present
  <1>5. Windows' /\ Results' /\ \A x \in Runs : Present(x) =>
            Present(x)' /\ run'[x].input = run[x].input
    BY <1>0, <1>1, <1>2, <1>3, <1>4, ReadsStay
  <1>6. Given'
    BY <1>1, <1>4 DEF IInv, Given
  <1>7. Members'
    <2>1. \A x \in Runs : Present(x)' => Present(x) /\ run'[x] = run[x]
      BY <1>1, <1>4 DEF Present
    <2> QED BY <1>2, <2>1 DEF IInv, Members, ConvOf, ScopeOf
  <1>8. Rows'
    BY <1>2, <1>5, PartsAreRuns DEF IInv, Rows, TurnOf, ConvOf, ScopeOf
  <1> QED BY <1>3, <1>5, <1>6, <1>7, <1>8 DEF IInv

\* A step of run r with input i that binds the conversation to scope d, of the
\* party already bound to it, keeps the invariant if the row it writes, if
\* any, names only the run and the runs of the row it replaces.
LEMMA BindKeeps ==
    ASSUME IInv, NEW r \in Runs, NEW i \in Inputs, NEW d \in ScopeType,
           NEW q \in RunType, run' = [run EXCEPT ![r] = q],
           q.input = i, q.pc \notin {"idle", "refused"},
           q.result = run[r].result, q.hydrated = run[r].hydrated,
           run[r].pc = "idle" \/ (Present(r) /\ run[r].input = i),
           Party(d) = Party(Claimed(i)), Party(i.scope) = Party(d),
           convs' = [convs EXCEPT ![i.conv] = d],
           \/ turns' = turns
           \/ \E w \in RowType :
                 /\ turns' = [turns EXCEPT ![i.turn] = w]
                 /\ w.conv = i.conv
                 /\ \A x \in Parts(w) :
                       \/ x = r
                       \/ /\ turns[i.turn] # None /\ turns[i.turn].conv = i.conv
                          /\ x \in Parts(turns[i.turn]),
           UNCHANGED <<window, clock, ledger, deleted, lost, faults>>
    PROVE  IInv'
  <1>0. i.scope \in ScopeType /\ i.conv \in Convs /\ i.turn \in Turns
    BY ClaimedScope DEF IInv
  <1>1. TypeOK'
    BY <1>0 DEF IInv, TypeOK
  <1>2. run'[r] = q /\ \A x \in Runs : x # r => run'[x] = run[x]
    BY DEF IInv, TypeOK
  <1>3. Present(r)' /\ TurnOf(r)' = i.turn /\ ConvOf(r)' = i.conv
        /\ ScopeOf(r)' = i.scope
    BY <1>2 DEF Present, TurnOf, ConvOf, ScopeOf
  <1>4. Windows' /\ Results' /\ \A x \in Runs : Present(x) =>
            Present(x)' /\ run'[x].input = run[x].input
    BY <1>1, ReadsStay DEF Present
  <1>5. Given'
    BY <1>2 DEF IInv, Given
  <1>6. convs'[i.conv] = d /\ \A c \in Convs : c # i.conv => convs'[c] = convs[c]
    BY <1>0 DEF IInv, TypeOK
  <1>7. d # None /\ Party(i.scope) = Party(d)
    BY ConversationsAssumption
  <1>8. convs[i.conv] # None => Party(d) = Party(convs[i.conv])
    BY DEF Claimed
  <1>9. Members'
    <2> SUFFICES ASSUME NEW x \in Runs, Present(x)', ConvOf(x)' \notin deleted
                 PROVE  /\ convs'[ConvOf(x)'] # None
                        /\ Party(ScopeOf(x)') = Party(convs'[ConvOf(x)'])
      BY DEF Members
    <2>1. CASE x = r
      BY <1>3, <1>6, <1>7, <2>1
    <2>2. CASE x # r
      <3>1. Present(x) /\ ConvOf(x)' = ConvOf(x) /\ ScopeOf(x)' = ScopeOf(x)
        BY <1>2, <2>2 DEF Present, ConvOf, ScopeOf
      <3>2. /\ convs[ConvOf(x)] # None
            /\ Party(ScopeOf(x)) = Party(convs[ConvOf(x)])
        BY <3>1 DEF IInv, Members
      <3>3. ConvOf(x) \in Convs
        BY <3>1, ReadableMessages
      <3> QED BY <1>6, <1>7, <1>8, <3>1, <3>2, <3>3
    <2> QED BY <2>1, <2>2
  <1>10. \* Rows that were there still belong to the party of their conversation.
         ASSUME NEW t \in Turns, turns[t] # None, NEW x \in Parts(turns[t])
         PROVE  /\ Present(x)' /\ TurnOf(x)' = t /\ ConvOf(x)' = turns[t].conv
                /\ convs'[turns[t].conv] # None
                /\ Party(ScopeOf(x)') = Party(convs'[turns[t].conv])
    <2>1. turns[t] \in RowType /\ x \in Runs
      BY <1>10, PartsAreRuns DEF IInv
    <2>2. turns[t].conv \in Convs
      BY <2>1 DEF RowType
    <2>3. /\ Present(x) /\ TurnOf(x) = t /\ ConvOf(x) = turns[t].conv
          /\ convs[turns[t].conv] # None
          /\ Party(ScopeOf(x)) = Party(convs[turns[t].conv])
      BY <1>10 DEF IInv, Rows
    <2>4. Present(x)' /\ TurnOf(x)' = TurnOf(x) /\ ConvOf(x)' = ConvOf(x)
          /\ ScopeOf(x)' = ScopeOf(x)
      BY <1>4, <2>1, <2>3 DEF TurnOf, ConvOf, ScopeOf
    <2> QED BY <1>6, <1>7, <1>8, <2>2, <2>3, <2>4
  <1>11. \A t \in Turns : turns[t] # None => convs'[turns[t].conv] # None
    <2> SUFFICES ASSUME NEW t \in Turns, turns[t] # None
                 PROVE  convs'[turns[t].conv] # None
      OBVIOUS
    <2>1. turns[t].conv \in Convs
      BY PartsAreRuns DEF IInv, RowType
    <2>2. convs[turns[t].conv] # None
      BY DEF IInv, Rows
    <2> QED BY <1>6, <1>7, <2>1, <2>2
  <1>12. Rows'
    <2> SUFFICES ASSUME NEW t \in Turns, turns'[t] # None
                 PROVE  /\ convs'[turns'[t].conv] # None
                        /\ \A x \in Parts(turns'[t]) :
                              /\ Present(x)' /\ TurnOf(x)' = t
                              /\ ConvOf(x)' = turns'[t].conv
                              /\ Party(ScopeOf(x)') = Party(convs'[turns'[t].conv])
      BY ZenonT(40) DEF Rows, Parts, Party
    <2>1. CASE turns'[t] = turns[t]
      BY <1>10, <1>11, <2>1
    <2>2. CASE turns'[t] # turns[t]
      <3>1. PICK w \in RowType :
              /\ turns' = [turns EXCEPT ![i.turn] = w]
              /\ w.conv = i.conv
              /\ \A x \in Parts(w) :
                    \/ x = r
                    \/ /\ turns[i.turn] # None /\ turns[i.turn].conv = i.conv
                       /\ x \in Parts(turns[i.turn])
        BY <2>2
      <3>2. t = i.turn /\ turns'[t] = w
        BY <1>0, <2>2, <3>1 DEF IInv, TypeOK
      <3> QED BY <1>0, <1>3, <1>6, <1>7, <1>10, <3>1, <3>2
    <2> QED BY <2>1, <2>2
  <1> QED BY <1>1, <1>4, <1>5, <1>9, <1>12 DEF IInv


\* What the guard allows is of the party that is claimed for it.
LEMMA AllowedParty ==
    ASSUME TypeOK, NEW i \in Inputs, Allowed(i)
    PROVE  LET d == [Claimed(i) EXCEPT !.device = i.scope.device] IN
           /\ Claimed(i) \in ScopeType /\ d \in ScopeType
           /\ Party(i.scope) = Party(Claimed(i))
           /\ Party(d) = Party(Claimed(i))
  <1>1. i.scope \in ScopeType /\ Claimed(i) \in ScopeType
    BY ClaimedScope
  <1>2. _verify_conversation_scope(Claimed(i), i.scope)
    BY DEF Allowed
  <1> QED BY <1>1, <1>2, VerifiedIsSameParty

\* Admitting a run binds the conversation to it, or it to the conversation.
LEMMA AdmitKeeps ==
    ASSUME IInv, NEW r \in Runs, NEW i \in Inputs, Admit(r, i)
    PROVE  IInv'
  <1> DEFINE q == [run[r] EXCEPT !.pc = "admitted", !.input = i]
  <1>0. run \in [Runs -> RunType] /\ run[r].pc = "idle"
    BY DEF IInv, TypeOK, Admit
  <1>1. q \in RunType /\ q.pc = "admitted" /\ q.input = i
        /\ q.result = run[r].result /\ q.hydrated = run[r].hydrated
    BY <1>0 DEF RunType
  <1>2. /\ run' = [run EXCEPT ![r] = q]
        /\ convs' = [convs EXCEPT ![i.conv] = Claimed(i)]
        /\ UNCHANGED <<turns, window, clock, ledger, deleted, lost, faults>>
    BY <1>0 DEF Admit
  <1> HIDE DEF q
  <1>3. Claimed(i) \in ScopeType /\ Party(i.scope) = Party(Claimed(i))
    BY AllowedParty DEF IInv, Admit
  <1> QED BY <1>0, <1>1, <1>2, <1>3, BindKeeps

\* Writing a run's rows: the boundary is checked again, so the rows and the
\* conversation stay of one party even if the conversation was deleted and
\* claimed by somebody else since the run was admitted.
LEMMA PersistKeeps ==
    ASSUME IInv, NEW r \in Runs, Persist(r)
    PROVE  IInv'
  <1> DEFINE i == run[r].input
             d == [Claimed(i) EXCEPT !.device = i.scope.device]
             q == [run[r] EXCEPT !.pc = "done"]
             w == Written(r)
             old == turns[i.turn]
  <1>0. /\ run \in [Runs -> RunType] /\ Present(r) /\ i \in Inputs
        /\ TypeOK /\ Allowed(i)
    BY DEF IInv, TypeOK, Persist, Present, Given
  <1>1. q \in RunType /\ q.pc = "done" /\ q.input = i
        /\ q.result = run[r].result /\ q.hydrated = run[r].hydrated
    BY <1>0 DEF RunType
  <1>2. /\ run' = [run EXCEPT ![r] = q]
        /\ convs' = [convs EXCEPT ![i.conv] = d]
        /\ turns' = [turns EXCEPT ![i.turn] = w]
        /\ UNCHANGED <<window, clock, ledger, deleted, lost, faults>>
    BY <1>0 DEF Persist
  <1>3. /\ d \in ScopeType /\ Party(d) = Party(Claimed(i))
        /\ Party(i.scope) = Party(d)
    BY <1>0, AllowedParty
  <1>4. i.conv \in Convs /\ i.turn \in Turns
    BY <1>0, ClaimedScope
  <1>5. old # None => old \in RowType /\ old.conv = i.conv
    BY <1>0, <1>4, PartsAreRuns DEF Allowed, _verify_existing_turn_scope
  <1>6. /\ w.conv = i.conv /\ w.by = r /\ w.user = r
        /\ w.answer = IF run[r].answered THEN r
                      ELSE IF old = None THEN None ELSE old.answer
    BY DEF Written
  <1>7. w \in RowType
    BY <1>4, <1>5 DEF Written, RowType
  <1>8. \A x \in Parts(w) :
            \/ x = r
            \/ /\ old # None /\ old.conv = i.conv
               /\ x \in Parts(old)
    BY <1>5, <1>6 DEF Parts
  <1> HIDE DEF i, d, q, w, old
  <1>9. \E v \in RowType :
            /\ turns' = [turns EXCEPT ![i.turn] = v]
            /\ v.conv = i.conv
            /\ \A x \in Parts(v) :
                  \/ x = r
                  \/ /\ turns[i.turn] # None /\ turns[i.turn].conv = i.conv
                     /\ x \in Parts(turns[i.turn])
    BY <1>2, <1>6, <1>7, <1>8 DEF old
  <1>10. run[r].input = i
    BY DEF i
  <1> QED BY <1>0, <1>1, <1>2, <1>3, <1>9, <1>10, BindKeeps

\* Deleting an owner removes the conversations and every row of them.
LEMMA DeleteKeeps ==
    ASSUME IInv, NEW o, DeleteOwnerRuntime(o)
    PROVE  IInv'
  <1> DEFINE gone == {c \in Convs : convs[c] # None /\ convs[c].owner = o}
  <1>1. /\ convs' = [c \in Convs |-> IF c \in gone THEN None ELSE convs[c]]
        /\ turns' = [t \in Turns |-> IF turns[t] # None /\ turns[t].conv \in gone
                                     THEN None ELSE turns[t]]
        /\ deleted' = deleted \cup gone
        /\ faults' = faults + 1
        /\ UNCHANGED <<window, run, clock, ledger, lost>>
    BY DEF DeleteOwnerRuntime
  <1>2. gone \subseteq Convs
    OBVIOUS
  <1> HIDE DEF gone
  <1>3. TypeOK'
    BY <1>1, <1>2 DEF IInv, TypeOK
  <1>4. Given' /\ Windows' /\ Results'
    BY <1>1 DEF IInv, Given, Windows, Results, InConv, Present, ConvOf
  <1>5. Members'
    <2> SUFFICES ASSUME NEW x \in Runs, Present(x), ConvOf(x) \notin deleted'
                 PROVE  /\ convs'[ConvOf(x)] # None
                        /\ Party(ScopeOf(x)) = Party(convs'[ConvOf(x)])
      BY <1>1 DEF Members, Present, ConvOf, ScopeOf
    <2>1. ConvOf(x) \in Convs
      BY ReadableMessages
    <2>2. convs'[ConvOf(x)] = convs[ConvOf(x)]
      BY <1>1, <2>1
    <2> QED BY <1>1, <2>2 DEF IInv, Members
  <1>6. Rows'
    <2> SUFFICES ASSUME NEW t \in Turns, turns'[t] # None
                 PROVE  /\ convs'[turns'[t].conv] # None
                        /\ \A x \in Parts(turns'[t]) :
                              /\ Present(x) /\ TurnOf(x) = t
                              /\ ConvOf(x) = turns'[t].conv
                              /\ Party(ScopeOf(x)) = Party(convs'[turns'[t].conv])
      BY <1>1 DEF Rows, Present, TurnOf, ConvOf, ScopeOf
    <2>1. turns'[t] = turns[t] /\ turns[t] # None /\ turns[t].conv \notin gone
      BY <1>1
    <2>2. turns[t].conv \in Convs
      BY <2>1, PartsAreRuns DEF IInv, RowType
    <2>3. convs'[turns[t].conv] = convs[turns[t].conv]
      BY <1>1, <2>1, <2>2
    <2> QED BY <2>1, <2>3 DEF IInv, Rows
  <1> QED BY <1>3, <1>4, <1>5, <1>6 DEF IInv

\* A restart keeps the tables and forgets the windows.
LEMMA RestartKeeps ==
    ASSUME IInv, Restart
    PROVE  IInv'
  <1> DEFINE over(x) == [run[x] EXCEPT !.pc = "done", !.hydrated = None,
                                       !.result = {}]
  <1>0. run \in [Runs -> RunType]
    BY DEF IInv, TypeOK
  <1>1. /\ run' = [x \in Runs |-> IF run[x].pc \in {"idle", "refused", "done"}
                                  THEN run[x] ELSE over(x)]
        /\ window' = [c \in Convs |-> {}]
        /\ ledger' = [c \in Convs |-> Stored(c)]
        /\ faults' = faults + 1
        /\ UNCHANGED <<convs, turns, clock, deleted, lost>>
    BY DEF Restart
  <1>2. ASSUME NEW x \in Runs
        PROVE  /\ over(x) \in RunType /\ over(x).pc = "done"
               /\ over(x).input = run[x].input
               /\ over(x).hydrated = None /\ over(x).result = {}
    BY <1>0 DEF RunType
  <1> HIDE DEF over
  <1>3. \A x \in Runs : /\ run'[x] \in RunType /\ run'[x].input = run[x].input
                        /\ Present(x) <=> Present(x)'
                        /\ run'[x].pc = "idle" <=> run[x].pc = "idle"
                        /\ \/ run'[x] = run[x]
                           \/ run'[x].result = {} /\ run'[x].hydrated = None
    BY <1>0, <1>1, <1>2 DEF Present
  <1>4. TypeOK'
    <2>1. run' \in [Runs -> RunType]
      BY <1>1, <1>3
    <2>2. ledger' \in [Convs -> SUBSET MessageType]
      BY <1>1, StoredMessages DEF IInv
    <2> QED BY <1>1, <2>1, <2>2 DEF IInv, TypeOK
  <1>5. Given'
    BY <1>3 DEF IInv, Given
  <1>6. Members'
    BY <1>1, <1>3 DEF IInv, Members, ConvOf, ScopeOf
  <1>7. Rows'
    BY <1>1, <1>3, PartsAreRuns DEF IInv, Rows, TurnOf, ConvOf, ScopeOf
  <1>8. Windows'
    BY <1>1 DEF Windows, InConv
  <1>9. ASSUME NEW x \in Runs
        PROVE  /\ ~Present(x)' => run'[x].result = {}
                                         /\ run'[x].hydrated = None
               /\ InConv(run[x].result, ConvOf(x))'
               /\ run'[x].hydrated # None => InConv(run[x].hydrated, ConvOf(x))'
    <2>1. CASE run'[x].result = {} /\ run'[x].hydrated = None
      BY <2>1 DEF InConv
    <2>2. CASE run'[x] = run[x]
      <3>1. \A ms \in SUBSET MessageType : \A c :
              InConv(ms, c) => \A m \in ms : Present(m.by)' /\ ConvOf(m.by)' = c
        BY <1>3, InputsStay
      <3>2. /\ run[x].result \in SUBSET MessageType
            /\ run[x].hydrated # None => run[x].hydrated \in SUBSET MessageType
        BY <1>0 DEF RunType
      <3>3. /\ ~Present(x) => run[x].result = {} /\ run[x].hydrated = None
            /\ InConv(run[x].result, ConvOf(x))
            /\ run[x].hydrated # None => InConv(run[x].hydrated, ConvOf(x))
        BY DEF IInv, Results
      <3>4. \A m \in run[x].result : Present(m.by)' /\ ConvOf(m.by)' = ConvOf(x)
        BY <3>1, <3>2, <3>3
      <3>5. run[x].hydrated # None => \A m \in run[x].hydrated :
                Present(m.by)' /\ ConvOf(m.by)' = ConvOf(x)
        BY <3>1, <3>2, <3>3
      <3>6. ConvOf(x)' = ConvOf(x)
        BY <1>3 DEF ConvOf
      <3> QED BY <1>3, <2>2, <3>3, <3>4, <3>5, <3>6 DEF InConv
    <2> QED BY <1>3, <2>1, <2>2
  <1>10. Results'
    BY <1>9 DEF Results
  <1> QED BY <1>4, <1>5, <1>6, <1>7, <1>8, <1>10 DEF IInv

\* Every step keeps the invariant.
LEMMA StepIInv == IInv /\ [Next]_vars => IInv'
  <1> SUFFICES ASSUME IInv, [Next]_vars PROVE IInv'
    OBVIOUS
  <1>1. ASSUME NEW r \in Runs, RunStep(r) PROVE IInv'
    BY <1>1, AdmitKeeps, RefuseKeeps, RunActionsKeep, PersistKeeps DEF RunStep
  <1>2. ASSUME NEW o, DeleteOwnerRuntime(o) PROVE IInv'
    BY <1>2, DeleteKeeps
  <1>3. CASE Restart
    BY <1>3, RestartKeeps
  <1>4. CASE UNCHANGED vars
    BY <1>4 DEF vars, IInv, TypeOK, Given, Rows, Members, Windows, Results,
                InConv, Present, ConvOf, ScopeOf, TurnOf
  <1> QED BY <1>1, <1>2, <1>3, <1>4 DEF Next

(***************************************************************************)
(* Theorems                                                                 *)
(***************************************************************************)
\* The inductive invariant holds in every reachable state.
LEMMA AlwaysIInv == Spec => []IInv
  BY InitIInv, StepIInv, PTL DEF Spec

\* The tables, the windows and the runs keep their types.
THEOREM TypeCorrect == Spec => []TypeOK
  <1>1. IInv => TypeOK
    BY DEF IInv
  <1> QED BY <1>1, AlwaysIInv, PTL

\* Late finalizers, retransmissions, deletions and new claims never put a turn
\* or a message of one party into a conversation bound to another
\* (build_agent_turn_persister checks the boundary in its own transaction).
THEOREM RowsKept == Spec => []RowsOfOneParty
  <1>1. IInv => RowsOfOneParty
    BY DEF IInv, Rows, RowsOfOneParty, Parts
  <1> QED BY <1>1, AlwaysIInv, PTL

\* The window of HistoryManager, keyed by the conversation id alone, never
\* shows a turn what another party said, unless the conversation's rows were
\* deleted.
THEOREM ReadsKept == Spec => []ReadsOwnParty
  <1>1. ASSUME IInv, NEW r \in Runs, NEW m \in run[r].result,
               ConvOf(r) \notin deleted
        PROVE  /\ ConvOf(m.by) = ConvOf(r)
               /\ Party(ScopeOf(m.by)) = Party(ScopeOf(r))
    <2>1. m.by \in Runs /\ Present(m.by) /\ ConvOf(m.by) = ConvOf(r)
      BY <1>1 DEF IInv, Results, InConv, TypeOK, RunType, MessageType
    <2>2. Present(r)
      BY <1>1 DEF IInv, Results
    <2>3. Party(ScopeOf(m.by)) = Party(convs[ConvOf(r)])
      BY <1>1, <2>1 DEF IInv, Members
    <2>4. Party(ScopeOf(r)) = Party(convs[ConvOf(r)])
      BY <1>1, <2>2 DEF IInv, Members
    <2> QED BY <2>1, <2>3, <2>4
  <1>2. IInv => ReadsOwnParty
    BY <1>1 DEF ReadsOwnParty
  <1> QED BY <1>2, AlwaysIInv, PTL

(***************************************************************************)
(* The order of messages                                                    *)
(***************************************************************************)
\* Messages by turn start and place in the turn: what Precedes comes to as
\* long as no turn id is run again.
Before(m, n) == m.at < n.at \/ (m.at = n.at /\ m.seq < n.seq)
After(ms, m) == {n \in ms : Before(m, n)}
Newest(ms, k) == {m \in ms : Cardinality(After(ms, m)) < k}

\* Finitely many messages, told apart by their turn start and place.
Keyed(ms) ==
    /\ ms \subseteq MessageType /\ IsFiniteSet(ms)
    /\ \A m, n \in ms : m.at = n.at /\ m.seq = n.seq => m = n

\* The order is strict and total.
LEMMA BeforeIsAnOrder ==
    ASSUME NEW ms, Keyed(ms)
    PROVE  /\ \A m \in ms : ~Before(m, m)
           /\ \A m, n \in ms : Before(m, n) => ~Before(n, m)
           /\ \A m, n \in ms : m = n \/ Before(m, n) \/ Before(n, m)
           /\ \A m, n, x \in ms : Before(m, n) /\ Before(n, x) => Before(m, x)
  <1>1. \A m \in ms : m.at \in Nat /\ m.seq \in Nat
    BY DEF Keyed, MessageType
  <1>2. ASSUME NEW m \in ms, NEW n \in ms
        PROVE  m = n \/ Before(m, n) \/ Before(n, m)
    <2>1. m.at = n.at /\ m.seq = n.seq => m = n
      BY DEF Keyed
    <2> QED BY <1>1, <2>1 DEF Before
  <1>3. ASSUME NEW m \in ms, NEW n \in ms
        PROVE  ~Before(m, m) /\ (Before(m, n) => ~Before(n, m))
    BY <1>1 DEF Before
  <1>4. ASSUME NEW m \in ms, NEW n \in ms, NEW x \in ms,
               Before(m, n), Before(n, x)
        PROVE  Before(m, x)
    BY <1>1, <1>4 DEF Before
  <1> QED BY <1>2, <1>3, <1>4

\* A part of such a set is one, and has no more messages after any of its own.
LEMMA PartsOfKeyed ==
    ASSUME NEW ms, Keyed(ms), NEW part \in SUBSET ms
    PROVE  /\ Keyed(part)
           /\ Cardinality(part) \in Nat /\ Cardinality(part) <= Cardinality(ms)
           /\ \A m : /\ IsFiniteSet(After(part, m))
                     /\ Cardinality(After(part, m)) \in Nat
                     /\ Cardinality(After(part, m)) <= Cardinality(After(ms, m))
                     /\ Cardinality(After(part, m)) <= Cardinality(part)
  <1>0. IsFiniteSet(ms)
    BY DEF Keyed
  <1>1. IsFiniteSet(part) /\ Cardinality(part) <= Cardinality(ms)
    BY <1>0, FS_Subset
  <1>2. Cardinality(part) \in Nat
    BY <1>1, FS_CardinalityType
  <1>3. Keyed(part)
    BY <1>1 DEF Keyed
  <1>4. ASSUME NEW m
        PROVE  /\ IsFiniteSet(After(part, m))
               /\ Cardinality(After(part, m)) \in Nat
               /\ Cardinality(After(part, m)) <= Cardinality(After(ms, m))
               /\ Cardinality(After(part, m)) <= Cardinality(part)
    <2>1. After(part, m) \in SUBSET part /\ After(part, m) \in SUBSET After(ms, m)
          /\ After(ms, m) \in SUBSET ms
      BY DEF After
    <2>2. IsFiniteSet(After(ms, m))
      BY <1>0, <2>1, FS_Subset
    <2>3. IsFiniteSet(After(part, m))
          /\ Cardinality(After(part, m)) <= Cardinality(part)
      BY <1>1, <2>1, FS_Subset
    <2>4. Cardinality(After(part, m)) <= Cardinality(After(ms, m))
      BY <2>1, <2>2, FS_Subset
    <2>5. Cardinality(After(part, m)) \in Nat
      BY <2>3, FS_CardinalityType
    <2> QED BY <2>3, <2>4, <2>5
  <1> QED BY <1>1, <1>2, <1>3, <1>4

\* What is evicted is older than everything that is kept.
LEMMA EvictedIsOlder ==
    ASSUME NEW ms, Keyed(ms), NEW k \in Nat,
           NEW m \in ms \ Newest(ms, k), NEW n \in Newest(ms, k)
    PROVE  Before(m, n)
  <1>1. m \in ms /\ n \in ms /\ m # n
    BY DEF Newest
  <1>2. SUFFICES ASSUME Before(n, m) PROVE FALSE
    BY <1>1, BeforeIsAnOrder
  <1>3. After(ms, m) \in SUBSET After(ms, n)
    BY <1>1, <1>2, BeforeIsAnOrder DEF After
  <1>4. After(ms, n) \in SUBSET ms /\ IsFiniteSet(ms)
    BY DEF After, Keyed
  <1>5. IsFiniteSet(After(ms, n))
    BY <1>4, FS_Subset
  <1>6. Cardinality(After(ms, m)) <= Cardinality(After(ms, n))
    BY <1>3, <1>5, FS_Subset
  <1>7. Cardinality(After(ms, m)) \in Nat /\ Cardinality(After(ms, n)) \in Nat
    BY PartsOfKeyed
  <1>8. Cardinality(After(ms, n)) < k /\ ~(Cardinality(After(ms, m)) < k)
    BY <1>1 DEF Newest
  <1> QED BY <1>6, <1>7, <1>8

\* Nothing is evicted unless the places are taken.
LEMMA FullOrAll ==
    ASSUME NEW ms, Keyed(ms), NEW k \in Nat
    PROVE  Newest(ms, k) = ms \/ Cardinality(Newest(ms, k)) >= k
  <1> DEFINE size(x) == Cardinality(After(ms, x))
             out == ms \ Newest(ms, k)
  <1>1. SUFFICES ASSUME out # {} PROVE Cardinality(Newest(ms, k)) >= k
    BY DEF Newest
  <1>2. \A x \in ms : size(x) \in Nat
    BY PartsOfKeyed
  <1>3. {size(x) : x \in out} \in SUBSET Nat /\ {size(x) : x \in out} # {}
    BY <1>1, <1>2
  <1>4. PICK s \in {size(x) : x \in out} : \A t \in {size(x) : x \in out} : s <= t
    BY <1>3, LeastNatural
  <1>5. PICK m \in out : s = size(m)
    OBVIOUS
  <1>6. ASSUME NEW x \in After(ms, m) PROVE x \in Newest(ms, k)
    <2>1. x \in ms /\ Before(m, x)
      BY DEF After
    <2>2. After(ms, x) \in SUBSET After(ms, m) /\ After(ms, x) # After(ms, m)
      BY <1>6, <2>1, BeforeIsAnOrder DEF After
    <2>3. IsFiniteSet(After(ms, m)) /\ After(ms, m) \in SUBSET ms
      BY PartsOfKeyed DEF After
    <2>4. size(x) <= size(m) /\ size(x) # size(m)
      BY <2>2, <2>3, FS_Subset
    <2>5. x \in out => s <= size(x)
      BY <1>4
    <2>6. size(x) \in Nat /\ size(m) \in Nat
      BY <1>2, <2>1
    <2> HIDE DEF size
    <2>7. x \notin out
      BY <1>5, <2>4, <2>5, <2>6
    <2> QED BY <2>1, <2>7
  <1>7. ~(size(m) < k) /\ size(m) \in Nat
    BY <1>2 DEF Newest
  <1>8. Newest(ms, k) \in SUBSET ms
    BY DEF Newest
  <1>9. IsFiniteSet(Newest(ms, k))
    BY <1>8, FS_Subset DEF Keyed
  <1>10. After(ms, m) \in SUBSET Newest(ms, k)
    BY <1>6
  <1>11. size(m) <= Cardinality(Newest(ms, k))
    BY <1>9, <1>10, FS_Subset
  <1>12. Cardinality(Newest(ms, k)) \in Nat
    BY <1>9, FS_CardinalityType
  <1> QED BY <1>7, <1>11, <1>12

\* A message evicted has the places of k newer ones behind it.
LEMMA EvictedIsBuried ==
    ASSUME NEW ms, Keyed(ms), NEW k \in Nat, NEW m \in ms \ Newest(ms, k)
    PROVE  /\ Cardinality(Newest(ms, k)) >= k
           /\ After(Newest(ms, k), m) = Newest(ms, k)
  <1>1. Newest(ms, k) # ms
    OBVIOUS
  <1>2. \A n \in Newest(ms, k) : Before(m, n)
    BY EvictedIsOlder
  <1> QED BY <1>1, <1>2, FullOrAll DEF After


(***************************************************************************)
(* The window                                                               *)
(***************************************************************************)
Behind(some, others) == \A m \in some, n \in others : Before(m, n)

\* Recording messages `new' in a window of k messages that holds the newest of
\* `all': it still does, and what it leaves out is stored or it is full.  The
\* new messages are the newest ones, or the window is full of newer ones.
LEMMA RecordingKeeps ==
    ASSUME NEW all, NEW win, NEW new, NEW stored, NEW k \in Nat,
           Keyed(all \cup new), win \subseteq all, Behind(all \ win, win),
           all \ win \subseteq stored \/ Cardinality(win) >= k,
           \/ Behind((all \cup new) \ (win \cup new), new)
           \/ Cardinality(win) >= k /\ Behind(new, win)
    PROVE  LET left == Newest(win \cup new, k) IN
           /\ left \subseteq all \cup new
           /\ Behind((all \cup new) \ left, left)
           /\ (all \cup new) \ left \subseteq stored \/ Cardinality(left) >= k
           /\ left = win \cup new \/ Cardinality(left) >= k
           /\ Cardinality(win) >= k => Cardinality(left) >= k
  <1> DEFINE both == win \cup new
             left == Newest(both, k)
  <1>1. Keyed(both) /\ Keyed(win) /\ both \in SUBSET (all \cup new)
    BY PartsOfKeyed
  <1>2. left \in SUBSET both
    BY DEF Newest
  <1>3. left = both \/ Cardinality(left) >= k
    BY <1>1, FullOrAll
  <1>4. \A m \in both \ left, n \in left : Before(m, n)
    BY <1>1, EvictedIsOlder
  <1>5. Cardinality(win) >= k => Cardinality(left) >= k
    <2>1. Cardinality(win) <= Cardinality(both) /\ Cardinality(win) \in Nat
          /\ Cardinality(both) \in Nat
      BY <1>1, PartsOfKeyed
    <2>2. CASE left = both
      BY <2>1, <2>2
    <2> QED BY <1>3, <2>2
  <1>6. CASE Behind((all \cup new) \ both, new)
    <2>1. ASSUME NEW m \in (all \cup new) \ left, NEW n \in left
          PROVE  Before(m, n)
      <3>1. CASE m \in both
        BY <1>4, <3>1
      <3>2. CASE m \notin both /\ n \in new
        BY <1>6, <3>2 DEF Behind
      <3>3. CASE m \notin both /\ n \notin new
        BY <1>2, <3>3 DEF Behind
      <3> QED BY <3>1, <3>2, <3>3
    <2>2. Behind((all \cup new) \ left, left)
      BY <2>1 DEF Behind
    <2>3. (all \cup new) \ left \subseteq stored \/ Cardinality(left) >= k
      <3>1. CASE left = both
        BY <1>5, <3>1
      <3> QED BY <1>3, <3>1
    <2> QED BY <1>1, <1>2, <1>3, <1>5, <2>2, <2>3
  <1>7. CASE Cardinality(win) >= k /\ Behind(new, win)
    <2>1. ASSUME NEW n \in new PROVE n \notin left
      <3>1. After(win, n) = win
        BY <1>7 DEF Behind, After
      <3>2. Cardinality(win) <= Cardinality(After(both, n))
        BY <1>1, <3>1, PartsOfKeyed
      <3>3. Cardinality(After(both, n)) \in Nat /\ Cardinality(win) \in Nat
        BY <1>1, PartsOfKeyed
      <3>4. ~(Cardinality(After(both, n)) < k)
        BY <1>7, <3>2, <3>3
      <3> QED BY <3>4 DEF Newest
    <2>2. left \subseteq win
      BY <1>2, <2>1
    <2>3. ASSUME NEW m \in (all \cup new) \ left, NEW n \in left
          PROVE  Before(m, n)
      <3>1. CASE m \in both
        BY <1>4, <3>1
      <3>2. CASE m \notin both
        BY <2>2, <3>2 DEF Behind
      <3> QED BY <3>1, <3>2
    <2>4. Behind((all \cup new) \ left, left)
      BY <2>3 DEF Behind
    <2> QED BY <1>1, <1>2, <1>3, <1>5, <1>7, <2>4
  <1> QED BY <1>6, <1>7

\* Messages that leave out nothing newer, and none at all unless they are k,
\* are the newest k.
LEMMA ClosedIsNewest ==
    ASSUME NEW all, Keyed(all), NEW got \in SUBSET all, NEW k \in Nat,
           \A m \in got, n \in all \ got : ~Before(m, n),
           \A m \in got : Cardinality(After(got, m)) < k,
           got = all \/ Cardinality(got) >= k
    PROVE  got = Newest(all, k)
  <1>1. ASSUME NEW m \in got PROVE m \in Newest(all, k)
    <2>1. After(all, m) = After(got, m)
      BY DEF After
    <2> QED BY <2>1 DEF Newest
  <1>2. ASSUME NEW m \in all \ got PROVE m \notin Newest(all, k)
    <2>1. After(got, m) = got
      BY BeforeIsAnOrder DEF After
    <2>2. Cardinality(got) <= Cardinality(After(all, m))
      BY <2>1, PartsOfKeyed
    <2>3. Cardinality(After(all, m)) \in Nat /\ Cardinality(got) \in Nat
      BY PartsOfKeyed
    <2>4. Cardinality(got) >= k
      OBVIOUS
    <2>5. ~(Cardinality(After(all, m)) < k)
      BY <2>2, <2>3, <2>4
    <2> QED BY <2>5 DEF Newest
  <1>3. Newest(all, k) \subseteq all
    BY DEF Newest
  <1> QED BY <1>1, <1>2, <1>3

\* A window that has enough visible messages answers with the newest ones.
LEMMA CachedIsNewest ==
    ASSUME NEW all, Keyed(all), NEW seen \in SUBSET all, NEW win \in SUBSET all,
           NEW k \in Nat, Behind(all \ win, win),
           Cardinality(Newest(win \cap seen, k)) >= k
    PROVE  Newest(win \cap seen, k) = Newest(seen, k)
  <1> DEFINE part == win \cap seen
             got == Newest(part, k)
  <1>1. Keyed(part) /\ Keyed(seen)
    BY PartsOfKeyed
  <1>2. got \in SUBSET part
    BY DEF Newest
  <1>3. ASSUME NEW m \in got, NEW n \in seen \ got PROVE ~Before(m, n)
    <2>1. CASE n \in part
      <3>1. Before(n, m)
        BY <1>1, <2>1, EvictedIsOlder
      <3> QED BY <1>2, <3>1, BeforeIsAnOrder
    <2>2. CASE n \notin part
      <3>1. Before(n, m)
        BY <1>2, <2>2 DEF Behind
      <3> QED BY <1>2, <3>1, BeforeIsAnOrder
    <2> QED BY <2>1, <2>2
  <1>4. ASSUME NEW m \in got PROVE Cardinality(After(got, m)) < k
    <2>1. Cardinality(After(got, m)) <= Cardinality(After(part, m))
          /\ Cardinality(After(got, m)) \in Nat
          /\ Cardinality(After(part, m)) \in Nat
      BY <1>1, <1>2, PartsOfKeyed
    <2>2. Cardinality(After(part, m)) < k
      BY DEF Newest
    <2> QED BY <2>1, <2>2
  <1>5. Cardinality(got) >= k /\ got \in SUBSET seen
    BY <1>2
  <1> HIDE DEF got
  <1>6. got = Newest(seen, k)
    BY <1>1, <1>3, <1>4, <1>5, ClosedIsNewest
  <1> QED BY <1>6 DEF got

(***************************************************************************)
(* The invariant of the window                                              *)
(***************************************************************************)
Live == {"remembered", "hydrating", "merge", "read", "persist"}

\* Turn starts are told by one clock: no two runs have the same.
Timed ==
    \A x \in Runs :
        /\ run[x].at <= clock
        /\ run[x].pc \in {"idle", "refused", "admitted"} => run[x].at = 0
        /\ run[x].pc \in Live => run[x].at > 0
        /\ \A y \in Runs : x # y /\ run[x].at = run[y].at => run[x].at = 0

\* Only a read that is not merged yet holds what it got of the tables.
Pending == \A x \in Runs : run[x].hydrated # None => run[x].pc = "merge"

\* The rows of a turn were written by the last run that finished.
Settled ==
    \A t \in Turns : turns[t] # None =>
        /\ turns[t].user = turns[t].by
        /\ run[turns[t].by].pc = "done" /\ run[turns[t].by].at > 0

\* The conversations a snapshot is promised of.
Good(c) == c \notin deleted \cup lost /\ ~RunAgain(c)

\* What was recorded of a conversation: what its runs in flight said and all
\* that is in its tables.
Recorded(c) ==
    /\ IsFiniteSet(ledger[c])
    /\ \A m \in ledger[c] :
          /\ m.at > 0 /\ m.at = run[m.by].at /\ ConvOf(m.by) = c
          /\ m.seq = 1 => run[m.by].pc \in {"persist", "done"}
    /\ \A x \in Runs : run[x].pc \in Live /\ ConvOf(x) = c =>
          /\ Message(x, 0, run[x].at) \in ledger[c]
          /\ run[x].pc = "persist" /\ run[x].answered =>
                Message(x, 1, run[x].at) \in ledger[c]
    /\ \A t \in Turns : turns[t] # None /\ turns[t].conv = c =>
          turns[t].answer \in {None, turns[t].by}
    /\ Stored(c) \subseteq ledger[c]

\* The window holds the newest messages, and what it leaves out is in the
\* tables or a full window behind.
Kept(c) ==
    /\ window[c] \subseteq ledger[c]
    /\ Behind(ledger[c] \ window[c], window[c])
    /\ \/ ledger[c] \ window[c] \subseteq Stored(c)
       \/ Cardinality(window[c]) >= WindowSize

\* Every visible message was read, is in the window, is a full window behind,
\* or is older than a read that is full but for private messages.
Covers(read, seen, win, pub, all) ==
    /\ read \subseteq seen
    /\ \A n \in seen \ read :
          \/ n \in win \/ Cardinality(win) >= WindowSize
          \/ Behind({n}, read) /\ (Cardinality(read) >= ReadSize \/ pub # all)

Fetched(c) ==
    \A r \in Runs :
        run[r].pc = "merge" /\ run[r].hydrated # None /\ ConvOf(r) = c =>
            Covers(run[r].hydrated, Visible(ledger[c], r), window[c],
                   Public(ledger[c]), ledger[c])

Windowed == \A c \in Convs : Good(c) => Recorded(c) /\ Kept(c) /\ Fetched(c)

WInv == IInv /\ Timed /\ Pending /\ Settled /\ Windowed

\* The messages recorded of a conversation where no turn id was run again are
\* told apart by their turn start and place.
LEMMA MessagesAreKeyed ==
    ASSUME WInv, NEW c \in Convs, Good(c)
    PROVE  /\ Keyed(ledger[c]) /\ ledger[c] \subseteq MessageType
           /\ \A m \in ledger[c] : m.by \in Runs /\ run[m.by].at > 0
           /\ \A m, n \in ledger[c] :
                 /\ Precedes(m, n) <=> Before(m, n)
                 /\ TurnOf(m.by) = TurnOf(n.by) => m.by = n.by
                 /\ SameKey(m, n) => m = n
  <1> DEFINE L == ledger[c]
  <1>1. L \subseteq MessageType /\ IsFiniteSet(L)
    BY DEF WInv, IInv, TypeOK, Windowed, Recorded
  <1>2. ASSUME NEW m \in L
        PROVE  /\ m \in MessageType /\ m.by \in Runs /\ m.at \in Nat /\ m.seq \in Nat
               /\ m.at > 0 /\ m.at = run[m.by].at /\ ConvOf(m.by) = c
    BY <1>1 DEF WInv, Windowed, Recorded, MessageType
  <1>3. ASSUME NEW m \in L, NEW n \in L, TurnOf(m.by) = TurnOf(n.by)
        PROVE  m.by = n.by
    BY <1>2, <1>3 DEF Good, RunAgain
  <1>4. ASSUME NEW m \in L, NEW n \in L, m.at = n.at PROVE m.by = n.by
    <2>1. m.by \in Runs /\ n.by \in Runs /\ run[m.by].at = run[n.by].at
          /\ run[m.by].at # 0
      BY <1>2, <1>4
    <2> QED BY <2>1 DEF WInv, Timed
  <1>5. ASSUME NEW m \in L, NEW n \in L, m.by = n.by, m.seq = n.seq
        PROVE  m = n
    <2>1. m.at = n.at
      BY <1>2, <1>5
    <2>2. m = [by |-> m.by, seq |-> m.seq, at |-> m.at]
          /\ n = [by |-> n.by, seq |-> n.seq, at |-> n.at]
      BY <1>1 DEF MessageType
    <2> QED BY <1>5, <2>1, <2>2
  <1>6. Keyed(L)
    BY <1>1, <1>4, <1>5 DEF Keyed
  <1>7. ASSUME NEW m \in L, NEW n \in L
        PROVE  Precedes(m, n) <=> Before(m, n)
    <2>1. CASE m.at = n.at
      <3>1. m.by = n.by
        BY <1>4, <2>1
      <3>2. TurnOf(m.by) \in Nat
        <4>1. run[m.by].input \in Inputs
          BY <1>2 DEF WInv, IInv, Given, Timed
        <4> QED BY <4>1, ConversationsAssumption DEF TurnOf, InputType
      <3>3. m.at \in Nat /\ n.at \in Nat
        BY <1>2
      <3> QED BY <2>1, <3>1, <3>2, <3>3 DEF Precedes, Before
    <2>2. CASE m.at # n.at
      BY <2>2 DEF Precedes, Before
    <2> QED BY <2>1, <2>2
  <1>8. \A m \in L : m.by \in Runs /\ run[m.by].at > 0
    BY <1>2
  <1> QED BY <1>1, <1>3, <1>5, <1>6, <1>7, <1>8 DEF SameKey

\* Eviction keeps the newest messages.
LEMMA TailIsNewest ==
    ASSUME WInv, NEW c \in Convs, Good(c), NEW ms \in SUBSET ledger[c], NEW k
    PROVE  Tail(ms, k) = Newest(ms, k)
  <1>1. ASSUME NEW m \in ms PROVE {n \in ms : Precedes(m, n)} = After(ms, m)
    BY MessagesAreKeyed DEF After
  <1> QED BY <1>1 DEF Tail, Newest

\* A run's own turn are the messages it wrote.
LEMMA OwnTurn ==
    ASSUME WInv, NEW r \in Runs, run[r].at > 0, Good(ConvOf(r)),
           NEW ms \in SUBSET ledger[ConvOf(r)]
    PROVE  /\ ConvOf(r) \in Convs
           /\ OfTurn(ms, TurnOf(r)) = {m \in ms : m.by = r}
  <1>1. run[r].input \in Inputs
    BY DEF WInv, IInv, Given, Timed
  <1>2. ConvOf(r) \in Convs
    BY <1>1, ClaimedScope DEF WInv, IInv, ConvOf
  <1>3. ASSUME NEW m \in ms, TurnOf(m.by) = TurnOf(r) PROVE m.by = r
    <2>1. m.by \in Runs /\ run[m.by].at > 0
      BY <1>2, MessagesAreKeyed
    <2>2. ConvOf(m.by) = ConvOf(r)
      BY <1>2 DEF WInv, Windowed, Recorded
    <2> QED BY <1>3, <2>1, <2>2 DEF Good, RunAgain
  <1> QED BY <1>2, <1>3 DEF OfTurn

\* What the tables hold was written by runs that are done.
LEMMA StoredIsDone ==
    ASSUME WInv, NEW c \in Convs, Good(c), NEW m \in Stored(c)
    PROVE  m \in ledger[c] /\ run[m.by].pc = "done"
  <1> DEFINE mine == {t \in Turns : turns[t] # None /\ turns[t].conv = c}
             at(t) == run[turns[t].by].at
  <1>1. PICK t \in mine : \/ m = Message(turns[t].user, 0, at(t))
                          \/ /\ turns[t].answer # None
                             /\ m = Message(turns[t].answer, 1, at(t))
    BY DEF Stored
  <1>2. /\ turns[t].answer \in {None, turns[t].by}
        /\ turns[t].user = turns[t].by
        /\ run[turns[t].by].pc = "done"
        /\ Stored(c) \subseteq ledger[c]
    BY DEF WInv, Windowed, Recorded, Settled
  <1>3. m.by = turns[t].by
    BY <1>1, <1>2 DEF Message
  <1> QED BY <1>2, <1>3

\* What is recorded once stays: a turn start and the input of its run do not
\* change, and a conversation given up is not taken back.
Steady ==
    /\ \A x \in Runs : run[x].at > 0 =>
          run'[x].at = run[x].at /\ run'[x].input = run[x].input
    /\ deleted \subseteq deleted' /\ lost \subseteq lost'

\* A conversation a snapshot is promised of was one before the step.
LEMMA GoodBefore ==
    ASSUME TypeOK, TypeOK', Steady, NEW c, Good(c)'
    PROVE  Good(c)
  <1>1. c \notin deleted \cup lost
    BY DEF Good, Steady
  <1>2. ASSUME NEW x \in Runs, NEW y \in Runs, x # y,
               run[x].at > 0, run[y].at > 0, TurnOf(x) = TurnOf(y),
               ConvOf(x) = c, ConvOf(y) = c
        PROVE  FALSE
    <2>1. /\ run'[x].at > 0 /\ run'[y].at > 0
          /\ run'[x].input = run[x].input /\ run'[y].input = run[y].input
      BY <1>2 DEF Steady
    <2>2. /\ run'[x].input.turn = run'[y].input.turn
          /\ run'[x].input.conv = c /\ run'[y].input.conv = c
      BY <1>2, <2>1 DEF TurnOf, ConvOf
    <2> QED BY <1>2, <2>1, <2>2 DEF Good, RunAgain, TurnOf, ConvOf
  <1> QED BY <1>1, <1>2 DEF Good, RunAgain

\* The tables of a conversation stay what they were if its rows do.
LEMMA StoredStays ==
    ASSUME TypeOK, Settled, Steady, NEW c \in Convs,
           \A t \in Turns :
               /\ turns'[t] # None /\ turns'[t].conv = c
                     <=> turns[t] # None /\ turns[t].conv = c
               /\ turns[t] # None /\ turns[t].conv = c => turns'[t] = turns[t]
    PROVE  Stored(c)' = Stored(c)
  <1> DEFINE mine == {t \in Turns : turns[t] # None /\ turns[t].conv = c}
             at(t) == run[turns[t].by].at
  <1>1. {t \in Turns : turns'[t] # None /\ turns'[t].conv = c} = mine
    OBVIOUS
  <1>2. \A t \in mine : turns'[t] = turns[t] /\ run'[turns'[t].by].at = at(t)
    <2> SUFFICES ASSUME NEW t \in mine
                 PROVE  turns'[t] = turns[t] /\ run'[turns'[t].by].at = at(t)
      OBVIOUS
    <2>1. turns[t].by \in Runs /\ run[turns[t].by].at > 0
      BY PartsAreRuns DEF Settled, RowType
    <2> QED BY <2>1 DEF Steady
  <1>3. Stored(c) = {Message(turns[t].user, 0, at(t)) : t \in mine} \cup
                    {Message(turns[t].answer, 1, at(t)) :
                        t \in {u \in mine : turns[u].answer # None}}
    BY DEF Stored
  <1>4. Stored(c)' = {Message(turns'[t].user, 0, run'[turns'[t].by].at) : t \in mine} \cup
                     {Message(turns'[t].answer, 1, run'[turns'[t].by].at) :
                        t \in {u \in mine : turns'[u].answer # None}}
    BY <1>1 DEF Stored, Message
  <1>5. {u \in mine : turns'[u].answer # None} = {u \in mine : turns[u].answer # None}
    BY <1>2
  <1> HIDE DEF mine, at
  <1>6. {Message(turns'[t].user, 0, run'[turns'[t].by].at) : t \in mine}
        = {Message(turns[t].user, 0, at(t)) : t \in mine}
    BY <1>2
  <1>7. {Message(turns'[t].answer, 1, run'[turns'[t].by].at) :
            t \in {u \in mine : turns[u].answer # None}}
        = {Message(turns[t].answer, 1, at(t)) :
            t \in {u \in mine : turns[u].answer # None}}
    BY <1>2
  <1> QED BY <1>3, <1>4, <1>5, <1>6, <1>7

\* Messages stay public or private, and the reader's own or not.
LEMMA SeenStays ==
    ASSUME WInv, Steady, NEW c \in Convs, Good(c), ledger'[c] = ledger[c]
    PROVE  /\ Public(ledger[c])' = Public(ledger[c])
           /\ \A r \in Runs : run[r].at > 0 =>
                  Visible(ledger[c], r)' = Visible(ledger[c], r)
  <1>1. \A m \in ledger[c] : run'[m.by].input = run[m.by].input
    BY MessagesAreKeyed DEF Steady
  <1>2. Public(ledger[c])' = Public(ledger[c])
    BY <1>1 DEF Public
  <1>3. ASSUME NEW r \in Runs, run[r].at > 0
        PROVE  Visible(ledger[c], r)' = Visible(ledger[c], r)
    <2>1. OfTurn(ledger[c], TurnOf(r))' = OfTurn(ledger[c], TurnOf(r))
      BY <1>1, <1>3 DEF OfTurn, TurnOf, Steady
    <2> QED BY <1>2, <2>1 DEF Visible
  <1> QED BY <1>2, <1>3

\* A conversation a step does not record in, though it may store what was
\* recorded.
LEMMA UnrecordedKept ==
    ASSUME WInv, Steady, NEW c \in Convs, Good(c),
           ledger'[c] = ledger[c], window'[c] = window[c],
           Stored(c) \subseteq Stored(c)', Stored(c)' \subseteq ledger[c],
           \A t \in Turns : turns'[t] # None /\ turns'[t].conv = c =>
               turns'[t].answer \in {None, turns'[t].by},
           \A x \in Runs :
               /\ run[x].pc \in {"persist", "done"} => run'[x].pc \in {"persist", "done"}
               /\ run'[x].pc \in Live /\ ConvOf(x)' = c =>
                     /\ run[x].pc \in Live /\ ConvOf(x) = c
                     /\ run'[x].pc = "persist" =>
                           run[x].pc = "persist" /\ run'[x].answered = run[x].answered
               /\ run'[x].pc = "merge" /\ run'[x].hydrated # None /\ ConvOf(x)' = c =>
                     \/ run[x].pc = "merge" /\ run'[x].hydrated = run[x].hydrated
                     \/ Covers(run'[x].hydrated, Visible(ledger[c], x), window[c],
                               Public(ledger[c]), ledger[c])
    PROVE  Recorded(c)' /\ Kept(c)' /\ Fetched(c)'
  <1>1. Recorded(c) /\ Kept(c) /\ Fetched(c) /\ Timed
    BY DEF WInv, Windowed
  <1>2. ASSUME NEW m \in ledger[c]
        PROVE  /\ m.at > 0 /\ m.at = run'[m.by].at /\ ConvOf(m.by)' = c
               /\ m.seq = 1 => run'[m.by].pc \in {"persist", "done"}
    <2>1. m.by \in Runs /\ run[m.by].at > 0
      BY MessagesAreKeyed
    <2>2. run'[m.by].at = run[m.by].at /\ run'[m.by].input = run[m.by].input
      BY <2>1 DEF Steady
    <2>3. ConvOf(m.by)' = ConvOf(m.by)
      BY <2>2 DEF ConvOf
    <2> QED BY <1>1, <2>1, <2>2, <2>3 DEF Recorded
  <1>3. ASSUME NEW x \in Runs, run'[x].pc \in Live, ConvOf(x)' = c
        PROVE  /\ Message(x, 0, run'[x].at) \in ledger[c]
               /\ run'[x].pc = "persist" /\ run'[x].answered =>
                     Message(x, 1, run'[x].at) \in ledger[c]
    <2>1. run[x].pc \in Live /\ ConvOf(x) = c
      BY <1>3
    <2>2. run'[x].at = run[x].at
      BY <1>1, <2>1 DEF Timed, Steady
    <2> QED BY <1>1, <1>3, <2>1, <2>2 DEF Recorded
  <1>4. Recorded(c)'
    <2>1. IsFiniteSet(ledger[c])
      BY <1>1 DEF Recorded
    <2> QED BY <1>2, <1>3, <2>1 DEF Recorded, Message
  <1>5. Kept(c)'
    BY <1>1 DEF Kept, Behind, Before
  <1>6. ASSUME NEW r \in Runs, run'[r].pc = "merge", run'[r].hydrated # None,
               ConvOf(r)' = c
        PROVE  Covers(run'[r].hydrated, Visible(ledger[c], r)', window'[c],
                      Public(ledger[c])', ledger'[c])
    <2>1. run[r].pc \in Live /\ ConvOf(r) = c
      BY <1>6 DEF Live
    <2>2. run[r].at > 0
      BY <1>1, <2>1 DEF Timed
    <2>3. /\ Visible(ledger[c], r)' = Visible(ledger[c], r)
          /\ Public(ledger[c])' = Public(ledger[c])
      BY <2>2, SeenStays
    <2>4. Covers(run'[r].hydrated, Visible(ledger[c], r), window[c],
                 Public(ledger[c]), ledger[c])
      BY <1>1, <1>6, <2>1 DEF Fetched
    <2> QED BY <2>3, <2>4
  <1>7. Fetched(c)'
    BY <1>6 DEF Fetched, Covers, Behind, Before
  <1> QED BY <1>4, <1>5, <1>7

\* A conversation a step neither records nor stores anything of.
LEMMA OthersKept ==
    ASSUME WInv, Steady, NEW c \in Convs, Good(c),
           ledger'[c] = ledger[c], window'[c] = window[c],
           Stored(c)' = Stored(c),
           \A t \in Turns : turns'[t] # None /\ turns'[t].conv = c =>
               turns[t] # None /\ turns'[t] = turns[t],
           \A x \in Runs :
               /\ run[x].pc \in {"persist", "done"} => run'[x].pc \in {"persist", "done"}
               /\ run'[x].pc \in Live /\ ConvOf(x)' = c =>
                     /\ run[x].pc \in Live /\ ConvOf(x) = c
                     /\ run'[x].pc = "persist" =>
                           run[x].pc = "persist" /\ run'[x].answered = run[x].answered
               /\ run'[x].pc = "merge" /\ run'[x].hydrated # None /\ ConvOf(x)' = c =>
                     \/ run[x].pc = "merge" /\ run'[x].hydrated = run[x].hydrated
                     \/ Covers(run'[x].hydrated, Visible(ledger[c], x), window[c],
                               Public(ledger[c]), ledger[c])
    PROVE  Recorded(c)' /\ Kept(c)' /\ Fetched(c)'
  <1>1. Recorded(c)
    BY DEF WInv, Windowed
  <1>2. Stored(c)' \subseteq ledger[c] /\ Stored(c) \subseteq Stored(c)'
    BY <1>1 DEF Recorded
  <1>3. \A t \in Turns : turns'[t] # None /\ turns'[t].conv = c =>
            turns'[t].answer \in {None, turns'[t].by}
    BY <1>1 DEF Recorded
  <1> QED BY <1>2, <1>3, UnrecordedKept

(***************************************************************************)
(* Steps                                                                    *)
(***************************************************************************)
\* A step of one run that keeps its turn start, or takes it from the clock.
LEMMA RunMoves ==
    ASSUME IInv, Timed, NEW r \in Runs, NEW q \in RunType,
           run' = [run EXCEPT ![r] = q],
           run[r].at > 0 => q.input = run[r].input,
           \/ q.at = run[r].at /\ clock' = clock
           \/ run[r].at = 0 /\ q.at = clock + 1 /\ clock' = clock + 1,
           q.pc \in {"idle", "refused", "admitted"} => q.at = 0,
           q.pc \in Live => q.at > 0,
           deleted \subseteq deleted', lost \subseteq lost'
    PROVE  /\ run'[r] = q /\ \A x \in Runs : x # r => run'[x] = run[x]
           /\ Steady /\ Timed'
  <1>1. run'[r] = q /\ \A x \in Runs : x # r => run'[x] = run[x]
    BY DEF IInv, TypeOK
  <1>2. clock \in Nat /\ q.at \in Nat /\ \A x \in Runs : run[x].at \in Nat
    BY DEF IInv, TypeOK, RunType
  <1>3. Steady
    BY <1>1, <1>2 DEF Steady
  <1>4. \A x \in Runs : run'[x].at <= clock'
    <2> SUFFICES ASSUME NEW x \in Runs PROVE run'[x].at <= clock'
      OBVIOUS
    <2>1. run[x].at <= clock
      BY DEF Timed
    <2> QED BY <1>1, <1>2, <2>1
  <1>5. \A x, y \in Runs : x # y /\ run'[x].at = run'[y].at => run'[x].at = 0
    <2> SUFFICES ASSUME NEW x \in Runs, NEW y \in Runs, x # y,
                        run'[x].at = run'[y].at
                 PROVE  run'[x].at = 0
      OBVIOUS
    <2>1. /\ run[x].at <= clock /\ run[y].at <= clock
          /\ run[x].at = run[y].at => run[x].at = 0
      BY DEF Timed
    <2>2. CASE q.at = run[r].at
      BY <1>1, <2>1, <2>2
    <2>3. CASE q.at = clock + 1
      BY <1>1, <1>2, <2>1, <2>3
    <2> QED BY <2>2, <2>3
  <1>6. \A x \in Runs :
            /\ run'[x].pc \in {"idle", "refused", "admitted"} => run'[x].at = 0
            /\ run'[x].pc \in Live => run'[x].at > 0
    BY <1>1 DEF Timed
  <1> QED BY <1>1, <1>3, <1>4, <1>5, <1>6 DEF Timed

\* Rows are of runs that are done, which take no more steps.
LEMMA SettledStays ==
    ASSUME IInv, Settled, turns' = turns,
           \A x \in Runs : run[x].pc = "done" =>
               run'[x].pc = "done" /\ run'[x].at = run[x].at
    PROVE  Settled'
  <1>1. \A t \in Turns : turns[t] # None => turns[t].by \in Runs
    BY PartsAreRuns DEF IInv, RowType
  <1> QED BY <1>1 DEF Settled

\* The steps of a run that record and store nothing.
LEMMA QuietKeeps ==
    ASSUME WInv, IInv', NEW r \in Runs, NEW q \in RunType,
           run' = [run EXCEPT ![r] = q],
           run[r].pc # "idle" => q.input = run[r].input,
           q.at = run[r].at, run[r].pc # "done",
           q.pc \in {"idle", "refused", "admitted"} => run[r].at = 0,
           q.pc \in Live => run[r].pc \in Live /\ q.pc # "persist",
           run[r].pc = "persist" => q.pc = "done",
           q.hydrated # None => q.pc = "merge",
           q.pc = "merge" /\ q.hydrated # None /\ Good(ConvOf(r)) =>
               Covers(q.hydrated, Visible(ledger[ConvOf(r)], r), window[ConvOf(r)],
                      Public(ledger[ConvOf(r)]), ledger[ConvOf(r)]),
           lost \subseteq lost',
           UNCHANGED <<turns, window, clock, ledger, deleted>>
    PROVE  WInv'
  <1>0. IInv /\ Timed /\ Settled /\ TypeOK /\ TypeOK'
    BY DEF WInv, IInv
  <1>1. run[r].pc = "idle" => run[r].at = 0
    BY <1>0 DEF Timed
  <1>2. q.pc \in Live => run[r].at > 0
    BY <1>0 DEF Timed
  <1>3. /\ run'[r] = q /\ \A x \in Runs : x # r => run'[x] = run[x]
        /\ Steady /\ Timed'
    <2>1. /\ run[r].at > 0 => q.input = run[r].input
          /\ q.at = run[r].at /\ clock' = clock
          /\ q.pc \in {"idle", "refused", "admitted"} => q.at = 0
          /\ q.pc \in Live => q.at > 0
          /\ deleted \subseteq deleted' /\ lost \subseteq lost'
      BY <1>1, <1>2
    <2> QED BY <1>0, <2>1, RunMoves
  <1>4. Settled' /\ Pending'
    BY <1>0, <1>3, SettledStays DEF WInv, Pending
  <1>5. ASSUME NEW c \in Convs, Good(c)'
        PROVE  Recorded(c)' /\ Kept(c)' /\ Fetched(c)'
    <2>1. Good(c)
      BY <1>0, <1>3, <1>5, GoodBefore
    <2>2. Stored(c)' = Stored(c)
      BY <1>0, <1>3, StoredStays
    <2>3. \A x \in Runs :
            /\ run[x].pc \in {"persist", "done"} => run'[x].pc \in {"persist", "done"}
            /\ run'[x].pc \in Live => /\ run[x].pc \in Live
                                      /\ run'[x].input = run[x].input
            /\ run'[x].pc = "persist" => run'[x] = run[x]
      BY <1>3 DEF Live
    <2>4. ASSUME NEW x \in Runs, run'[x].pc = "merge", run'[x].hydrated # None,
                 ConvOf(x)' = c
          PROVE  \/ run[x].pc = "merge" /\ run'[x].hydrated = run[x].hydrated
                 \/ Covers(run'[x].hydrated, Visible(ledger[c], x), window[c],
                           Public(ledger[c]), ledger[c])
      <3>1. CASE x = r
        <4>1. ConvOf(r) = c
          BY <2>3, <2>4, <3>1 DEF Live, ConvOf
        <4> QED BY <1>3, <2>1, <2>4, <3>1, <4>1
      <3> QED BY <1>3, <2>4, <3>1
    <2>5. \A x \in Runs : run'[x].pc \in Live /\ ConvOf(x)' = c => ConvOf(x) = c
      BY <2>3 DEF ConvOf
    <2> QED BY <1>3, <2>1, <2>2, <2>3, <2>4, <2>5, OthersKept
  <1> QED BY <1>3, <1>4, <1>5 DEF WInv, Windowed

\* A read of the tables misses only what the window has, what a full window
\* has left behind, and what is older than all it returns.
LEMMA HydratedCovers ==
    ASSUME WInv, NEW r \in Runs, run[r].pc = "hydrating", Good(ConvOf(r))
    PROVE  LET c == ConvOf(r) IN
           Covers(Visible(Tail(Stored(c), ReadSize + 2), r), Visible(ledger[c], r),
                  window[c], Public(ledger[c]), ledger[c])
  <1> DEFINE c == ConvOf(r)
             old == Tail(Stored(c), ReadSize + 2)
             h == Visible(old, r)
  <1>1. run[r].at > 0
    BY DEF WInv, Timed, Live
  <1>2. c \in Convs
    BY <1>1, OwnTurn
  <1>3. Keyed(ledger[c]) /\ Recorded(c) /\ Kept(c)
    BY <1>2, MessagesAreKeyed DEF WInv, Windowed
  <1>4. Stored(c) \in SUBSET ledger[c]
    BY <1>3 DEF Recorded
  <1>5. old = Newest(Stored(c), ReadSize + 2) /\ Keyed(Stored(c))
    BY <1>2, <1>3, <1>4, TailIsNewest, PartsOfKeyed
  <1>6. old \in SUBSET Stored(c)
    BY <1>5 DEF Newest
  <1>7. ReadSize + 2 \in Nat /\ ReadSize \in Nat
    BY ConversationsAssumption
  <1>8. h \subseteq Visible(ledger[c], r)
    BY <1>4, <1>6 DEF Visible, Public, OfTurn
  <1>9. ASSUME NEW n \in Visible(ledger[c], r) \ h
        PROVE  \/ n \in window[c] \/ Cardinality(window[c]) >= WindowSize
               \/ /\ Behind({n}, h)
                  /\ Cardinality(h) >= ReadSize \/ Public(ledger[c]) # ledger[c]
    <2>1. n \in ledger[c]
      BY WindowSubsets
    <2>2. CASE n \in window[c] \/ Cardinality(window[c]) >= WindowSize
      BY <2>2
    <2>3. CASE ~(n \in window[c] \/ Cardinality(window[c]) >= WindowSize)
      <3>1. n \in Stored(c)
        BY <1>3, <2>1, <2>3 DEF Kept
      <3>2. n \notin old
        BY <2>1 DEF Visible, Public, OfTurn
      <3>3. n \in Stored(c) \ Newest(Stored(c), ReadSize + 2)
        BY <1>5, <3>1, <3>2
      <3>4. /\ Cardinality(old) >= ReadSize + 2
            /\ After(old, n) = old
        BY <1>5, <1>7, <3>3, EvictedIsBuried
      <3>5. h \subseteq old
        BY WindowSubsets
      <3>6. Behind({n}, h)
        BY <3>4, <3>5 DEF After, Behind
      <3>7. ASSUME Public(ledger[c]) = ledger[c] PROVE Cardinality(h) >= ReadSize
        <4>1. ASSUME NEW m \in old PROVE m \in h
          <5>1. m \in ledger[c] /\ run[m.by].pc = "done"
            BY <1>2, <1>6, StoredIsDone
          <5>2. ~ run[m.by].input.crisis
            BY <3>7, <5>1 DEF Public
          <5>3. OfTurn(old, TurnOf(r)) = {x \in old : x.by = r}
            BY <1>1, <1>4, <1>6, OwnTurn
          <5>4. m \notin OfTurn(old, TurnOf(r))
            BY <5>1, <5>3
          <5> QED BY <5>2, <5>4 DEF Visible, Public
        <4>2. h = old
          BY <3>5, <4>1
        <4>3. Cardinality(old) \in Nat
          BY <1>5, <1>6, PartsOfKeyed
        <4> QED BY <1>7, <3>4, <4>2, <4>3
      <3> QED BY <3>6, <3>7
    <2> QED BY <2>2, <2>3
  <1> QED BY <1>8, <1>9 DEF Covers

\* Starting, refusing, reading and giving up the write.
LEMMA QuietActionsKeep ==
    ASSUME WInv, IInv', NEW r \in Runs,
           \/ \E i \in Inputs : Admit(r, i) \/ Refuse(r, i)
           \/ ReadCached(r) \/ Hydrate(r) \/ HydrateFails(r) \/ Merge(r)
           \/ PersistFails(r)
    PROVE  WInv'
  <1>0. /\ run \in [Runs -> RunType] /\ run' \in [Runs -> RunType]
        /\ run[r] \in RunType
    BY DEF WInv, IInv, TypeOK
  <1>1. run[r].pc = "idle" => run[r].at = 0
    BY DEF WInv, Timed
  <1>1a. run[r].hydrated # None => run[r].pc = "merge"
    BY DEF WInv, Pending
  <1> DEFINE q == run'[r]
  <1>2. q \in RunType
    BY <1>0
  <1>3. ASSUME NEW i \in Inputs, Admit(r, i) PROVE WInv'
    <2>1. /\ run' = [run EXCEPT ![r] = q] /\ run[r].pc = "idle"
          /\ q.at = run[r].at /\ q.pc = "admitted"
          /\ q.hydrated = run[r].hydrated
          /\ UNCHANGED <<turns, window, clock, ledger, deleted, lost>>
      BY <1>0, <1>3 DEF Admit, RunType
    <2> HIDE DEF q
    <2> QED BY <1>1, <1>1a, <1>2, <2>1, QuietKeeps DEF Live
  <1>4. ASSUME NEW i \in Inputs, Refuse(r, i) PROVE WInv'
    <2>1. /\ run' = [run EXCEPT ![r] = q] /\ run[r].pc = "idle"
          /\ q.at = run[r].at /\ q.pc = "refused"
          /\ q.hydrated = run[r].hydrated
          /\ UNCHANGED <<turns, window, clock, ledger, deleted, lost>>
      BY <1>0, <1>4 DEF Refuse, RunType
    <2> HIDE DEF q
    <2> QED BY <1>1, <1>1a, <1>2, <2>1, QuietKeeps DEF Live
  <1>5. CASE ReadCached(r)
    <2>1. /\ run' = [run EXCEPT ![r] = q] /\ run[r].pc = "remembered"
          /\ q.at = run[r].at /\ q.pc \in {"read", "hydrating"}
          /\ q.input = run[r].input /\ q.hydrated = run[r].hydrated
          /\ UNCHANGED <<turns, window, clock, ledger, deleted, lost>>
      BY <1>0, <1>5 DEF ReadCached, RunType
    <2> HIDE DEF q
    <2> QED BY <1>1a, <1>2, <2>1, QuietKeeps DEF Live
  <1>6. CASE Hydrate(r)
    <2>1. /\ run' = [run EXCEPT ![r] = q] /\ run[r].pc = "hydrating"
          /\ q.at = run[r].at /\ q.pc = "merge" /\ q.input = run[r].input
          /\ q.hydrated = Visible(Tail(Stored(ConvOf(r)), ReadSize + 2), r)
          /\ UNCHANGED <<turns, window, clock, ledger, deleted, lost>>
      BY <1>0, <1>6 DEF Hydrate, RunType
    <2> HIDE DEF q
    <2> QED BY <1>2, <2>1, HydratedCovers, QuietKeeps DEF Live
  <1>7. CASE HydrateFails(r)
    <2>1. /\ run' = [run EXCEPT ![r] = q] /\ run[r].pc = "hydrating"
          /\ q.at = run[r].at /\ q.pc = "merge" /\ q.input = run[r].input
          /\ q.hydrated = run[r].hydrated
          /\ UNCHANGED <<turns, window, clock, ledger, deleted, lost>>
      BY <1>0, <1>7 DEF HydrateFails, RunType
    <2> HIDE DEF q
    <2> QED BY <1>1a, <1>2, <2>1, QuietKeeps DEF Live
  <1>8. CASE Merge(r)
    <2>1. /\ run' = [run EXCEPT ![r] = q] /\ run[r].pc = "merge"
          /\ q.at = run[r].at /\ q.pc = "read" /\ q.input = run[r].input
          /\ q.hydrated = None
          /\ UNCHANGED <<turns, window, clock, ledger, deleted, lost>>
      BY <1>0, <1>8 DEF Merge, RunType
    <2> HIDE DEF q
    <2> QED BY <1>1a, <1>2, <2>1, QuietKeeps DEF Live
  <1>9. CASE PersistFails(r)
    <2>1. /\ run' = [run EXCEPT ![r] = q] /\ run[r].pc = "persist"
          /\ q.at = run[r].at /\ q.pc = "done" /\ q.input = run[r].input
          /\ q.hydrated = run[r].hydrated
          /\ UNCHANGED <<turns, window, clock, ledger, deleted>>
          /\ lost \subseteq lost'
      BY <1>0, <1>9 DEF PersistFails, RunType
    <2> HIDE DEF q
    <2> QED BY <1>1a, <1>2, <2>1, QuietKeeps DEF Live
  <1> QED BY <1>3, <1>4, <1>5, <1>6, <1>7, <1>8, <1>9

\* Messages told apart by their turn start are sorted by it.
LEMMA OrderIsTime ==
    ASSUME NEW ms, ms \subseteq MessageType,
           \A m \in ms : TurnOf(m.by) \in Nat,
           \A m, n \in ms : m.at = n.at => m.by = n.by, NEW k
    PROVE  Tail(ms, k) = Newest(ms, k)
  <1>1. ASSUME NEW m \in ms, NEW n \in ms PROVE Precedes(m, n) <=> Before(m, n)
    <2>1. m.at = n.at => m.by = n.by
      OBVIOUS
    <2>2. TurnOf(m.by) \in Nat /\ m.at \in Nat /\ n.at \in Nat
      BY DEF MessageType
    <2>3. CASE m.at = n.at
      <3>1. TurnOf(m.by) = TurnOf(n.by)
        BY <2>1, <2>3
      <3> QED BY <2>2, <2>3, <3>1 DEF Precedes, Before
    <2>4. CASE m.at # n.at
      BY <2>4 DEF Precedes, Before
    <2> QED BY <2>3, <2>4
  <1>2. ASSUME NEW m \in ms PROVE {n \in ms : Precedes(m, n)} = After(ms, m)
    BY <1>1 DEF After
  <1> QED BY <1>2 DEF Tail, Newest

\* A read that waits for its merge still covers a conversation in which new
\* messages were recorded.
LEMMA CoversGrows ==
    ASSUME NEW read, NEW seen, NEW win, NEW pub, NEW all,
           Covers(read, seen, win, pub, all),
           NEW new, NEW left, NEW seen2, NEW pub2, NEW all2,
           seen \subseteq seen2, seen2 \subseteq seen \cup new,
           pub # all => pub2 # all2,
           left = win \cup new \/ Cardinality(left) >= WindowSize,
           Cardinality(win) >= WindowSize => Cardinality(left) >= WindowSize
    PROVE  Covers(read, seen2, left, pub2, all2)
  BY DEF Covers

\* What a run may record: its input when it starts, and its input and what
\* there is of its answer when it ends.
Records(r, q, ms) ==
    \/ /\ run[r].pc = "admitted" /\ q.pc = "remembered"
       /\ q.at = clock + 1 /\ clock' = clock + 1
       /\ ms = {Message(r, 0, q.at)}
    \/ /\ run[r].pc \in {"remembered", "hydrating", "merge", "read"}
       /\ q.pc = "persist" /\ q.at = run[r].at /\ clock' = clock
       /\ ms = {Message(r, 0, q.at)} \cup
                  (IF q.answered THEN {Message(r, 1, q.at)} ELSE {})

\* The run of a recording step goes on with the input it had.
LEMMA RecordingMoves ==
    ASSUME WInv, IInv', NEW r \in Runs, NEW q \in RunType, NEW ms,
           run' = [run EXCEPT ![r] = q], q.input = run[r].input,
           q.hydrated = None, Records(r, q, ms),
           UNCHANGED <<turns, deleted, lost>>
    PROVE  /\ run'[r] = q /\ \A x \in Runs : x # r => run'[x] = run[x]
           /\ Steady /\ Timed' /\ Settled' /\ Pending'
           /\ q.at > 0 /\ ConvOf(r) \in Convs
           /\ \A x \in Runs : run'[x].input = run[x].input
           /\ run[r].pc \notin {"idle", "persist", "done"}
  <1>0. IInv /\ Timed /\ Settled /\ Pending
    BY DEF WInv
  <1>1. run[r].at \in Nat /\ clock \in Nat
    BY <1>0 DEF IInv, TypeOK, RunType
  <1>2. /\ run[r].pc = "admitted" => run[r].at = 0
        /\ run[r].pc \in Live => run[r].at > 0
    BY <1>0 DEF Timed
  <1>3. /\ \/ q.at = run[r].at /\ clock' = clock
           \/ run[r].at = 0 /\ q.at = clock + 1 /\ clock' = clock + 1
        /\ q.pc \in Live /\ q.pc # "merge" /\ q.at > 0
        /\ q.pc \notin {"idle", "refused", "admitted"}
        /\ run[r].pc \notin {"idle", "refused", "persist", "done"}
    BY <1>1, <1>2 DEF Records, Live
  <1>4. /\ run'[r] = q /\ \A x \in Runs : x # r => run'[x] = run[x]
        /\ Steady /\ Timed'
    BY <1>0, <1>3, RunMoves
  <1>5. Settled' /\ Pending'
    BY <1>0, <1>3, <1>4, SettledStays DEF Pending
  <1>6. ConvOf(r) \in Convs
    <2>1. Present(r)
      BY <1>3 DEF Present
    <2> QED BY <1>0, <2>1, ReadableMessages
  <1> QED BY <1>3, <1>4, <1>5, <1>6

\* What the ledger and the window of its conversation are after it.
LEMMA RecordingAdds ==
    ASSUME WInv, IInv', NEW r \in Runs, NEW q \in RunType, NEW ms,
           run' = [run EXCEPT ![r] = q], q.input = run[r].input,
           q.hydrated = None, Records(r, q, ms), replace_turn(r, ms),
           UNCHANGED <<turns, deleted, lost>>,
           NEW c \in Convs, ConvOf(r) = c, Good(c), Good(c)'
    PROVE  /\ Keyed(ledger[c] \cup ms)
           /\ ledger'[c] = ledger[c] \cup ms
           /\ window'[c] = Newest(window[c] \cup ms, WindowSize)
  <1> DEFINE L == ledger[c]
             W == window[c]
             own(old) == OfTurn(old, TurnOf(r))
  <1>1. /\ run'[r] = q /\ \A x \in Runs : x # r => run'[x] = run[x]
        /\ Steady /\ Timed' /\ q.at > 0 /\ c \in Convs
        /\ \A x \in Runs : run'[x].input = run[x].input
        /\ run[r].pc \notin {"idle", "persist", "done"}
    BY RecordingMoves
  <1>2. /\ Keyed(L) /\ L \subseteq MessageType /\ IsFiniteSet(L)
        /\ Recorded(c) /\ Kept(c)
    BY <1>1, MessagesAreKeyed DEF WInv, Windowed, Recorded
  <1>3. ASSUME NEW m \in L
        PROVE  /\ m.by \in Runs /\ run[m.by].at > 0 /\ m.at = run[m.by].at
               /\ m.at = run'[m.by].at
               /\ ConvOf(m.by) = c /\ (m.seq = 1 => m.by # r)
    <2>1. m.by \in Runs /\ run[m.by].at > 0
      BY <1>1, MessagesAreKeyed
    <2> QED BY <1>1, <1>2, <2>1 DEF Recorded, Steady
  <1>4. ASSUME NEW m \in L, TurnOf(m.by) = TurnOf(r)
        PROVE  m = Message(r, 0, q.at)
    <2>1. m.by = r
      <3>1. run'[m.by].at > 0 /\ run'[r].at > 0 /\ m.by \in Runs
        BY <1>1, <1>3
      <3>2. /\ TurnOf(m.by)' = TurnOf(r)'
            /\ ConvOf(m.by)' = c /\ ConvOf(r)' = c
        BY <1>1, <1>3, <1>4 DEF TurnOf, ConvOf
      <3>3. ~RunAgain(c)'
        BY DEF Good
      <3> QED BY <3>1, <3>2, <3>3 DEF RunAgain
    <2>2. m.at = q.at
      BY <1>1, <1>3, <2>1
    <2>3. m = [by |-> m.by, seq |-> m.seq, at |-> m.at] /\ m.seq \in {0, 1}
      BY <1>2 DEF MessageType
    <2> QED BY <1>3, <2>1, <2>2, <2>3 DEF Message
  <1>5. /\ IsFiniteSet(ms) /\ ms \subseteq MessageType
        /\ Message(r, 0, q.at) \in ms
        /\ \A m \in ms : /\ m \in {Message(r, 0, q.at), Message(r, 1, q.at)}
                         /\ m.by = r /\ m.at = q.at /\ m.seq \in {0, 1}
    <2>1. /\ Message(r, 0, q.at) \in MessageType
          /\ Message(r, 1, q.at) \in MessageType
      BY DEF Message, MessageType, RunType
    <2>2. \/ ms = {Message(r, 0, q.at)}
          \/ ms = {Message(r, 0, q.at)} \cup {Message(r, 1, q.at)}
      BY DEF Records
    <2>3. IsFiniteSet(ms)
      <3>1. \A a, b : IsFiniteSet({a}) /\ IsFiniteSet({a} \cup {b})
        BY FS_Singleton, FS_AddElement
      <3>2. CASE ms = {Message(r, 0, q.at)}
        BY <3>1, <3>2
      <3>3. CASE ms = {Message(r, 0, q.at)} \cup {Message(r, 1, q.at)}
        BY <3>1, <3>3
      <3> QED BY <2>2, <3>2, <3>3
    <2> QED BY <2>1, <2>2, <2>3 DEF Message
  <1>6. ASSUME NEW m \in L \cup ms
        PROVE  m \in MessageType /\ m.by \in Runs /\ m.at > 0 /\ m.at = run'[m.by].at
    BY <1>1, <1>2, <1>3, <1>5 DEF MessageType
  <1>7. ASSUME NEW m \in L \cup ms, NEW n \in L \cup ms, m.at = n.at
        PROVE  m.by = n.by
    <2>1. run'[m.by].at = run'[n.by].at /\ run'[m.by].at # 0
          /\ m.by \in Runs /\ n.by \in Runs
      BY <1>6, <1>7
    <2> QED BY <1>1, <2>1 DEF Timed
  <1>8. Keyed(L \cup ms)
    <2>1. IsFiniteSet(L \cup ms)
      BY <1>2, <1>5, FS_Union
    <2>2. ASSUME NEW m \in L \cup ms, NEW n \in L \cup ms,
                 m.at = n.at, m.seq = n.seq
          PROVE  m = n
      <3>1. m.by = n.by
        BY <1>7, <2>2
      <3>2. m = [by |-> m.by, seq |-> m.seq, at |-> m.at]
            /\ n = [by |-> n.by, seq |-> n.seq, at |-> n.at]
        BY <1>6 DEF MessageType
      <3> QED BY <2>2, <3>1, <3>2
    <2> QED BY <1>6, <2>1, <2>2 DEF Keyed
  <1>9. own(L) \subseteq ms /\ own(W) \subseteq ms /\ W \subseteq L
    BY <1>2, <1>4, <1>5 DEF OfTurn, Kept
  <1>10. ledger'[c] = L \cup ms
    <2>1. ledger'[c] = (L \ own(L)) \cup ms
      BY <1>1 DEF replace_turn, WInv, IInv, TypeOK
    <2> QED BY <1>9, <2>1
  <1>11. window'[c] = Tail(W \cup ms, WindowSize)
    <2>1. window'[c] = _merge_tail(W \ own(W), ms, WindowSize)
      BY <1>1 DEF replace_turn, WInv, IInv, TypeOK
    <2>2. \A m \in W \ own(W), n \in ms : ~SameKey(m, n)
      BY <1>5 DEF SameKey, OfTurn
    <2>3. {m \in W \ own(W) : \A n \in ms : ~SameKey(m, n)} = W \ own(W)
      BY <2>2
    <2>4. ms \cup (W \ own(W)) = W \cup ms
      BY <1>9
    <2> HIDE DEF own
    <2> QED BY <2>1, <2>3, <2>4 DEF _merge_tail
  <1>12. Tail(W \cup ms, WindowSize) = Newest(W \cup ms, WindowSize)
    <2>1. W \cup ms \subseteq L \cup ms
      BY <1>9
    <2>2. \A m \in W \cup ms : TurnOf(m.by) \in Nat
      <3> SUFFICES ASSUME NEW m \in W \cup ms PROVE TurnOf(m.by) \in Nat
        OBVIOUS
      <3>1. m.by \in Runs /\ run'[m.by].at > 0
        BY <1>6, <2>1
      <3>2. run'[m.by].pc # "idle"
        BY <1>1, <3>1 DEF Timed
      <3>3. run'[m.by].input \in Inputs
        BY <3>1, <3>2 DEF IInv, Given
      <3>4. run[m.by].input \in Inputs
        BY <1>1, <3>1, <3>3
      <3> QED BY <3>4, ConversationsAssumption DEF TurnOf, InputType
    <2>3. W \cup ms \subseteq MessageType
      BY <1>6, <2>1
    <2>4. \A m, n \in W \cup ms : m.at = n.at => m.by = n.by
      BY <1>7, <2>1
    <2> QED BY <2>2, <2>3, <2>4, OrderIsTime
  <1> QED BY <1>8, <1>10, <1>11, <1>12

\* The window still holds the newest messages of the ledger.
LEMMA RecordedIsKept ==
    ASSUME WInv, IInv', NEW r \in Runs, NEW q \in RunType, NEW ms,
           run' = [run EXCEPT ![r] = q], q.input = run[r].input,
           q.hydrated = None, Records(r, q, ms), replace_turn(r, ms),
           UNCHANGED <<turns, deleted, lost>>,
           NEW c \in Convs, ConvOf(r) = c, Good(c), Good(c)'
    PROVE  /\ Recorded(c)' /\ Kept(c)'
           /\ \/ window'[c] = window[c] \cup ms
              \/ Cardinality(window'[c]) >= WindowSize
           /\ Cardinality(window[c]) >= WindowSize =>
                 Cardinality(window'[c]) >= WindowSize
  <1> DEFINE L == ledger[c]
             W == window[c]
             mine == Message(r, 0, q.at)
             said == Message(r, 1, q.at)
  <1>1. /\ run'[r] = q /\ \A x \in Runs : x # r => run'[x] = run[x]
        /\ Steady /\ Timed' /\ q.at > 0 /\ c \in Convs
        /\ \A x \in Runs : run'[x].input = run[x].input
        /\ run[r].pc \notin {"idle", "persist", "done"}
    BY RecordingMoves
  <1>2. /\ Keyed(L \cup ms) /\ ledger'[c] = L \cup ms
        /\ window'[c] = Newest(W \cup ms, WindowSize)
    BY RecordingAdds
  <1>3. /\ Keyed(L) /\ L \subseteq MessageType /\ Recorded(c) /\ Kept(c) /\ Timed
    BY <1>1, MessagesAreKeyed DEF WInv, Windowed
  <1>4. Stored(c)' = Stored(c)
    BY <1>1, StoredStays DEF WInv, IInv
  <1>5. /\ mine.at = q.at /\ mine.seq = 0 /\ mine.by = r
        /\ said.at = q.at /\ said.seq = 1 /\ said.by = r
        /\ mine \in ms /\ ms \subseteq {mine, said}
        /\ q.pc = "remembered" => ms = {mine}
        /\ q.pc = "persist" /\ q.answered => said \in ms
        /\ q.pc \in {"remembered", "persist"}
    BY DEF Message, Records
  <1>6. ASSUME NEW m \in L
        PROVE  /\ m \in MessageType /\ m.by \in Runs /\ m.at \in Nat
               /\ m.at > 0 /\ m.at = run[m.by].at /\ m.at = run'[m.by].at
               /\ m.seq \in {0, 1} /\ ConvOf(m.by) = c /\ ConvOf(m.by)' = c
               /\ m.seq = 1 => run[m.by].pc \in {"persist", "done"} /\ m.by # r
    <2>1. m.by \in Runs /\ run[m.by].at > 0
      BY <1>1, MessagesAreKeyed
    <2> QED BY <1>1, <1>3, <2>1 DEF Recorded, Steady, ConvOf, MessageType
  <1> HIDE DEF mine, said
  <1>7. q.at \in Nat /\ clock \in Nat
    BY DEF RunType, WInv, IInv, TypeOK
  <1>8. \/ Behind((L \cup ms) \ (W \cup ms), ms)
        \/ Cardinality(W) >= WindowSize /\ Behind(ms, W)
    <2>1. CASE q.pc = "remembered"
      <3>1. q.at = clock + 1 /\ ms = {mine}
        BY <1>5, <2>1 DEF Records
      <3>2. ASSUME NEW m \in L PROVE Before(m, mine)
        <4>1. m.at <= clock
          BY <1>3, <1>6 DEF Timed
        <4> QED BY <1>5, <1>6, <1>7, <3>1, <4>1 DEF Before
      <3> QED BY <3>1, <3>2 DEF Behind
    <2>2. CASE q.pc = "persist" /\ mine \in W
      <3>1. ASSUME NEW m \in (L \cup ms) \ (W \cup ms), NEW n \in ms
            PROVE  Before(m, n)
        <4>1. m \in L /\ Before(m, mine)
          BY <1>3, <2>2 DEF Kept, Behind
        <4>2. m.at \in Nat /\ m.seq \in Nat
          BY <1>6, <4>1
        <4>3. m.at < q.at
          BY <1>5, <1>7, <4>1, <4>2 DEF Before
        <4>4. n.at = q.at
          BY <1>5
        <4> QED BY <4>3, <4>4 DEF Before
      <3> QED BY <3>1 DEF Behind
    <2>3. CASE q.pc = "persist" /\ mine \notin W
      <3>1. run[r].pc \in Live /\ q.at = run[r].at
        BY <1>1, <1>5, <2>3 DEF Records, Live
      <3>2. mine \in L \ W
        BY <1>3, <2>3, <3>1 DEF Recorded, mine
      <3>3. mine \notin Stored(c)
        BY <1>1, <1>5, StoredIsDone
      <3>4. Cardinality(W) >= WindowSize
        BY <1>3, <3>2, <3>3 DEF Kept
      <3>5. ASSUME NEW m \in ms, NEW n \in W PROVE Before(m, n)
        <4>1. n \in L /\ Before(mine, n)
          BY <1>3, <3>2 DEF Kept, Behind
        <4>2. CASE q.at < n.at
          BY <1>5, <4>2 DEF Before
        <4>3. CASE ~(q.at < n.at)
          <5>1. q.at = n.at /\ n.seq = 1
            BY <1>5, <1>6, <4>1, <4>3 DEF Before
          <5>2. n.by # r /\ run'[n.by].at = run'[r].at /\ n.by \in Runs
            BY <1>1, <1>6, <4>1, <5>1
          <5>3. run'[r].at = 0
            BY <1>1, <5>2 DEF Timed
          <5> QED BY <1>1, <5>3
        <4> QED BY <4>2, <4>3
      <3> QED BY <3>4, <3>5 DEF Behind
    <2> QED BY <1>5, <2>1, <2>2, <2>3
  <1>9. /\ window'[c] \subseteq L \cup ms
        /\ Behind((L \cup ms) \ window'[c], window'[c])
        /\ \/ (L \cup ms) \ window'[c] \subseteq Stored(c)
           \/ Cardinality(window'[c]) >= WindowSize
        /\ \/ window'[c] = W \cup ms
           \/ Cardinality(window'[c]) >= WindowSize
        /\ Cardinality(W) >= WindowSize => Cardinality(window'[c]) >= WindowSize
    <2>1. /\ W \subseteq L /\ Behind(L \ W, W)
          /\ L \ W \subseteq Stored(c) \/ Cardinality(W) >= WindowSize
      BY <1>3 DEF Kept
    <2>2. WindowSize \in Nat
      BY ConversationsAssumption
    <2> DEFINE left == Newest(W \cup ms, WindowSize)
    <2>3. Keyed(L \cup ms) /\ window'[c] = left
      BY <1>2
    <2> HIDE DEF L, W
    <2>4. /\ left \subseteq L \cup ms
          /\ Behind((L \cup ms) \ left, left)
          /\ (L \cup ms) \ left \subseteq Stored(c) \/ Cardinality(left) >= WindowSize
          /\ left = W \cup ms \/ Cardinality(left) >= WindowSize
          /\ Cardinality(W) >= WindowSize => Cardinality(left) >= WindowSize
      BY <1>8, <2>1, <2>2, <2>3, RecordingKeeps
    <2> QED BY <2>3, <2>4
  <1>10. Kept(c)'
    <2>1. /\ window'[c] \subseteq ledger'[c]
          /\ Behind(ledger'[c] \ window'[c], window'[c])
          /\ \/ ledger'[c] \ window'[c] \subseteq Stored(c)'
             \/ Cardinality(window'[c]) >= WindowSize
      BY <1>2, <1>4, <1>9
    <2>2. \A m \in ledger'[c] \ window'[c], n \in window'[c] : Before(m, n)
      BY <2>1 DEF Behind
    <2> QED BY <2>1, <2>2 DEF Kept, Behind, Before
  <1>11. Recorded(c)'
    <2>1. IsFiniteSet(L \cup ms) /\ Stored(c) \subseteq L
      BY <1>2, <1>3 DEF Keyed, Recorded
    <2>2. ASSUME NEW m \in L \cup ms
          PROVE  /\ m.at > 0 /\ m.at = run'[m.by].at /\ ConvOf(m.by)' = c
                 /\ m.seq = 1 => run'[m.by].pc \in {"persist", "done"}
      <3>1. CASE m \in ms
        <4>1. m.by = r /\ m.at = q.at /\ (m.seq = 1 => q.pc = "persist")
          BY <1>5, <3>1
        <4> QED BY <1>1, <4>1 DEF ConvOf
      <3>2. CASE m \in L
        BY <1>1, <1>6, <3>2
      <3> QED BY <3>1, <3>2
    <2>3. ASSUME NEW x \in Runs, run'[x].pc \in Live, ConvOf(x)' = c
          PROVE  /\ Message(x, 0, run'[x].at) \in L \cup ms
                 /\ run'[x].pc = "persist" /\ run'[x].answered =>
                       Message(x, 1, run'[x].at) \in L \cup ms
      <3>1. CASE x = r
        BY <1>1, <1>5, <3>1 DEF mine, said
      <3>2. CASE x # r
        BY <1>1, <1>3, <2>3, <3>2 DEF Recorded, ConvOf
      <3> QED BY <3>1, <3>2
    <2>4. \A t \in Turns : turns'[t] # None /\ turns'[t].conv = c =>
              turns'[t].answer \in {None, turns'[t].by}
      BY <1>3 DEF Recorded
    <2> HIDE DEF L
    <2> QED BY <1>2, <1>4, <2>1, <2>2, <2>3, <2>4 DEF Recorded, Message
  <1> QED BY <1>9, <1>10, <1>11

\* Reads that wait for their merge still cover the conversation.
LEMMA RecordedIsFetched ==
    ASSUME WInv, IInv', NEW r \in Runs, NEW q \in RunType, NEW ms,
           run' = [run EXCEPT ![r] = q], q.input = run[r].input,
           q.hydrated = None, Records(r, q, ms), replace_turn(r, ms),
           UNCHANGED <<turns, deleted, lost>>,
           NEW c \in Convs, ConvOf(r) = c, Good(c), Good(c)'
    PROVE  Fetched(c)'
  <1> DEFINE L == ledger[c]
             W == window[c]
             left == window'[c]
             both == L \cup ms
  <1>1. /\ run'[r] = q /\ \A x \in Runs : x # r => run'[x] = run[x]
        /\ \A x \in Runs : run'[x].input = run[x].input
        /\ q.pc # "merge"
    BY RecordingMoves DEF Records
  <1>2. /\ ledger'[c] = both
        /\ left = W \cup ms \/ Cardinality(left) >= WindowSize
        /\ Cardinality(W) >= WindowSize => Cardinality(left) >= WindowSize
        /\ Fetched(c)
    BY RecordingAdds, RecordedIsKept, ZenonT(40) DEF WInv, Windowed
  <1>3. \A m \in both : m.by \in Runs
    <2>1. \A m \in ms : m.by = r
      BY DEF Records, Message
    <2> QED BY <2>1, MessagesAreKeyed
  <1> DEFINE shown(x) == {m \in both : ~run'[m.by].input.crisis
                                  /\ TurnOf(m.by)' # TurnOf(x)'}
             open == {m \in both : ~run'[m.by].input.crisis}
  <1>4. ASSUME NEW x \in Runs
        PROVE  /\ Visible(L, x) \subseteq shown(x)
               /\ shown(x) \subseteq Visible(L, x) \cup ms
               /\ Public(L) # L => open # both
    BY <1>1, <1>3 DEF Visible, Public, OfTurn, TurnOf
  <1>5. \A x \in Runs : Visible(ledger[c], x)' = shown(x)
    BY <1>2 DEF Visible, Public, OfTurn, TurnOf
  <1>6. Public(ledger[c])' = open
    BY <1>2 DEF Public
  <1> HIDE DEF shown, open
  <1>7. ASSUME NEW x \in Runs, run'[x].pc = "merge", run'[x].hydrated # None,
               ConvOf(x)' = c
        PROVE  Covers(run'[x].hydrated, Visible(ledger[c], x)', window'[c],
                      Public(ledger[c])', ledger'[c])
    <2>1. run'[x] = run[x] /\ ConvOf(x) = c
      BY <1>1, <1>7 DEF ConvOf
    <2>2. Covers(run[x].hydrated, Visible(L, x), W, Public(L), L)
      BY <1>2, <1>7, <2>1 DEF Fetched
    <2>3. /\ Visible(L, x) \subseteq Visible(ledger[c], x)'
          /\ Visible(ledger[c], x)' \subseteq Visible(L, x) \cup ms
          /\ Public(L) # L => Public(ledger[c])' # ledger'[c]
      <3> HIDE DEF L, both
      <3> QED BY <1>2, <1>4, <1>5, <1>6
    <2> HIDE DEF L, W, left
    <2>4. \A seen2, pub2, all2 :
            /\ Visible(L, x) \subseteq seen2
            /\ seen2 \subseteq Visible(L, x) \cup ms
            /\ Public(L) # L => pub2 # all2
            => Covers(run[x].hydrated, seen2, left, pub2, all2)
      BY <1>2, <2>2, CoversGrows
    <2> QED BY <2>1, <2>3, <2>4 DEF left
  <1>8. Fetched(c)'
    BY <1>7 DEF Fetched, Covers, Behind, Before
  <1> QED BY <1>8

\* Recording keeps the invariant.
LEMMA RecordingKeepsAll ==
    ASSUME WInv, IInv', NEW r \in Runs, NEW q \in RunType, NEW ms,
           run' = [run EXCEPT ![r] = q], q.input = run[r].input,
           q.hydrated = None, Records(r, q, ms), replace_turn(r, ms),
           UNCHANGED <<turns, deleted, lost>>
    PROVE  WInv'
  <1>1. /\ run'[r] = q /\ \A x \in Runs : x # r => run'[x] = run[x]
        /\ Steady /\ Timed' /\ Settled' /\ Pending'
        /\ \A x \in Runs : run'[x].input = run[x].input
        /\ run[r].pc \notin {"idle", "persist", "done"}
        /\ q.pc # "merge" /\ q.pc \in Live
    BY RecordingMoves DEF Records, Live
  <1>2. ASSUME NEW c \in Convs, Good(c)'
        PROVE  Recorded(c)' /\ Kept(c)' /\ Fetched(c)'
    <2>1. Good(c)
      BY <1>1, <1>2, GoodBefore DEF WInv, IInv
    <2>2. CASE ConvOf(r) = c
      BY <1>2, <2>1, <2>2, RecordedIsKept, RecordedIsFetched
    <2>3. CASE ConvOf(r) # c
      <3>1. Stored(c)' = Stored(c)
        BY <1>1, StoredStays DEF WInv, IInv
      <3>2. ledger'[c] = ledger[c] /\ window'[c] = window[c]
        BY <2>3 DEF replace_turn, WInv, IInv, TypeOK
      <3>3. \A x \in Runs : ConvOf(x)' = ConvOf(x)
        BY <1>1 DEF ConvOf
      <3>4. \A x \in Runs : ConvOf(x)' = c => run'[x] = run[x]
        BY <1>1, <2>3, <3>3
      <3>5. \A x \in Runs :
              run[x].pc \in {"persist", "done"} => run'[x].pc \in {"persist", "done"}
        BY <1>1
      <3> QED BY <1>1, <2>1, <3>1, <3>2, <3>3, <3>4, <3>5, OthersKept
    <2> QED BY <2>2, <2>3
  <1> QED BY <1>1, <1>2 DEF WInv, Windowed

\* The two recording actions.
LEMMA RecordingActionsKeep ==
    ASSUME WInv, IInv', NEW r \in Runs,
           Remember(r) \/ \E answered \in BOOLEAN : Finalize(r, answered)
    PROVE  WInv'
  <1>0. /\ run \in [Runs -> RunType] /\ run' \in [Runs -> RunType]
        /\ run[r] \in RunType /\ run'[r] \in RunType
        /\ run[r].hydrated # None => run[r].pc = "merge"
    BY DEF WInv, IInv, TypeOK, Pending
  <1> DEFINE q == run'[r]
  <1>1. CASE Remember(r)
    <2>1. /\ run' = [run EXCEPT ![r] = q] /\ q.input = run[r].input
          /\ run[r].pc = "admitted" /\ q.pc = "remembered"
          /\ q.at = clock + 1 /\ clock' = clock + 1
          /\ q.hydrated = run[r].hydrated
          /\ replace_turn(r, {Message(r, 0, clock + 1)})
          /\ UNCHANGED <<turns, deleted, lost>>
      BY <1>0, <1>1 DEF Remember, RunType
    <2> HIDE DEF q
    <2>2. Records(r, q, {Message(r, 0, clock + 1)}) /\ q.hydrated = None
      BY <1>0, <2>1 DEF Records
    <2> QED BY <1>0, <2>1, <2>2, RecordingKeepsAll DEF q
  <1>2. ASSUME NEW answered \in BOOLEAN, Finalize(r, answered) PROVE WInv'
    <2> DEFINE ms == {Message(r, 0, run[r].at)} \cup
                       (IF answered THEN {Message(r, 1, run[r].at)} ELSE {})
    <2> DEFINE t == [run[r] EXCEPT !.pc = "persist", !.answered = answered,
                                   !.hydrated = None, !.result = {}]
    <2>0. /\ t.input = run[r].input /\ t.pc = "persist" /\ t.at = run[r].at
          /\ t.hydrated = None /\ t.answered = answered
      BY <1>0 DEF RunType
    <2>0a. /\ run[r].pc \in {"remembered", "hydrating", "merge", "read"}
           /\ run' = [run EXCEPT ![r] = t] /\ replace_turn(r, ms)
           /\ UNCHANGED <<turns, clock, deleted, lost>>
      BY <1>0, <1>2 DEF Finalize
    <2> HIDE DEF t, ms
    <2>0b. q = t
      BY <1>0, <2>0a
    <2>1. /\ run' = [run EXCEPT ![r] = q] /\ q.input = run[r].input
          /\ run[r].pc \in {"remembered", "hydrating", "merge", "read"}
          /\ q.pc = "persist" /\ q.at = run[r].at /\ clock' = clock
          /\ q.hydrated = None /\ q.answered = answered
          /\ replace_turn(r, ms)
          /\ UNCHANGED <<turns, deleted, lost>>
      BY <2>0, <2>0a, <2>0b
    <2> HIDE DEF q
    <2>2. Records(r, q, ms)
      BY <2>1 DEF Records, ms
    <2> QED BY <1>0, <2>1, <2>2, RecordingKeepsAll DEF q
  <1> QED BY <1>1, <1>2

\* Writing a run's rows stores what was recorded of it, and nothing else of
\* a conversation where no turn id was run again.
LEMMA WrittenIsRecorded ==
    ASSUME WInv, NEW r \in Runs, Persist(r), NEW c \in Convs, ConvOf(r) = c,
           Good(c), Steady
    PROVE  /\ Stored(c) \subseteq Stored(c)' /\ Stored(c)' \subseteq ledger[c]
           /\ \A t \in Turns : turns'[t] # None /\ turns'[t].conv = c =>
                  turns'[t].answer \in {None, turns'[t].by}
  <1> DEFINE i == run[r].input
             w == Written(r)
  <1>1. /\ i \in Inputs /\ i.turn \in Turns /\ i.conv = c
        /\ turns \in [Turns -> RowType \cup {None}]
        /\ run[r].pc = "persist" /\ run[r].at > 0 /\ run'[r].at = run[r].at
    <2>1. run[r].pc = "persist" /\ i \in Inputs /\ run[r].at > 0
      BY DEF Persist, WInv, IInv, Given, Timed, Live
    <2> QED BY <2>1, ClaimedScope DEF WInv, IInv, TypeOK, ConvOf, Steady
  <1>2. Recorded(c)
    BY DEF WInv, Windowed
  <1>3. turns[i.turn] = None
    <2> SUFFICES ASSUME turns[i.turn] # None PROVE FALSE
      OBVIOUS
    <2>1. turns[i.turn].conv = c
      BY <1>1 DEF Persist, Allowed, _verify_existing_turn_scope
    <2>2. PICK y \in Runs : y = turns[i.turn].by
      BY <1>1 DEF RowType
    <2>3. y # None
      BY ConversationsAssumption
    <2>4. TurnOf(y) = i.turn /\ ConvOf(y) = c
      BY <1>1, <2>1, <2>2, <2>3 DEF WInv, IInv, Rows, Parts
    <2>5. run[y].pc = "done" /\ run[y].at > 0
      BY <1>1, <2>2 DEF WInv, Settled
    <2>6. y # r
      BY <1>1, <2>5
    <2>7. TurnOf(r) = i.turn
      BY DEF TurnOf
    <2> QED BY <1>1, <2>4, <2>5, <2>6, <2>7 DEF Good, RunAgain
  <1>4. /\ w.conv = c /\ w.by = r /\ w.user = r
        /\ w.answer = IF run[r].answered THEN r ELSE None
    BY <1>1, <1>3 DEF Written
  <1>5. turns' = [turns EXCEPT ![i.turn] = w]
    BY DEF Persist
  <1> HIDE DEF w
  <1>6. turns'[i.turn] = w /\ \A t \in Turns : t # i.turn => turns'[t] = turns[t]
    BY <1>1, <1>5
  <1>7. \A t \in Turns : turns'[t] # None /\ turns'[t].conv = c =>
            turns'[t].answer \in {None, turns'[t].by}
    <2> SUFFICES ASSUME NEW t \in Turns, turns'[t] # None, turns'[t].conv = c
                 PROVE  turns'[t].answer \in {None, turns'[t].by}
      OBVIOUS
    <2>1. CASE t = i.turn
      BY <1>4, <1>6, <2>1
    <2>2. CASE t # i.turn
      BY <1>2, <1>6, <2>2 DEF Recorded
    <2> QED BY <2>1, <2>2
  <1>8. \A t \in Turns : turns[t] # None =>
            /\ turns'[t] = turns[t]
            /\ run'[turns[t].by].at = run[turns[t].by].at
    <2> SUFFICES ASSUME NEW t \in Turns, turns[t] # None
                 PROVE  /\ turns'[t] = turns[t]
                        /\ run'[turns[t].by].at = run[turns[t].by].at
      OBVIOUS
    <2>1. turns[t].by \in Runs /\ run[turns[t].by].at > 0
      BY <1>1 DEF WInv, Settled, RowType
    <2> QED BY <1>3, <1>6, <2>1 DEF Steady
  <1>9. ASSUME NEW m \in Stored(c) PROVE m \in Stored(c)'
    <2>1. PICK t \in Turns :
            /\ turns[t] # None /\ turns[t].conv = c
            /\ \/ m = Message(turns[t].user, 0, run[turns[t].by].at)
               \/ /\ turns[t].answer # None
                  /\ m = Message(turns[t].answer, 1, run[turns[t].by].at)
      BY <1>9 DEF Stored
    <2>2. /\ turns'[t] # None /\ turns'[t].conv = c
          /\ \/ m = Message(turns'[t].user, 0, run'[turns'[t].by].at)
             \/ /\ turns'[t].answer # None
                /\ m = Message(turns'[t].answer, 1, run'[turns'[t].by].at)
      BY <1>8, <2>1
    <2> QED BY <2>2 DEF Stored, Message
  <1>10. ASSUME NEW m \in Stored(c)' PROVE m \in ledger[c]
    <2>1. PICK t \in Turns :
            /\ turns'[t] # None /\ turns'[t].conv = c
            /\ \/ m = Message(turns'[t].user, 0, run'[turns'[t].by].at)
               \/ /\ turns'[t].answer # None
                  /\ m = Message(turns'[t].answer, 1, run'[turns'[t].by].at)
      BY <1>10 DEF Stored, Message
    <2>2. CASE t = i.turn
      <3>1. \/ m = Message(r, 0, run[r].at)
            \/ run[r].answered /\ m = Message(r, 1, run[r].at)
        BY <1>1, <1>4, <1>6, <2>1, <2>2
      <3> QED BY <1>1, <1>2, <3>1 DEF Recorded, Live
    <2>3. CASE t # i.turn
      <3>1. /\ turns[t] # None /\ turns[t].conv = c
            /\ \/ m = Message(turns[t].user, 0, run[turns[t].by].at)
               \/ /\ turns[t].answer # None
                  /\ m = Message(turns[t].answer, 1, run[turns[t].by].at)
        BY <1>6, <1>8, <2>1, <2>3
      <3>2. m \in Stored(c)
        BY <3>1 DEF Stored
      <3> QED BY <1>2, <3>2 DEF Recorded
    <2> QED BY <2>2, <2>3
  <1> QED BY <1>7, <1>9, <1>10

\* Writing a run's rows keeps the invariant.
LEMMA PersistKeepsAll ==
    ASSUME WInv, IInv', NEW r \in Runs, Persist(r)
    PROVE  WInv'
  <1> DEFINE q == run'[r]
             i == run[r].input
  <1>0. /\ run \in [Runs -> RunType] /\ q \in RunType
        /\ IInv /\ Timed /\ Settled /\ Pending /\ TypeOK /\ TypeOK'
    BY DEF WInv, IInv, TypeOK
  <1>1. /\ run' = [run EXCEPT ![r] = q] /\ run[r].pc = "persist"
        /\ q.at = run[r].at /\ q.input = i /\ q.pc = "done"
        /\ q.hydrated = run[r].hydrated
        /\ UNCHANGED <<window, clock, ledger, deleted, lost>>
    BY <1>0 DEF Persist, RunType
  <1> HIDE DEF q
  <1>2. /\ run'[r] = q /\ \A x \in Runs : x # r => run'[x] = run[x]
        /\ Steady /\ Timed'
    <2>1. /\ q.pc \notin {"idle", "refused", "admitted"} /\ q.pc \notin Live
          /\ deleted \subseteq deleted' /\ lost \subseteq lost'
      BY <1>1 DEF Live
    <2> QED BY <1>0, <1>1, <2>1, RunMoves
  <1>3. Pending'
    BY <1>0, <1>1, <1>2 DEF Pending
  <1>4. /\ i \in Inputs /\ i.turn \in Turns /\ i.conv \in Convs
        /\ turns \in [Turns -> RowType \cup {None}]
        /\ run[r].at > 0 /\ Allowed(i)
    <2>1. i \in Inputs /\ run[r].at > 0
      BY <1>0, <1>1 DEF IInv, Given, Timed, Live
    <2> QED BY <1>0, <2>1, ClaimedScope DEF TypeOK, Persist
  <1>5. turns' = [turns EXCEPT ![i.turn] = Written(r)]
    BY DEF Persist
  <1>6. /\ Written(r).conv = i.conv /\ Written(r).by = r /\ Written(r).user = r
    BY DEF Written
  <1>7. /\ turns'[i.turn] = Written(r)
        /\ \A t \in Turns : t # i.turn => turns'[t] = turns[t]
    BY <1>4, <1>5
  <1>8. Settled'
    <2> SUFFICES ASSUME NEW t \in Turns, turns'[t] # None
                 PROVE  /\ turns'[t].user = turns'[t].by
                        /\ run'[turns'[t].by].pc = "done"
                        /\ run'[turns'[t].by].at > 0
      BY DEF Settled
    <2>1. CASE t = i.turn
      BY <1>1, <1>2, <1>4, <1>6, <1>7, <2>1
    <2>2. CASE t # i.turn
      <3>1. turns'[t] = turns[t] /\ turns[t].by \in Runs
        BY <1>4, <1>7, <2>2 DEF RowType
      <3>2. /\ turns[t].user = turns[t].by /\ run[turns[t].by].pc = "done"
            /\ run[turns[t].by].at > 0
        BY <1>0, <3>1 DEF Settled
      <3> QED BY <1>1, <1>2, <3>1, <3>2
    <2> QED BY <2>1, <2>2
  <1>9. \A x \in Runs :
          /\ run[x].pc \in {"persist", "done"} => run'[x].pc \in {"persist", "done"}
          /\ run'[x].pc \in Live => run'[x] = run[x]
          /\ run'[x].pc \in {"persist", "merge"} => run'[x] = run[x]
          /\ ConvOf(x)' = ConvOf(x)
    BY <1>1, <1>2 DEF Live, ConvOf
  <1>10. ASSUME NEW c \in Convs, Good(c)'
         PROVE  Recorded(c)' /\ Kept(c)' /\ Fetched(c)'
    <2>1. Good(c)
      BY <1>0, <1>2, <1>10, GoodBefore
    <2>2. CASE ConvOf(r) = c
      <3>1. /\ Stored(c) \subseteq Stored(c)' /\ Stored(c)' \subseteq ledger[c]
            /\ \A t \in Turns : turns'[t] # None /\ turns'[t].conv = c =>
                   turns'[t].answer \in {None, turns'[t].by}
        BY <1>2, <2>1, <2>2, WrittenIsRecorded
      <3> QED BY <1>1, <1>2, <1>9, <2>1, <3>1, UnrecordedKept
    <2>3. CASE ConvOf(r) # c
      <3>1. i.conv # c
        BY <2>3 DEF ConvOf
      <3>2. turns[i.turn] # None => turns[i.turn].conv # c
        BY <1>4, <3>1 DEF Allowed, _verify_existing_turn_scope
      <3>3. \A t \in Turns :
               /\ turns'[t] # None /\ turns'[t].conv = c
                     <=> turns[t] # None /\ turns[t].conv = c
               /\ turns[t] # None /\ turns[t].conv = c => turns'[t] = turns[t]
               /\ turns'[t] # None /\ turns'[t].conv = c =>
                     turns[t] # None /\ turns'[t] = turns[t]
        BY <1>6, <1>7, <3>1, <3>2
      <3>4. Stored(c)' = Stored(c)
        BY <1>0, <1>2, <3>3, StoredStays
      <3> QED BY <1>1, <1>2, <1>9, <2>1, <3>3, <3>4, OthersKept
    <2> QED BY <2>2, <2>3
  <1> QED BY <1>2, <1>3, <1>8, <1>10 DEF WInv, Windowed

\* Deleting the rows of other conversations keeps the invariant.
LEMMA DeleteKeepsAll ==
    ASSUME WInv, IInv', NEW o, DeleteOwnerRuntime(o)
    PROVE  WInv'
  <1> DEFINE gone == {c \in Convs : convs[c] # None /\ convs[c].owner = o}
  <1>0. IInv /\ Timed /\ Settled /\ Pending /\ TypeOK /\ TypeOK'
    BY DEF WInv, IInv
  <1>1. /\ turns' = [t \in Turns |-> IF turns[t] # None /\ turns[t].conv \in gone
                                     THEN None ELSE turns[t]]
        /\ deleted' = deleted \cup gone
        /\ UNCHANGED <<window, run, clock, ledger, lost>>
    BY DEF DeleteOwnerRuntime
  <1> HIDE DEF gone
  <1>2. Steady /\ Timed' /\ Pending' /\ Settled'
    BY <1>0, <1>1 DEF Steady, Timed, Pending, Settled
  <1>3. ASSUME NEW c \in Convs, Good(c)'
        PROVE  Recorded(c)' /\ Kept(c)' /\ Fetched(c)'
    <2>1. Good(c) /\ c \notin gone
      BY <1>0, <1>1, <1>2, <1>3, GoodBefore DEF Good
    <2>2. \A t \in Turns :
             /\ turns'[t] # None /\ turns'[t].conv = c
                   <=> turns[t] # None /\ turns[t].conv = c
             /\ turns[t] # None /\ turns[t].conv = c => turns'[t] = turns[t]
             /\ turns'[t] # None /\ turns'[t].conv = c =>
                   turns[t] # None /\ turns'[t] = turns[t]
      BY <1>1, <2>1
    <2>3. Stored(c)' = Stored(c)
      BY <1>0, <1>2, <2>2, StoredStays
    <2>4. \A x \in Runs : run'[x] = run[x] /\ ConvOf(x)' = ConvOf(x)
      BY <1>1 DEF ConvOf
    <2> QED BY <1>1, <1>2, <2>1, <2>2, <2>3, <2>4, OthersKept
  <1> QED BY <1>2, <1>3 DEF WInv, Windowed

\* A restart leaves what the tables hold.
LEMMA RestartKeepsAll ==
    ASSUME WInv, IInv', Restart
    PROVE  WInv'
  <1> DEFINE over(x) == [run[x] EXCEPT !.pc = "done", !.hydrated = None,
                                       !.result = {}]
  <1>0. /\ IInv /\ Timed /\ Settled /\ Pending /\ TypeOK /\ TypeOK'
        /\ run \in [Runs -> RunType]
    BY DEF WInv, IInv, TypeOK
  <1>1. /\ run' = [x \in Runs |-> IF run[x].pc \in {"idle", "refused", "done"}
                                  THEN run[x] ELSE over(x)]
        /\ window' = [c \in Convs |-> {}]
        /\ ledger' = [c \in Convs |-> Stored(c)]
        /\ UNCHANGED <<turns, clock, deleted, lost>>
    BY DEF Restart
  <1>2. ASSUME NEW x \in Runs
        PROVE  /\ over(x).pc = "done" /\ over(x).hydrated = None
               /\ over(x).input = run[x].input /\ over(x).at = run[x].at
    BY <1>0 DEF RunType
  <1> HIDE DEF over
  <1>3. \A x \in Runs : /\ run'[x].at = run[x].at /\ run'[x].input = run[x].input
                        /\ run'[x].pc = "done" \/ run'[x] = run[x]
                        /\ run[x].pc = "done" => run'[x].pc = "done"
                        /\ run'[x].pc \in {"idle", "refused", "done"}
                        /\ run'[x].hydrated = None \/ run'[x] = run[x]
                        /\ ConvOf(x)' = ConvOf(x)
    BY <1>1, <1>2 DEF ConvOf
  <1>4. Steady
    BY <1>1, <1>3 DEF Steady
  <1>5. Timed' /\ Pending'
    BY <1>0, <1>1, <1>3 DEF Timed, Pending, Live
  <1>6. Settled'
    BY <1>0, <1>1, <1>3, SettledStays
  <1>7. ASSUME NEW c \in Convs, Good(c)'
        PROVE  Recorded(c)' /\ Kept(c)' /\ Fetched(c)'
    <2>1. Good(c)
      BY <1>0, <1>4, <1>7, GoodBefore
    <2>2. Stored(c)' = Stored(c)
      BY <1>0, <1>1, <1>4, StoredStays
    <2>3. Recorded(c)
      BY <2>1 DEF WInv, Windowed
    <2>4. ledger'[c] = Stored(c) /\ window'[c] = {} /\ IsFiniteSet(Stored(c))
      BY <1>1, <2>3, FS_Subset DEF Recorded
    <2>5. ASSUME NEW m \in Stored(c)
          PROVE  /\ m.at > 0 /\ m.at = run'[m.by].at /\ ConvOf(m.by)' = c
                 /\ run'[m.by].pc = "done"
      <3>1. m \in ledger[c] /\ run[m.by].pc = "done" /\ m.by \in Runs
        BY <2>1, StoredIsDone, MessagesAreKeyed
      <3> QED BY <1>3, <2>3, <3>1 DEF Recorded
    <2>6. \A t \in Turns : turns'[t] # None /\ turns'[t].conv = c =>
              turns'[t].answer \in {None, turns'[t].by}
      BY <1>1, <2>3 DEF Recorded
    <2>7. \A x \in Runs : run'[x].pc \notin Live /\ run'[x].pc # "merge"
      BY <1>3 DEF Live
    <2>8. Recorded(c)'
      BY <2>2, <2>4, <2>5, <2>6, <2>7 DEF Recorded
    <2>9. Kept(c)'
      BY <2>2, <2>4 DEF Kept, Behind
    <2>10. Fetched(c)'
      BY <2>7 DEF Fetched
    <2> QED BY <2>8, <2>9, <2>10
  <1> QED BY <1>5, <1>6, <1>7 DEF WInv, Windowed

\* The invariant holds initially.
LEMMA InitWInv == Init => WInv
  <1> SUFFICES ASSUME Init PROVE WInv
    OBVIOUS
  <1>1. IInv
    BY InitIInv
  <1>2. /\ \A x \in Runs : /\ run[x].pc = "idle" /\ run[x].at = 0
                           /\ run[x].hydrated = None
        /\ \A t \in Turns : turns[t] = None
        /\ \A c \in Convs : ledger[c] = {} /\ window[c] = {}
        /\ clock = 0
    BY DEF Init, NoRun
  <1>3. Timed /\ Pending /\ Settled
    BY <1>2 DEF Timed, Pending, Settled, Live
  <1>4. ASSUME NEW c \in Convs PROVE Recorded(c) /\ Kept(c) /\ Fetched(c)
    <2>1. Stored(c) = {}
      BY <1>2 DEF Stored
    <2>2. IsFiniteSet({})
      BY FS_EmptySet
    <2>3. Recorded(c)
      BY <1>2, <2>1, <2>2 DEF Recorded, Live
    <2>4. Kept(c) /\ Fetched(c)
      BY <1>2 DEF Kept, Fetched, Behind
    <2> QED BY <2>3, <2>4
  <1> QED BY <1>1, <1>3, <1>4 DEF WInv, Windowed

\* Every step keeps it.
LEMMA StepWInv == WInv /\ [Next]_vars => WInv'
  <1> SUFFICES ASSUME WInv, [Next]_vars PROVE WInv'
    OBVIOUS
  <1>0. IInv'
    BY StepIInv DEF WInv
  <1>1. ASSUME NEW r \in Runs, RunStep(r) PROVE WInv'
    BY <1>0, <1>1, QuietActionsKeep, RecordingActionsKeep, PersistKeepsAll
       DEF RunStep
  <1>2. ASSUME NEW o, DeleteOwnerRuntime(o) PROVE WInv'
    BY <1>0, <1>2, DeleteKeepsAll
  <1>3. CASE Restart
    BY <1>0, <1>3, RestartKeepsAll
  <1>4. CASE UNCHANGED vars
    <2>1. \A r \in Runs : run'[r] = run[r] /\ ConvOf(r)' = ConvOf(r)
      BY <1>4 DEF vars, ConvOf
    <2>2. Steady
      BY <1>4 DEF vars, Steady
    <2>3. Timed' /\ Pending' /\ Settled'
      BY <1>4 DEF vars, WInv, Timed, Pending, Settled
    <2>4. ASSUME NEW c \in Convs, Good(c)'
          PROVE  Recorded(c)' /\ Kept(c)' /\ Fetched(c)'
      <3>1. Good(c)
        BY <1>0, <2>2, <2>4, GoodBefore DEF WInv, IInv
      <3>2. Stored(c)' = Stored(c)
        BY <1>4, <2>2, StoredStays DEF vars, WInv, IInv
      <3> QED BY <1>4, <2>1, <2>2, <3>1, <3>2, OthersKept DEF vars
    <2> QED BY <1>0, <2>3, <2>4 DEF WInv, Windowed
  <1> QED BY <1>1, <1>2, <1>3, <1>4 DEF Next

(***************************************************************************)
(* What a read returns                                                      *)
(***************************************************************************)
\* What was got is the newest of what may be seen, but for messages a full
\* window behind, with private ones between.
TakenFrom(got, all, seen, pub) ==
    /\ got \subseteq seen
    /\ \A m \in got, n \in seen \ got : Before(m, n) =>
          pub # all /\ Cardinality(After(all, n)) >= WindowSize
    /\ pub = all => got = Newest(seen, ReadSize)

\* The merge of the window with what was read of the tables, if every visible
\* message is in one of them, or the window is full, or the message is older
\* than all that was read.
LEMMA MergedIsNewest ==
    ASSUME NEW all, Keyed(all), NEW seen \in SUBSET all, NEW win \in SUBSET all,
           NEW read, NEW pub, Behind(all \ win, win),
           Covers(read, seen, win, pub, all),
           pub = all /\ Cardinality(win) >= WindowSize =>
               Cardinality(win \cap seen) >= ReadSize
    PROVE  TakenFrom(Newest(Newest(win \cap seen, ReadSize) \cup read, ReadSize),
                     all, seen, pub)
  <1> DEFINE part == win \cap seen
             cached == Newest(part, ReadSize)
             both == cached \cup read
             got == Newest(both, ReadSize)
  <1>0. /\ read \subseteq seen
        /\ \A n \in seen \ read :
              \/ n \in win \/ Cardinality(win) >= WindowSize
              \/ Behind({n}, read) /\ (Cardinality(read) >= ReadSize \/ pub # all)
        /\ ReadSize \in Nat /\ WindowSize \in Nat
    BY ConversationsAssumption DEF Covers
  <1>1. cached \in SUBSET part /\ both \in SUBSET seen
    BY <1>0 DEF Newest
  <1>2. Keyed(part) /\ Keyed(both) /\ Keyed(seen) /\ Keyed(win)
    BY <1>1, PartsOfKeyed
  <1>3. got \in SUBSET both
    BY DEF Newest
  <1>4. /\ cached = part \/ Cardinality(cached) >= ReadSize
        /\ got = both \/ Cardinality(got) >= ReadSize
    BY <1>0, <1>2, FullOrAll
  <1>5. \* Nothing that is in the window or was read is skipped.
        ASSUME NEW m \in got, NEW n \in (part \cup read) \ got PROVE Before(n, m)
    <2>1. CASE n \in both
      BY <1>0, <1>2, <2>1, EvictedIsOlder
    <2>2. CASE n \notin both
      <3>1. n \in part \ cached
        BY <2>2
      <3>2. Cardinality(cached) >= ReadSize /\ After(cached, n) = cached
        BY <1>0, <1>2, <3>1, EvictedIsBuried
      <3>3. SUFFICES ASSUME ~Before(n, m) PROVE FALSE
        OBVIOUS
      <3>4. m # n /\ m \in all /\ n \in all
        BY <1>1, <1>3
      <3>5. Before(m, n)
        BY <3>3, <3>4, BeforeIsAnOrder
      <3>6. After(cached, m) = cached
        <4>1. ASSUME NEW x \in cached PROVE Before(m, x)
          <5>1. Before(n, x) /\ x \in all
            BY <1>1, <3>2 DEF After
          <5> QED BY <3>4, <3>5, <5>1, BeforeIsAnOrder
        <4> HIDE DEF cached
        <4> QED BY <4>1 DEF After
      <3>7. /\ Cardinality(cached) <= Cardinality(After(both, m))
            /\ Cardinality(cached) \in Nat
            /\ Cardinality(After(both, m)) \in Nat
        <4>1. cached \in SUBSET both
          OBVIOUS
        <4> HIDE DEF cached, both
        <4> QED BY <1>2, <3>6, <4>1, PartsOfKeyed
      <3>8. Cardinality(After(both, m)) < ReadSize
        BY DEF Newest
      <3> QED BY <1>0, <3>2, <3>7, <3>8
    <2> QED BY <2>1, <2>2
  <1>6. \* What is skipped is behind a full window, and private messages are why.
        ASSUME NEW m \in got, NEW n \in seen \ got, Before(m, n)
        PROVE  pub # all /\ Cardinality(After(all, n)) >= WindowSize
    <2>0. m \in all /\ n \in all
      BY <1>1, <1>3
    <2>1. ~Before(n, m)
      BY <1>6, <2>0, BeforeIsAnOrder
    <2>2. n \notin part /\ n \notin read
      BY <1>5, <2>1
    <2>3. n \notin win
      BY <2>2
    <2>4. \A x \in win : Before(n, x)
      BY <2>0, <2>3 DEF Behind
    <2>5. m \in read
      BY <1>1, <1>3, <2>1, <2>4
    <2>6. Cardinality(win) >= WindowSize
      BY <1>0, <2>1, <2>2, <2>3, <2>5 DEF Behind
    <2>7. Cardinality(After(all, n)) >= WindowSize
      <3>1. After(win, n) = win
        BY <2>4 DEF After
      <3>2. /\ Cardinality(win) <= Cardinality(After(all, n))
            /\ Cardinality(After(all, n)) \in Nat
            /\ Cardinality(win) \in Nat
        BY <3>1, PartsOfKeyed
      <3> QED BY <1>0, <2>6, <3>2
    <2>8. ASSUME pub = all PROVE FALSE
      <3>1. Cardinality(part) >= ReadSize
        BY <2>6, <2>8
      <3>2. Cardinality(cached) >= ReadSize
        BY <1>4, <3>1
      <3>3. After(cached, m) = cached
        <4>1. ASSUME NEW x \in cached PROVE Before(m, x)
          <5>1. Before(n, x) /\ x \in all
            BY <1>1, <2>4
          <5> QED BY <1>6, <2>0, <5>1, BeforeIsAnOrder
        <4> HIDE DEF cached
        <4> QED BY <4>1 DEF After
      <3>4. /\ Cardinality(cached) <= Cardinality(After(both, m))
            /\ Cardinality(cached) \in Nat
            /\ Cardinality(After(both, m)) \in Nat
        <4>1. cached \in SUBSET both
          OBVIOUS
        <4> HIDE DEF cached, both
        <4> QED BY <1>2, <3>3, <4>1, PartsOfKeyed
      <3>5. Cardinality(After(both, m)) < ReadSize
        BY DEF Newest
      <3> QED BY <1>0, <3>2, <3>4, <3>5
    <2> QED BY <2>7, <2>8
  <1>7. ASSUME pub = all PROVE got = Newest(seen, ReadSize)
    <2>1. \A m \in got, n \in seen \ got : ~Before(m, n)
      BY <1>6, <1>7
    <2>2. \A m \in got : Cardinality(After(got, m)) < ReadSize
      <3> SUFFICES ASSUME NEW m \in got PROVE Cardinality(After(got, m)) < ReadSize
        OBVIOUS
      <3>1. Cardinality(After(both, m)) < ReadSize
        BY DEF Newest
      <3>2. /\ Cardinality(After(got, m)) <= Cardinality(After(both, m))
            /\ Cardinality(After(got, m)) \in Nat
            /\ Cardinality(After(both, m)) \in Nat
        <4> HIDE DEF got, both
        <4> QED BY <1>2, <1>3, PartsOfKeyed
      <3> QED BY <1>0, <3>1, <3>2
    <2>3. got = seen \/ Cardinality(got) >= ReadSize
      <3> SUFFICES ASSUME got # seen, ~(Cardinality(got) >= ReadSize) PROVE FALSE
        OBVIOUS
      <3>1. got = both
        BY <1>4
      <3>2. PICK n \in seen : n \notin both
        BY <1>1, <3>1
      <3>3. /\ Cardinality(cached) <= Cardinality(both)
            /\ Cardinality(read) <= Cardinality(both)
            /\ Cardinality(cached) \in Nat /\ Cardinality(read) \in Nat
            /\ Cardinality(both) \in Nat
        <4>1. cached \in SUBSET both /\ read \in SUBSET both
          OBVIOUS
        <4> HIDE DEF cached, both
        <4> QED BY <1>2, <4>1, PartsOfKeyed
      <3>4. ~(Cardinality(both) >= ReadSize)
        BY <3>1
      <3> HIDE DEF both, cached
      <3>5. ~(Cardinality(cached) >= ReadSize) /\ ~(Cardinality(read) >= ReadSize)
        BY <1>0, <3>3, <3>4
      <3>6. cached = part
        BY <1>4, <3>5
      <3>7. n \notin part /\ n \notin read
        BY <3>2, <3>6 DEF both
      <3>8. n \notin win
        BY <3>7
      <3>9. Cardinality(win) >= WindowSize
        BY <1>0, <1>7, <3>2, <3>5, <3>7, <3>8
      <3> QED BY <1>7, <3>5, <3>6, <3>9
    <2> HIDE DEF got
    <2>4. got \in SUBSET seen
      BY <1>1, <1>3
    <2> QED BY <1>0, <1>2, <2>1, <2>2, <2>3, <2>4, ClosedIsNewest
  <1>8. got \subseteq seen
    BY <1>1, <1>3
  <1> QED BY <1>6, <1>7, <1>8 DEF TakenFrom

\* A reader sees of the window what it may see of the ledger, and no more
\* than its own question is kept from it but for private messages.
LEMMA ReaderSees ==
    ASSUME WInv, NEW r \in Runs, run[r].pc \in {"remembered", "merge"},
           NEW c \in Convs, ConvOf(r) = c, Good(c)
    PROVE  LET all == ledger[c]
               seen == Visible(ledger[c], r)
               win == window[c]
           IN /\ Keyed(all) /\ seen \in SUBSET all /\ win \in SUBSET all
              /\ Behind(all \ win, win)
              /\ _cached_window(r) = Newest(win \cap seen, ReadSize)
              /\ Public(all) = all /\ Cardinality(win) >= WindowSize =>
                     Cardinality(win \cap seen) >= ReadSize
  <1> DEFINE all == ledger[c]
             seen == Visible(ledger[c], r)
             win == window[c]
             part == win \cap seen
             own == Message(r, 0, run[r].at)
  <1>1. Keyed(all) /\ Recorded(c) /\ Kept(c) /\ all \subseteq MessageType
    BY MessagesAreKeyed DEF WInv, Windowed
  <1>2. seen \in SUBSET all /\ win \in SUBSET all /\ Behind(all \ win, win)
    BY <1>1, WindowSubsets DEF Kept
  <1>3. Visible(win, r) = part
    BY <1>2 DEF Visible, Public, OfTurn
  <1>4. _cached_window(r) = Newest(part, ReadSize)
    <2>1. _cached_window(r) = Tail(part, ReadSize)
      BY <1>3 DEF _cached_window
    <2>2. part \in SUBSET all
      BY <1>2
    <2> HIDE DEF part
    <2> QED BY <2>1, <2>2, TailIsNewest
  <1>5. ASSUME Public(all) = all, Cardinality(win) >= WindowSize
        PROVE  Cardinality(part) >= ReadSize
    <2>1. run[r].at > 0
      BY DEF WInv, Timed, Live
    <2>2. OfTurn(all, TurnOf(r)) = {m \in all : m.by = r}
      BY <2>1, OwnTurn
    <2>3. ASSUME NEW m \in win, m \notin part PROVE m = own
      <3>1. m \in all /\ m.by = r
        BY <1>2, <1>5, <2>2, <2>3 DEF Visible
      <3>2. m.at = run[r].at /\ m.seq # 1
        BY <1>1, <3>1 DEF Recorded
      <3>3. m = [by |-> m.by, seq |-> m.seq, at |-> m.at] /\ m.seq \in {0, 1}
        BY <1>1, <3>1 DEF MessageType
      <3> QED BY <3>1, <3>2, <3>3 DEF Message
    <2>4. win \in SUBSET (part \cup {own})
      BY <2>3
    <2>5. part \in SUBSET all
      BY <1>2
    <2> HIDE DEF part, own
    <2>6. IsFiniteSet(part) /\ Cardinality(part) \in Nat
      BY <1>1, <2>5, PartsOfKeyed DEF Keyed
    <2>7. /\ IsFiniteSet(part \cup {own})
          /\ Cardinality(part \cup {own}) <= Cardinality(part) + 1
      BY <2>6, FS_AddElement, SMTT(30)
    <2>8. Cardinality(win) <= Cardinality(part \cup {own})
      BY <2>4, <2>7, FS_Subset
    <2>9. Cardinality(win) \in Nat /\ Cardinality(part \cup {own}) \in Nat
      BY <1>1, <1>2, <2>7, PartsOfKeyed, FS_CardinalityType
    <2> QED BY <1>5, <2>6, <2>7, <2>8, <2>9, ConversationsAssumption
  <1> QED BY <1>1, <1>2, <1>4, <1>5

\* The snapshot, in the order of time.
LEMMA NewestIsSnapshot ==
    ASSUME WInv, NEW r \in Runs, NEW c \in Convs, ConvOf(r) = c, Good(c),
           NEW got, run'[r].result = got,
           TakenFrom(got, ledger[c], Visible(ledger[c], r), Public(ledger[c]))
    PROVE  Snapshot(r)
  <1> DEFINE all == ledger[c]
             seen == Visible(ledger[c], r)
  <1>1. seen \in SUBSET all
    BY WindowSubsets
  <1>2. \A m, n \in all : Precedes(m, n) <=> Before(m, n)
    BY MessagesAreKeyed
  <1>3. \A n \in all : {x \in all : Precedes(n, x)} = After(all, n)
    BY <1>2 DEF After
  <1>4. Tail(seen, ReadSize) = Newest(seen, ReadSize)
    BY <1>1, TailIsNewest
  <1>5. ASSUME NEW m \in got, NEW n \in seen \ got, Precedes(m, n)
        PROVE  Buried(n, all)
    <2>1. m \in all /\ n \in all
      BY <1>1, <1>5 DEF TakenFrom
    <2>2. Before(m, n)
      BY <1>2, <1>5, <2>1
    <2>3. {x \in all : Precedes(n, x)} = After(all, n)
      BY <1>3, <2>1
    <2>4. Public(all) # all /\ Cardinality(After(all, n)) >= WindowSize
      BY <1>5, <2>2 DEF TakenFrom
    <2> HIDE DEF all, seen
    <2> QED BY <2>3, <2>4 DEF Buried
  <1>6. /\ got \subseteq seen
        /\ Public(all) = all => got = Newest(seen, ReadSize)
    BY DEF TakenFrom
  <1> HIDE DEF seen
  <1> QED BY <1>4, <1>5, <1>6 DEF Snapshot, seen

\* A read answered by the window.
LEMMA CachedSnapshot ==
    ASSUME WInv, NEW r \in Runs, Good(ConvOf(r)), ReadCached(r), run'[r].pc = "read"
    PROVE  Snapshot(r)
  <1>1. /\ run[r].pc = "remembered" /\ run[r] \in RunType
        /\ run \in [Runs -> RunType]
    BY DEF ReadCached, WInv, IInv, TypeOK
  <1>2. /\ Cardinality(_cached_window(r)) >= ReadSize
        /\ run'[r].result = _cached_window(r)
    BY <1>1 DEF ReadCached, RunType
  <1>3. PICK c \in Convs : c = ConvOf(r)
    BY <1>1, OwnTurn DEF WInv, Timed, Live
  <1> DEFINE all == ledger[c]
             seen == Visible(ledger[c], r)
             win == window[c]
             got == _cached_window(r)
  <1>4. /\ Keyed(all) /\ seen \in SUBSET all /\ win \in SUBSET all
        /\ Behind(all \ win, win)
        /\ got = Newest(win \cap seen, ReadSize)
    BY <1>1, <1>3, ReaderSees
  <1>5. ReadSize \in Nat
    BY ConversationsAssumption
  <1> HIDE DEF all, seen, win, got
  <1>6. Newest(win \cap seen, ReadSize) = Newest(seen, ReadSize)
    BY <1>2, <1>4, <1>5, CachedIsNewest DEF got
  <1>7. Keyed(seen) /\ got = Newest(seen, ReadSize) /\ got \subseteq seen
    BY <1>4, <1>6, PartsOfKeyed DEF Newest
  <1>8. ASSUME NEW m \in got, NEW n \in seen \ got PROVE ~Before(m, n)
    <2>1. Before(n, m)
      BY <1>5, <1>7, EvictedIsOlder
    <2> QED BY <1>7, <2>1, BeforeIsAnOrder
  <1>9. TakenFrom(got, all, seen, Public(all))
    BY <1>7, <1>8 DEF TakenFrom
  <1> QED BY <1>2, <1>3, <1>9, NewestIsSnapshot DEF all, seen, got

\* A read answered by the window and the tables.
LEMMA MergedSnapshot ==
    ASSUME WInv, NEW r \in Runs, Good(ConvOf(r)), Merge(r), run[r].hydrated # None
    PROVE  Snapshot(r)
  <1>1. /\ run[r].pc = "merge" /\ run[r] \in RunType
        /\ run \in [Runs -> RunType]
    BY DEF Merge, WInv, IInv, TypeOK
  <1>2. run'[r].result = _merge_tail(run[r].hydrated, _cached_window(r), ReadSize)
    BY <1>1 DEF Merge, RunType
  <1>3. PICK c \in Convs : c = ConvOf(r)
    BY <1>1, OwnTurn DEF WInv, Timed, Live
  <1> DEFINE all == ledger[c]
             seen == Visible(ledger[c], r)
             win == window[c]
             pub == Public(ledger[c])
             read == run[r].hydrated
             cached == Newest(win \cap seen, ReadSize)
             got == Newest(cached \cup read, ReadSize)
  <1>4. /\ Keyed(all) /\ seen \in SUBSET all /\ win \in SUBSET all
        /\ Behind(all \ win, win)
        /\ _cached_window(r) = cached
        /\ pub = all /\ Cardinality(win) >= WindowSize =>
               Cardinality(win \cap seen) >= ReadSize
    BY <1>1, <1>3, ReaderSees
  <1>5. Covers(read, seen, win, pub, all)
    BY <1>1, <1>3 DEF WInv, Windowed, Fetched
  <1>6. ReadSize \in Nat /\ WindowSize \in Nat
    BY ConversationsAssumption
  <1>7. cached \in SUBSET all /\ read \in SUBSET all
    BY <1>4, <1>5 DEF Newest, Covers
  <1>8. _merge_tail(read, cached, ReadSize) = got
    <2>1. \A m, n \in all : SameKey(m, n) => m = n
      BY <1>3, MessagesAreKeyed
    <2>2. cached \cup {m \in read : \A n \in cached : ~SameKey(m, n)}
            = cached \cup read
      <3> HIDE DEF all, cached, read
      <3>1. ASSUME NEW m \in read, m \notin cached, NEW n \in cached
            PROVE  ~SameKey(m, n)
        BY <1>7, <2>1, <3>1
      <3> QED BY <3>1
    <2>3. cached \cup read \in SUBSET all
      BY <1>7
    <2> HIDE DEF cached, read
    <2>4. Tail(cached \cup read, ReadSize) = got
      BY <1>3, <2>3, TailIsNewest DEF all
    <2> QED BY <2>2, <2>4 DEF _merge_tail
  <1>9. run'[r].result = got
    BY <1>2, <1>4, <1>8
  <1> HIDE DEF all, seen, win, pub, read
  <1>10. TakenFrom(got, all, seen, pub)
    <2>1. /\ Keyed(all) /\ seen \in SUBSET all /\ win \in SUBSET all
          /\ Behind(all \ win, win)
          /\ pub = all /\ Cardinality(win) >= WindowSize =>
                 Cardinality(win \cap seen) >= ReadSize
      BY <1>4
    <2> QED BY <1>5, <2>1, MergedIsNewest
  <1> HIDE DEF got
  <1> QED BY <1>3, <1>9, <1>10, NewestIsSnapshot DEF all, seen, pub

\* A read that reached the tables, or was answered by a full window, is a
\* snapshot of its conversation: what runs in flight said, what was written
\* late, and what was recorded between the two halves of the read is in it.
THEOREM ReadsAreSnapshots == Spec => ReadIsSnapshot
  <1>1. ASSUME WInv, [Next]_vars
        PROVE  [\A r \in Runs :
                  /\ Reads(r) /\ ConvOf(r) \notin deleted \cup lost
                  /\ ~ RunAgain(ConvOf(r))
                  /\ run[r].pc = "merge" => run[r].hydrated # None
                  => Snapshot(r)]_vars
    <2> SUFFICES ASSUME Next, NEW r \in Runs, Reads(r),
                        ConvOf(r) \notin deleted \cup lost, ~ RunAgain(ConvOf(r)),
                        run[r].pc = "merge" => run[r].hydrated # None
                 PROVE  Snapshot(r)
      BY <1>1
    <2>1. Good(ConvOf(r)) /\ run \in [Runs -> RunType]
      BY <1>1 DEF Good, WInv, IInv, TypeOK
    <2>2. ReadCached(r) \/ Merge(r)
      <3>1. CASE Restart
        <4>1. run'[r] = run[r] \/ run'[r].pc = "done"
          BY <2>1, <3>1 DEF Restart, RunType
        <4> QED BY <4>1 DEF Reads
      <3>2. ASSUME NEW o, DeleteOwnerRuntime(o) PROVE FALSE
        BY <3>2 DEF DeleteOwnerRuntime, Reads
      <3>3. ASSUME NEW x \in Runs, RunStep(x) PROVE ReadCached(r) \/ Merge(r)
        <4>1. CASE x # r
          <5>1. run'[r] = run[r]
            BY <2>1, <3>3, <4>1
               DEF RunStep, Admit, Refuse, Remember, ReadCached, Hydrate,
                   HydrateFails, Merge, Finalize, Persist, PersistFails
          <5> QED BY <5>1 DEF Reads
        <4>2. CASE x = r
          <5>1. CASE ReadCached(r) \/ Merge(r)
            BY <5>1
          <5>2. CASE ~(ReadCached(r) \/ Merge(r))
            <6>1. run'[r].pc \in {"admitted", "refused", "remembered", "merge",
                                  "persist", "done"}
              <7>1. ASSUME NEW i \in Inputs, Admit(r, i) \/ Refuse(r, i)
                    PROVE  run'[r].pc \in {"admitted", "refused"}
                BY <2>1, <7>1 DEF Admit, Refuse, RunType
              <7>2. CASE Remember(r)
                BY <2>1, <7>2 DEF Remember, RunType
              <7>3. CASE Hydrate(r) \/ HydrateFails(r)
                <8>1. run'[r].pc = "merge"
                  BY <2>1, <7>3 DEF Hydrate, HydrateFails, RunType
                <8> QED BY <8>1
              <7>4. ASSUME NEW answered \in BOOLEAN, Finalize(r, answered)
                    PROVE  run'[r].pc = "persist"
                BY <2>1, <7>4 DEF Finalize, RunType
              <7>5. CASE Persist(r) \/ PersistFails(r)
                BY <2>1, <7>5 DEF Persist, PersistFails, RunType
              <7> QED BY <3>3, <4>2, <5>2, <7>1, <7>2, <7>3, <7>4, <7>5 DEF RunStep
            <6> QED BY <6>1 DEF Reads
          <5> QED BY <5>1, <5>2
        <4> QED BY <4>1, <4>2
      <3> QED BY <3>1, <3>2, <3>3 DEF Next
    <2>3. CASE ReadCached(r)
      BY <1>1, <2>1, <2>3, CachedSnapshot DEF Reads
    <2>4. CASE Merge(r)
      BY <1>1, <2>1, <2>4, MergedSnapshot DEF Merge
    <2> QED BY <2>2, <2>3, <2>4
  <1> QED BY <1>1, InitWInv, StepWInv, PTL DEF Spec, ReadIsSnapshot

=============================================================================
