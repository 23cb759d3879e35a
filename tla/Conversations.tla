---------------------------- MODULE Conversations ----------------------------
(***************************************************************************)
(* What a conversation is bound to and what its next turn remembers: the    *)
(* conversations, turns and messages tables (build_agent_conversation_guard *)
(* and build_agent_turn_persister) and the in-process window of             *)
(* HistoryManager that is merged with them.                                 *)
(*                                                                          *)
(* A run is one execution of TurnEngine.run seen from here: it is admitted, *)
(* records its input, reads the window of its conversation, records its     *)
(* answer, and is written to the tables in the background.  A turn id may   *)
(* be run again (retransmitted on a new stream).  Each store function is    *)
(* one transaction on the only writer connection; the lock of               *)
(* HistoryManager is never held across an await.                            *)
(*                                                                          *)
(* A message is the run that wrote it, its place in the turn (0 user, 1     *)
(* assistant) and the turn start it is sorted by.                           *)
(***************************************************************************)
EXTENDS Naturals, FiniteSets

CONSTANTS
    Runs,          \* turn executions
    Turns,         \* turn ids, a set of numbers (their order breaks ties)
    Convs,         \* conversation ids
    Ids,           \* identifiers of owners, Realms, persons, devices, ...
    Inputs,        \* the [turn, conv, scope, crisis] a StartTurn may carry
    WindowSize,    \* HistoryManager window_size
    ReadSize,      \* window asked for by the context compiler
    MaxFaults,     \* bound: owner deletions and process restarts
    None

\* The fields of TurnInput.context that the boundary checks look at; `owner'
\* stands for owner and companion, `policy' for the provisional memory flags,
\* `epoch' for identity_epoch and person_revision, `room' for a source
\* session that is the session itself.
ScopeType ==
    [room : BOOLEAN, owner : Ids, realm : Ids, policy : Ids, memory : BOOLEAN,
     person : Ids \cup {None}, epoch : Ids, session : Ids, device : Ids]

InputType == [turn : Turns, conv : Convs, scope : ScopeType, crisis : BOOLEAN]

ASSUME ConversationsAssumption ==
    /\ Turns \subseteq Nat
    /\ WindowSize \in Nat /\ ReadSize \in Nat /\ ReadSize + 2 <= WindowSize
    /\ MaxFaults \in Nat
    /\ Inputs \subseteq InputType
    /\ None \notin Runs /\ None \notin Ids /\ None \notin ScopeType
    \* A retransmission carries the same text, hence the same verdict.
    /\ \A i, j \in Inputs :
          i.turn = j.turn /\ i.conv = j.conv => i.crisis = j.crisis

VARIABLES
    convs,     \* conversations table: conv -> scope of its claim, or None
    turns,     \* turns and messages tables: turn -> row, or None
    window,    \* HistoryManager._windows: conv -> messages
    run,       \* the runs
    clock,     \* wall clock, for turn_started_at
    ledger,    \* conv -> messages as last recorded, nothing evicted (history)
    deleted,   \* convs of which rows were deleted (history)
    lost,      \* convs of which a run could not be stored (history)
    faults     \* deletions and restarts so far

vars == <<convs, turns, window, run, clock, ledger, deleted, lost, faults>>

NoRun == [pc |-> "idle", input |-> None, at |-> 0,
          answered |-> FALSE, hydrated |-> None, result |-> {}]

ScopeOf(r) == run[r].input.scope
TurnOf(r)  == run[r].input.turn
ConvOf(r)  == run[r].input.conv

(***************************************************************************)
(* The boundary of a conversation                                           *)
(***************************************************************************)
\* Mutant: the person is not looked at.
MutAnyPerson(row, s) ==
    IF row.room \/ s.room
    THEN row.room /\ s.room /\ row.owner = s.owner
    ELSE row.owner = s.owner /\ row.realm = s.realm /\ row.memory = s.memory

\* Neither room sessions nor personal conversations can be adopted by the
\* other kind.
_verify_conversation_scope(row, s) ==
    IF row.room \/ s.room
    THEN /\ row.room /\ s.room
         /\ row.owner = s.owner /\ row.device = s.device
         /\ row.session = s.session
    ELSE /\ row.owner = s.owner /\ row.realm = s.realm
         /\ row.policy = s.policy /\ row.memory = s.memory
         /\ row.person = s.person
         /\ s.person # None \/ ~ s.memory =>
               /\ row.epoch = s.epoch /\ row.session = s.session
               /\ row.device = s.device

_verify_existing_turn_scope(row, i) ==
    /\ row.conv = i.conv
    /\ LET s == ScopeOf(row.by) IN
       /\ s.policy = i.scope.policy /\ s.person = i.scope.person
       /\ s.epoch = i.scope.epoch /\ s.realm = i.scope.realm

\* _insert_ignore: the first claim of a conversation id wins.
Claimed(i) == IF convs[i.conv] = None THEN i.scope ELSE convs[i.conv]

Allowed(i) ==
    /\ _verify_conversation_scope(Claimed(i), i.scope)
    /\ turns[i.turn] # None => _verify_existing_turn_scope(turns[i.turn], i)

\* build_agent_conversation_guard: claim, verify, commit ...
Admit(r, i) ==
    /\ run[r].pc = "idle"
    /\ Allowed(i)
    /\ convs' = [convs EXCEPT ![i.conv] = Claimed(i)]
    /\ run' = [run EXCEPT ![r].pc = "admitted", ![r].input = i]
    /\ UNCHANGED <<turns, window, clock, ledger, deleted, lost, faults>>

\* ... or PermissionDeniedError, which rolls the claim back.
Refuse(r, i) ==
    /\ run[r].pc = "idle"
    /\ ~ Allowed(i)
    /\ run' = [run EXCEPT ![r].pc = "refused", ![r].input = i]
    /\ UNCHANGED <<convs, turns, window, clock, ledger, deleted, lost, faults>>

(***************************************************************************)
(* HistoryManager                                                           *)
(***************************************************************************)
Message(r, seq, at) == [by |-> r, seq |-> seq, at |-> at]

\* _message_order: turn start, turn id, place in the turn.
Precedes(m, n) ==
    \/ m.at < n.at
    \/ m.at = n.at /\ TurnOf(m.by) < TurnOf(n.by)
    \/ m.at = n.at /\ TurnOf(m.by) = TurnOf(n.by) /\ m.seq < n.seq

Tail(ms, k) == {m \in ms : Cardinality({n \in ms : Precedes(m, n)}) < k}

OfTurn(ms, t) == {m \in ms : TurnOf(m.by) = t}

\* _stable_message_key: the same place of the same turn.
SameKey(m, n) == TurnOf(m.by) = TurnOf(n.by) /\ m.seq = n.seq

\* _merge_tail: the cached version of a message wins.
_merge_tail(hydrated, cached, k) ==
    Tail(cached \cup {m \in hydrated : \A n \in cached : ~ SameKey(m, n)}, k)

replace_turn(r, messages) ==
    LET c == ConvOf(r)
        others(ms) == ms \ OfTurn(ms, TurnOf(r))
    IN /\ window' = [window EXCEPT ![c] =
                       _merge_tail(others(@), messages, WindowSize)]
       /\ ledger' = [ledger EXCEPT ![c] = others(@) \cup messages]

\* The input guardrail's crisis verdict marks a turn's messages is_private.
Public(ms) == {m \in ms : ~ run[m.by].input.crisis}

\* The messages a read of run r may return.
Visible(ms, r) == Public(ms) \ OfTurn(ms, TurnOf(r))

_cached_window(r) == Tail(Visible(window[ConvOf(r)], r), ReadSize)

\* TurnEngine.run takes the start time and records the input.
Remember(r) ==
    /\ run[r].pc = "admitted"
    /\ clock' = clock + 1
    /\ run' = [run EXCEPT ![r].pc = "remembered", ![r].at = clock + 1]
    /\ replace_turn(r, {Message(r, 0, clock + 1)})
    /\ UNCHANGED <<convs, turns, deleted, lost, faults>>

\* recent_window: enough messages in the window ...
ReadCached(r) ==
    /\ run[r].pc = "remembered"
    /\ IF Cardinality(_cached_window(r)) >= ReadSize
       THEN run' = [run EXCEPT ![r].pc = "read", ![r].result = _cached_window(r)]
       ELSE run' = [run EXCEPT ![r].pc = "hydrating"]
    /\ UNCHANGED <<convs, turns, window, clock, ledger, deleted, lost, faults>>

\* ... or build_agent_history_hydrator on a read connection, asked for two
\* more messages than needed because the own turn is dropped afterwards.
Stored(c) ==
    LET mine == {t \in Turns : turns[t] # None /\ turns[t].conv = c}
        at(t) == run[turns[t].by].at
    IN {Message(turns[t].user, 0, at(t)) : t \in mine}
       \cup {Message(turns[t].answer, 1, at(t)) :
               t \in {u \in mine : turns[u].answer # None}}

Hydrate(r) ==
    /\ run[r].pc = "hydrating"
    /\ run' = [run EXCEPT ![r].pc = "merge", ![r].hydrated =
                 Visible(Tail(Stored(ConvOf(r)), ReadSize + 2), r)]
    /\ UNCHANGED <<convs, turns, window, clock, ledger, deleted, lost, faults>>

\* The read times out or fails: only the window is used.
HydrateFails(r) ==
    /\ run[r].pc = "hydrating"
    /\ run' = [run EXCEPT ![r].pc = "merge"]
    /\ UNCHANGED <<convs, turns, window, clock, ledger, deleted, lost, faults>>

\* Mutant: the tables alone answer.
MutTablesOnly(r) ==
    /\ run[r].pc = "merge"
    /\ run' = [run EXCEPT ![r].pc = "read", ![r].hydrated = None,
                          ![r].result = IF run[r].hydrated = None
                                        THEN _cached_window(r)
                                        ELSE Tail(run[r].hydrated, ReadSize)]
    /\ UNCHANGED <<convs, turns, window, clock, ledger, deleted, lost, faults>>

\* The window as it is now, not as it was before the read.
Merge(r) ==
    /\ run[r].pc = "merge"
    /\ run' = [run EXCEPT ![r].pc = "read", ![r].hydrated = None,
                                ![r].result =
                 IF run[r].hydrated = None THEN _cached_window(r)
                 ELSE _merge_tail(run[r].hydrated, _cached_window(r), ReadSize)]
    /\ UNCHANGED <<convs, turns, window, clock, ledger, deleted, lost, faults>>

\* The terminal update: the turn ended, or was cancelled at any of the awaits
\* above; what is left of the answer may be nothing.
Finalize(r, answered) ==
    /\ run[r].pc \in {"remembered", "hydrating", "merge", "read"}
    /\ run' = [run EXCEPT ![r].pc = "persist", ![r].answered = answered,
                          ![r].hydrated = None, ![r].result = {}]
    /\ replace_turn(r, {Message(r, 0, run[r].at)} \cup
                       (IF answered THEN {Message(r, 1, run[r].at)} ELSE {}))
    /\ UNCHANGED <<convs, turns, clock, deleted, lost, faults>>

(***************************************************************************)
(* build_agent_turn_persister, in the background                            *)
(***************************************************************************)
\* The rows of run r; a message without text is not written, and one already
\* there is left alone.
Written(r) ==
    LET i == run[r].input
        old == turns[i.turn]
    IN [conv |-> i.conv, by |-> r, user |-> r,
        answer |-> IF run[r].answered THEN r
                   ELSE IF old = None THEN None ELSE old.answer]

\* Mutant: the run was checked when it was admitted.
MutPersistUnchecked(r) ==
    LET i == run[r].input IN
    /\ run[r].pc = "persist"
    /\ convs' = [convs EXCEPT ![i.conv] =
                   [Claimed(i) EXCEPT !.device = i.scope.device]]
    /\ turns' = [turns EXCEPT ![i.turn] = Written(r)]
    /\ run' = [run EXCEPT ![r].pc = "done"]
    /\ UNCHANGED <<window, clock, ledger, deleted, lost, faults>>

Persist(r) ==
    LET i == run[r].input IN
    /\ run[r].pc = "persist"
    /\ Allowed(i)
    /\ convs' = [convs EXCEPT ![i.conv] =
                   [Claimed(i) EXCEPT !.device = i.scope.device]]
    /\ turns' = [turns EXCEPT ![i.turn] = Written(r)]
    /\ run' = [run EXCEPT ![r].pc = "done"]
    /\ UNCHANGED <<window, clock, ledger, deleted, lost, faults>>

\* PermissionDeniedError or a store failure, logged and swallowed.
PersistFails(r) ==
    /\ run[r].pc = "persist"
    /\ run' = [run EXCEPT ![r].pc = "done"]
    /\ lost' = lost \cup {ConvOf(r)}
    /\ UNCHANGED <<convs, turns, window, clock, ledger, deleted, faults>>

(***************************************************************************)
(* Environment                                                              *)
(***************************************************************************)
\* delete_owner_runtime, delete_companion_runtime: turns and messages cascade;
\* windows and runs in flight are not told.
DeleteOwnerRuntime(o) ==
    LET gone == {c \in Convs : convs[c] # None /\ convs[c].owner = o} IN
    /\ faults < MaxFaults /\ gone # {}
    /\ faults' = faults + 1
    /\ convs' = [c \in Convs |-> IF c \in gone THEN None ELSE convs[c]]
    /\ turns' = [t \in Turns |-> IF turns[t] # None /\ turns[t].conv \in gone
                                 THEN None ELSE turns[t]]
    /\ deleted' = deleted \cup gone
    /\ UNCHANGED <<window, run, clock, ledger, lost>>

\* What was not written yet is lost; the ledger restarts from the tables.
Restart ==
    /\ faults < MaxFaults
    /\ faults' = faults + 1
    /\ window' = [c \in Convs |-> {}]
    /\ ledger' = [c \in Convs |-> Stored(c)]
    /\ run' = [r \in Runs |-> IF run[r].pc \in {"idle", "refused", "done"}
                              THEN run[r] ELSE [run[r] EXCEPT !.pc = "done", !.hydrated = None,
                                                  !.result = {}]]
    /\ UNCHANGED <<convs, turns, clock, deleted, lost>>

-----------------------------------------------------------------------------
Init ==
    /\ convs = [c \in Convs |-> None]
    /\ turns = [t \in Turns |-> None]
    /\ window = [c \in Convs |-> {}]
    /\ ledger = [c \in Convs |-> {}]
    /\ run = [r \in Runs |-> NoRun]
    /\ clock = 0 /\ deleted = {} /\ lost = {} /\ faults = 0

RunStep(r) ==
    \/ \E i \in Inputs : Admit(r, i) \/ Refuse(r, i)
    \/ Remember(r) \/ ReadCached(r) \/ Hydrate(r) \/ HydrateFails(r) \/ Merge(r)
    \/ \E answered \in BOOLEAN : Finalize(r, answered)
    \/ Persist(r) \/ PersistFails(r)

Next ==
    \/ \E r \in Runs : RunStep(r)
    \/ \E o \in {i.scope.owner : i \in Inputs} : DeleteOwnerRuntime(o)
    \/ Restart

Spec == Init /\ [][Next]_vars

(***************************************************************************)
(* Properties                                                               *)
(***************************************************************************)
MessageType == [by : Runs, seq : {0, 1}, at : Nat]

RowType == [conv : Convs, by : Runs, user : Runs, answer : Runs \cup {None}]

RunType ==
    [pc : {"idle", "admitted", "refused", "remembered", "hydrating", "merge",
           "read", "persist", "done"},
     input : Inputs \cup {None}, at : Nat, answered : BOOLEAN,
     hydrated : (SUBSET MessageType) \cup {None},
     result : SUBSET MessageType]

\* Type invariant of the tables, the windows and the runs.
TypeOK ==
    /\ convs \in [Convs -> ScopeType \cup {None}]
    /\ turns \in [Turns -> RowType \cup {None}]
    /\ window \in [Convs -> SUBSET MessageType]
    /\ ledger \in [Convs -> SUBSET MessageType]
    /\ run \in [Runs -> RunType]
    /\ clock \in Nat /\ deleted \subseteq Convs /\ lost \subseteq Convs
    /\ faults \in Nat

\* Who may share a conversation, as one value: the room session, or the
\* person (or the anonymous default) with the policies of the memory.
Party(s) ==
    IF s.room THEN <<"room", s.owner, s.device, s.session>>
    ELSE <<"personal", s.owner, s.realm, s.policy, s.memory, s.person,
           IF s.person # None \/ ~ s.memory
           THEN <<s.epoch, s.session, s.device>> ELSE None>>

\* "A retry or late finalizer may update only its originally admitted turn":
\* every stored turn and message belongs to the party its conversation is
\* bound to, whatever was deleted, claimed again, retransmitted or finished
\* late in between.
RowsOfOneParty ==
    \A t \in Turns : turns[t] # None =>
        LET w == turns[t] IN
        /\ convs[w.conv] # None
        /\ \A r \in {w.by, w.user, w.answer} \ {None} :
              /\ TurnOf(r) = t /\ ConvOf(r) = w.conv
              /\ Party(ScopeOf(r)) = Party(convs[w.conv])

\* A turn is only shown what its own party said: the window is keyed by the
\* conversation id alone, so this rests on the guard (conversations whose rows
\* were deleted excepted: their window survives).
ReadsOwnParty ==
    \A r \in Runs : \A m \in run[r].result :
        ConvOf(r) \notin deleted => /\ ConvOf(m.by) = ConvOf(r)
                                    /\ Party(ScopeOf(m.by)) = Party(ScopeOf(r))

\* A read that reached the tables is a snapshot of the conversation at its
\* last step: no recorded message is skipped for an older one, repeated or out
\* of date, although rows are written late and in any order, the window evicts,
\* and turns end between the two halves of the read.  It is full unless private
\* messages took their places; and only then can a message be skipped, one
\* with a window of newer messages behind it, evicted before it was written.
\* (Not so once a turn id was run again: the answer an earlier run stored shows
\* through until it is overwritten.)
RunAgain(c) ==
    \E r, q \in Runs : /\ r # q /\ run[r].at > 0 /\ run[q].at > 0
                       /\ TurnOf(r) = TurnOf(q) /\ ConvOf(r) = c /\ ConvOf(q) = c
Reads(r) == run[r].pc # "read" /\ run'[r].pc = "read"
Buried(n, ms) ==
    /\ Public(ms) # ms
    /\ Cardinality({x \in ms : Precedes(n, x)}) >= WindowSize
Snapshot(r) ==
    LET c == ConvOf(r)
        all == Visible(ledger[c], r)
        got == run'[r].result
    IN /\ got \subseteq all
       /\ \A m \in got, n \in all \ got : Precedes(m, n) => Buried(n, ledger[c])
       /\ Public(ledger[c]) = ledger[c] => got = Tail(all, ReadSize)

ReadIsSnapshot ==
    [][\A r \in Runs :
         /\ Reads(r) /\ ConvOf(r) \notin deleted \cup lost
         /\ ~ RunAgain(ConvOf(r))
         /\ run[r].pc = "merge" => run[r].hydrated # None
         => Snapshot(r)]_vars

=============================================================================
