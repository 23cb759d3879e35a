----------------------------- MODULE LiveTurns -----------------------------
(***************************************************************************)
(* LiveTurnBoard: the turns this process is running, derived from the      *)
(* events that pass by.  A turn id may be streamed by two RPCs at a time   *)
(* (a client that retries on a new connection), an event stream may fall   *)
(* silent, end without a DONE or be abandoned; the board is bounded and    *)
(* swept by age.  Instants are kept as ages, which is all that is compared. *)
(***************************************************************************)
EXTENDS Integers, FiniteSets

CONSTANTS
    BoardRuns,   \* observed event streams
    TurnIdOf,    \* the turn id of each stream
    BoardSize,   \* _MAX_TURNS
    Handover,    \* _HANDOVER_SECONDS, in clock steps
    Ttl          \* _TTL_SECONDS, in clock steps

ASSUME BoardBounds ==
    BoardSize \in Nat \ {0} /\ Handover \in Nat \ {0} /\ Ttl \in Nat \ {0}

VARIABLES
    entries,  \* _entries: by turn id
    observed, \* each stream: unseen, open, closed
    reported  \* history: the final status each stream carried

boardVars == <<entries, observed, reported>>

TurnIds == {TurnIdOf[r] : r \in BoardRuns}

\* Final statuses: DONE's own, ERROR without one, DONE without one.
Finals == {"completed", "errored", "unknown"}

\* age: since touched_at; since: since settled_at, 0 while running.
Absent == [st |-> "absent", age |-> 0, since |-> 0]
Running == [st |-> "running", age |-> 0, since |-> 0]

OnBoard(board) == {t \in TurnIds : board[t].st # "absent"}

BoardInit ==
    /\ entries = [t \in TurnIds |-> Absent]
    /\ observed = [r \in BoardRuns |-> "unseen"]
    /\ reported = [r \in BoardRuns |-> "none"]

\* An age beyond its limit is as good as the next one.
Older(age, limit) == IF age > limit THEN age ELSE age + 1

BoardTick ==
    /\ entries' = [t \in TurnIds |->
         IF entries[t].st = "absent" THEN Absent
         ELSE [entries[t] EXCEPT !.age = Older(@, Ttl),
                                 !.since = IF entries[t].st \in Finals THEN Older(@, Handover) ELSE 0]]
    /\ UNCHANGED <<observed, reported>>

\* _sweep: a settled entry leaves after the hand-over, a silent one after the
\* time to live.
Stale(e) == IF e.st \in Finals THEN e.since >= Handover ELSE e.age > Ttl

Swept == [t \in TurnIds |-> IF Stale(entries[t]) THEN Absent ELSE entries[t]]

\* snapshot()
Snapshot ==
    /\ entries' = Swept
    /\ UNCHANGED <<observed, reported>>

\* _begin: sweep, drop the oldest of a full board, put the turn on it.
Begin(r) ==
    LET t == TurnIdOf[r]
        full == Cardinality(OnBoard(Swept)) >= BoardSize /\ t \notin OnBoard(Swept)
        oldest == {u \in OnBoard(Swept) :
                     \A v \in OnBoard(Swept) : Swept[v].age <= Swept[u].age}
    IN /\ observed[r] = "unseen"
       /\ observed' = [observed EXCEPT ![r] = "open"]
       /\ \/ /\ ~full
             /\ entries' = [Swept EXCEPT ![t] = Running]
          \/ /\ full
             /\ \E u \in oldest : entries' = [Swept EXCEPT ![u] = Absent, ![t] = Running]
       /\ UNCHANGED reported

\* _saw for an event that is not the last: only the age and counters change.
SawEvent(r) ==
    LET t == TurnIdOf[r] IN
    /\ observed[r] = "open" /\ reported[r] = "none"
    /\ entries[t].st # "absent"
    /\ entries' = [entries EXCEPT ![t].age = 0]
    /\ UNCHANGED <<observed, reported>>

\* _saw for DONE or ERROR, the last event of a stream.
SawFinal(r, status) ==
    LET t == TurnIdOf[r] IN
    /\ observed[r] = "open" /\ reported[r] = "none"
    /\ entries' = IF entries[t].st = "absent" THEN entries
                  ELSE [entries EXCEPT ![t] = [st |-> status, age |-> 0, since |-> 0]]
    /\ reported' = [reported EXCEPT ![r] = status]
    /\ UNCHANGED observed

\* Mutant: an abandoned stream leaves its entry.
MutEnd(r) ==
    /\ observed[r] = "open"
    /\ observed' = [observed EXCEPT ![r] = "closed"]
    /\ UNCHANGED <<entries, reported>>
\* _end, in observe()'s finally: a settled entry is handed over.
End(r) ==
    LET t == TurnIdOf[r] IN
    /\ observed[r] = "open"
    /\ observed' = [observed EXCEPT ![r] = "closed"]
    /\ entries' = IF entries[t].st \in Finals THEN entries
                  ELSE [entries EXCEPT ![t] = Absent]
    /\ UNCHANGED reported

BoardNext ==
    \/ BoardTick
    \/ Snapshot
    \/ \E r \in BoardRuns :
        \/ Begin(r) \/ SawEvent(r) \/ End(r)
        \/ \E status \in Finals : SawFinal(r, status)

BoardSpec == BoardInit /\ [][BoardNext]_boardVars

(***************************************************************************)
(* Properties.                                                             *)
(***************************************************************************)
\* The board never tells a lie ("running" said of a finished turn is "the one
\* lie this board could tell"): what a snapshot shows as running has an open
\* stream, what it shows as finished was reported so by a stream of that turn
\* less than the hand-over ago, and it never shows more than its bound; also
\* when one turn id is streamed twice, streams are abandoned and entries are
\* displaced or expire.
BoardIsTruthful ==
    /\ Cardinality(OnBoard(entries)) <= BoardSize
    /\ \A t \in OnBoard(Swept) :
         LET mine == {r \in BoardRuns : TurnIdOf[r] = t}
             e == Swept[t]
         IN \/ e.st = "running" /\ \E r \in mine : observed[r] = "open"
            \/ e.since < Handover /\ \E r \in mine : e.st = reported[r]
=============================================================================
