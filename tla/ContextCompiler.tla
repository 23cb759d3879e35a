--------------------------- MODULE ContextCompiler ---------------------------
(***************************************************************************)
(* ContextCompiler.compile: five reads (persona, memory, commitments,      *)
(* summary, history) run at the same time, four of them under one          *)
(* deadline; what they brought is laid out as prompt segments, pruned to   *)
(* the token budget and put in an order that keeps the reusable prefix     *)
(* stable.  One behaviour of this module compiles one turn.                *)
(*                                                                         *)
(* Texts are left out.  A segment keeps what decides its fate (kind,       *)
(* priority, droppable, size in tokens) and the actionability tag the      *)
(* model reads.  Sizes are small numbers given by Cost and by the history  *)
(* messages themselves.                                                    *)
(***************************************************************************)
EXTENDS Integers, Sequences, FiniteSets, Sorting

CONSTANTS
    TurnInputs,      \* the turns to compile: records, see InputType
    CompilerConfigs, \* memory port, summary provider and budget settings
    Cost,            \* size of a segment of each source, in tokens
    HistoryWindow,   \* messages kept when memory is healthy
    DegradedWindow   \* messages fetched, and kept when memory is degraded

ASSUME WindowsAreOrdered ==
    /\ HistoryWindow \in Nat \ {0}
    /\ DegradedWindow \in Nat /\ DegradedWindow >= HistoryWindow

VARIABLES
    input,       \* the turn being compiled
    config,      \* how the compiler was constructed
    personaRead, \* the five concurrent reads ...
    memoryRead,
    commitRead,
    summaryRead,
    historyRead,
    prompt       \* the outcome: none yet, raised, or the assembled prompt

compilerVars == <<input, config, personaRead, memoryRead, commitRead,
                  summaryRead, historyRead, prompt>>

(***************************************************************************)
(* Inputs.                                                                 *)
(***************************************************************************)
Privacy == {"normal", "private", "temporary"}

\* How the turn's context is entitled to memory: not at all, as the person
\* the session knows, or provisionally (in its own session or in another).
MemoryGrants == {"off", "on", "provisional", "foreign"}

MessageMarks == {"plain", "interrupted", "superseded", "cancelled", "errored"}

InputType ==
    [text: BOOLEAN, privacy: Privacy, topicSwitch: BOOLEAN,
     coordinated: BOOLEAN, memory: MemoryGrants,
     realtime: BOOLEAN, speaker: BOOLEAN,
     past: Seq([cost: Nat \ {0}, mark: MessageMarks])]

BudgetModes == {"enabled", "shadow", "disabled"}

ConfigType == [port: BOOLEAN, summaries: BOOLEAN, budget: Nat, mode: BudgetModes]

\* What writes a segment, the history apart.
SegmentSources ==
    {"personas_service", "speaker", "harness", "response_policy", "summary", "memory",
     "commitments", "realtime", "history_binding", "persona_state", "coordination",
     "request", "memory_receipt"}

ASSUME CompilerAssumption ==
    /\ TurnInputs \subseteq InputType /\ CompilerConfigs \subseteq ConfigType
    /\ Cost \in [SegmentSources -> Nat]

\* TurnRuntimePolicy.from_metadata
MemoryRecallAllowed(i) == i.privacy # "temporary"
HistoryContextAllowed(i) == i.privacy = "normal"

(***************************************************************************)
(* The memory read.                                                        *)
(***************************************************************************)
\* What recall_context or recall_provisional_sources returns: prompt-ready
\* context or none, concrete records behind it or none, degraded or not.
RecallResults ==
    {r \in [context: BOOLEAN, records: BOOLEAN, degraded: BOOLEAN] :
        r.records => r.context}

ProvisionalResults ==
    {r \in RecallResults : ~r.records /\ (r.degraded => ~r.context)}

\* _memory_skip_reason; "" is None.
MemorySkipReason(i, c) ==
    CASE ~i.text -> "no_input"
      [] i.text /\ ~MemoryRecallAllowed(i) -> "privacy_policy"
      [] i.text /\ MemoryRecallAllowed(i) /\ i.memory = "foreign"
            -> "provisional_session_mismatch"
      [] i.text /\ MemoryRecallAllowed(i) /\ i.memory = "off"
            -> "personal_memory_disabled"
      [] OTHER -> IF c.port THEN "" ELSE "provider_absent"

\* queries still to ask; answers so far; late: the deadline passed before a
\* query could be sent; failed: an exception was caught and replaced by the
\* degraded notice.
MemoryReadType ==
    [st: {"start", "asking", "skipped", "done", "raised"}, queries: 0..2,
     answers: Seq(RecallResults), late: BOOLEAN, failed: BOOLEAN]

NoMemory == [st |-> "start", queries |-> 0, answers |-> <<>>,
             late |-> FALSE, failed |-> FALSE]

\* _has_recall_evidence
HasRecallEvidence(r) == r.context /\ r.records

AnyContext(m) == \E k \in DOMAIN m.answers : m.answers[k].context
AnyRecords(m) == \E k \in DOMAIN m.answers : HasRecallEvidence(m.answers[k])

\* The degraded flag compile() ends up with.  Only prompt-ready context keeps
\* a turn healthy.
MemoryDegraded(m) ==
    \/ m.st = "raised"
    \/ m.failed
    \/ /\ m.late \/ \E k \in DOMAIN m.answers : m.answers[k].degraded
       /\ ~AnyContext(m)

\* An empty successful read; a skipped read (payload None) is not one.
MemoryEmpty(m) == m.st = "done" /\ ~MemoryDegraded(m) /\ ~AnyContext(m)

MemorySkip ==
    /\ memoryRead.st = "start"
    /\ MemorySkipReason(input, config) # ""
    /\ memoryRead' = [memoryRead EXCEPT !.st = "skipped"]
    /\ UNCHANGED <<input, config, personaRead, commitRead, summaryRead,
                   historyRead, prompt>>

\* A provisional person has one source, asked once; errors become degraded.
ProvisionalRecall(r) ==
    /\ memoryRead.st = "start"
    /\ MemorySkipReason(input, config) = "" /\ input.memory = "provisional"
    /\ memoryRead' = [memoryRead EXCEPT !.st = "done", !.answers = <<r>>]
    /\ UNCHANGED <<input, config, personaRead, commitRead, summaryRead,
                   historyRead, prompt>>

\* _memory_recall_queries: the text alone, and a second query with a peek at
\* the history when there is one that may be seen.  A failed or slow peek
\* leaves the text alone.
PrepareQueries(peeked) ==
    /\ memoryRead.st = "start"
    /\ MemorySkipReason(input, config) = "" /\ input.memory = "on"
    /\ peeked => HistoryContextAllowed(input) /\ input.past # <<>>
    /\ memoryRead' = [memoryRead EXCEPT !.st = "asking",
                                        !.queries = IF peeked THEN 2 ELSE 1]
    /\ UNCHANGED <<input, config, personaRead, commitRead, summaryRead,
                   historyRead, prompt>>

\* One round of the loop over the queries; evidence ends it.
RecallContext(r) ==
    /\ memoryRead.st = "asking"
    /\ LET left == memoryRead.queries - 1 IN
       memoryRead' = [memoryRead EXCEPT
           !.answers = Append(@, r),
           !.queries = left,
           !.st = IF left = 0 \/ HasRecallEvidence(r) THEN "done" ELSE "asking"]
    /\ UNCHANGED <<input, config, personaRead, commitRead, summaryRead,
                   historyRead, prompt>>

\* remaining <= 0 before the next query.
RecallTooLate ==
    /\ memoryRead.st = "asking"
    /\ memoryRead' = [memoryRead EXCEPT !.st = "done", !.late = TRUE]
    /\ UNCHANGED <<input, config, personaRead, commitRead, summaryRead,
                   historyRead, prompt>>

\* recall_context raises: the notice stands in for every earlier answer.
RecallRaises ==
    /\ memoryRead.st = "asking"
    /\ memoryRead' = [memoryRead EXCEPT !.st = "done", !.failed = TRUE,
                                        !.answers = <<>>]
    /\ UNCHANGED <<input, config, personaRead, commitRead, summaryRead,
                   historyRead, prompt>>

(***************************************************************************)
(* The other reads.                                                        *)
(***************************************************************************)
\* realize_context: the genome is the pinned one or the current one; an
\* authority that does not answer, or a pin whose hash no longer resolves,
\* raises.  A persona may carry volatile state (mood, energy, attention).
PersonaResults == {"plain", "moody", "raised"}

ReadPersona(r) ==
    /\ personaRead = "pending"
    /\ personaRead' = r
    /\ UNCHANGED <<input, config, memoryRead, commitRead, summaryRead,
                   historyRead, prompt>>

\* _active_commitments: needs memory granted, not provisionally.
CommitmentsWanted(i, c) ==
    i.memory = "on" /\ c.port /\ i.text /\ MemoryRecallAllowed(i)

ReadCommitments(r) ==
    /\ commitRead = "pending"
    /\ r = "skipped" <=> ~CommitmentsWanted(input, config)
    /\ commitRead' = r
    /\ UNCHANGED <<input, config, personaRead, memoryRead, summaryRead,
                   historyRead, prompt>>

\* A topic switch or a coordinated reply fences the rolling summary off.
SummaryWanted(i, c) ==
    ~i.topicSwitch /\ ~i.coordinated /\ c.summaries /\ HistoryContextAllowed(i)

ReadSummary(r) ==
    /\ summaryRead = "pending"
    /\ r = "skipped" <=> ~SummaryWanted(input, config)
    /\ summaryRead' = r
    /\ UNCHANGED <<input, config, personaRead, memoryRead, commitRead,
                   historyRead, prompt>>

\* What the history manager hands out: the newest n messages.
LastOf(s, n) == IF Len(s) <= n THEN s ELSE SubSeq(s, Len(s) - n + 1, Len(s))

FetchWindow(i) == IF i.topicSwitch THEN 1 ELSE DegradedWindow

HistoryWanted(i) == HistoryContextAllowed(i) /\ ~i.coordinated

ReadHistory(raises) ==
    /\ historyRead.st = "pending"
    /\ raises => HistoryWanted(input)
    /\ historyRead' =
         [st |-> IF raises THEN "raised" ELSE "done",
          messages |-> IF raises \/ ~HistoryWanted(input) THEN <<>>
                       ELSE LastOf(input.past, FetchWindow(input))]
    /\ UNCHANGED <<input, config, personaRead, memoryRead, commitRead,
                   summaryRead, prompt>>

\* asyncio.timeout_at(read_deadline): every read still waiting is cancelled
\* and becomes a TimeoutError in the gather.  Skipped reads never wait, and
\* the persona is not under the deadline.
ReadDeadline ==
    /\ \/ memoryRead.st \in {"start", "asking"} /\ MemorySkipReason(input, config) = ""
       \/ commitRead = "pending" /\ CommitmentsWanted(input, config)
       \/ summaryRead = "pending" /\ SummaryWanted(input, config)
       \/ historyRead.st = "pending" /\ HistoryWanted(input)
    /\ memoryRead' =
         IF memoryRead.st \in {"start", "asking"} /\ MemorySkipReason(input, config) = ""
         THEN [memoryRead EXCEPT !.st = "raised", !.answers = <<>>] ELSE memoryRead
    /\ commitRead' = IF commitRead = "pending" /\ CommitmentsWanted(input, config)
                     THEN "raised" ELSE commitRead
    /\ summaryRead' = IF summaryRead = "pending" /\ SummaryWanted(input, config)
                      THEN "raised" ELSE summaryRead
    /\ historyRead' = IF historyRead.st = "pending" /\ HistoryWanted(input)
                      THEN [historyRead EXCEPT !.st = "raised"] ELSE historyRead
    /\ UNCHANGED <<input, config, personaRead, prompt>>

GatherIsDone ==
    /\ personaRead # "pending"
    /\ memoryRead.st \in {"skipped", "done", "raised"}
    /\ commitRead # "pending"
    /\ summaryRead # "pending"
    /\ historyRead.st # "pending"

(***************************************************************************)
(* Segments.                                                               *)
(***************************************************************************)
\* _SEGMENT_VOLATILITY and SEGMENT_ORDER: 0 stable, 1 append only,
\* 2 volatile, 3 current.
VolatilityRank(kind) ==
    CASE kind \in {"persona", "harness_policy"} -> 0
      [] kind = "history" -> 1
      [] kind = "current_user" -> 3
      [] OTHER -> 2

Segment(kind, source, cost, priority, droppable, act) ==
    [kind |-> kind, source |-> source, cost |-> cost, priority |-> priority,
     droppable |-> droppable, act |-> act]

Fixed(kind, source, act) == Segment(kind, source, Cost[source], 100, FALSE, act)

When(condition, segment) == IF condition THEN <<segment>> ELSE <<>>

\* _history_context_tags
HistoryStatus(message) ==
    CASE message.mark \in {"interrupted", "cancelled"} -> "interrupted"
      [] message.mark = "superseded" -> "superseded"
      [] message.mark = "errored" -> "failed"
      [] OTHER -> "completed"

\* _interrupted_history_count
InterruptedCount(messages) ==
    Len(SelectSeq(messages, LAMBDA q : HistoryStatus(q) # "completed"))

\* The wider window is kept only as a hedge against degraded memory.
EffectiveHistory ==
    LET window == IF MemoryDegraded(memoryRead) THEN DegradedWindow ELSE HistoryWindow
    IN IF input.topicSwitch THEN historyRead.messages
       ELSE LastOf(historyRead.messages, window)

MemoryHasText ==
    AnyContext(memoryRead) \/ MemoryDegraded(memoryRead) \/ MemoryEmpty(memoryRead)

\* Who the companion is and how it answers: never dropped.
InstructionSegments ==
    <<Fixed("persona", "personas_service", "answer")>>
    \o When(input.speaker, Fixed("persona_state", "speaker", "answer"))
    \o <<Fixed("harness_policy", "harness", "answer"),
         Fixed("response_policy", "response_policy", "none")>>

SummarySegment ==
    When(summaryRead = "text",
         Segment("summary", "summary", Cost["summary"], 70, TRUE, "never"))

\* A notice that the read failed or was empty cannot be dropped.
MemorySegment ==
    When(MemoryHasText,
         Segment("memory", "memory", Cost["memory"], 80,
                 ~(MemoryDegraded(memoryRead) \/ MemoryEmpty(memoryRead)), "reference"))

CommitmentSegment ==
    When(commitRead = "some",
         Segment("commitment", "commitments", Cost["commitments"], 85, TRUE, "never"))

RealtimeSegment ==
    When(input.realtime,
         Segment("realtime", "realtime", Cost["realtime"], 90, TRUE, "reference"))

\* Each message pays for its own rendering; the newer, the higher.
HistorySegments ==
    When(EffectiveHistory # <<>>, Fixed("persona_state", "history_binding", "answer"))
    \o [k \in DOMAIN EffectiveHistory |->
          Segment("history", "history_manager", EffectiveHistory[k].cost, 59 + k,
                  TRUE, "never")]

\* apply_memory_evidence realizes the persona anew from the memory hits: the
\* snapshot of its state is read again, and each of its reads may raise.
\* Records that are not hits (knowledge-graph triples) leave the persona alone.
Realizations ==
    IF personaRead # "raised" /\ AnyRecords(memoryRead) THEN PersonaResults
    ELSE {personaRead}

PersonaStateSegment(persona) ==
    When(persona = "moody",
         Segment("persona_state", "persona_state", Cost["persona_state"], 95, TRUE, "answer"))

CoordinationSegment ==
    When(input.coordinated, Fixed("coordination", "coordination", "answer"))

\* The request and, behind it, what the memory read came to.
RequestSegments ==
    When(input.text, Fixed("current_user", "request", "execute"))
    \o When(input.text, Fixed("memory", "memory_receipt", "answer"))

\* The segments in the order compile() appends them.
Segments(persona) ==
    InstructionSegments \o SummarySegment \o MemorySegment \o CommitmentSegment
    \o RealtimeSegment \o HistorySegments \o PersonaStateSegment(persona)
    \o CoordinationSegment \o RequestSegments

(***************************************************************************)
(* The budget: ContextBudget.prune and _apply_budget.                      *)
(***************************************************************************)
Mandatory(segment) ==
    segment.kind \in {"persona", "harness_policy", "current_user"} \/ ~segment.droppable

\* The sum of their token_estimates.
TokensOf(segments, indices) ==
    LET sum[n \in 0..Len(segments)] ==
          IF n = 0 THEN 0
          ELSE sum[n - 1] + (IF n \in indices THEN segments[n].cost ELSE 0)
    IN sum[Len(segments)]

MandatoryOf(segments) == {k \in DOMAIN segments : Mandatory(segments[k])}

\* The optional segments, highest priority first, ties in prompt order.
OptionalOrder(segments) ==
    SortedBy(DOMAIN segments \ MandatoryOf(segments),
             [k \in DOMAIN segments \ MandatoryOf(segments) |-> <<-segments[k].priority, k>>])

\* One round of the loop over the optional segments: the next one, k, is kept
\* if it fits into what is left.
Admit(segments, max, sofar, k) ==
    IF sofar.used + segments[k].cost <= max
    THEN [kept |-> sofar.kept \union {k}, used |-> sofar.used + segments[k].cost]
    ELSE sofar

\* Mutant: the last admitted segment may overrun what is left.
MutPrune(segments, max) ==
    LET mandatory == MandatoryOf(segments)
        order == OptionalOrder(segments)
        loop[n \in 0..Cardinality(DOMAIN order)] ==
          IF n = 0 THEN [kept |-> mandatory, used |-> TokensOf(segments, mandatory)]
          ELSE IF loop[n - 1].used < max
          THEN [kept |-> loop[n - 1].kept \union {order[n]},
                used |-> loop[n - 1].used + segments[order[n]].cost]
          ELSE loop[n - 1]
    IN loop[Cardinality(DOMAIN order)].kept
\* The indices prune() keeps: all that is mandatory, then greedily.
Prune(segments, max) ==
    LET mandatory == MandatoryOf(segments)
        order == OptionalOrder(segments)
        loop[n \in 0..Cardinality(DOMAIN order)] ==
          IF n = 0 THEN [kept |-> mandatory, used |-> TokensOf(segments, mandatory)]
          ELSE Admit(segments, max, loop[n - 1], order[n])
    IN loop[Cardinality(DOMAIN order)].kept

BudgetApplies == config.budget > 0 /\ config.mode = "enabled"

\* No budget configured, or only watched: everything is kept.
KeptIndices(segments) ==
    IF BudgetApplies THEN Prune(segments, config.budget) ELSE DOMAIN segments

KeptSegments(segments) == Picks(segments, KeptIndices(segments))

\* The ranked, stable order in which the kept parts become the system prompt.
Layout(kept) ==
    LET order == SortedBy(DOMAIN kept,
                          [k \in DOMAIN kept |-> <<VolatilityRank(kept[k].kind), k>>])
    IN [n \in DOMAIN order |-> kept[order[n]]]

(***************************************************************************)
(* The receipt that tells the model what the memory read was.              *)
(***************************************************************************)
\* A read that is neither skipped nor degraded has asked at least once, so
\* the code's "not_started" cannot arise.
ReadStatus ==
    CASE memoryRead.st = "skipped" -> "skipped"
      [] memoryRead.st # "skipped" /\ MemoryDegraded(memoryRead) -> "failed"
      [] OTHER -> "completed"

\* Mutant: what the budget left out still counts as provided.
MutEvidenceStatus(kept) ==
    CASE MemoryDegraded(memoryRead) -> "unavailable"
      [] ~MemoryDegraded(memoryRead) /\ AnyContext(memoryRead) -> "provided"
      [] OTHER -> IF memoryRead.st = "skipped" THEN "not_provided" ELSE "no_match"
EvidenceStatus(kept) ==
    CASE MemoryDegraded(memoryRead) -> "unavailable"
      [] MemoryEmpty(memoryRead) -> "no_match"
      [] OTHER ->
           IF ~MemoryHasText THEN "not_provided"
           ELSE IF \E k \in DOMAIN kept : kept[k].source = "memory" THEN "provided"
           ELSE "omitted_by_context_budget"

Unassembled == [st |-> "none", segments |-> <<>>, parts |-> <<>>,
                evidence |-> "", status |-> "", interruptedDropped |-> 0]

\* What compile() makes of the reads and the persona it ends up with: it raises
\* with the persona, or the prompt is assembled.
Outcome(persona) ==
    IF persona = "raised" THEN [Unassembled EXCEPT !.st = "raised"]
    ELSE LET segments == Segments(persona)
             kept == KeptSegments(segments)
         IN [st |-> "sent",
             segments |-> segments,
             parts |-> Layout(kept),
             evidence |-> EvidenceStatus(kept),
             status |-> ReadStatus,
             interruptedDropped |->
                 InterruptedCount(EffectiveHistory)
                 - Cardinality({k \in KeptIndices(segments) :
                       /\ segments[k].kind = "history"
                       /\ HistoryStatus(EffectiveHistory[segments[k].priority - 59])
                            # "completed"})]

\* The gather has returned.
Assemble ==
    /\ prompt.st = "none"
    /\ GatherIsDone
    /\ \E persona \in Realizations :
          personaRead' = persona /\ prompt' = Outcome(persona)
    /\ UNCHANGED <<input, config, memoryRead, commitRead, summaryRead, historyRead>>

CompilerInit ==
    /\ input \in TurnInputs
    /\ config \in CompilerConfigs
    /\ personaRead = "pending"
    /\ memoryRead = NoMemory
    /\ commitRead = "pending"
    /\ summaryRead = "pending"
    /\ historyRead = [st |-> "pending", messages |-> <<>>]
    /\ prompt = Unassembled

CompilerNext ==
    \/ MemorySkip
    \/ \E r \in ProvisionalResults : ProvisionalRecall(r)
    \/ \E peeked \in BOOLEAN : PrepareQueries(peeked)
    \/ \E r \in RecallResults : RecallContext(r)
    \/ RecallTooLate
    \/ RecallRaises
    \/ \E r \in PersonaResults : ReadPersona(r)
    \/ \E r \in {"skipped", "some", "none", "degraded"} : ReadCommitments(r)
    \/ \E r \in {"skipped", "text", "none", "raised"} : ReadSummary(r)
    \/ \E raises \in BOOLEAN : ReadHistory(raises)
    \/ ReadDeadline
    \/ Assemble

CompilerSpec == CompilerInit /\ [][CompilerNext]_compilerVars

(***************************************************************************)
(* Properties.                                                             *)
(***************************************************************************)
Sources(parts) == {parts[k].source : k \in DOMAIN parts}

\* The receipt never misleads: "provided" means recalled context is in the
\* prompt, "no_match" means every query asked came back healthy and empty,
\* and whenever context was recalled but is not in the prompt the receipt
\* says that it was left out, whatever the reads, the deadline and the budget
\* did (memory_evidence_status and memory_read_status of compile()).
ReceiptIsTruthful ==
    prompt.st = "sent" =>
        LET recalled == AnyContext(memoryRead) /\ ~memoryRead.failed /\ memoryRead.st = "done"
            there == "memory" \in Sources(prompt.parts)
        IN /\ prompt.evidence = "provided" <=> recalled /\ there
           /\ recalled /\ ~there => prompt.evidence = "omitted_by_context_budget"
           /\ prompt.evidence = "no_match" =>
                /\ memoryRead.answers # <<>>
                /\ \A k \in DOMAIN memoryRead.answers :
                      ~memoryRead.answers[k].degraded /\ ~memoryRead.answers[k].context
           /\ prompt.evidence = "unavailable" => prompt.status = "failed" /\ ~recalled
           /\ prompt.status = "skipped" <=> prompt.evidence = "not_provided"

\* The prompt is laid out from the segments that were kept and from no other.
\* An enforced budget is exceeded only by what is mandatory; whatever was
\* dropped did not fit, and was not passed over for a segment that mattered
\* less and was at least as large (ContextBudget.prune).
BudgetIsSpentByPriority ==
    prompt.st = "sent" =>
        LET all == prompt.segments
            kept == KeptIndices(all)
            mandatory == MandatoryOf(all)
        IN /\ {prompt.parts[k] : k \in DOMAIN prompt.parts} = {all[k] : k \in kept}
           /\ mandatory \subseteq kept
           /\ BudgetApplies =>
                /\ \/ TokensOf(all, kept) <= config.budget
                   \/ kept = mandatory
                /\ \A d \in DOMAIN all \ kept :
                     /\ TokensOf(all, kept) + all[d].cost > config.budget
                     /\ \A k \in kept \ mandatory :
                          all[k].cost >= all[d].cost => all[k].priority >= all[d].priority
=============================================================================
