----------------------------- MODULE LLMRouter -----------------------------
(***************************************************************************)
(* One streamed completion: LLMRouter tries its candidates in turn until   *)
(* one delivers a first chunk, LiteLLMProvider turns a provider's chunks   *)
(* into deltas and puts tool calls together from fragments.  The chunks    *)
(* are the provider's (external); the consumer may leave at any time.      *)
(***************************************************************************)
EXTENDS Integers, Sequences, FiniteSets, Sorting

CONSTANTS
    NumModels,   \* configured providers; 1 is the default model
    MaxChunks,   \* bound: chunks one provider sends
    Slots        \* tool-call positions in a response

ASSUME RouterBounds == NumModels \in Nat \ {0} /\ MaxChunks \in Nat /\ Slots \subseteq Nat

VARIABLES
    request,   \* requested: a model, 0 for none or an unknown one; fallbacks
    router,    \* the loop over the candidates
    upstream,  \* response of each provider: none, open, closed
    fragments, \* tool_buf: the calls in the order their slots first appeared
    chunks,    \* history: the chunks of the response under way
    out        \* the deltas the consumer got

llmVars == <<request, router, upstream, fragments, chunks, out>>

Models == 1..NumModels

\* __init__ keeps the configured fallbacks that exist and are not the default.
FallbackLists ==
    {<<>>} \union {<<m>> : m \in Models \ {1}}
        \union {<<m, n>> : m \in Models \ {1}, n \in Models \ {1}}

\* stream(): the requested model, or the default, and then the fallbacks.
Candidates ==
    LET key == IF request.model = 0 THEN 1 ELSE request.model
        chain == request.fallbacks
    IN <<key>> \o Picks(chain, {i \in DOMAIN chain : chain[i] # key})

RouterInit ==
    /\ request \in [model : 0..NumModels, fallbacks : FallbackLists]
    /\ router = [at |-> 1, pc |-> "open", emitted |-> FALSE, result |-> "none"]
    /\ upstream = [m \in Models |-> "none"]
    /\ fragments = <<>>
    /\ chunks = <<>>
    /\ out = <<>>

Candidate == Candidates[router.at]

(***************************************************************************)
(* The provider.                                                           *)
(***************************************************************************)
Delta(kind) == [kind |-> kind, from |-> Candidate, slot |-> 0, parts |-> <<>>]

\* A chunk: usage, a chunk without choices, reasoning, text, a fragment of the
\* call in a slot, or the end with its reason, which only usage may follow.
Chunks ==
    {[kind |-> k, slot |-> 0, part |-> 0, named |-> FALSE] :
        k \in {"usage", "empty", "reasoning", "text", "finish"}}
    \union {[kind |-> "fragment", slot |-> s, part |-> Len(chunks) + 1, named |-> b] :
        s \in Slots, b \in BOOLEAN}

Collected(c) ==
    IF \E i \in DOMAIN fragments : fragments[i].slot = c.slot
    THEN [i \in DOMAIN fragments |->
            IF fragments[i].slot # c.slot THEN fragments[i]
            ELSE [fragments[i] EXCEPT !.named = @ \/ c.named, !.parts = Append(@, c.part)]]
    ELSE Append(fragments, [slot |-> c.slot, named |-> c.named, parts |-> <<c.part>>])

\* At the end every named call is delivered, then the end itself.
FinalDeltas ==
    LET calls == Picks(fragments, {i \in DOMAIN fragments : fragments[i].named})
    IN [i \in DOMAIN calls |-> [kind |-> "tool_call", from |-> Candidate,
                                slot |-> calls[i].slot, parts |-> calls[i].parts]]
       \o <<Delta("finish")>>

\* What one chunk makes the consumer see.  Activity is a heartbeat: the first
\* one is due at once, later ones at most once a second.
DeltasOf(c, heartbeat) ==
    CASE c.kind = "usage" -> <<Delta("usage")>>
      [] c.kind = "text" -> <<Delta("text")>>
      [] c.kind \in {"reasoning", "fragment"} ->
            IF heartbeat THEN <<Delta("activity")>> ELSE <<>>
      [] c.kind = "finish" -> FinalDeltas
      [] OTHER -> <<>>

Beaten == \E i \in DOMAIN out : out[i].kind = "activity"

Chunk(c, heartbeat) ==
    /\ router.pc = "stream" /\ Len(chunks) < MaxChunks
    /\ (\E i \in DOMAIN chunks : chunks[i].kind = "finish") => c.kind \in {"usage", "empty"}
    /\ heartbeat \/ Beaten
    /\ LET deltas == DeltasOf(c, heartbeat) IN
       /\ out' = out \o deltas
       /\ router' = [router EXCEPT !.emitted = @ \/ deltas # <<>>]
    /\ fragments' = IF c.kind = "fragment" THEN Collected(c) ELSE fragments
    /\ chunks' = Append(chunks, c)
    /\ UNCHANGED <<request, upstream>>

(***************************************************************************)
(* The router.                                                             *)
(***************************************************************************)
\* Mutant: a later failure moves on as well.
MutFailed(r) ==
    IF r.at < Len(Candidates)
    THEN [r EXCEPT !.pc = "open", !.at = @ + 1, !.emitted = FALSE]
    ELSE [r EXCEPT !.pc = "done", !.result = "error"]
\* A failure before the first delta moves on to the next candidate.
Failed(r) ==
    IF ~r.emitted /\ r.at < Len(Candidates)
    THEN [r EXCEPT !.pc = "open", !.at = @ + 1]
    ELSE [r EXCEPT !.pc = "done", !.result = "error"]

OpenStream ==
    /\ router.pc = "open"
    /\ upstream' = [upstream EXCEPT ![Candidate] = "open"]
    /\ router' = [router EXCEPT !.pc = "stream"]
    /\ fragments' = <<>> /\ chunks' = <<>>
    /\ UNCHANGED <<request, out>>

OpenFails ==
    /\ router.pc = "open"
    /\ router' = Failed(router)
    /\ UNCHANGED <<request, upstream, fragments, chunks, out>>

\* The provider's finally closes the response on every way out.
Closed == [upstream EXCEPT ![Candidate] = "closed"]

StreamFails ==
    /\ router.pc = "stream"
    /\ upstream' = Closed
    /\ router' = Failed(router)
    /\ UNCHANGED <<request, fragments, chunks, out>>

StreamEnds ==
    /\ router.pc = "stream"
    /\ upstream' = Closed
    /\ router' = [router EXCEPT !.pc = "done", !.result = "ok"]
    /\ UNCHANGED <<request, fragments, chunks, out>>

\* Cancellation or aclose() by the consumer; aclosing() passes it down.
ConsumerLeaves ==
    /\ router.pc \in {"open", "stream"}
    /\ upstream' = IF router.pc = "stream" THEN Closed ELSE upstream
    /\ router' = [router EXCEPT !.pc = "done", !.result = "left"]
    /\ UNCHANGED <<request, fragments, chunks, out>>

RouterNext ==
    \/ OpenStream \/ OpenFails
    \/ \E c \in Chunks, heartbeat \in BOOLEAN : Chunk(c, heartbeat)
    \/ StreamFails \/ StreamEnds \/ ConsumerLeaves

RouterSpec == RouterInit /\ [][RouterNext]_llmVars

(***************************************************************************)
(* Properties.                                                             *)
(***************************************************************************)
\* Where in a stream of chunks the fragments of a slot are.
PlacesOf(stream, slot) ==
    {k \in DOMAIN stream : stream[k].kind = "fragment" /\ stream[k].slot = slot}

\* The parts are the fragments of the slot, all of them, in the order of the
\* stream; the part a chunk carries is its place there.
IsWholeCall(stream, slot, parts) ==
    /\ {parts[k] : k \in DOMAIN parts} = PlacesOf(stream, slot)
    /\ \A k, l \in DOMAIN parts : k < l => parts[k] < parts[l]

\* An answer is the whole answer of one model.  Once anything has been
\* delivered, be it a heartbeat or a usage record, no other provider is asked,
\* so two models' words never end up in one reply, and an error is reported
\* only after every candidate was asked or something had been delivered
\* (LLMRouter.stream).  A tool call has exactly the fragments of its slot, in
\* the order they came, however those of several calls interleave.  And no
\* provider response outlives its turn: failed, finished or abandoned, it is
\* closed before the next one opens.
OneModelAnswers ==
    /\ \A i, j \in DOMAIN out : out[i].from = out[j].from
    /\ router.result = "error" /\ out = <<>> => router.at = Len(Candidates)
    /\ \A i \in DOMAIN out : out[i].kind = "tool_call" =>
         IsWholeCall(chunks, out[i].slot, out[i].parts)
    /\ \A m \in Models :
         upstream[m] = "open" => router.pc = "stream" /\ m = Candidate
=============================================================================
