-------------------------- MODULE TurnInput_proofs --------------------------
(***************************************************************************)
(* Proofs about what goes into a turn and comes back from a model: the      *)
(* interpretation of an utterance (Interpretation), the routing of one      *)
(* completion (LLMRouter) and the compilation of a prompt                   *)
(* (ContextCompiler).  The three share no state.                            *)
(***************************************************************************)
EXTENDS Interpretation, LLMRouter, ContextCompiler, NumberLemmas, SequenceTheorems

(***************************************************************************)
(* Interpretation: what a decision rests on.                                *)
(***************************************************************************)
Asked == HomeContexts \union {NoContext}

\* What DecisionIsSupported says of a result v for the answer r in context c.
Supported(c, r, v) ==
    v.status \in {"decided", "cancelled"} =>
        /\ ~r.truncated /\ (c # NoContext => r.questionState)
        /\ Direct(r) => v = Primary(r)
        /\ c # NoContext /\ c.pending =>
             /\ AsksPick(c) /\ r.pick.p >= Likely
             /\ \/ /\ r.pick.choice \in c.targets
                   /\ v.targets = {r.pick.choice} /\ v.verb = c.verb
                \/ r.pick.choice = Cancel /\ v.status = "cancelled"
                \/ r.pick.choice = Again /\ Direct(r)

\* A result that decides anything is the one computed from the reply kept.
DecisionInv ==
    /\ ask \in [st : {"idle", "asking", "done", "over"}, context : Asked]
    /\ ask.st # "done" => verdict = Failure("none")
    /\ verdict.status \in {"decided", "cancelled"} =>
         /\ reply \in Replies(ask.context)
         /\ verdict = Interpreted(ask.context, reply)

LEMMA StatusesDiffer ==
    /\ \A reason \in {"none", "timeout", "unavailable", "invalid", "cancelled_call"} :
          Failure(reason).status \notin {"decided", "cancelled"}
    /\ Abstained.status = "abstained"
    /\ Cancellation.status = "cancelled"
    /\ \A i, s, t, v : Proposing(i, s, t, v).status = "decided"
BY DEF Failure, Abstained, Cancellation, Proposing

LEMMA TruncatedAbstains ==
    ASSUME NEW r, r.truncated
    PROVE  Primary(r) = Abstained
BY DEF Primary

\* Only a question that offers devices is answered with any confidence.
LEMMA PickNeedsAQuestion ==
    ASSUME NEW c \in Asked, NEW r \in Replies(c), r.pick.p >= Likely
    PROVE  c # NoContext /\ AsksPick(c)
<1> SUFFICES ASSUME ~(c # NoContext /\ AsksPick(c)) PROVE FALSE
  OBVIOUS
<1>1. r.pick = Unanswered
  BY DEF Replies
<1> QED BY <1>1 DEF Unanswered, Likely

LEMMA CombinedIsSupported ==
    ASSUME NEW c \in HomeContexts, NEW r \in Replies(c), r.questionState
    PROVE  Supported(c, r, Combined(c, r))
<1>0. c \in Asked /\ c # NoContext
  BY InterpretationAssumption DEF Asked
<1>1. CASE r.truncated
  <2>1. Combined(c, r) = Abstained
    BY <1>1, TruncatedAbstains DEF Combined
  <2> QED BY <2>1, StatusesDiffer DEF Supported
<1>2. CASE ~r.truncated /\ r.pick.p >= Likely /\ r.pick.choice = Cancel
  <2>1. CASE Direct(r)
    <3>1. Combined(c, r) = Abstained
      BY <1>2, <2>1 DEF Combined
    <3> QED BY <3>1, StatusesDiffer DEF Supported
  <2>2. CASE ~Direct(r)
    <3>1. Combined(c, r) = Cancellation
      BY <1>2, <2>2 DEF Combined
    <3>2. AsksPick(c)
      BY <1>0, <1>2, PickNeedsAQuestion
    <3> QED BY <1>0, <1>2, <2>2, <3>1, <3>2, StatusesDiffer DEF Supported
  <2> QED BY <2>1, <2>2
<1>3. CASE ~r.truncated /\ ~(r.pick.p >= Likely /\ r.pick.choice = Cancel) /\ Picked(c, r)
  <2>1. CASE Direct(r) /\ Primary(r) # PickedCommand(c, r)
    <3>1. Combined(c, r) = Abstained
      BY <1>3, <2>1 DEF Combined
    <3> QED BY <3>1, StatusesDiffer DEF Supported
  <2>2. CASE ~(Direct(r) /\ Primary(r) # PickedCommand(c, r))
    <3>1. Combined(c, r) = PickedCommand(c, r)
      BY <1>3, <2>2 DEF Combined
    <3>2. r.pick.p >= Likely /\ r.pick.choice \in c.targets
      BY <1>3 DEF Picked
    <3>3. AsksPick(c)
      BY <1>0, <3>2, PickNeedsAQuestion
    <3>4. PickedCommand(c, r).targets = {r.pick.choice} /\ PickedCommand(c, r).verb = c.verb
      BY DEF PickedCommand, Proposing
    <3> QED BY <1>0, <1>3, <2>2, <3>1, <3>2, <3>3, <3>4 DEF Supported
  <2> QED BY <2>1, <2>2
<1>4. CASE /\ ~r.truncated /\ ~(r.pick.p >= Likely /\ r.pick.choice = Cancel)
           /\ ~Picked(c, r) /\ c.pending
  <2>0. Combined(c, r) = WhilePending(r)
    BY <1>4 DEF Combined
  <2>1. CASE Direct(r) /\ r.pick.choice = Again /\ r.pick.p >= Likely
    <3>1. Combined(c, r) = Primary(r)
      BY <2>0, <2>1 DEF WhilePending
    <3>2. AsksPick(c)
      BY <1>0, <2>1, PickNeedsAQuestion
    <3> QED BY <1>0, <1>4, <2>1, <3>1, <3>2 DEF Supported
  <2>2. CASE ~(Direct(r) /\ r.pick.choice = Again /\ r.pick.p >= Likely)
    <3>1. Combined(c, r) = Abstained
      BY <2>0, <2>2 DEF WhilePending
    <3> QED BY <3>1, StatusesDiffer DEF Supported
  <2> QED BY <2>1, <2>2
<1>5. CASE /\ ~r.truncated /\ ~(r.pick.p >= Likely /\ r.pick.choice = Cancel)
           /\ ~Picked(c, r) /\ ~c.pending
  <2>1. Direct(r) => Combined(c, r) = Primary(r)
    BY <1>5 DEF Combined
  <2> QED BY <1>0, <1>5, <2>1 DEF Supported
<1> QED BY <1>1, <1>2, <1>3, <1>4, <1>5

\* Every result of the adapter is supported by the answer it was made from.
LEMMA InterpretedIsSupported ==
    ASSUME NEW c \in Asked, NEW r \in Replies(c)
    PROVE  Supported(c, r, Interpreted(c, r))
<1>1. CASE c = NoContext
  <2>1. Interpreted(c, r) = Primary(r)
    BY <1>1 DEF Interpreted
  <2>2. CASE r.truncated
    <3>1. Interpreted(c, r) = Abstained
      BY <2>1, <2>2, TruncatedAbstains
    <3> QED BY <3>1, StatusesDiffer DEF Supported
  <2>3. CASE ~r.truncated
    BY <1>1, <2>1, <2>3 DEF Supported
  <2> QED BY <2>2, <2>3
<1>2. CASE c # NoContext /\ ~r.questionState
  <2>1. Interpreted(c, r) = Abstained
    BY <1>2 DEF Interpreted
  <2> QED BY <2>1, StatusesDiffer DEF Supported
<1>3. CASE c # NoContext /\ r.questionState
  <2>1. Interpreted(c, r) = Combined(c, r) /\ c \in HomeContexts
    BY <1>3 DEF Interpreted, Asked
  <2> QED BY <1>3, <2>1, CombinedIsSupported
<1> QED BY <1>1, <1>2, <1>3

LEMMA DecisionStep ==
    ASSUME DecisionInv, [InterpretationNext]_interpretationVars
    PROVE  DecisionInv'
<1>1. ASSUME NEW c \in Asked, NEW shadowed \in BOOLEAN, Interpret(c, shadowed)
      PROVE DecisionInv'
  <2>1. ask' = [st |-> "asking", context |-> c] /\ verdict' = Failure("none")
    BY <1>1 DEF Interpret, DecisionInv
  <2> QED BY <2>1, StatusesDiffer DEF DecisionInv
<1>2. ASSUME NEW recorder \in BOOLEAN, PrimaryAnswers(recorder) PROVE DecisionInv'
  <2>1. PICK r \in Replies(ask.context), valid \in BOOLEAN :
           /\ reply' = r
           /\ Ends(IF valid THEN Interpreted(ask.context, r) ELSE Abstained, recorder)
    BY <1>2 DEF PrimaryAnswers
  <2>2. ask' = [ask EXCEPT !.st = "done"]
        /\ verdict' = (IF valid THEN Interpreted(ask.context, r) ELSE Abstained)
    BY <2>1 DEF Ends
  <2>3. ask' \in [st : {"idle", "asking", "done", "over"}, context : Asked]
        /\ ask'.st = "done" /\ ask'.context = ask.context
    BY <2>2 DEF DecisionInv
  <2> QED BY <2>1, <2>2, <2>3, StatusesDiffer DEF DecisionInv
<1>3. ASSUME NEW reason \in {"timeout", "unavailable", "invalid", "cancelled_call"},
             NEW recorder \in BOOLEAN, Ends(Failure(reason), recorder)
      PROVE DecisionInv'
  <2>1. ask' = [ask EXCEPT !.st = "done"] /\ verdict' = Failure(reason)
    BY <1>3 DEF Ends
  <2>2. ask' \in [st : {"idle", "asking", "done", "over"}, context : Asked]
        /\ ask'.st = "done"
    BY <2>1 DEF DecisionInv
  <2> QED BY <2>1, <2>2, StatusesDiffer DEF DecisionInv
<1>4. ASSUME NEW reason \in {"timeout", "unavailable", "invalid"}, NEW recorder \in BOOLEAN,
             PrimaryErrs(reason, recorder)
      PROVE DecisionInv'
  BY <1>3, <1>4 DEF PrimaryErrs
<1>5. ASSUME NEW recorder \in BOOLEAN, CallerCancels(recorder) PROVE DecisionInv'
  BY <1>3, <1>5 DEF CallerCancels
<1>6. CASE CallerContinues
  <2>1. ask' = [st |-> "over", context |-> NoContext] /\ verdict' = Failure("none")
    BY <1>6 DEF CallerContinues
  <2> QED BY <2>1, StatusesDiffer DEF DecisionInv, Asked
<1>7. CASE ShadowEnds \/ Record \/ Drain \/ UNCHANGED interpretationVars
  BY <1>7 DEF ShadowEnds, Record, Drain, interpretationVars, DecisionInv
<1> QED BY <1>1, <1>2, <1>4, <1>5, <1>6, <1>7 DEF InterpretationNext, Asked

\* A decision is never made from a truncated request or without the context it
\* was asked in, a sure command is carried out as it is or not at all, and only
\* a pick, a cancellation or a sure new request ends an open question, whatever
\* the model answers (LayaInterpreter.interpret, _context_result).
THEOREM DecisionsAreSupported == InterpretationSpec => []DecisionIsSupported
<1>1. InterpretationInit => DecisionInv
  BY StatusesDiffer DEF InterpretationInit, DecisionInv, Asked
<1>2. DecisionInv => DecisionIsSupported
  <2> SUFFICES ASSUME DecisionInv, verdict.status \in {"decided", "cancelled"}
               PROVE  Supported(ask.context, reply, verdict)
    BY DEF DecisionIsSupported, Supported
  <2>1. /\ ask.context \in Asked /\ reply \in Replies(ask.context)
        /\ verdict = Interpreted(ask.context, reply)
    BY DEF DecisionInv
  <2> QED BY <2>1, InterpretedIsSupported
<1> QED BY <1>1, <1>2, DecisionStep, PTL DEF InterpretationSpec

(***************************************************************************)
(* LLMRouter: types.                                                        *)
(***************************************************************************)
ChunkKinds == {"usage", "empty", "reasoning", "text", "finish", "fragment"}
ChunkType == [kind : ChunkKinds, slot : Slots \union {0}, part : Nat, named : BOOLEAN]
FragmentType == [slot : Slots, named : BOOLEAN, parts : Seq(Nat)]
DeltaType ==
    [kind : {"usage", "text", "activity", "finish", "tool_call"}, from : Models,
     slot : Slots \union {0}, parts : Seq(Nat)]

RouterTyped ==
    /\ request \in [model : 0..NumModels, fallbacks : FallbackLists]
    /\ router \in [at : 1..Len(Candidates), pc : {"open", "stream", "done"},
                   emitted : BOOLEAN, result : {"none", "error", "ok", "left"}]
    /\ upstream \in [Models -> {"none", "open", "closed"}]
    /\ fragments \in Seq(FragmentType) /\ chunks \in Seq(ChunkType)
    /\ out \in Seq(DeltaType)

\* Something was delivered: by the present candidate, and it stays that one.
OneSource ==
    /\ router.emitted <=> out # <<>>
    /\ router.pc = "open" => out = <<>>
    /\ router.pc # "done" => router.result = "none"
    /\ router.result = "error" /\ out = <<>> => router.at = Len(Candidates)
    /\ \A i \in DOMAIN out : out[i].from = Candidate
    /\ \A m \in Models : upstream[m] = "open" => router.pc = "stream" /\ m = Candidate

Finished == \E k \in DOMAIN chunks : chunks[k].kind = "finish"

\* The buffer holds the fragments received so far, and a call is delivered only
\* at the end, behind which no fragment comes.
BufferInv ==
    /\ \A i \in DOMAIN fragments : IsWholeCall(chunks, fragments[i].slot, fragments[i].parts)
    /\ \A k \in DOMAIN chunks : chunks[k].kind = "fragment" =>
          \E i \in DOMAIN fragments : fragments[i].slot = chunks[k].slot
    /\ \A i \in DOMAIN out : out[i].kind = "tool_call" =>
          Finished /\ IsWholeCall(chunks, out[i].slot, out[i].parts)

RouterInv == RouterTyped /\ OneSource /\ BufferInv

\* A list of picks is again a list over the same elements.
LEMMA PicksOfASequence ==
    ASSUME NEW S, NEW s \in Seq(S), NEW I \in SUBSET DOMAIN s
    PROVE  /\ Picks(s, I) \in Seq(S)
           /\ \A n \in DOMAIN Picks(s, I) : \E i \in I : Picks(s, I)[n] = s[i]
           /\ \A i \in I : \E n \in DOMAIN Picks(s, I) : Picks(s, I)[n] = s[i]
<1>1. Len(s) \in Nat /\ DOMAIN s = 1..Len(s) /\ \A i \in DOMAIN s : s[i] \in S
  OBVIOUS
<1>2. IsFiniteSet(DOMAIN s)
  BY <1>1, FS_Interval
<1>3. IsFiniteSet(I) /\ I \in SUBSET Int
  BY <1>1, <1>2, FS_Subset
<1>p. PICK p : p = Picks(s, I)
  OBVIOUS
<1>c. PICK c : c = Cardinality(I)
  OBVIOUS
<1>4. /\ c \in Nat /\ DOMAIN p = 1..c /\ p = [n \in 1..c |-> p[n]]
      /\ \A n \in 1..c : \E i \in I : p[n] = s[i]
      /\ \A i \in I : \E n \in 1..c : p[n] = s[i]
  BY <1>3, <1>p, <1>c, PicksIsAFilter, SMTT(30)
<1>5. ASSUME NEW n \in 1..c PROVE p[n] \in S
  <2>1. PICK i \in I : p[n] = s[i]
    BY <1>4
  <2> QED BY <1>1, <2>1
<1>6. p \in [1..c -> S]
  BY <1>4, <1>5
<1>7. p \in Seq(S)
  BY <1>4, <1>6, SeqDef
<1> QED BY <1>4, <1>7, <1>p

LEMMA CandidatesAreModels ==
    ASSUME request \in [model : 0..NumModels, fallbacks : FallbackLists]
    PROVE  Candidates \in Seq(Models) /\ Len(Candidates) \in Nat /\ 1 <= Len(Candidates)
<1> DEFINE key == IF request.model = 0 THEN 1 ELSE request.model
           chain == request.fallbacks
           I == {i \in DOMAIN chain : chain[i] # key}
<1>1. NumModels \in Nat \ {0}
  BY RouterBounds
<1>2. key \in Models
  BY <1>1 DEF Models
<1>3. chain \in Seq(Models)
  <2>1. chain \in FallbackLists
    OBVIOUS
  <2> HIDE DEF chain
  <2>2. CASE chain = <<>>
    BY <2>2
  <2>3. CASE \E m \in Models \ {1} : chain = <<m>>
    BY <2>3
  <2>4. CASE \E m, n \in Models \ {1} : chain = <<m, n>>
    BY <2>4
  <2> QED BY <2>1, <2>2, <2>3, <2>4 DEF FallbackLists
<1>4. I \in SUBSET DOMAIN chain
  OBVIOUS
<1>5. Candidates = <<key>> \o Picks(chain, I)
  BY DEF Candidates
<1> HIDE DEF key, chain, I
<1>6. Picks(chain, I) \in Seq(Models)
  BY <1>3, <1>4, PicksOfASequence
<1> QED BY <1>2, <1>5, <1>6

LEMMA CandidateIsAModel ==
    ASSUME RouterTyped
    PROVE  Candidate \in Models /\ Len(Candidates) \in Nat
<1>1. Candidates \in Seq(Models) /\ Len(Candidates) \in Nat
  BY CandidatesAreModels DEF RouterTyped
<1>2. router.at \in 1..Len(Candidates)
  BY DEF RouterTyped
<1> QED BY <1>1, <1>2 DEF Candidate

LEMMA RouterInitially == RouterInit => RouterInv
<1> SUFFICES ASSUME RouterInit PROVE RouterInv
  OBVIOUS
<1>1. Len(Candidates) \in Nat /\ 1 <= Len(Candidates)
  BY CandidatesAreModels DEF RouterInit
<1>2. router \in [at : 1..Len(Candidates), pc : {"open", "stream", "done"},
                  emitted : BOOLEAN, result : {"none", "error", "ok", "left"}]
  BY <1>1 DEF RouterInit
<1>3. RouterTyped
  BY <1>2 DEF RouterInit, RouterTyped
<1>4. OneSource
  BY DEF RouterInit, OneSource
<1>5. BufferInv
  BY DEF RouterInit, BufferInv
<1> QED BY <1>3, <1>4, <1>5 DEF RouterInv

\* A step of the router that leaves what was received and delivered alone.
LEMMA RouterStep ==
    ASSUME RouterInv, request' = request, out' = out,
           \/ fragments' = fragments /\ chunks' = chunks
           \/ fragments' = <<>> /\ chunks' = <<>> /\ out = <<>>
    PROVE  BufferInv' /\ Candidates' = Candidates
<1>1. Candidates' = Candidates
  BY DEF Candidates
<1>2. CASE fragments' = fragments /\ chunks' = chunks
  <2>1. \A slot, parts : IsWholeCall(chunks', slot, parts) = IsWholeCall(chunks, slot, parts)
    BY <1>2 DEF IsWholeCall, PlacesOf
  <2>2. Finished' = Finished
    BY <1>2 DEF Finished
  <2> QED BY <1>1, <1>2, <2>1, <2>2 DEF BufferInv, RouterInv
<1>3. CASE fragments' = <<>> /\ chunks' = <<>> /\ out = <<>>
  BY <1>1, <1>3 DEF BufferInv
<1> QED BY <1>2, <1>3

LEMMA OpenStreamKeeps ==
    ASSUME RouterInv, OpenStream
    PROVE  RouterInv'
<1>0. /\ router.pc = "open" /\ request' = request /\ out' = out /\ out = <<>>
      /\ fragments' = <<>> /\ chunks' = <<>>
      /\ upstream' = [upstream EXCEPT ![Candidate] = "open"]
  BY DEF OpenStream, RouterInv, OneSource
<1>1. BufferInv' /\ Candidates' = Candidates
  BY <1>0, RouterStep
<1>2. PICK r : r = [router EXCEPT !.pc = "stream"]
  OBVIOUS
<1>3. router' = r
  BY <1>2 DEF OpenStream
<1>4. /\ r \in [at : 1..Len(Candidates), pc : {"open", "stream", "done"},
                emitted : BOOLEAN, result : {"none", "error", "ok", "left"}]
      /\ r.at = router.at /\ r.pc = "stream" /\ r.emitted = router.emitted
      /\ r.result = router.result
  BY <1>2 DEF RouterInv, RouterTyped
<1>5. Candidate' = Candidate
  BY <1>1, <1>3, <1>4 DEF Candidate
<1>6. upstream' \in [Models -> {"none", "open", "closed"}]
  BY <1>0, CandidateIsAModel DEF RouterInv, RouterTyped
<1>7. RouterTyped'
  BY <1>0, <1>1, <1>3, <1>4, <1>6 DEF RouterInv, RouterTyped
<1>8. ASSUME NEW m \in Models, upstream'[m] = "open" PROVE m = Candidate
  <2>1. upstream[m] # "open"
    BY <1>0 DEF RouterInv, OneSource
  <2> QED BY <1>0, <1>8, <2>1 DEF RouterInv, RouterTyped
<1>9. OneSource'
  BY <1>0, <1>1, <1>3, <1>4, <1>5, <1>8 DEF RouterInv, OneSource
<1> QED BY <1>1, <1>7, <1>9 DEF RouterInv

\* Moving on closes the response, and happens only before the first delta.
LEMMA FailedKeeps ==
    ASSUME RouterInv, router.pc \in {"open", "stream"}, router' = Failed(router),
           request' = request, out' = out, fragments' = fragments, chunks' = chunks,
           upstream' \in [Models -> {"none", "open", "closed"}],
           \A m \in Models : upstream'[m] # "open"
    PROVE  RouterInv'
<1>1. BufferInv' /\ Candidates' = Candidates
  BY RouterStep
<1>2. Len(Candidates) \in Nat /\ router.at \in 1..Len(Candidates)
  BY CandidateIsAModel DEF RouterInv, RouterTyped
<1>3. CASE ~router.emitted /\ router.at < Len(Candidates)
  <2>1. PICK r : r = [router EXCEPT !.pc = "open", !.at = @ + 1]
    OBVIOUS
  <2>2. router' = r
    BY <1>3, <2>1 DEF Failed
  <2>3. router.at + 1 \in 1..Len(Candidates)
    BY <1>2, <1>3
  <2>4. /\ r \in [at : 1..Len(Candidates), pc : {"open", "stream", "done"},
                  emitted : BOOLEAN, result : {"none", "error", "ok", "left"}]
        /\ r.pc = "open" /\ r.emitted = router.emitted /\ r.result = router.result
    BY <2>1, <2>3 DEF RouterInv, RouterTyped
  <2>5. out = <<>> /\ router.result = "none"
    BY <1>3 DEF RouterInv, OneSource
  <2>6. RouterTyped'
    BY <1>1, <2>2, <2>4 DEF RouterInv, RouterTyped
  <2>7. OneSource'
    BY <1>3, <2>2, <2>4, <2>5 DEF OneSource
  <2> QED BY <1>1, <2>6, <2>7 DEF RouterInv
<1>4. CASE ~(~router.emitted /\ router.at < Len(Candidates))
  <2>1. PICK r : r = [router EXCEPT !.pc = "done", !.result = "error"]
    OBVIOUS
  <2>2. router' = r
    BY <1>4, <2>1 DEF Failed
  <2>3. /\ r \in [at : 1..Len(Candidates), pc : {"open", "stream", "done"},
                  emitted : BOOLEAN, result : {"none", "error", "ok", "left"}]
        /\ r.pc = "done" /\ r.emitted = router.emitted /\ r.at = router.at
    BY <2>1 DEF RouterInv, RouterTyped
  <2>4. out = <<>> => r.at = Len(Candidates)
    BY <1>2, <1>4, <2>3 DEF RouterInv, OneSource
  <2>5. RouterTyped'
    BY <1>1, <2>2, <2>3 DEF RouterInv, RouterTyped
  <2>6. Candidate' = Candidate
    BY <1>1, <2>2, <2>3 DEF Candidate
  <2>7. OneSource'
    BY <1>1, <2>2, <2>3, <2>4, <2>6 DEF RouterInv, OneSource
  <2> QED BY <1>1, <2>5, <2>7 DEF RouterInv
<1> QED BY <1>3, <1>4

\* Every way out of a stream closes its response.
LEMMA ClosedLeavesNoneOpen ==
    ASSUME RouterInv
    PROVE  /\ Closed \in [Models -> {"none", "open", "closed"}]
           /\ \A m \in Models : Closed[m] # "open"
<1>1. Candidate \in Models
  BY CandidateIsAModel DEF RouterInv
<1>2. upstream \in [Models -> {"none", "open", "closed"}]
  BY DEF RouterInv, RouterTyped
<1>3. \A m \in Models : upstream[m] = "open" => m = Candidate
  BY DEF RouterInv, OneSource
<1> QED BY <1>1, <1>2, <1>3 DEF Closed

LEMMA EndKeeps ==
    ASSUME RouterInv, NEW result \in {"ok", "left"},
           router' = [router EXCEPT !.pc = "done", !.result = result],
           request' = request, out' = out, fragments' = fragments, chunks' = chunks,
           upstream' \in [Models -> {"none", "open", "closed"}],
           \A m \in Models : upstream'[m] # "open"
    PROVE  RouterInv'
<1>1. BufferInv' /\ Candidates' = Candidates
  BY RouterStep
<1>2. /\ router' \in [at : 1..Len(Candidates), pc : {"open", "stream", "done"},
                      emitted : BOOLEAN, result : {"none", "error", "ok", "left"}]
      /\ router'.pc = "done" /\ router'.emitted = router.emitted
      /\ router'.at = router.at /\ router'.result = result
  BY DEF RouterInv, RouterTyped
<1>3. RouterTyped'
  BY <1>1, <1>2 DEF RouterInv, RouterTyped
<1>4. Candidate' = Candidate
  BY <1>1, <1>2 DEF Candidate
<1>5. OneSource'
  BY <1>1, <1>2, <1>4 DEF RouterInv, OneSource
<1> QED BY <1>1, <1>3, <1>5 DEF RouterInv

(***************************************************************************)
(* LLMRouter: what a chunk does.                                            *)
(***************************************************************************)
LEMMA ChunkIsTyped ==
    ASSUME RouterInv, NEW c \in Chunks
    PROVE  /\ c \in ChunkType
           /\ c.kind = "fragment" => c.slot \in Slots /\ c.part = Len(chunks) + 1
<1>1. Len(chunks) + 1 \in Nat
  BY DEF RouterInv, RouterTyped
<1>2. CASE \E k \in {"usage", "empty", "reasoning", "text", "finish"} :
              c = [kind |-> k, slot |-> 0, part |-> 0, named |-> FALSE]
  BY <1>2 DEF ChunkType, ChunkKinds
<1>3. CASE \E s \in Slots, b \in BOOLEAN :
              c = [kind |-> "fragment", slot |-> s, part |-> Len(chunks) + 1, named |-> b]
  BY <1>1, <1>3 DEF ChunkType, ChunkKinds
<1> QED BY <1>2, <1>3 DEF Chunks

LEMMA DeltaIsTyped ==
    ASSUME RouterInv, NEW kind \in {"usage", "text", "activity", "finish"}
    PROVE  /\ <<Delta(kind)>> \in Seq(DeltaType)
           /\ Delta(kind).from = Candidate /\ Delta(kind).kind = kind
<1>1. Candidate \in Models
  BY CandidateIsAModel DEF RouterInv
<1>2. <<>> \in Seq(Nat)
  OBVIOUS
<1>3. Delta(kind) \in DeltaType
  BY <1>1, <1>2 DEF Delta, DeltaType
<1> QED BY <1>3 DEF Delta

\* What a chunk lets the consumer see comes from the present candidate, and its
\* calls are calls of the buffer.
DeltasGood(deltas, last) ==
    /\ deltas \in Seq(DeltaType)
    /\ \A i \in DOMAIN deltas : deltas[i].from = Candidate
    /\ \A i \in DOMAIN deltas : deltas[i].kind = "tool_call" =>
          /\ last
          /\ \E j \in DOMAIN fragments :
                deltas[i].slot = fragments[j].slot /\ deltas[i].parts = fragments[j].parts

LEMMA FinalDeltasAreGood ==
    ASSUME RouterInv
    PROVE  DeltasGood(FinalDeltas, TRUE)
<1> DEFINE I == {i \in DOMAIN fragments : fragments[i].named}
           calls == Picks(fragments, I)
           told == [i \in DOMAIN calls |-> [kind |-> "tool_call", from |-> Candidate,
                                  slot |-> calls[i].slot, parts |-> calls[i].parts]]
<1>1. fragments \in Seq(FragmentType)
  BY DEF RouterInv, RouterTyped
<1>2. I \in SUBSET DOMAIN fragments
  OBVIOUS
<1>3. Candidate \in Models
  BY CandidateIsAModel DEF RouterInv
<1>4. FinalDeltas = told \o <<Delta("finish")>>
  BY DEF FinalDeltas
<1> HIDE DEF I
<1>5. /\ calls \in Seq(FragmentType)
      /\ \A n \in DOMAIN calls : \E j \in I : calls[n] = fragments[j]
  BY <1>1, <1>2, PicksOfASequence
<1> HIDE DEF calls
<1>6. Len(calls) \in Nat /\ DOMAIN calls = 1..Len(calls)
      /\ \A n \in DOMAIN calls : calls[n] \in FragmentType
  BY <1>5
<1>7. ASSUME NEW n \in 1..Len(calls)
      PROVE  told[n] \in DeltaType /\ told[n].kind = "tool_call" /\ told[n].from = Candidate
             /\ told[n].slot = calls[n].slot /\ told[n].parts = calls[n].parts
  <2>1. calls[n].slot \in Slots /\ calls[n].parts \in Seq(Nat)
    BY <1>6 DEF FragmentType
  <2>2. told[n] = [kind |-> "tool_call", from |-> Candidate,
                   slot |-> calls[n].slot, parts |-> calls[n].parts]
    BY <1>6
  <2> HIDE DEF told
  <2> QED BY <1>3, <2>1, <2>2 DEF DeltaType
<1>8. told \in [1..Len(calls) -> DeltaType]
  <2>1. told = [n \in 1..Len(calls) |-> told[n]]
    BY <1>6
  <2> HIDE DEF told
  <2> QED BY <1>7, <2>1
<1> HIDE DEF told
<1>9. told \in Seq(DeltaType) /\ Len(told) = Len(calls)
  BY <1>6, <1>8, SeqDef
<1>10. PICK d : d = Delta("finish")
  OBVIOUS
<1>11. <<d>> \in Seq(DeltaType) /\ d.from = Candidate /\ d.kind = "finish"
  BY <1>10, DeltaIsTyped
<1>12. PICK f : f = FinalDeltas
  OBVIOUS
<1>13. /\ f \in Seq(DeltaType) /\ Len(f) = Len(calls) + 1
       /\ \A n \in 1..Len(calls) : f[n] = told[n]
       /\ f[Len(calls) + 1] = d
  <2>1. PICK t : t = told
    OBVIOUS
  <2>2. t \in Seq(DeltaType) /\ Len(t) = Len(calls)
    BY <1>9, <2>1
  <2>3. f = t \o <<d>>
    BY <1>4, <1>10, <1>12, <2>1
  <2>4. Len(<<d>>) = 1 /\ <<d>>[1] = d
    OBVIOUS
  <2>5. /\ f \in Seq(DeltaType) /\ Len(f) = Len(t) + 1
        /\ \A n \in 1..(Len(t) + 1) : f[n] = IF n <= Len(t) THEN t[n] ELSE <<d>>[n - Len(t)]
    BY <1>11, <2>2, <2>3, <2>4, ConcatProperties
  <2> QED BY <1>6, <2>1, <2>2, <2>4, <2>5
<1>14. ASSUME NEW n \in DOMAIN f
       PROVE  /\ f[n].from = Candidate
              /\ f[n].kind = "tool_call" =>
                   \E j \in DOMAIN fragments :
                      f[n].slot = fragments[j].slot /\ f[n].parts = fragments[j].parts
  <2>1. n \in 1..Len(calls) \/ n = Len(calls) + 1
    BY <1>6, <1>13
  <2>2. CASE n \in 1..Len(calls)
    <3>1. PICK j \in I : calls[n] = fragments[j]
      BY <1>5, <1>6, <2>2
    <3>2. f[n].from = Candidate /\ f[n].slot = fragments[j].slot
          /\ f[n].parts = fragments[j].parts
      BY <1>7, <1>13, <2>2, <3>1
    <3> QED BY <1>2, <3>2
  <2>3. CASE n = Len(calls) + 1
    BY <1>11, <1>13, <2>3
  <2> QED BY <2>1, <2>2, <2>3
<1> QED BY <1>12, <1>13, <1>14 DEF DeltasGood

LEMMA DeltasAreGood ==
    ASSUME RouterInv, NEW c \in Chunks, NEW heartbeat \in BOOLEAN
    PROVE  DeltasGood(DeltasOf(c, heartbeat), c.kind = "finish")
<1>1. c.kind \in {"usage", "empty", "reasoning", "text", "finish", "fragment"}
  BY ChunkIsTyped DEF ChunkType, ChunkKinds
<1>2. ASSUME NEW kind \in {"usage", "text", "activity"}
      PROVE  DeltasGood(<<Delta(kind)>>, c.kind = "finish")
  <2>1. PICK d : d = Delta(kind)
    OBVIOUS
  <2>2. <<d>> \in Seq(DeltaType) /\ d.from = Candidate /\ d.kind = kind
    BY <2>1, DeltaIsTyped
  <2>3. DOMAIN <<d>> = {1} /\ <<d>>[1] = d
    OBVIOUS
  <2>4. DeltasGood(<<d>>, c.kind = "finish")
    BY <2>2, <2>3 DEF DeltasGood
  <2> QED BY <2>1, <2>4
<1>3. DeltasGood(<<>>, c.kind = "finish")
  BY DEF DeltasGood
<1>4. CASE c.kind \in {"usage", "text"}
  <2>1. DeltasOf(c, heartbeat) = <<Delta(c.kind)>>
    BY <1>4 DEF DeltasOf
  <2> QED BY <1>2, <1>4, <2>1
<1>5. CASE c.kind \in {"reasoning", "fragment", "empty"}
  <2>1. DeltasOf(c, heartbeat) = <<>> \/ DeltasOf(c, heartbeat) = <<Delta("activity")>>
    BY <1>5 DEF DeltasOf
  <2> QED BY <1>2, <1>3, <2>1
<1>6. CASE c.kind = "finish"
  <2>1. DeltasOf(c, heartbeat) = FinalDeltas
    BY <1>6 DEF DeltasOf
  <2>2. (c.kind = "finish") = TRUE
    BY <1>6
  <2> QED BY <2>1, <2>2, FinalDeltasAreGood
<1> QED BY <1>1, <1>4, <1>5, <1>6

\* The next fragment of a slot completes the call it belongs to.
LEMMA CallGrows ==
    ASSUME RouterInv, NEW c \in Chunks, chunks' = Append(chunks, c), NEW slot,
           NEW parts \in Seq(Nat), IsWholeCall(chunks, slot, parts),
           NEW n, n = Len(chunks) + 1
    PROVE  /\ c.kind = "fragment" /\ c.slot = slot => IsWholeCall(chunks', slot, Append(parts, n))
           /\ ~(c.kind = "fragment" /\ c.slot = slot) => IsWholeCall(chunks', slot, parts)
<1>0. chunks \in Seq(ChunkType) /\ c \in ChunkType /\ Len(chunks) \in Nat /\ n \in Nat
  BY ChunkIsTyped DEF RouterInv, RouterTyped
<1>1. /\ DOMAIN chunks = 1..(n - 1) /\ DOMAIN chunks' = 1..n
      /\ \A k \in 1..(n - 1) : chunks'[k] = chunks[k]
      /\ chunks'[n] = c
  BY <1>0
<1>2. PlacesOf(chunks, slot) \in SUBSET (1..(n - 1))
  BY <1>1 DEF PlacesOf
<1>3. c.kind = "fragment" /\ c.slot = slot =>
        PlacesOf(chunks', slot) = PlacesOf(chunks, slot) \union {n}
  BY <1>0, <1>1 DEF PlacesOf
<1>4. ~(c.kind = "fragment" /\ c.slot = slot) =>
        PlacesOf(chunks', slot) = PlacesOf(chunks, slot)
  BY <1>0, <1>1 DEF PlacesOf
<1>5. /\ {parts[k] : k \in DOMAIN parts} = PlacesOf(chunks, slot)
      /\ \A k, l \in DOMAIN parts : k < l => parts[k] < parts[l]
  BY DEF IsWholeCall
<1>6. ASSUME c.kind = "fragment", c.slot = slot
      PROVE  IsWholeCall(chunks', slot, Append(parts, n))
  <2>2. PICK p : p = Append(parts, n)
    OBVIOUS
  <2>3. /\ Len(parts) \in Nat /\ DOMAIN parts = 1..Len(parts)
        /\ DOMAIN p = 1..(Len(parts) + 1)
        /\ \A k \in 1..Len(parts) : p[k] = parts[k]
        /\ p[Len(parts) + 1] = n
    BY <1>0, <2>2
  <2>4. {p[k] : k \in DOMAIN p} = {parts[k] : k \in DOMAIN parts} \union {n}
    <3>1. ASSUME NEW k \in DOMAIN p
          PROVE  p[k] \in {parts[l] : l \in DOMAIN parts} \union {n}
      BY <2>3
    <3>2. ASSUME NEW l \in DOMAIN parts PROVE parts[l] \in {p[k] : k \in DOMAIN p}
      <4>1. l \in DOMAIN p /\ p[l] = parts[l]
        BY <2>3
      <4> QED BY <4>1
    <3>3. Len(parts) + 1 \in DOMAIN p
      BY <2>3
    <3>4. n \in {p[k] : k \in DOMAIN p}
      BY <2>3, <3>3
    <3> QED BY <3>1, <3>2, <3>4
  <2>5. ASSUME NEW k \in DOMAIN p, NEW l \in DOMAIN p, k < l PROVE p[k] < p[l]
    <3>1. k \in 1..Len(parts)
      BY <2>3, <2>5
    <3>2. p[k] = parts[k] /\ parts[k] \in 1..(n - 1)
      BY <1>2, <1>5, <2>3, <3>1
    <3>3. CASE l \in 1..Len(parts)
      BY <1>5, <2>3, <2>5, <3>1, <3>2, <3>3
    <3>4. CASE l = Len(parts) + 1
      BY <1>0, <2>3, <3>2, <3>4
    <3> QED BY <2>3, <3>3, <3>4
  <2>6. PlacesOf(chunks', slot) = {p[k] : k \in DOMAIN p}
    BY <1>3, <1>5, <1>6, <2>4
  <2>7. IsWholeCall(chunks', slot, p) <=> /\ {p[k] : k \in DOMAIN p} = PlacesOf(chunks', slot)
                                 /\ \A k, l \in DOMAIN p : k < l => p[k] < p[l]
    BY DEF IsWholeCall
  <2>8. IsWholeCall(chunks', slot, p)
    BY <2>5, <2>6, <2>7
  <2> QED BY <2>2, <2>8
<1>7. ASSUME ~(c.kind = "fragment" /\ c.slot = slot) PROVE IsWholeCall(chunks', slot, parts)
  BY <1>4, <1>5, <1>7 DEF IsWholeCall
<1> QED BY <1>6, <1>7

LEMMA ChunkKeepsBuffer ==
    ASSUME RouterInv, NEW c \in Chunks, NEW heartbeat \in BOOLEAN, Chunk(c, heartbeat)
    PROVE  BufferInv' /\ fragments' \in Seq(FragmentType)
<1>n. PICK n : n = Len(chunks) + 1
  OBVIOUS
<1>0. /\ chunks' = Append(chunks, c) /\ chunks \in Seq(ChunkType) /\ c \in ChunkType
      /\ fragments \in Seq(FragmentType) /\ out \in Seq(DeltaType)
      /\ Len(chunks) \in Nat /\ n \in Nat
      /\ c.kind = "fragment" => c.slot \in Slots /\ c.part = n
      /\ fragments' = IF c.kind = "fragment" THEN Collected(c) ELSE fragments
      /\ Finished => c.kind \in {"usage", "empty"}
  BY <1>n, ChunkIsTyped DEF Chunk, RouterInv, RouterTyped, Finished
<1>1. /\ DOMAIN chunks = 1..(n - 1) /\ DOMAIN chunks' = 1..n
      /\ \A k \in 1..(n - 1) : chunks'[k] = chunks[k]
      /\ chunks'[n] = c
  BY <1>0, <1>n
<1>2. /\ DOMAIN fragments = 1..Len(fragments) /\ Len(fragments) \in Nat
      /\ \A i \in DOMAIN fragments :
            /\ fragments[i] \in FragmentType /\ fragments[i].parts \in Seq(Nat)
            /\ IsWholeCall(chunks, fragments[i].slot, fragments[i].parts)
  <2>1. /\ DOMAIN fragments = 1..Len(fragments) /\ Len(fragments) \in Nat
        /\ \A i \in DOMAIN fragments : fragments[i] \in FragmentType
    BY <1>0
  <2>2. \A f \in FragmentType : f.parts \in Seq(Nat)
    BY DEF FragmentType
  <2>3. \A i \in DOMAIN fragments :
            IsWholeCall(chunks, fragments[i].slot, fragments[i].parts)
    BY DEF RouterInv, BufferInv
  <2> QED BY <2>1, <2>2, <2>3
<1>3. ASSUME c.kind = "fragment" PROVE
        /\ fragments' \in Seq(FragmentType)
        /\ \A i \in DOMAIN fragments' : IsWholeCall(chunks', fragments'[i].slot, fragments'[i].parts)
        /\ \A k \in DOMAIN chunks' : chunks'[k].kind = "fragment" =>
              \E i \in DOMAIN fragments' : fragments'[i].slot = chunks'[k].slot
  <2>1. CASE \E i \in DOMAIN fragments : fragments[i].slot = c.slot
    <3> DEFINE g(i) == IF fragments[i].slot # c.slot THEN fragments[i]
                       ELSE [fragments[i] EXCEPT !.named = @ \/ c.named,
                                                 !.parts = Append(@, c.part)]
    <3>1. fragments' = [i \in DOMAIN fragments |-> g(i)]
      BY <1>0, <1>3, <2>1 DEF Collected
    <3>2. ASSUME NEW i \in DOMAIN fragments
          PROVE  /\ g(i) \in FragmentType /\ g(i).slot = fragments[i].slot
                 /\ IsWholeCall(chunks', g(i).slot, g(i).parts)
      <4>1. PICK f : f = fragments[i]
        OBVIOUS
      <4>2. f \in FragmentType /\ f.parts \in Seq(Nat) /\ IsWholeCall(chunks, f.slot, f.parts)
        BY <1>2, <4>1
      <4>3. CASE f.slot # c.slot
        <5>1. g(i) = f
          BY <4>1, <4>3
        <5>2. IsWholeCall(chunks', f.slot, f.parts)
          BY <1>0, <1>n, <4>2, <4>3, CallGrows
        <5> HIDE DEF g
        <5> QED BY <4>1, <4>2, <5>1, <5>2
      <4>4. CASE f.slot = c.slot
        <5>1. PICK h : h = [f EXCEPT !.named = @ \/ c.named, !.parts = Append(@, n)]
          OBVIOUS
        <5>2. g(i) = h
          BY <1>0, <1>3, <4>1, <4>4, <5>1
        <5>3. Append(f.parts, n) \in Seq(Nat) /\ (f.named \/ c.named) \in BOOLEAN
          BY <1>0, <4>2
        <5>4. h \in FragmentType /\ h.slot = f.slot /\ h.parts = Append(f.parts, n)
          BY <4>2, <5>1, <5>3 DEF FragmentType
        <5>5. IsWholeCall(chunks', f.slot, Append(f.parts, n))
          BY <1>0, <1>3, <1>n, <4>2, <4>4, CallGrows
        <5>6. IsWholeCall(chunks', h.slot, h.parts)
          BY <5>4, <5>5
        <5> HIDE DEF g
        <5> QED BY <4>1, <5>2, <5>4, <5>6
      <4> QED BY <4>3, <4>4
    <3> HIDE DEF g
    <3>3. fragments' \in Seq(FragmentType) /\ DOMAIN fragments' = DOMAIN fragments
      BY <1>2, <3>1, <3>2, SeqDef
    <3>4. \A i \in DOMAIN fragments' : fragments'[i].slot = fragments[i].slot
      BY <3>1, <3>2
    <3>5. ASSUME NEW i \in DOMAIN fragments'
          PROVE  IsWholeCall(chunks', fragments'[i].slot, fragments'[i].parts)
      <4>1. PICK f : f = g(i)
        OBVIOUS
      <4>2. IsWholeCall(chunks', f.slot, f.parts)
        BY <3>2, <3>3, <4>1
      <4>3. fragments'[i] = f
        BY <3>1, <3>3, <4>1
      <4> QED BY <4>2, <4>3
    <3>6. ASSUME NEW k \in DOMAIN chunks', chunks'[k].kind = "fragment"
          PROVE  \E i \in DOMAIN fragments' : fragments'[i].slot = chunks'[k].slot
      <4>1. CASE k \in DOMAIN chunks
        BY <1>1, <3>3, <3>4, <3>6, <4>1 DEF RouterInv, BufferInv
      <4>2. CASE k = n
        BY <1>1, <2>1, <3>3, <3>4, <4>2
      <4> QED BY <1>0, <1>1, <4>1, <4>2
    <3> QED BY <3>3, <3>5, <3>6
  <2>2. CASE ~\E i \in DOMAIN fragments : fragments[i].slot = c.slot
    <3>1. PICK e : e = [slot |-> c.slot, named |-> c.named, parts |-> <<n>>]
      OBVIOUS
    <3>2. fragments' = Append(fragments, e)
      BY <1>0, <1>3, <2>2, <3>1 DEF Collected
    <3>3. c.named \in BOOLEAN /\ c.slot \in Slots /\ <<n>> \in Seq(Nat)
      BY <1>0, <1>3 DEF ChunkType
    <3>4. e \in FragmentType /\ e.slot = c.slot /\ e.parts = <<n>>
      BY <3>1, <3>3 DEF FragmentType
    <3>5. /\ fragments' \in Seq(FragmentType)
          /\ DOMAIN fragments' = 1..(Len(fragments) + 1)
          /\ \A i \in DOMAIN fragments : fragments'[i] = fragments[i]
          /\ fragments'[Len(fragments) + 1] = e
      <4>1. fragments \in Seq(FragmentType)
        BY <1>0
      <4> QED BY <1>2, <3>2, <3>4, <4>1, AppendProperties
    <3>6. PlacesOf(chunks, c.slot) = {}
      BY <2>2 DEF PlacesOf, RouterInv, BufferInv
    <3>7. IsWholeCall(chunks, c.slot, <<>>)
      BY <3>6 DEF IsWholeCall
    <3>8. <<>> \in Seq(Nat) /\ Append(<<>>, n) = <<n>>
      BY <1>0
    <3>9. IsWholeCall(chunks', c.slot, Append(<<>>, n))
      BY <1>0, <1>3, <1>n, <3>7, <3>8, CallGrows
    <3>10. IsWholeCall(chunks', e.slot, e.parts)
      BY <3>4, <3>8, <3>9
    <3>11. ASSUME NEW i \in DOMAIN fragments'
           PROVE  IsWholeCall(chunks', fragments'[i].slot, fragments'[i].parts)
      <4>1. CASE i \in DOMAIN fragments
        <5>1. PICK f : f = fragments[i]
          OBVIOUS
        <5>2. f.slot # c.slot /\ f.parts \in Seq(Nat) /\ IsWholeCall(chunks, f.slot, f.parts)
          BY <1>2, <2>2, <4>1, <5>1
        <5>3. IsWholeCall(chunks', f.slot, f.parts)
          BY <1>0, <1>n, <5>2, CallGrows
        <5>4. fragments'[i] = f
          BY <3>5, <4>1, <5>1
        <5> QED BY <5>3, <5>4
      <4>2. CASE i = Len(fragments) + 1
        BY <3>5, <3>10, <4>2
      <4> QED BY <1>2, <3>5, <4>1, <4>2
    <3>12. ASSUME NEW k \in DOMAIN chunks', chunks'[k].kind = "fragment"
           PROVE  \E i \in DOMAIN fragments' : fragments'[i].slot = chunks'[k].slot
      <4>1. CASE k \in DOMAIN chunks
        <5>1. PICK i \in DOMAIN fragments : fragments[i].slot = chunks[k].slot
          BY <1>1, <3>12, <4>1 DEF RouterInv, BufferInv
        <5>2. i \in DOMAIN fragments' /\ fragments'[i] = fragments[i]
          BY <1>2, <3>5
        <5> QED BY <1>1, <4>1, <5>1, <5>2
      <4>2. CASE k = n
        <5>1. Len(fragments) + 1 \in DOMAIN fragments'
          BY <1>2, <3>5
        <5> QED BY <1>1, <3>4, <3>5, <4>2, <5>1
      <4> QED BY <1>0, <1>1, <4>1, <4>2
    <3> QED BY <3>5, <3>11, <3>12
  <2> QED BY <2>1, <2>2
<1>4. ASSUME c.kind # "fragment" PROVE
        /\ fragments' \in Seq(FragmentType)
        /\ \A i \in DOMAIN fragments' : IsWholeCall(chunks', fragments'[i].slot, fragments'[i].parts)
        /\ \A k \in DOMAIN chunks' : chunks'[k].kind = "fragment" =>
              \E i \in DOMAIN fragments' : fragments'[i].slot = chunks'[k].slot
  <2>1. fragments' = fragments
    BY <1>0, <1>4
  <2>2. ASSUME NEW i \in DOMAIN fragments
        PROVE  IsWholeCall(chunks', fragments'[i].slot, fragments'[i].parts)
    <3>1. PICK f : f = fragments[i]
      OBVIOUS
    <3>2. f.parts \in Seq(Nat) /\ IsWholeCall(chunks, f.slot, f.parts)
      BY <1>2, <3>1
    <3>3. IsWholeCall(chunks', f.slot, f.parts)
      BY <1>0, <1>4, <1>n, <3>2, CallGrows
    <3> QED BY <2>1, <3>1, <3>3
  <2>3. ASSUME NEW k \in DOMAIN chunks', chunks'[k].kind = "fragment"
        PROVE  \E i \in DOMAIN fragments' : fragments'[i].slot = chunks'[k].slot
    <3>1. k \in DOMAIN chunks /\ chunks'[k] = chunks[k]
      BY <1>0, <1>1, <1>4, <2>3
    <3> QED BY <2>1, <2>3, <3>1 DEF RouterInv, BufferInv
  <2> QED BY <1>0, <2>1, <2>2, <2>3
<1>5. ASSUME NEW i \in DOMAIN out', out'[i].kind = "tool_call"
      PROVE  Finished' /\ IsWholeCall(chunks', out'[i].slot, out'[i].parts)
  <2>1. PICK d : d = DeltasOf(c, heartbeat)
    OBVIOUS
  <2>2. DeltasGood(d, c.kind = "finish") /\ d \in Seq(DeltaType)
    BY <2>1, DeltasAreGood DEF DeltasGood
  <2>3. out' = out \o d
    BY <2>1 DEF Chunk
  <2>4. /\ Len(out) \in Nat /\ Len(d) \in Nat /\ DOMAIN out = 1..Len(out)
        /\ DOMAIN d = 1..Len(d) /\ DOMAIN out' = 1..(Len(out) + Len(d))
        /\ \A k \in 1..(Len(out) + Len(d)) :
              out'[k] = IF k <= Len(out) THEN out[k] ELSE d[k - Len(out)]
    BY <1>0, <2>2, <2>3
  <2>5. CASE i <= Len(out)
    <3>1. PICK o : o = out[i]
      OBVIOUS
    <3>2. out'[i] = o /\ i \in DOMAIN out
      BY <2>4, <2>5, <3>1
    <3>3. Finished /\ IsWholeCall(chunks, o.slot, o.parts) /\ o.parts \in Seq(Nat)
      <4>1. o \in DeltaType
        BY <1>0, <3>1, <3>2
      <4>2. o.parts \in Seq(Nat)
        BY <4>1 DEF DeltaType
      <4> QED BY <1>5, <3>1, <3>2, <4>2 DEF RouterInv, BufferInv
    <3>4. c.kind # "fragment"
      BY <1>0, <3>3
    <3>5. IsWholeCall(chunks', o.slot, o.parts)
      BY <1>0, <1>n, <3>3, <3>4, CallGrows
    <3>6. Finished'
      <4>1. PICK k \in 1..(n - 1) : chunks[k].kind = "finish"
        BY <1>1, <3>3 DEF Finished
      <4>2. k \in DOMAIN chunks' /\ chunks'[k] = chunks[k]
        BY <1>0, <1>1
      <4> QED BY <4>1, <4>2 DEF Finished
    <3> QED BY <3>2, <3>5, <3>6
  <2>6. CASE i > Len(out)
    <3>1. i - Len(out) \in DOMAIN d /\ out'[i] = d[i - Len(out)]
      BY <2>4, <2>6
    <3>2. PICK o : o = d[i - Len(out)]
      OBVIOUS
    <3>3. c.kind = "finish" /\ \E j \in DOMAIN fragments :
                o.slot = fragments[j].slot /\ o.parts = fragments[j].parts
      BY <1>5, <2>2, <3>1, <3>2 DEF DeltasGood
    <3>4. IsWholeCall(chunks, o.slot, o.parts) /\ o.parts \in Seq(Nat)
      BY <1>2, <3>3
    <3>5. IsWholeCall(chunks', o.slot, o.parts)
      BY <1>0, <1>n, <3>3, <3>4, CallGrows
    <3>6. Finished'
      BY <1>0, <1>1, <3>3 DEF Finished
    <3> QED BY <3>1, <3>2, <3>5, <3>6
  <2> QED BY <2>4, <2>5, <2>6
<1> QED BY <1>3, <1>4, <1>5 DEF BufferInv

LEMMA ChunkKeeps ==
    ASSUME RouterInv, NEW c \in Chunks, NEW heartbeat \in BOOLEAN, Chunk(c, heartbeat)
    PROVE  RouterInv'
<1>1. BufferInv' /\ fragments' \in Seq(FragmentType)
  BY ChunkKeepsBuffer
<1>2. PICK d : d = DeltasOf(c, heartbeat)
  OBVIOUS
<1>3. /\ request' = request /\ upstream' = upstream /\ router.pc = "stream"
      /\ out' = out \o d /\ chunks' = Append(chunks, c)
  BY <1>2 DEF Chunk
<1>4. DeltasGood(d, c.kind = "finish") /\ d \in Seq(DeltaType)
  BY <1>2, DeltasAreGood DEF DeltasGood
<1>5. Candidates' = Candidates
  BY <1>3 DEF Candidates
<1>6. PICK b \in BOOLEAN : b = (router.emitted \/ d # <<>>)
  OBVIOUS
<1>7. router' = [router EXCEPT !.emitted = b]
  BY <1>2, <1>6 DEF Chunk
<1>8. /\ router' \in [at : 1..Len(Candidates), pc : {"open", "stream", "done"},
                      emitted : BOOLEAN, result : {"none", "error", "ok", "left"}]
      /\ router'.pc = router.pc /\ router'.emitted = b
      /\ router'.at = router.at /\ router'.result = router.result
  BY <1>7 DEF RouterInv, RouterTyped
<1>9. out \in Seq(DeltaType) /\ out' \in Seq(DeltaType) /\ chunks' \in Seq(ChunkType)
  BY <1>3, <1>4, ChunkIsTyped DEF RouterInv, RouterTyped
<1>10. RouterTyped'
  BY <1>1, <1>3, <1>5, <1>8, <1>9 DEF RouterInv, RouterTyped
<1>11. Candidate' = Candidate
  BY <1>5, <1>8 DEF Candidate
<1>12. ASSUME NEW i \in DOMAIN out' PROVE out'[i].from = Candidate
  <2>1. /\ Len(out) \in Nat /\ Len(d) \in Nat /\ DOMAIN out = 1..Len(out)
        /\ DOMAIN d = 1..Len(d) /\ DOMAIN out' = 1..(Len(out) + Len(d))
        /\ \A k \in 1..(Len(out) + Len(d)) :
              out'[k] = IF k <= Len(out) THEN out[k] ELSE d[k - Len(out)]
    BY <1>3, <1>4, <1>9
  <2>2. CASE i <= Len(out)
    BY <2>1, <2>2 DEF RouterInv, OneSource
  <2>3. CASE i > Len(out)
    <3>1. i - Len(out) \in DOMAIN d /\ out'[i] = d[i - Len(out)]
      BY <2>1, <2>3
    <3> QED BY <1>4, <3>1 DEF DeltasGood
  <2> QED BY <2>1, <2>2, <2>3
<1>13. out' # <<>> <=> out # <<>> \/ d # <<>>
  BY <1>3, <1>4, <1>9, ConcatEqualIffEmpty
<1>14. b <=> out' # <<>>
  BY <1>6, <1>13 DEF RouterInv, OneSource
<1>15. OneSource'
  BY <1>3, <1>8, <1>11, <1>12, <1>14 DEF RouterInv, OneSource
<1> QED BY <1>1, <1>10, <1>15 DEF RouterInv

LEMMA RouterStepKeeps ==
    ASSUME RouterInv, [RouterNext]_llmVars
    PROVE  RouterInv'
<1>0. upstream \in [Models -> {"none", "open", "closed"}]
      /\ \A m \in Models : upstream[m] = "open" => router.pc = "stream"
  BY DEF RouterInv, RouterTyped, OneSource
<1>1. CASE OpenStream
  BY <1>1, OpenStreamKeeps
<1>2. CASE OpenFails
  BY <1>0, <1>2, FailedKeeps DEF OpenFails
<1>3. ASSUME NEW c \in Chunks, NEW heartbeat \in BOOLEAN, Chunk(c, heartbeat) PROVE RouterInv'
  BY <1>3, ChunkKeeps
<1>4. CASE StreamFails
  BY <1>4, ClosedLeavesNoneOpen, FailedKeeps DEF StreamFails
<1>5. CASE StreamEnds
  BY <1>5, ClosedLeavesNoneOpen, EndKeeps DEF StreamEnds
<1>6. CASE ConsumerLeaves
  <2>1. upstream' \in [Models -> {"none", "open", "closed"}]
        /\ \A m \in Models : upstream'[m] # "open"
    BY <1>0, <1>6, ClosedLeavesNoneOpen DEF ConsumerLeaves
  <2> QED BY <1>6, <2>1, EndKeeps DEF ConsumerLeaves
<1>7. CASE UNCHANGED llmVars
  <2>1. request' = request /\ router' = router /\ upstream' = upstream
        /\ fragments' = fragments /\ chunks' = chunks /\ out' = out
    BY <1>7 DEF llmVars
  <2>2. BufferInv' /\ Candidates' = Candidates
    BY <2>1, RouterStep
  <2>3. Candidate' = Candidate
    BY <2>1, <2>2 DEF Candidate
  <2>4. RouterTyped'
    BY <2>1, <2>2 DEF RouterInv, RouterTyped
  <2>5. OneSource'
    BY <2>1, <2>2, <2>3 DEF RouterInv, OneSource
  <2> QED BY <2>2, <2>4, <2>5 DEF RouterInv
<1> QED BY <1>1, <1>2, <1>3, <1>4, <1>5, <1>6, <1>7 DEF RouterNext

\* An answer is the whole answer of one model: no other provider is asked once
\* anything was delivered, every tool call has exactly the fragments of its slot
\* in the order they came, and a response is closed before the next one opens,
\* for every chain of providers and every stream (LLMRouter.stream,
\* LiteLLMProvider.stream).
THEOREM AnswersAreOfOneModel == RouterSpec => []OneModelAnswers
<1>1. RouterInv => OneModelAnswers
  BY DEF RouterInv, OneSource, BufferInv, OneModelAnswers
<1> QED BY <1>1, RouterInitially, RouterStepKeeps, PTL DEF RouterSpec

(***************************************************************************)
(* ContextCompiler: sums, and the loop of prune().                          *)
(***************************************************************************)
SegmentKinds ==
    {"persona", "persona_state", "harness_policy", "response_policy", "summary", "memory",
     "commitment", "realtime", "history", "coordination", "current_user"}
SegmentType ==
    [kind : SegmentKinds, source : SegmentSources \union {"history_manager"}, cost : Nat,
     priority : Nat, droppable : BOOLEAN, act : {"answer", "none", "never", "reference", "execute"}]

\* The running sums of the costs at the places I.
RunningSum(s, I, f) ==
    /\ f \in [0..Len(s) -> Nat] /\ f[0] = 0
    /\ \A n \in 1..Len(s) : f[n] = f[n - 1] + (IF n \in I THEN s[n].cost ELSE 0)

LEMMA TokensAreSummed ==
    ASSUME NEW s \in Seq(SegmentType), NEW I
    PROVE  \E f : RunningSum(s, I, f) /\ TokensOf(s, I) = f[Len(s)]
<1> DEFINE N == Len(s)
           pay(n) == IF n \in I THEN s[n].cost ELSE 0
           IsSum(f) == f = [n \in 0..N |-> IF n = 0 THEN 0 ELSE f[n - 1] + pay(n)]
           step == [x \in Nat \X (1..N) |-> x[1] + pay(x[2])]
<1>1. N \in Nat /\ \A n \in 1..N : pay(n) \in Nat
  <2>1. N \in Nat /\ \A n \in 1..N : s[n] \in SegmentType
    OBVIOUS
  <2> QED BY <2>1 DEF SegmentType
<1>2. TokensOf(s, I) = (CHOOSE f : IsSum(f))[N]
  BY DEF TokensOf
<1> HIDE DEF N, pay
<1>3. step \in [Nat \X (1..N) -> Nat]
  BY <1>1
<1>4. \A x \in Nat, n \in 1..N : step[<<x, n>>] = x + pay(n)
  OBVIOUS
<1> HIDE DEF step
<1>5. PICK g \in [0..N -> Nat] :
         g[0] = 0 /\ \A n \in 1..N : g[n] = step[<<g[n - 1], n>>]
  <2>1. PICK z : z = 0
    OBVIOUS
  <2>2. PICK st : st = step
    OBVIOUS
  <2>3. z \in Nat /\ st \in [Nat \X (1..N) -> Nat] /\ N \in Nat
    BY <1>1, <1>3, <2>1, <2>2
  <2>4. \E g \in [0..N -> Nat] : g[0] = z /\ \A n \in 1..N : g[n] = st[<<g[n - 1], n>>]
    <3>1. HasLoop(N, Nat, z, st)
      BY <2>3, LoopExists
    <3> QED BY <3>1 DEF HasLoop
  <2> QED BY <2>1, <2>2, <2>4
<1>6. IsSum(g)
  <2>1. \A n \in 0..N : n # 0 => n \in 1..N /\ n - 1 \in 0..N
    BY <1>1
  <2>2. \A n \in 0..N : g[n] = IF n = 0 THEN 0 ELSE g[n - 1] + pay(n)
    BY <1>4, <1>5, <2>1
  <2> QED BY <2>2
<1>7. PICK f : f = CHOOSE h : IsSum(h)
  OBVIOUS
<1>8. IsSum(f)
  BY <1>6, <1>7
<1>9. f[0] = 0 /\ \A n \in 1..N : f[n] = f[n - 1] + pay(n)
  BY <1>1, <1>8
<1>10. \A n \in 0..N : f[n] \in Nat
  <2> DEFINE T == {n \in 0..N : f[n] \in Nat}
  <2>1. 0 \in T
    BY <1>1, <1>9
  <2>2. \A n \in 1..N : n - 1 \in T => n \in T
    BY <1>1, <1>9
  <2> HIDE DEF T
  <2>3. \A n \in 0..N : n \in T
    BY <1>1, <2>1, <2>2, UpTo
  <2> QED BY <2>3 DEF T
<1>11. f = [n \in 0..N |-> f[n]]
  <2>1. f = [n \in 0..N |-> IF n = 0 THEN 0 ELSE f[n - 1] + pay(n)]
    BY <1>8
  <2> QED BY <2>1
<1>12. f \in [0..N -> Nat]
  BY <1>10, <1>11
<1>13. RunningSum(s, I, f)
  BY <1>9, <1>12 DEF RunningSum, N, pay
<1>14. TokensOf(s, I) = f[N]
  BY <1>2, <1>7
<1> QED BY <1>13, <1>14 DEF N

\* A segment that joins the kept ones adds what it costs.
LEMMA TokensAdd ==
    ASSUME NEW s \in Seq(SegmentType), NEW I, NEW k \in DOMAIN s, k \notin I
    PROVE  /\ TokensOf(s, I) \in Nat
           /\ TokensOf(s, I \union {k}) = TokensOf(s, I) + s[k].cost
<1>1. PICK f : RunningSum(s, I, f) /\ TokensOf(s, I) = f[Len(s)]
  BY TokensAreSummed
<1>2. PICK g : RunningSum(s, I \union {k}, g) /\ TokensOf(s, I \union {k}) = g[Len(s)]
  BY TokensAreSummed
<1>3. Len(s) \in Nat /\ k \in 1..Len(s) /\ \A n \in 1..Len(s) : s[n].cost \in Nat
  <2>1. Len(s) \in Nat /\ DOMAIN s = 1..Len(s) /\ \A n \in 1..Len(s) : s[n] \in SegmentType
    OBVIOUS
  <2> QED BY <2>1 DEF SegmentType
<1> DEFINE T == {n \in 0..Len(s) : g[n] = f[n] + (IF k <= n THEN s[k].cost ELSE 0)}
<1>4. 0 \in T
  BY <1>1, <1>2, <1>3 DEF RunningSum
<1>5. ASSUME NEW n \in 1..Len(s), n - 1 \in T PROVE n \in T
  <2>1. /\ f[n - 1] \in Nat /\ f[n] = f[n - 1] + (IF n \in I THEN s[n].cost ELSE 0)
        /\ g[n] = g[n - 1] + (IF n \in I \union {k} THEN s[n].cost ELSE 0)
        /\ g[n - 1] = f[n - 1] + (IF k <= n - 1 THEN s[k].cost ELSE 0)
    BY <1>1, <1>2, <1>3, <1>5 DEF RunningSum
  <2>2. s[n].cost \in Nat /\ s[k].cost \in Nat /\ k \in Nat /\ n \in Nat
    BY <1>3
  <2>3. CASE n = k
    <3>1. g[n - 1] = f[n - 1] /\ f[n] = f[n - 1] /\ g[n] = g[n - 1] + s[k].cost
      BY <2>1, <2>2, <2>3
    <3> QED BY <2>1, <2>2, <2>3, <3>1
  <2>4. CASE n < k
    <3>1. g[n] = f[n]
      BY <2>1, <2>2, <2>4
    <3> QED BY <2>1, <2>2, <2>4, <3>1
  <2>5. CASE n > k
    <3>1. g[n] = f[n] + s[k].cost
      BY <2>1, <2>2, <2>5
    <3> QED BY <2>2, <2>5, <3>1
  <2> QED BY <2>2, <2>3, <2>4, <2>5
<1> HIDE DEF T
<1>6. Len(s) \in T
  BY <1>3, <1>4, <1>5, UpTo
<1>7. f[Len(s)] \in Nat
  BY <1>1, <1>3 DEF RunningSum
<1> QED BY <1>1, <1>2, <1>3, <1>6, <1>7 DEF T

(***************************************************************************)
(* ContextCompiler: what the loop of prune() leaves.                        *)
(***************************************************************************)
\* o lists the optional places of s: each once, and none before a place of a
\* higher priority.
ByPriority(s, o, N) ==
    /\ N \in Nat /\ o \in [1..N -> DOMAIN s \ MandatoryOf(s)]
    /\ \A k \in DOMAIN s \ MandatoryOf(s) : \E n \in 1..N : o[n] = k
    /\ \A m, n \in 1..N :
          m < n => o[m] # o[n] /\ s[o[n]].priority <= s[o[m]].priority

LEMMA PlacesOfSegments ==
    ASSUME NEW s \in Seq(SegmentType)
    PROVE  /\ Len(s) \in Nat /\ DOMAIN s = 1..Len(s) /\ IsFiniteSet(DOMAIN s)
           /\ \A k \in DOMAIN s : s[k].cost \in Nat /\ s[k].priority \in Nat
           /\ MandatoryOf(s) \subseteq DOMAIN s
<1>1. Len(s) \in Nat /\ DOMAIN s = 1..Len(s) /\ \A k \in DOMAIN s : s[k] \in SegmentType
  OBVIOUS
<1>2. IsFiniteSet(1..Len(s))
  BY <1>1, FS_Interval
<1> QED BY <1>1, <1>2 DEF SegmentType, MandatoryOf

LEMMA OptionalIsByPriority ==
    ASSUME NEW s \in Seq(SegmentType)
    PROVE  /\ ByPriority(s, OptionalOrder(s), Cardinality(DOMAIN OptionalOrder(s)))
<1> DEFINE I == DOMAIN s \ MandatoryOf(s)
           key == [k \in I |-> <<-s[k].priority, k>>]
           o == SortedBy(I, key)
           N == Cardinality(I)
<1>1. /\ I \subseteq DOMAIN s /\ DOMAIN s \subseteq Int /\ IsFiniteSet(DOMAIN s)
      /\ \A k \in I : s[k].priority \in Nat
  BY PlacesOfSegments
<1>2. I = DOMAIN s \ MandatoryOf(s)
  OBVIOUS
<1>3. OptionalOrder(s) = o
  BY DEF OptionalOrder
<1> HIDE DEF I
<1>4. Sortable(I, key)
  <2>1. IsFiniteSet(I)
    BY <1>1, FS_Subset
  <2>2. \A k \in I : <<-s[k].priority, k>> \in KeyPairs
    BY <1>1 DEF KeyPairs
  <2>3. key \in [I -> KeyPairs]
    BY <2>2
  <2>4. \A i, j \in I : key[i] = key[j] => i = j
    OBVIOUS
  <2> HIDE DEF key
  <2> QED BY <2>1, <2>3, <2>4 DEF Sortable
<1>5. \A i \in I : key[i][1] = -s[i].priority /\ key[i][2] = i
  OBVIOUS
<1> HIDE DEF key
<1>6. /\ N \in Nat /\ o \in [1..N -> I]
      /\ \A i \in I : \E n \in 1..N : o[n] = i
      /\ \A m, n \in 1..N : m < n => KeyBefore(key[o[m]], key[o[n]])
  BY <1>4, SortedByIsSorted
<1> HIDE DEF o, N
<1>7. ASSUME NEW m \in 1..N, NEW n \in 1..N, m < n
      PROVE  o[m] # o[n] /\ s[o[n]].priority <= s[o[m]].priority
  <2>1. PICK a \in I, b \in I : a = o[m] /\ b = o[n]
    BY <1>6
  <2>2. KeyBefore(key[a], key[b])
    BY <1>6, <1>7, <2>1
  <2>3. \/ -s[a].priority < -s[b].priority
        \/ -s[a].priority = -s[b].priority /\ a < b
    BY <1>5, <2>2 DEF KeyBefore
  <2>4. s[a].priority \in Nat /\ s[b].priority \in Nat /\ a \in Int /\ b \in Int
    BY <1>1
  <2>5. PICK p \in Nat, q \in Nat : p = s[a].priority /\ q = s[b].priority
    BY <2>4
  <2>6. (-p < -q \/ (-p = -q /\ a < b)) /\ a \in Int /\ b \in Int
    BY <2>3, <2>4, <2>5
  <2>7. q <= p /\ (p = q => a # b)
    BY <2>6
  <2> QED BY <2>1, <2>5, <2>7
<1>8. DOMAIN o = 1..N /\ Cardinality(DOMAIN o) = N
  <2>1. DOMAIN o = 1..N
    BY <1>6
  <2>2. Cardinality(1..N) = N
    BY <1>6, FS_Interval
  <2> QED BY <2>1, <2>2
<1>9. ByPriority(s, o, N)
  BY <1>2, <1>6, <1>7 DEF ByPriority
<1> QED BY <1>3, <1>8, <1>9

\* The loop, round by round: the places kept and the tokens they take.
PruneRun(s, max, o, N, kept, used) ==
    /\ kept \in [0..N -> SUBSET DOMAIN s] /\ used \in [0..N -> Nat]
    /\ kept[0] = MandatoryOf(s) /\ used[0] = TokensOf(s, MandatoryOf(s))
    /\ \A n \in 1..N :
          IF used[n - 1] + s[o[n]].cost <= max
          THEN kept[n] = kept[n - 1] \union {o[n]} /\ used[n] = used[n - 1] + s[o[n]].cost
          ELSE kept[n] = kept[n - 1] /\ used[n] = used[n - 1]

LEMMA TokensAreANumber ==
    ASSUME NEW s \in Seq(SegmentType), NEW I
    PROVE  TokensOf(s, I) \in Nat
<1>1. PICK f : RunningSum(s, I, f) /\ TokensOf(s, I) = f[Len(s)]
  BY TokensAreSummed
<1>2. Len(s) \in Nat
  OBVIOUS
<1> QED BY <1>1, <1>2 DEF RunningSum

LEMMA PruneLoops ==
    ASSUME NEW s \in Seq(SegmentType), NEW max
    PROVE  \E N, o, kept, used :
              /\ ByPriority(s, o, N) /\ PruneRun(s, max, o, N, kept, used)
              /\ Prune(s, max) = kept[N]
<1> DEFINE M == MandatoryOf(s)
           o == OptionalOrder(s)
           N == Cardinality(DOMAIN o)
           S == [kept : SUBSET DOMAIN s, used : Nat]
           base == [kept |-> M, used |-> TokensOf(s, M)]
           next(sofar, n) == Admit(s, max, sofar, o[n])
           IsRun(f) == f = [n \in 0..N |-> IF n = 0 THEN base ELSE next(f[n - 1], n)]
           step == [x \in S \X (1..N) |-> next(x[1], x[2])]
<1>1. ByPriority(s, o, N)
  BY OptionalIsByPriority
<1>2. Prune(s, max) = (CHOOSE f : IsRun(f))[N].kept
  BY DEF Prune
<1> HIDE DEF N, o
<1>3. /\ N \in Nat /\ M \subseteq DOMAIN s
      /\ \A n \in 1..N : o[n] \in DOMAIN s /\ s[o[n]].cost \in Nat
  BY <1>1, PlacesOfSegments DEF ByPriority
<1>4. base \in S /\ base.kept = M /\ base.used = TokensOf(s, M)
  BY <1>3, TokensAreANumber
<1>5. ASSUME NEW x \in S, NEW n \in 1..N
      PROVE  /\ next(x, n) \in S
             /\ IF x.used + s[o[n]].cost <= max
                THEN next(x, n).kept = x.kept \union {o[n]}
                     /\ next(x, n).used = x.used + s[o[n]].cost
                ELSE next(x, n).kept = x.kept /\ next(x, n).used = x.used
  <2>1. x.kept \subseteq DOMAIN s /\ x.used \in Nat
    OBVIOUS
  <2>2. PICK k \in DOMAIN s : k = o[n]
    BY <1>3
  <2>3. s[k].cost \in Nat
    BY <1>3, <2>2
  <2>4. CASE x.used + s[k].cost <= max
    <3>1. next(x, n) = [kept |-> x.kept \union {k}, used |-> x.used + s[k].cost]
      BY <2>2, <2>4 DEF Admit
    <3>2. x.kept \union {k} \subseteq DOMAIN s /\ x.used + s[k].cost \in Nat
      BY <2>1, <2>3
    <3> QED BY <2>2, <2>4, <3>1, <3>2
  <2>5. CASE ~(x.used + s[k].cost <= max)
    <3>1. next(x, n) = x
      BY <2>2, <2>5 DEF Admit
    <3> QED BY <2>2, <2>5, <3>1
  <2> QED BY <2>4, <2>5
<1> HIDE DEF next, base, M
<1>6. step \in [S \X (1..N) -> S] /\ \A x \in S, n \in 1..N : step[<<x, n>>] = next(x, n)
  BY <1>5
<1> HIDE DEF step, S
<1>7. PICK g \in [0..N -> S] :
         g[0] = base /\ \A n \in 1..N : g[n] = step[<<g[n - 1], n>>]
  <2>1. HasLoop(N, S, base, step)
    BY <1>3, <1>4, <1>6, LoopExists
  <2> QED BY <2>1 DEF HasLoop
<1>8. IsRun(g)
  <2>1. \A n \in 0..N : n # 0 => n \in 1..N /\ n - 1 \in 0..N
    BY <1>3
  <2>2. \A n \in 0..N : g[n] = IF n = 0 THEN base ELSE next(g[n - 1], n)
    BY <1>6, <1>7, <2>1
  <2> QED BY <2>2
<1>9. PICK f : f = CHOOSE h : IsRun(h)
  OBVIOUS
<1>10. IsRun(f)
  BY <1>8, <1>9
<1>11. f[0] = base /\ \A n \in 1..N : f[n] = next(f[n - 1], n)
  BY <1>3, <1>10
<1>12. \A n \in 0..N : f[n] \in S
  <2> DEFINE T == {n \in 0..N : f[n] \in S}
  <2>1. 0 \in T
    BY <1>3, <1>4, <1>11
  <2>2. \A n \in 1..N : n - 1 \in T => n \in T
    BY <1>3, <1>5, <1>11
  <2> HIDE DEF T
  <2>3. \A n \in 0..N : n \in T
    BY <1>3, <2>1, <2>2, UpTo
  <2> QED BY <2>3 DEF T
<1> DEFINE kept == [n \in 0..N |-> f[n].kept]
           used == [n \in 0..N |-> f[n].used]
<1>13. \A n \in 0..N : f[n].kept \in SUBSET DOMAIN s /\ f[n].used \in Nat
  BY <1>12 DEF S
<1>14. PruneRun(s, max, o, N, kept, used)
  <2>1. kept \in [0..N -> SUBSET DOMAIN s] /\ used \in [0..N -> Nat]
    BY <1>13
  <2>2. \A n \in 0..N : kept[n] = f[n].kept /\ used[n] = f[n].used
    OBVIOUS
  <2> HIDE DEF kept, used
  <2>3. 0 \in 0..N /\ \A n \in 1..N : n - 1 \in 0..N /\ n \in 0..N
    BY <1>3
  <2>4. kept[0] = MandatoryOf(s) /\ used[0] = TokensOf(s, MandatoryOf(s))
    BY <1>4, <1>11, <2>2, <2>3 DEF M
  <2>5. ASSUME NEW n \in 1..N
        PROVE  IF used[n - 1] + s[o[n]].cost <= max
               THEN kept[n] = kept[n - 1] \union {o[n]} /\ used[n] = used[n - 1] + s[o[n]].cost
               ELSE kept[n] = kept[n - 1] /\ used[n] = used[n - 1]
    <3>1. PICK x \in S : x = f[n - 1]
      BY <1>12, <2>3
    <3>2. f[n] = next(x, n)
      BY <1>11, <3>1
    <3>3. kept[n - 1] = x.kept /\ used[n - 1] = x.used
          /\ kept[n] = next(x, n).kept /\ used[n] = next(x, n).used
      BY <2>2, <2>3, <3>1, <3>2
    <3> QED BY <1>5, <3>3
  <2> QED BY <2>1, <2>4, <2>5 DEF PruneRun
<1>15. Prune(s, max) = kept[N]
  BY <1>2, <1>3, <1>9
<1> QED BY <1>1, <1>14, <1>15

\* What has held since the loop began, after n rounds.
PrunedSoFar(s, max, o, kept, used, n) ==
    /\ used[n] = TokensOf(s, kept[n])
    /\ MandatoryOf(s) \subseteq kept[n]
    /\ used[n] <= max \/ kept[n] = MandatoryOf(s)
    /\ \A i \in 0..n : used[i] <= used[n]
    /\ \A k \in kept[n] \ MandatoryOf(s) :
          \E l \in 1..n : o[l] = k /\ used[l - 1] + s[k].cost <= max
    /\ \A m \in 1..n : o[m] \notin kept[n] => used[m - 1] + s[o[m]].cost > max

LEMMA PruneRoundKeeps ==
    ASSUME NEW s \in Seq(SegmentType), NEW max \in Nat, NEW N, NEW o, NEW kept, NEW used,
           ByPriority(s, o, N), PruneRun(s, max, o, N, kept, used),
           NEW n \in 1..N, PrunedSoFar(s, max, o, kept, used, n - 1)
    PROVE  PrunedSoFar(s, max, o, kept, used, n)
<1>1. PICK p : p = n - 1
  OBVIOUS
<1>2. N \in Nat /\ n \in Nat /\ p \in 0..N /\ n \in 0..N /\ 1 <= n /\ n <= N /\ p = n - 1
  BY <1>1 DEF ByPriority
<1>3. PICK k \in DOMAIN s \ MandatoryOf(s) : k = o[n]
  BY DEF ByPriority
<1>4. PICK c \in Nat : c = s[k].cost
  BY PlacesOfSegments
<1>5. /\ kept[p] \subseteq DOMAIN s /\ used[p] \in Nat /\ used[n] \in Nat
      /\ \A i \in 0..N : used[i] \in Nat
      /\ IF used[p] + c <= max
         THEN kept[n] = kept[p] \union {k} /\ used[n] = used[p] + c
         ELSE kept[n] = kept[p] /\ used[n] = used[p]
  BY <1>2, <1>3, <1>4 DEF PruneRun
<1>6. PrunedSoFar(s, max, o, kept, used, p)
  BY <1>1
<1>7. k \notin kept[p]
  <2> SUFFICES ASSUME k \in kept[p] PROVE FALSE
    OBVIOUS
  <2>1. PICK l \in 1..p : o[l] = k
    BY <1>3, <1>6 DEF PrunedSoFar
  <2>2. l \in 1..N /\ l < n
    BY <1>2, <2>1
  <2> QED BY <1>3, <2>1, <2>2 DEF ByPriority
<1>8. \A i \in 0..n : i = n \/ i \in 0..p
  BY <1>2
<1>9. \A i \in 1..n : i = n \/ i \in 1..p
  BY <1>2
<1>10. used[p] <= used[n]
  BY <1>5
<1>11. \A i \in 0..n : used[i] <= used[n]
  <2> TAKE i \in 0..n
  <2>1. CASE i = n
    BY <1>5, <2>1
  <2>2. CASE i \in 0..p
    <3>1. used[i] <= used[p] /\ used[i] \in Nat
      BY <1>2, <1>5, <1>6, <2>2 DEF PrunedSoFar
    <3> QED BY <1>5, <1>10, <3>1
  <2> QED BY <1>8, <2>1, <2>2
<1>12. CASE used[p] + c <= max
  <2>1. kept[n] = kept[p] \union {k} /\ used[n] = used[p] + c
    BY <1>5, <1>12
  <2>2. used[n] = TokensOf(s, kept[n])
    <3>1. TokensOf(s, kept[p] \union {k}) = TokensOf(s, kept[p]) + s[k].cost
      BY <1>3, <1>7, TokensAdd
    <3> QED BY <1>4, <1>6, <2>1, <3>1 DEF PrunedSoFar
  <2>3. MandatoryOf(s) \subseteq kept[n] /\ used[n] <= max
    BY <1>6, <1>12, <2>1 DEF PrunedSoFar
  <2>4. ASSUME NEW j \in kept[n] \ MandatoryOf(s)
        PROVE  \E l \in 1..n : o[l] = j /\ used[l - 1] + s[j].cost <= max
    <3>1. CASE j = k
      BY <1>1, <1>2, <1>3, <1>4, <1>12, <3>1
    <3>2. CASE j # k
      <4>1. PICK l \in 1..p : o[l] = j /\ used[l - 1] + s[j].cost <= max
        BY <1>6, <2>1, <3>2 DEF PrunedSoFar
      <4> QED BY <1>2, <4>1
    <3> QED BY <3>1, <3>2
  <2>5. ASSUME NEW m \in 1..n, o[m] \notin kept[n]
        PROVE  used[m - 1] + s[o[m]].cost > max
    <3>1. m \in 1..p /\ o[m] \notin kept[p]
      BY <1>3, <1>9, <2>1, <2>5
    <3> QED BY <1>6, <3>1 DEF PrunedSoFar
  <2> QED BY <1>11, <2>2, <2>3, <2>4, <2>5 DEF PrunedSoFar
<1>13. CASE ~(used[p] + c <= max)
  <2>1. kept[n] = kept[p] /\ used[n] = used[p]
    BY <1>5, <1>13
  <2>2. ASSUME NEW j \in kept[n] \ MandatoryOf(s)
        PROVE  \E l \in 1..n : o[l] = j /\ used[l - 1] + s[j].cost <= max
    <3>1. PICK l \in 1..p : o[l] = j /\ used[l - 1] + s[j].cost <= max
      BY <1>6, <2>1 DEF PrunedSoFar
    <3> QED BY <1>2, <3>1
  <2>3. ASSUME NEW m \in 1..n, o[m] \notin kept[n]
        PROVE  used[m - 1] + s[o[m]].cost > max
    <3>1. CASE m = n
      BY <1>1, <1>3, <1>4, <1>5, <1>13, <3>1
    <3>2. CASE m \in 1..p
      BY <1>6, <2>1, <2>3, <3>2 DEF PrunedSoFar
    <3> QED BY <1>9, <3>1, <3>2
  <2> QED BY <1>6, <1>11, <2>1, <2>2, <2>3 DEF PrunedSoFar
<1> QED BY <1>12, <1>13

LEMMA PruneRunKeeps ==
    ASSUME NEW s \in Seq(SegmentType), NEW max \in Nat, NEW N, NEW o, NEW kept, NEW used,
           ByPriority(s, o, N), PruneRun(s, max, o, N, kept, used)
    PROVE  \A n \in 0..N : PrunedSoFar(s, max, o, kept, used, n)
<1> DEFINE T == {n \in 0..N : PrunedSoFar(s, max, o, kept, used, n)}
<1>1. N \in Nat
  BY DEF ByPriority
<1>2. 0 \in T
  <2>1. PICK z : z = 0
    OBVIOUS
  <2>2. /\ used[z] \in Nat /\ kept[z] = MandatoryOf(s)
        /\ used[z] = TokensOf(s, MandatoryOf(s))
    BY <1>1, <2>1 DEF PruneRun
  <2>3. 0..z = {z} /\ 1..z = {}
    BY <2>1
  <2>4. PrunedSoFar(s, max, o, kept, used, z)
    BY <2>2, <2>3 DEF PrunedSoFar
  <2> QED BY <1>1, <2>1, <2>4
<1>3. \A n \in 1..N : n - 1 \in T => n \in T
  <2> SUFFICES ASSUME NEW n \in 1..N, n - 1 \in T PROVE n \in T
    OBVIOUS
  <2>1. PrunedSoFar(s, max, o, kept, used, n - 1)
    OBVIOUS
  <2>2. PrunedSoFar(s, max, o, kept, used, n)
    BY <2>1, PruneRoundKeeps
  <2> QED BY <1>1, <2>2
<1> HIDE DEF T
<1>4. \A n \in 0..N : n \in T
  BY <1>1, <1>2, <1>3, UpTo
<1> QED BY <1>4 DEF T

\* Of the segments that were dropped none fits into what is left, and none was
\* passed over for one of a lower priority that is at least as large.
Spent(s, max, kept) ==
    /\ kept \subseteq DOMAIN s /\ MandatoryOf(s) \subseteq kept
    /\ TokensOf(s, kept) <= max \/ kept = MandatoryOf(s)
    /\ \A d \in DOMAIN s \ kept :
          /\ TokensOf(s, kept) + s[d].cost > max
          /\ \A k \in kept \ MandatoryOf(s) :
                s[k].cost >= s[d].cost => s[k].priority >= s[d].priority

LEMMA PruneSpends ==
    ASSUME NEW s \in Seq(SegmentType), NEW max \in Nat
    PROVE  Spent(s, max, Prune(s, max))
<1>1. PICK N, o, kept, used :
         /\ ByPriority(s, o, N) /\ PruneRun(s, max, o, N, kept, used)
         /\ Prune(s, max) = kept[N]
  BY PruneLoops
<1>0. N \in Nat /\ N \in 0..N
  BY <1>1 DEF ByPriority
<1>2. PrunedSoFar(s, max, o, kept, used, N)
  BY <1>0, <1>1, PruneRunKeeps
<1>3. /\ N \in Nat /\ N \in 0..N /\ kept[N] \subseteq DOMAIN s
      /\ \A n \in 0..N : used[n] \in Nat
      /\ \A k \in DOMAIN s : s[k].cost \in Nat /\ s[k].priority \in Nat
  BY <1>1, PlacesOfSegments DEF ByPriority, PruneRun
<1>4. ASSUME NEW d \in DOMAIN s \ kept[N]
      PROVE  /\ TokensOf(s, kept[N]) + s[d].cost > max
             /\ \A k \in kept[N] \ MandatoryOf(s) :
                   s[k].cost >= s[d].cost => s[k].priority >= s[d].priority
  <2>1. d \in DOMAIN s \ MandatoryOf(s)
    BY <1>2 DEF PrunedSoFar
  <2>2. PICK m \in 1..N : o[m] = d
    BY <1>1, <2>1 DEF ByPriority
  <2>3. m \in Nat /\ m - 1 \in 0..N /\ used[m - 1] \in Nat /\ used[N] \in Nat
        /\ s[d].cost \in Nat /\ s[d].priority \in Nat
    BY <1>3, <2>1
  <2>4. used[m - 1] + s[d].cost > max
    BY <1>2, <2>2 DEF PrunedSoFar
  <2>5. used[m - 1] <= used[N] /\ used[N] = TokensOf(s, kept[N])
    BY <1>2, <2>3 DEF PrunedSoFar
  <2>6. TokensOf(s, kept[N]) + s[d].cost > max
    BY <2>3, <2>4, <2>5
  <2>7. ASSUME NEW k \in kept[N] \ MandatoryOf(s), s[k].cost >= s[d].cost
        PROVE  s[k].priority >= s[d].priority
    <3>1. PICK l \in 1..N : o[l] = k /\ used[l - 1] + s[k].cost <= max
      BY <1>2 DEF PrunedSoFar
    <3>2. l \in Nat /\ l - 1 \in 0..N /\ used[l - 1] \in Nat
          /\ s[k].cost \in Nat /\ s[k].priority \in Nat
      BY <1>3, <3>1
    <3>3. CASE l < m
      BY <1>1, <2>2, <2>3, <3>1, <3>2, <3>3 DEF ByPriority
    <3>4. CASE l = m
      BY <2>2, <2>3, <3>1, <3>4
    <3>5. CASE l > m
      <4>1. PICK p \in 0..N : p = l - 1
        BY <3>2
      <4>2. m - 1 \in 0..p
        BY <2>3, <3>2, <3>5, <4>1
      <4>3. used[m - 1] <= used[p]
        <5>1. PrunedSoFar(s, max, o, kept, used, p)
          BY <1>1, PruneRunKeeps
        <5> QED BY <4>2, <5>1 DEF PrunedSoFar
      <4>4. used[p] \in Nat /\ used[p] + s[k].cost <= max
        BY <3>1, <3>2, <4>1
      <4>5. PICK a \in Nat, b \in Nat, c \in Nat, e \in Nat :
               a = used[m - 1] /\ b = used[p] /\ c = s[d].cost /\ e = s[k].cost
        BY <2>3, <3>2, <4>4
      <4>6. a + c > max /\ a <= b /\ b + e <= max /\ e >= c
        BY <2>4, <2>7, <4>3, <4>4, <4>5
      <4> QED BY <4>6
    <3> QED BY <2>3, <3>2, <3>3, <3>4, <3>5
  <2> QED BY <2>6, <2>7
<1>5. \/ TokensOf(s, kept[N]) <= max
      \/ kept[N] = MandatoryOf(s)
  BY <1>2 DEF PrunedSoFar
<1> QED BY <1>1, <1>2, <1>3, <1>4, <1>5 DEF Spent, PrunedSoFar

(***************************************************************************)
(* ContextCompiler: the segments, and how they are laid out.                *)
(***************************************************************************)
SegmentsOf(c, s) == IF c.budget > 0 /\ c.mode = "enabled" THEN Prune(s, c.budget) ELSE DOMAIN s

LEMMA KeptArePlaces ==
    ASSUME NEW s \in Seq(SegmentType), NEW c \in ConfigType
    PROVE  /\ SegmentsOf(c, s) \subseteq DOMAIN s /\ IsFiniteSet(SegmentsOf(c, s))
           /\ MandatoryOf(s) \subseteq SegmentsOf(c, s)
           /\ c.budget > 0 /\ c.mode = "enabled" => Spent(s, c.budget, SegmentsOf(c, s))
<1>1. c.budget \in Nat
  BY DEF ConfigType
<1>2. Spent(s, c.budget, Prune(s, c.budget))
  BY <1>1, PruneSpends
<1>3. SegmentsOf(c, s) \subseteq DOMAIN s /\ MandatoryOf(s) \subseteq SegmentsOf(c, s)
  BY <1>2, PlacesOfSegments DEF SegmentsOf, Spent
<1>4. IsFiniteSet(SegmentsOf(c, s))
  BY <1>3, PlacesOfSegments, FS_Subset
<1> QED BY <1>2, <1>3, <1>4 DEF SegmentsOf

LEMMA RanksAreNumbers == \A kind : VolatilityRank(kind) \in Int
  BY DEF VolatilityRank

LEMMA LayoutKeepsAll ==
    ASSUME NEW s, NEW n \in Nat, DOMAIN s = 1..n
    PROVE  {Layout(s)[k] : k \in DOMAIN Layout(s)} = {s[k] : k \in 1..n}
<1> DEFINE I == 1..n
           key == [k \in I |-> <<VolatilityRank(s[k].kind), k>>]
           order == SortedBy(I, key)
<1>1. Layout(s) = [j \in DOMAIN order |-> s[order[j]]]
  BY DEF Layout
<1>2. Sortable(I, key)
  <2>1. IsFiniteSet(I)
    BY FS_Interval
  <2>2. \A k \in I : <<VolatilityRank(s[k].kind), k>> \in KeyPairs
    BY RanksAreNumbers DEF KeyPairs
  <2>3. key \in [I -> KeyPairs]
    BY <2>2
  <2>4. \A i, j \in I : key[i] = key[j] => i = j
    OBVIOUS
  <2> HIDE DEF key, I
  <2> QED BY <2>1, <2>3, <2>4 DEF Sortable
<1> HIDE DEF key, I
<1>3. /\ order \in [1..Cardinality(I) -> I]
      /\ \A i \in I : \E j \in 1..Cardinality(I) : order[j] = i
  BY <1>2, SortedByIsSorted
<1> HIDE DEF order
<1>4. DOMAIN order = 1..Cardinality(I)
  BY <1>3
<1>5. PICK l : l = Layout(s)
  OBVIOUS
<1>6. DOMAIN l = 1..Cardinality(I) /\ \A j \in DOMAIN l : l[j] = s[order[j]]
  BY <1>1, <1>4, <1>5
<1> SUFFICES {l[k] : k \in DOMAIN l} = {s[k] : k \in 1..n}
  BY <1>5
<1>7. \A j \in DOMAIN l : \E k \in I : l[j] = s[k]
  BY <1>3, <1>6
<1>8. \A k \in I : \E j \in DOMAIN l : l[j] = s[k]
  BY <1>3, <1>6
<1> QED BY <1>7, <1>8 DEF I

\* p holds the segments of s at the places I, no more and no less, and so do
\* the parts it is laid out in.
HoldsPlaces(p, s, I) ==
    /\ {Layout(p)[k] : k \in DOMAIN Layout(p)} = {s[k] : k \in I}
    /\ \A x : (\E k \in DOMAIN p : p[k].source = x) <=> (\E k \in I : s[k].source = x)

LEMMA PartsAreKept ==
    ASSUME NEW s \in Seq(SegmentType), NEW I, I \subseteq DOMAIN s, IsFiniteSet(I)
    PROVE  HoldsPlaces(Picks(s, I), s, I)
<1>1. PICK p : p = Picks(s, I)
  OBVIOUS
<1>2. I \in SUBSET Int
  BY PlacesOfSegments
<1>3. /\ Cardinality(I) \in Nat /\ DOMAIN p = 1..Cardinality(I)
      /\ \A n \in 1..Cardinality(I) : \E i \in I : p[n] = s[i]
      /\ \A i \in I : \E n \in 1..Cardinality(I) : p[n] = s[i]
  BY <1>1, <1>2, PicksIsAFilter
<1>4. {Layout(p)[k] : k \in DOMAIN Layout(p)} = {p[k] : k \in 1..Cardinality(I)}
  BY <1>3, LayoutKeepsAll, ZenonT(40)
<1>5. {p[k] : k \in 1..Cardinality(I)} = {s[k] : k \in I}
  BY <1>3
<1>6. ASSUME NEW x
      PROVE  (\E k \in DOMAIN p : p[k].source = x) <=> (\E k \in I : s[k].source = x)
  <2>1. ASSUME NEW k \in DOMAIN p, p[k].source = x PROVE \E i \in I : s[i].source = x
    <3>1. PICK i \in I : p[k] = s[i]
      BY <1>3
    <3>2. s[i].source = x
      BY <2>1, <3>1
    <3> QED BY <3>2
  <2>2. ASSUME NEW k \in I, s[k].source = x PROVE \E i \in DOMAIN p : p[i].source = x
    <3>1. PICK i \in DOMAIN p : p[i] = s[k]
      BY <1>3
    <3>2. p[i].source = x
      BY <2>2, <3>1
    <3> QED BY <3>2
  <2> QED BY <2>1, <2>2
<1>7. {Layout(p)[k] : k \in DOMAIN Layout(p)} = {s[k] : k \in I}
  BY <1>4, <1>5
<1>8. HoldsPlaces(p, s, I)
  BY <1>6, <1>7 DEF HoldsPlaces
<1> QED BY <1>1, <1>8

Messages == [cost : Nat \ {0}, mark : MessageMarks]

LEMMA LastOfASequence ==
    ASSUME NEW s \in Seq(Messages), NEW n \in Nat
    PROVE  LastOf(s, n) \in Seq(Messages)
<1>1. CASE Len(s) <= n
  BY <1>1 DEF LastOf
<1>2. CASE ~(Len(s) <= n)
  <2>1. Len(s) - n + 1 \in 1..(Len(s) + 1) /\ Len(s) \in Nat
    BY <1>2
  <2>2. SubSeq(s, Len(s) - n + 1, Len(s)) \in Seq(Messages)
    BY <2>1, SubSeqProperties
  <2> QED BY <1>2, <2>2 DEF LastOf
<1> QED BY <1>1, <1>2

\* The types of the reads; what the fields of the memory read say together.
MemoryRules ==
    /\ memoryRead \in MemoryReadType
    /\ memoryRead.st \notin {"asking", "done"} => memoryRead.answers = <<>>
    /\ memoryRead.failed => memoryRead.st = "done" /\ memoryRead.answers = <<>>
    /\ memoryRead.late => memoryRead.st = "done"
    /\ memoryRead.st = "asking" => memoryRead.queries # 0
    /\ memoryRead.st = "done" /\ ~memoryRead.failed /\ ~memoryRead.late
          => memoryRead.answers # <<>>

ReadsTyped ==
    /\ input \in InputType /\ config \in ConfigType
    /\ personaRead \in {"pending"} \union PersonaResults
    /\ historyRead \in [st : {"pending", "done", "raised"}, messages : Seq(Messages)]

LEMMA HistoryIsASequence ==
    ASSUME ReadsTyped
    PROVE  EffectiveHistory \in Seq(Messages)
<1>1. historyRead.messages \in Seq(Messages)
  BY DEF ReadsTyped
<1>2. HistoryWindow \in Nat /\ DegradedWindow \in Nat
  BY WindowsAreOrdered
<1> QED BY <1>1, <1>2, LastOfASequence DEF EffectiveHistory

LEMMA CostsAreNumbers == \A x \in SegmentSources : Cost[x] \in Nat
  BY CompilerAssumption

LEMMA WhenIsASequence ==
    ASSUME NEW condition \in BOOLEAN, NEW x \in SegmentType
    PROVE  When(condition, x) \in Seq(SegmentType)
  BY DEF When

LEMMA SegmentIsTyped ==
    ASSUME NEW kind \in SegmentKinds, NEW source \in SegmentSources \union {"history_manager"},
           NEW cost \in Nat, NEW priority \in Nat, NEW droppable \in BOOLEAN,
           NEW act \in {"answer", "none", "never", "reference", "execute"}
    PROVE  Segment(kind, source, cost, priority, droppable, act) \in SegmentType
  BY DEF Segment, SegmentType

LEMMA FixedIsTyped ==
    ASSUME NEW kind \in SegmentKinds, NEW source \in SegmentSources,
           NEW act \in {"answer", "none", "never", "reference", "execute"}
    PROVE  Fixed(kind, source, act) \in SegmentType
<1>1. Cost[source] \in Nat /\ 100 \in Nat /\ FALSE \in BOOLEAN
  BY CostsAreNumbers
<1> QED BY <1>1, SegmentIsTyped, ZenonT(40) DEF Fixed

LEMMA SegmentsAreTyped ==
    ASSUME ReadsTyped, NEW persona
    PROVE  Segments(persona) \in Seq(SegmentType)
<1>1. input \in InputType /\ EffectiveHistory \in Seq(Messages)
  BY HistoryIsASequence DEF ReadsTyped
<1>2. \A a, b \in Seq(SegmentType) : a \o b \in Seq(SegmentType)
  OBVIOUS
<1>3. InstructionSegments \in Seq(SegmentType)
  <2>1. /\ Fixed("persona", "personas_service", "answer") \in SegmentType
        /\ Fixed("persona_state", "speaker", "answer") \in SegmentType
        /\ Fixed("harness_policy", "harness", "answer") \in SegmentType
        /\ Fixed("response_policy", "response_policy", "none") \in SegmentType
    BY FixedIsTyped DEF SegmentKinds, SegmentSources
  <2>2. When(input.speaker, Fixed("persona_state", "speaker", "answer")) \in Seq(SegmentType)
    BY <1>1, <2>1, WhenIsASequence DEF InputType
  <2> QED BY <1>2, <2>1, <2>2 DEF InstructionSegments
<1>4. SummarySegment \in Seq(SegmentType)
  <2>1. Segment("summary", "summary", Cost["summary"], 70, TRUE, "never") \in SegmentType
    BY SegmentIsTyped, CostsAreNumbers DEF SegmentKinds, SegmentSources
  <2> QED BY <2>1, WhenIsASequence DEF SummarySegment
<1>5. MemorySegment \in Seq(SegmentType)
  <2>1. PICK b \in BOOLEAN : b = ~(MemoryDegraded(memoryRead) \/ MemoryEmpty(memoryRead))
    OBVIOUS
  <2>2. Segment("memory", "memory", Cost["memory"], 80, b, "reference") \in SegmentType
    BY SegmentIsTyped, CostsAreNumbers, SMTT(30) DEF SegmentKinds, SegmentSources
  <2> QED BY <2>1, <2>2 DEF MemorySegment, When
<1>6. CommitmentSegment \in Seq(SegmentType)
  <2>1. Segment("commitment", "commitments", Cost["commitments"], 85, TRUE, "never")
          \in SegmentType
    BY SegmentIsTyped, CostsAreNumbers DEF SegmentKinds, SegmentSources
  <2> QED BY <2>1, WhenIsASequence DEF CommitmentSegment
<1>7. RealtimeSegment \in Seq(SegmentType)
  <2>1. Segment("realtime", "realtime", Cost["realtime"], 90, TRUE, "reference")
          \in SegmentType
    BY SegmentIsTyped, CostsAreNumbers DEF SegmentKinds, SegmentSources
  <2> QED BY <2>1, WhenIsASequence DEF RealtimeSegment, When
<1>8. HistorySegments \in Seq(SegmentType)
  <2>1. PICK h \in Seq(Messages) : h = EffectiveHistory
    BY <1>1
  <2>2. Len(h) \in Nat /\ DOMAIN h = 1..Len(h) /\ \A k \in 1..Len(h) : h[k].cost \in Nat
    <3>1. Len(h) \in Nat /\ DOMAIN h = 1..Len(h) /\ \A k \in 1..Len(h) : h[k] \in Messages
      OBVIOUS
    <3> QED BY <3>1 DEF Messages
  <2>3. ASSUME NEW k \in 1..Len(h)
        PROVE  Segment("history", "history_manager", h[k].cost, 59 + k, TRUE, "never")
                 \in SegmentType
    <3>1. h[k].cost \in Nat /\ 59 + k \in Nat
      BY <2>2
    <3> QED BY <3>1 DEF Segment, SegmentType, SegmentKinds
  <2> DEFINE hs == [k \in 1..Len(h) |->
                      Segment("history", "history_manager", h[k].cost, 59 + k, TRUE, "never")]
  <2>4. hs \in [1..Len(h) -> SegmentType]
    BY <2>3
  <2>5. hs = [k \in DOMAIN h |->
                Segment("history", "history_manager", h[k].cost, 59 + k, TRUE, "never")]
    BY <2>2
  <2> HIDE DEF hs
  <2>6. hs \in Seq(SegmentType)
    BY <2>2, <2>4
  <2>7. Fixed("persona_state", "history_binding", "answer") \in SegmentType
    BY FixedIsTyped DEF SegmentKinds, SegmentSources
  <2>8. When(EffectiveHistory # <<>>, Fixed("persona_state", "history_binding", "answer"))
          \in Seq(SegmentType)
    BY <2>7 DEF When
  <2> QED BY <1>2, <2>1, <2>5, <2>6, <2>8 DEF HistorySegments
<1>9. PersonaStateSegment(persona) \in Seq(SegmentType)
  <2>1. Segment("persona_state", "persona_state", Cost["persona_state"], 95, TRUE, "answer")
          \in SegmentType
    BY SegmentIsTyped, CostsAreNumbers DEF SegmentKinds, SegmentSources
  <2>2. PICK b \in BOOLEAN : b = (persona = "moody")
    OBVIOUS
  <2>3. PersonaStateSegment(persona) =
           When(b, Segment("persona_state", "persona_state", Cost["persona_state"], 95,
                           TRUE, "answer"))
    BY <2>2 DEF PersonaStateSegment
  <2> QED BY <2>1, <2>3, WhenIsASequence
<1>10. CoordinationSegment \in Seq(SegmentType)
  <2>1. Fixed("coordination", "coordination", "answer") \in SegmentType
    BY FixedIsTyped DEF SegmentKinds, SegmentSources
  <2> QED BY <2>1 DEF CoordinationSegment, When
<1>11. RequestSegments \in Seq(SegmentType)
  <2>1. Fixed("current_user", "request", "execute") \in SegmentType
        /\ Fixed("memory", "memory_receipt", "answer") \in SegmentType
    BY FixedIsTyped DEF SegmentKinds, SegmentSources
  <2> QED BY <1>2, <2>1 DEF RequestSegments, When
<1>12. \A a, b, c, d, e, f, g, h, i \in Seq(SegmentType) :
          a \o b \o c \o d \o e \o f \o g \o h \o i \in Seq(SegmentType)
  BY <1>2
<1> QED BY <1>3, <1>4, <1>5, <1>6, <1>7, <1>8, <1>9, <1>10, <1>11, <1>12 DEF Segments

(***************************************************************************)
(* ContextCompiler: the prompt that compile() makes of the reads.           *)
(***************************************************************************)
\* The two properties, of the memory read m and the configuration c that a
\* prompt p was made under.
ReceiptOf(m, p) ==
    p.st = "sent" =>
        LET recalled == AnyContext(m) /\ ~m.failed /\ m.st = "done"
            there == "memory" \in Sources(p.parts)
        IN /\ p.evidence = "provided" <=> recalled /\ there
           /\ recalled /\ ~there => p.evidence = "omitted_by_context_budget"
           /\ p.evidence = "no_match" =>
                /\ m.answers # <<>>
                /\ \A k \in DOMAIN m.answers :
                      ~m.answers[k].degraded /\ ~m.answers[k].context
           /\ p.evidence = "unavailable" => p.status = "failed" /\ ~recalled
           /\ p.status = "skipped" <=> p.evidence = "not_provided"

BudgetOf(c, p) ==
    p.st = "sent" =>
        LET kept == SegmentsOf(c, p.segments)
        IN /\ {p.parts[k] : k \in DOMAIN p.parts} = {p.segments[k] : k \in kept}
           /\ MandatoryOf(p.segments) \subseteq kept
           /\ c.budget > 0 /\ c.mode = "enabled" => Spent(p.segments, c.budget, kept)

\* The memory read when the gather has returned: what the flags of compile()
\* come to.
LEMMA MemoryCases ==
    ASSUME MemoryRules, memoryRead.st \in {"skipped", "done", "raised"}
    PROVE  /\ AnyContext(memoryRead) =>
                memoryRead.st = "done" /\ ~memoryRead.failed
                /\ ~MemoryDegraded(memoryRead) /\ ~MemoryEmpty(memoryRead)
           /\ MemoryDegraded(memoryRead) => memoryRead.st # "skipped"
           /\ MemoryEmpty(memoryRead) =>
                /\ memoryRead.answers # <<>>
                /\ \A k \in DOMAIN memoryRead.answers :
                      ~memoryRead.answers[k].degraded /\ ~memoryRead.answers[k].context
           /\ memoryRead.st = "skipped" => ~MemoryHasText
           /\ ~MemoryHasText => memoryRead.st = "skipped"
<1>0. memoryRead.failed \in BOOLEAN /\ memoryRead.late \in BOOLEAN
      /\ memoryRead.answers \in Seq(RecallResults)
  BY DEF MemoryRules, MemoryReadType
<1>1. memoryRead.answers = <<>> => \A k \in DOMAIN memoryRead.answers : FALSE
  OBVIOUS
<1>2. \A k \in DOMAIN memoryRead.answers :
         memoryRead.answers[k].context \in BOOLEAN /\ memoryRead.answers[k].degraded \in BOOLEAN
  <2>1. \A k \in DOMAIN memoryRead.answers : memoryRead.answers[k] \in RecallResults
    BY <1>0
  <2> QED BY <2>1 DEF RecallResults
<1>3. AnyContext(memoryRead) => memoryRead.st = "done" /\ ~memoryRead.failed
  BY <1>1 DEF AnyContext, MemoryRules
<1>4. AnyContext(memoryRead) => ~MemoryDegraded(memoryRead) /\ ~MemoryEmpty(memoryRead)
  BY <1>3 DEF MemoryDegraded, MemoryEmpty
<1>5. MemoryDegraded(memoryRead) => memoryRead.st # "skipped"
  BY <1>1 DEF MemoryDegraded, MemoryRules
<1>6. ASSUME MemoryEmpty(memoryRead)
      PROVE  /\ memoryRead.answers # <<>>
             /\ \A k \in DOMAIN memoryRead.answers :
                   ~memoryRead.answers[k].degraded /\ ~memoryRead.answers[k].context
  <2>1. memoryRead.st = "done" /\ ~memoryRead.failed /\ ~memoryRead.late
        /\ ~AnyContext(memoryRead)
        /\ \A k \in DOMAIN memoryRead.answers : ~memoryRead.answers[k].degraded
    BY <1>6 DEF MemoryEmpty, MemoryDegraded
  <2> QED BY <2>1 DEF AnyContext, MemoryRules
<1>7. memoryRead.st = "skipped" => ~MemoryHasText
  BY <1>3, <1>5 DEF MemoryHasText, MemoryEmpty
<1>8. ~MemoryHasText => memoryRead.st = "skipped"
  BY DEF MemoryHasText, MemoryEmpty, MemoryDegraded
<1> QED BY <1>3, <1>4, <1>5, <1>6, <1>7, <1>8

LEMMA ReceiptOfOutcome ==
    ASSUME ReadsTyped, MemoryRules, GatherIsDone, NEW persona
    PROVE  ReceiptOf(memoryRead, Outcome(persona))
<1> SUFFICES ASSUME Outcome(persona).st = "sent" PROVE ReceiptOf(memoryRead, Outcome(persona))
  BY DEF ReceiptOf
<1>1. PICK s \in Seq(SegmentType) : s = Segments(persona)
  BY SegmentsAreTyped
<1>2. PICK p : p = KeptSegments(s)
  OBVIOUS
<1>3. /\ Outcome(persona).parts = Layout(p)
      /\ Outcome(persona).evidence = EvidenceStatus(p)
      /\ Outcome(persona).status = ReadStatus
  BY <1>1, <1>2 DEF Outcome, Unassembled
<1>4. "memory" \in Sources(Layout(p)) <=> \E k \in DOMAIN p : p[k].source = "memory"
  <2>1. config \in ConfigType
    BY DEF ReadsTyped
  <2>2. PICK I : I = SegmentsOf(config, s)
    OBVIOUS
  <2>3. p = Picks(s, I)
    BY <1>2, <2>2 DEF KeptSegments, KeptIndices, BudgetApplies, SegmentsOf
  <2>4. I \subseteq DOMAIN s /\ IsFiniteSet(I)
    BY <2>1, <2>2, KeptArePlaces
  <2>5. HoldsPlaces(Picks(s, I), s, I)
    BY <2>4, PartsAreKept
  <2>6. HoldsPlaces(p, s, I)
    BY <2>3, <2>5
  <2>7. PICK l : l = Layout(p)
    OBVIOUS
  <2>8. {l[k] : k \in DOMAIN l} = {s[k] : k \in I}
    BY <2>6, <2>7 DEF HoldsPlaces
  <2>9. (\E k \in DOMAIN l : l[k].source = "memory") <=> (\E k \in I : s[k].source = "memory")
    <3>1. ASSUME NEW k \in DOMAIN l, l[k].source = "memory"
          PROVE  \E i \in I : s[i].source = "memory"
      <4>1. PICK i \in I : l[k] = s[i]
        BY <2>8
      <4> QED BY <3>1, <4>1
    <3>2. ASSUME NEW k \in I, s[k].source = "memory"
          PROVE  \E i \in DOMAIN l : l[i].source = "memory"
      <4>1. PICK i \in DOMAIN l : l[i] = s[k]
        BY <2>8
      <4> QED BY <3>2, <4>1
    <3> QED BY <3>1, <3>2
  <2>10. "memory" \in Sources(l) <=> \E k \in DOMAIN l : l[k].source = "memory"
    BY DEF Sources
  <2>11. (\E k \in DOMAIN p : p[k].source = "memory") <=> (\E k \in I : s[k].source = "memory")
    BY <2>6 DEF HoldsPlaces
  <2> QED BY <2>7, <2>9, <2>10, <2>11
<1>5. PICK there \in BOOLEAN : there <=> "memory" \in Sources(Layout(p))
  OBVIOUS
<1>6. memoryRead.st \in {"skipped", "done", "raised"}
  BY DEF GatherIsDone
<1>7. PICK e, t : e = EvidenceStatus(p) /\ t = ReadStatus
  OBVIOUS
<1>8. e = IF MemoryDegraded(memoryRead) THEN "unavailable"
          ELSE IF MemoryEmpty(memoryRead) THEN "no_match"
          ELSE IF ~MemoryHasText THEN "not_provided"
          ELSE IF there THEN "provided" ELSE "omitted_by_context_budget"
  <2>1. there <=> \E k \in DOMAIN p : p[k].source = "memory"
    BY <1>4, <1>5
  <2>2. CASE MemoryDegraded(memoryRead)
    <3>1. ~MemoryEmpty(memoryRead)
      BY <2>2 DEF MemoryEmpty
    <3> QED BY <1>7, <2>2, <3>1 DEF EvidenceStatus
  <2>3. CASE ~MemoryDegraded(memoryRead) /\ MemoryEmpty(memoryRead)
    BY <1>7, <2>3 DEF EvidenceStatus
  <2>4. CASE ~MemoryDegraded(memoryRead) /\ ~MemoryEmpty(memoryRead) /\ ~MemoryHasText
    BY <1>7, <2>4 DEF EvidenceStatus
  <2>5. CASE ~MemoryDegraded(memoryRead) /\ ~MemoryEmpty(memoryRead) /\ MemoryHasText /\ there
    BY <1>7, <2>1, <2>5 DEF EvidenceStatus
  <2>6. CASE ~MemoryDegraded(memoryRead) /\ ~MemoryEmpty(memoryRead) /\ MemoryHasText /\ ~there
    BY <1>7, <2>1, <2>6 DEF EvidenceStatus
  <2> QED BY <2>2, <2>3, <2>4, <2>5, <2>6
<1>9. t = IF memoryRead.st = "skipped" THEN "skipped"
          ELSE IF MemoryDegraded(memoryRead) THEN "failed" ELSE "completed"
  BY <1>7 DEF ReadStatus
<1> DEFINE recalled == AnyContext(memoryRead) /\ ~memoryRead.failed /\ memoryRead.st = "done"
<1>10. recalled <=> AnyContext(memoryRead)
  BY <1>6, MemoryCases
<1>11. AnyContext(memoryRead) =>
          ~MemoryDegraded(memoryRead) /\ ~MemoryEmpty(memoryRead) /\ MemoryHasText
  BY <1>6, MemoryCases DEF MemoryHasText
<1>12. MemoryHasText /\ ~MemoryDegraded(memoryRead) /\ ~MemoryEmpty(memoryRead)
          => AnyContext(memoryRead)
  BY DEF MemoryHasText
<1> HIDE DEF recalled
<1>13. e = "provided" <=> recalled /\ there
  BY <1>8, <1>10, <1>11, <1>12
<1>14. recalled /\ ~there => e = "omitted_by_context_budget"
  BY <1>8, <1>10, <1>11
<1>15. ASSUME e = "no_match"
       PROVE  /\ memoryRead.answers # <<>>
              /\ \A k \in DOMAIN memoryRead.answers :
                    ~memoryRead.answers[k].degraded /\ ~memoryRead.answers[k].context
  <2>1. MemoryEmpty(memoryRead)
    BY <1>8, <1>15
  <2> QED BY <1>6, <2>1, MemoryCases
<1>16. e = "unavailable" => t = "failed" /\ ~recalled
  <2> SUFFICES ASSUME e = "unavailable" PROVE t = "failed" /\ ~recalled
    OBVIOUS
  <2>1. MemoryDegraded(memoryRead)
    BY <1>8
  <2>2. memoryRead.st # "skipped"
    BY <1>6, <2>1, MemoryCases
  <2> QED BY <1>9, <1>10, <1>11, <2>1, <2>2
<1>17. t = "skipped" <=> e = "not_provided"
  <2>1. t = "skipped" <=> memoryRead.st = "skipped"
    BY <1>9
  <2>2. memoryRead.st = "skipped" <=> ~MemoryHasText
    BY <1>6, MemoryCases
  <2>3. ~MemoryHasText => ~MemoryDegraded(memoryRead) /\ ~MemoryEmpty(memoryRead)
    BY DEF MemoryHasText
  <2>4. e = "not_provided" <=> ~MemoryHasText
    BY <1>8, <2>3
  <2> QED BY <2>1, <2>2, <2>4
<1> QED BY <1>3, <1>5, <1>7, <1>13, <1>14, <1>15, <1>16, <1>17 DEF ReceiptOf, recalled

LEMMA BudgetOfOutcome ==
    ASSUME ReadsTyped, NEW persona
    PROVE  BudgetOf(config, Outcome(persona))
<1> SUFFICES ASSUME Outcome(persona).st = "sent" PROVE BudgetOf(config, Outcome(persona))
  BY DEF BudgetOf
<1>1. PICK s \in Seq(SegmentType) : s = Segments(persona)
  BY SegmentsAreTyped
<1>2. PICK I : I = SegmentsOf(config, s)
  OBVIOUS
<1>3. PICK p : p = Picks(s, I)
  OBVIOUS
<1>4. p = KeptSegments(s)
  BY <1>2, <1>3 DEF KeptSegments, KeptIndices, BudgetApplies, SegmentsOf
<1>5. Outcome(persona).parts = Layout(p) /\ Outcome(persona).segments = s
  BY <1>1, <1>4 DEF Outcome, Unassembled
<1>6. /\ I \subseteq DOMAIN s /\ IsFiniteSet(I) /\ MandatoryOf(s) \subseteq I
      /\ config.budget > 0 /\ config.mode = "enabled" => Spent(s, config.budget, I)
  <2>1. config \in ConfigType
    BY DEF ReadsTyped
  <2> QED BY <1>2, <2>1, KeptArePlaces
<1>7. HoldsPlaces(p, s, I)
  <2>1. HoldsPlaces(Picks(s, I), s, I)
    BY <1>6, PartsAreKept
  <2> QED BY <1>3, <2>1
<1>8. PICK l : l = Layout(p)
  OBVIOUS
<1>9. {l[k] : k \in DOMAIN l} = {s[k] : k \in I}
  BY <1>7, <1>8 DEF HoldsPlaces
<1>10. PICK o : o = Outcome(persona)
  OBVIOUS
<1>11. o.parts = l /\ o.segments = s
  BY <1>5, <1>8, <1>10
<1>12. BudgetOf(config, o)
  <2>1. SegmentsOf(config, o.segments) = I
    BY <1>2, <1>11
  <2>2. {o.parts[k] : k \in DOMAIN o.parts}
          = {o.segments[k] : k \in SegmentsOf(config, o.segments)}
    BY <1>9, <1>11, <2>1
  <2>3. MandatoryOf(o.segments) \subseteq SegmentsOf(config, o.segments)
    BY <1>6, <1>11, <2>1
  <2>4. config.budget > 0 /\ config.mode = "enabled"
          => Spent(o.segments, config.budget, SegmentsOf(config, o.segments))
    BY <1>6, <1>11, <2>1
  <2> QED BY <2>2, <2>3, <2>4 DEF BudgetOf
<1> QED BY <1>10, <1>12

(***************************************************************************)
(* ContextCompiler: the invariant.                                          *)
(***************************************************************************)
PromptIsMade ==
    /\ prompt.st # "none" => GatherIsDone
    /\ ReceiptOf(memoryRead, prompt)
    /\ BudgetOf(config, prompt)

CompilerInv == ReadsTyped /\ MemoryRules /\ PromptIsMade

LEMMA CompilerInitially == CompilerInit => CompilerInv
<1> SUFFICES ASSUME CompilerInit PROVE CompilerInv
  OBVIOUS
<1>1. ReadsTyped
  <2>1. input \in InputType /\ config \in ConfigType
    BY CompilerAssumption DEF CompilerInit
  <2>2. historyRead = [st |-> "pending", messages |-> <<>>] /\ personaRead = "pending"
    BY DEF CompilerInit
  <2>3. <<>> \in Seq(Messages)
    OBVIOUS
  <2>4. historyRead \in [st : {"pending", "done", "raised"}, messages : Seq(Messages)]
    BY <2>2, <2>3
  <2> QED BY <2>1, <2>2, <2>4 DEF ReadsTyped
<1>2. MemoryRules
  <2>1. <<>> \in Seq(RecallResults)
    OBVIOUS
  <2> QED BY <2>1 DEF CompilerInit, NoMemory, MemoryRules, MemoryReadType
<1>3. PromptIsMade
  BY DEF CompilerInit, Unassembled, PromptIsMade, ReceiptOf, BudgetOf
<1> QED BY <1>1, <1>2, <1>3 DEF CompilerInv

\* Before the prompt is made there is nothing to say about it.
LEMMA NotYetMade ==
    ASSUME prompt.st = "none", prompt' = prompt
    PROVE  PromptIsMade'
<1>1. prompt'.st = "none"
  OBVIOUS
<1>2. ReceiptOf(memoryRead', prompt') /\ BudgetOf(config', prompt')
  BY <1>1 DEF ReceiptOf, BudgetOf
<1> QED BY <1>1, <1>2 DEF PromptIsMade

\* Once it is made, no read is still running.
LEMMA MadeIsFinal ==
    ASSUME CompilerInv, CompilerNext, prompt.st # "none"
    PROVE  FALSE
<1>1. GatherIsDone
  BY DEF CompilerInv, PromptIsMade
<1>2. /\ memoryRead.st \notin {"start", "asking"} /\ personaRead # "pending"
      /\ commitRead # "pending" /\ summaryRead # "pending" /\ historyRead.st # "pending"
  BY <1>1 DEF GatherIsDone
<1> QED BY <1>2 DEF CompilerNext, MemorySkip, ProvisionalRecall, PrepareQueries, RecallContext,
             RecallTooLate, RecallRaises, ReadPersona, ReadCommitments, ReadSummary,
             ReadHistory, ReadDeadline, Assemble

\* The memory read moves by itself.
MemoryReadMoves ==
    \/ MemorySkip
    \/ \E r \in ProvisionalResults : ProvisionalRecall(r)
    \/ \E peeked \in BOOLEAN : PrepareQueries(peeked)
    \/ \E r \in RecallResults : RecallContext(r)
    \/ RecallTooLate
    \/ RecallRaises

LEMMA MemoryKeeps ==
    ASSUME MemoryRules, MemoryReadMoves
    PROVE  MemoryRules'
<1>1. PICK m \in MemoryReadType : m = memoryRead
  BY DEF MemoryRules
<1>2. /\ m.st \in {"start", "asking", "skipped", "done", "raised"} /\ m.queries \in 0..2
      /\ m.answers \in Seq(RecallResults) /\ m.late \in BOOLEAN /\ m.failed \in BOOLEAN
  BY DEF MemoryReadType
<1>3. /\ m.st \notin {"asking", "done"} => m.answers = <<>>
      /\ m.failed => m.st = "done" /\ m.answers = <<>>
      /\ m.late => m.st = "done"
      /\ m.st = "asking" => m.queries # 0
      /\ m.st = "done" /\ ~m.failed /\ ~m.late => m.answers # <<>>
  BY <1>1 DEF MemoryRules
<1> DEFINE Rules(n) ==
             /\ n \in MemoryReadType
             /\ n.st \notin {"asking", "done"} => n.answers = <<>>
             /\ n.failed => n.st = "done" /\ n.answers = <<>>
             /\ n.late => n.st = "done"
             /\ n.st = "asking" => n.queries # 0
             /\ n.st = "done" /\ ~n.failed /\ ~n.late => n.answers # <<>>
<1> SUFFICES Rules(memoryRead')
  BY DEF MemoryRules
<1>4. CASE MemorySkip
  <2>1. PICK n : n = [m EXCEPT !.st = "skipped"]
    OBVIOUS
  <2>2. m.st = "start" /\ memoryRead' = n
    BY <1>1, <1>4, <2>1 DEF MemorySkip
  <2>3. n \in MemoryReadType /\ n.st = "skipped" /\ n.answers = m.answers
        /\ n.failed = m.failed /\ n.late = m.late
    BY <1>2, <2>1 DEF MemoryReadType
  <2> QED BY <1>3, <2>2, <2>3
<1>5. ASSUME NEW r \in ProvisionalResults, ProvisionalRecall(r) PROVE Rules(memoryRead')
  <2>1. PICK n : n = [m EXCEPT !.st = "done", !.answers = <<r>>]
    OBVIOUS
  <2>2. m.st = "start" /\ memoryRead' = n
    BY <1>1, <1>5, <2>1 DEF ProvisionalRecall
  <2>3. r \in RecallResults
    BY DEF ProvisionalResults
  <2>4. <<r>> \in Seq(RecallResults) /\ <<r>> # <<>>
    BY <2>3
  <2>5. n \in MemoryReadType /\ n.st = "done" /\ n.answers = <<r>>
        /\ n.failed = m.failed /\ n.late = m.late
    BY <1>2, <2>1, <2>4 DEF MemoryReadType
  <2> QED BY <1>3, <2>2, <2>4, <2>5
<1>6. ASSUME NEW peeked \in BOOLEAN, PrepareQueries(peeked) PROVE Rules(memoryRead')
  <2>1. PICK q \in 1..2 : q = IF peeked THEN 2 ELSE 1
    OBVIOUS
  <2>2. PICK n : n = [m EXCEPT !.st = "asking", !.queries = q]
    OBVIOUS
  <2>3. m.st = "start" /\ memoryRead' = n
    BY <1>1, <1>6, <2>1, <2>2 DEF PrepareQueries
  <2>4. n \in MemoryReadType /\ n.st = "asking" /\ n.answers = m.answers
        /\ n.queries = q /\ n.failed = m.failed /\ n.late = m.late
    <3>1. q \in 0..2 /\ q # 0
      BY <2>1
    <3> QED BY <1>2, <2>2, <3>1 DEF MemoryReadType
  <2> QED BY <1>3, <2>1, <2>3, <2>4
<1>7. ASSUME NEW r \in RecallResults, RecallContext(r) PROVE Rules(memoryRead')
  <2>1. PICK left : left = m.queries - 1
    OBVIOUS
  <2>2. PICK st \in {"done", "asking"} :
           st = IF left = 0 \/ HasRecallEvidence(r) THEN "done" ELSE "asking"
    OBVIOUS
  <2>3. PICK a : a = Append(m.answers, r)
    OBVIOUS
  <2>4. PICK n : n = [m EXCEPT !.answers = a, !.queries = left, !.st = st]
    OBVIOUS
  <2>5. m.st = "asking" /\ memoryRead' = n
    BY <1>1, <1>7, <2>1, <2>2, <2>3, <2>4 DEF RecallContext
  <2>6. a \in Seq(RecallResults) /\ a # <<>>
    BY <1>2, <2>3
  <2>7. left \in 0..2
    BY <1>2, <1>3, <2>1, <2>5
  <2>8. n \in MemoryReadType /\ n.st = st /\ n.answers = a /\ n.queries = left
        /\ n.failed = m.failed /\ n.late = m.late
    BY <1>2, <2>2, <2>4, <2>6, <2>7 DEF MemoryReadType
  <2>9. ~n.failed /\ ~n.late /\ (st = "asking" => left # 0)
    BY <1>2, <1>3, <2>2, <2>5, <2>8
  <2> QED BY <2>2, <2>5, <2>6, <2>8, <2>9
<1>8. CASE RecallTooLate
  <2>1. PICK n : n = [m EXCEPT !.st = "done", !.late = TRUE]
    OBVIOUS
  <2>2. m.st = "asking" /\ memoryRead' = n
    BY <1>1, <1>8, <2>1 DEF RecallTooLate
  <2>3. n \in MemoryReadType /\ n.st = "done" /\ n.answers = m.answers
        /\ n.failed = m.failed /\ n.late = TRUE
    BY <1>2, <2>1 DEF MemoryReadType
  <2> QED BY <1>3, <2>2, <2>3
<1>9. CASE RecallRaises
  <2>1. PICK n : n = [m EXCEPT !.st = "done", !.failed = TRUE, !.answers = <<>>]
    OBVIOUS
  <2>2. m.st = "asking" /\ memoryRead' = n
    BY <1>1, <1>9, <2>1 DEF RecallRaises
  <2>3. <<>> \in Seq(RecallResults)
    OBVIOUS
  <2>4. n \in MemoryReadType /\ n.st = "done" /\ n.answers = <<>>
        /\ n.failed = TRUE /\ n.late = m.late
    BY <1>2, <2>1, <2>3 DEF MemoryReadType
  <2> QED BY <1>3, <2>2, <2>4
<1> HIDE DEF Rules
<1> QED BY <1>4, <1>5, <1>6, <1>7, <1>8, <1>9 DEF MemoryReadMoves

LEMMA RulesStay ==
    ASSUME MemoryRules, memoryRead' = memoryRead
    PROVE  MemoryRules'
  BY DEF MemoryRules, MemoryReadType

LEMMA DeadlineKeepsMemory ==
    ASSUME MemoryRules, ReadDeadline
    PROVE  MemoryRules'
<1>1. CASE memoryRead.st \in {"start", "asking"} /\ MemorySkipReason(input, config) = ""
  <2>1. PICK m \in MemoryReadType : m = memoryRead
    BY DEF MemoryRules
  <2>2. PICK n : n = [m EXCEPT !.st = "raised", !.answers = <<>>]
    OBVIOUS
  <2>3. memoryRead' = n
    BY <1>1, <2>1, <2>2 DEF ReadDeadline
  <2>4. <<>> \in Seq(RecallResults)
    OBVIOUS
  <2>5. n \in MemoryReadType /\ n.st = "raised" /\ n.answers = <<>>
        /\ n.failed = m.failed /\ n.late = m.late
    BY <2>1, <2>2, <2>4 DEF MemoryReadType
  <2>6. ~m.failed /\ ~m.late
    BY <1>1, <2>1 DEF MemoryRules, MemoryReadType
  <2> QED BY <2>3, <2>5, <2>6 DEF MemoryRules
<1>2. CASE ~(memoryRead.st \in {"start", "asking"} /\ MemorySkipReason(input, config) = "")
  <2>1. memoryRead' = memoryRead
    BY <1>2 DEF ReadDeadline
  <2> QED BY <2>1, RulesStay
<1> QED BY <1>1, <1>2

LEMMA HistoryReadKeeps ==
    ASSUME ReadsTyped, NEW raises \in BOOLEAN, ReadHistory(raises)
    PROVE  historyRead' \in [st : {"pending", "done", "raised"}, messages : Seq(Messages)]
<1>1. input.past \in Seq(Messages)
  BY DEF ReadsTyped, InputType, Messages
<1>2. FetchWindow(input) \in Nat
  BY WindowsAreOrdered DEF FetchWindow
<1>3. LastOf(input.past, FetchWindow(input)) \in Seq(Messages)
  BY <1>1, <1>2, LastOfASequence
<1>4. <<>> \in Seq(Messages)
  OBVIOUS
<1>5. PICK q \in Seq(Messages) :
         q = IF raises \/ ~HistoryWanted(input) THEN <<>>
             ELSE LastOf(input.past, FetchWindow(input))
  BY <1>3, <1>4
<1>6. PICK st \in {"done", "raised"} : st = IF raises THEN "raised" ELSE "done"
  OBVIOUS
<1>7. historyRead' = [st |-> st, messages |-> q]
  BY <1>5, <1>6 DEF ReadHistory
<1> QED BY <1>7

LEMMA DeadlineKeepsHistory ==
    ASSUME ReadsTyped, ReadDeadline
    PROVE  historyRead' \in [st : {"pending", "done", "raised"}, messages : Seq(Messages)]
<1>1. PICK h \in [st : {"pending", "done", "raised"}, messages : Seq(Messages)] : h = historyRead
  BY DEF ReadsTyped
<1>2. [h EXCEPT !.st = "raised"] \in [st : {"pending", "done", "raised"}, messages : Seq(Messages)]
  OBVIOUS
<1> QED BY <1>1, <1>2 DEF ReadDeadline

LEMMA CompilerStepKeeps ==
    ASSUME CompilerInv, [CompilerNext]_compilerVars
    PROVE  CompilerInv'
<1>0. ReadsTyped /\ MemoryRules /\ PromptIsMade
  BY DEF CompilerInv
<1>1. CASE UNCHANGED compilerVars
  <2>1. /\ input' = input /\ config' = config /\ personaRead' = personaRead
        /\ memoryRead' = memoryRead /\ commitRead' = commitRead
        /\ summaryRead' = summaryRead /\ historyRead' = historyRead /\ prompt' = prompt
    BY <1>1 DEF compilerVars
  <2>2. ReadsTyped'
    BY <1>0, <2>1 DEF ReadsTyped
  <2>3. MemoryRules'
    BY <1>0, <2>1, RulesStay
  <2>4. ReceiptOf(memoryRead', prompt') /\ BudgetOf(config', prompt')
    BY <1>0, <2>1 DEF PromptIsMade
  <2>5. PromptIsMade'
    BY <1>0, <2>1, <2>4 DEF PromptIsMade, GatherIsDone
  <2> QED BY <2>2, <2>3, <2>5 DEF CompilerInv
<1>2. CASE CompilerNext
  <2>0. prompt.st = "none"
    BY <1>2, MadeIsFinal
  <2>1. input' = input /\ config' = config
    BY <1>2 DEF CompilerNext, MemorySkip, ProvisionalRecall, PrepareQueries, RecallContext,
             RecallTooLate, RecallRaises, ReadPersona, ReadCommitments, ReadSummary,
             ReadHistory, ReadDeadline, Assemble
  <2>2. CASE MemoryReadMoves
    <3>1. /\ personaRead' = personaRead /\ historyRead' = historyRead /\ prompt' = prompt
      BY <2>2 DEF MemoryReadMoves, MemorySkip, ProvisionalRecall, PrepareQueries,
                  RecallContext, RecallTooLate, RecallRaises
    <3>2. ReadsTyped'
      BY <1>0, <2>1, <3>1 DEF ReadsTyped
    <3>3. MemoryRules'
      BY <1>0, <2>2, MemoryKeeps
    <3> QED BY <2>0, <3>1, <3>2, <3>3, NotYetMade DEF CompilerInv
  <2>3. CASE \/ \E r \in PersonaResults : ReadPersona(r)
             \/ \E r \in {"skipped", "some", "none", "degraded"} : ReadCommitments(r)
             \/ \E r \in {"skipped", "text", "none", "raised"} : ReadSummary(r)
    <3>1. /\ personaRead' = personaRead \/ personaRead' \in PersonaResults
          /\ memoryRead' = memoryRead /\ historyRead' = historyRead /\ prompt' = prompt
      BY <2>3 DEF ReadPersona, ReadCommitments, ReadSummary
    <3>2. ReadsTyped'
      BY <1>0, <2>1, <3>1 DEF ReadsTyped
    <3>3. MemoryRules'
      BY <1>0, <3>1, RulesStay
    <3> QED BY <2>0, <3>1, <3>2, <3>3, NotYetMade DEF CompilerInv
  <2>4. CASE \E raises \in BOOLEAN : ReadHistory(raises)
    <3>1. /\ personaRead' = personaRead /\ memoryRead' = memoryRead /\ prompt' = prompt
          /\ historyRead' \in [st : {"pending", "done", "raised"}, messages : Seq(Messages)]
      BY <1>0, <2>4, HistoryReadKeeps DEF ReadHistory
    <3>2. ReadsTyped'
      BY <1>0, <2>1, <3>1 DEF ReadsTyped
    <3>3. MemoryRules'
      BY <1>0, <3>1, RulesStay
    <3> QED BY <2>0, <3>1, <3>2, <3>3, NotYetMade DEF CompilerInv
  <2>5. CASE ReadDeadline
    <3>1. /\ personaRead' = personaRead /\ prompt' = prompt
          /\ historyRead' \in [st : {"pending", "done", "raised"}, messages : Seq(Messages)]
      BY <1>0, <2>5, DeadlineKeepsHistory DEF ReadDeadline
    <3>2. ReadsTyped'
      BY <1>0, <2>1, <3>1 DEF ReadsTyped
    <3>3. MemoryRules'
      BY <1>0, <2>5, DeadlineKeepsMemory
    <3> QED BY <2>0, <3>1, <3>2, <3>3, NotYetMade DEF CompilerInv
  <2>6. CASE Assemble
    <3>1. /\ memoryRead' = memoryRead /\ commitRead' = commitRead
          /\ summaryRead' = summaryRead /\ historyRead' = historyRead /\ GatherIsDone
      BY <2>6 DEF Assemble
    <3>2. PICK persona \in Realizations :
             personaRead' = persona /\ prompt' = Outcome(persona)
      BY <2>6 DEF Assemble
    <3>3. personaRead' \in PersonaResults
      BY <1>0, <3>1, <3>2 DEF ReadsTyped, GatherIsDone, Realizations
    <3>4. ReceiptOf(memoryRead, Outcome(persona)) /\ BudgetOf(config, Outcome(persona))
      BY <1>0, <3>1, <3>2, ReceiptOfOutcome, BudgetOfOutcome
    <3>5. ReceiptOf(memoryRead', prompt') /\ BudgetOf(config', prompt')
      BY <2>1, <3>1, <3>2, <3>4
    <3>6. PromptIsMade'
      BY <3>1, <3>3, <3>5 DEF PromptIsMade, GatherIsDone, PersonaResults
    <3>7. ReadsTyped'
      BY <1>0, <2>1, <3>1, <3>3 DEF ReadsTyped
    <3>8. MemoryRules'
      BY <1>0, <3>1, RulesStay
    <3> QED BY <3>6, <3>7, <3>8 DEF CompilerInv
  <2> QED BY <1>2, <2>2, <2>3, <2>4, <2>5, <2>6 DEF CompilerNext, MemoryReadMoves
<1> QED BY <1>1, <1>2

\* The receipt never misleads: "provided" exactly when recalled context is in
\* the prompt, "no_match" only when every query came back healthy and empty, and
\* context that the budget left out is owned up to, for every turn, every cost of
\* the segments and whatever the reads and the deadline did
\* (memory_evidence_status and memory_read_status of compile()).
THEOREM ReceiptsAreTruthful == CompilerSpec => []ReceiptIsTruthful
<1>1. CompilerInv => ReceiptIsTruthful
  <2> SUFFICES ASSUME ReceiptOf(memoryRead, prompt) PROVE ReceiptIsTruthful
    BY DEF CompilerInv, PromptIsMade
  <2> QED BY DEF ReceiptOf, ReceiptIsTruthful
<1> QED BY <1>1, CompilerInitially, CompilerStepKeeps, PTL DEF CompilerSpec

\* The prompt is laid out from exactly the segments that were kept; an enforced
\* budget is exceeded only by what is mandatory, and what was dropped neither
\* fits nor was passed over for a smaller claim, for every list of segments and
\* every budget (ContextBudget.prune, _apply_budget).
THEOREM BudgetsAreSpentByPriority == CompilerSpec => []BudgetIsSpentByPriority
<1>1. CompilerInv => BudgetIsSpentByPriority
  <2> SUFFICES ASSUME ReadsTyped, BudgetOf(config, prompt), prompt.st = "sent"
               PROVE  BudgetIsSpentByPriority
    BY DEF CompilerInv, PromptIsMade, BudgetIsSpentByPriority
  <2>1. PICK s, kept : s = prompt.segments /\ kept = KeptIndices(s)
    OBVIOUS
  <2>2. SegmentsOf(config, s) = kept
    BY <2>1 DEF KeptIndices, BudgetApplies, SegmentsOf
  <2>3. {prompt.parts[k] : k \in DOMAIN prompt.parts} = {s[k] : k \in kept}
        /\ MandatoryOf(s) \subseteq kept
        /\ (BudgetApplies => Spent(s, config.budget, kept))
    BY <2>1, <2>2 DEF BudgetOf, BudgetApplies
  <2> QED BY <2>1, <2>3 DEF BudgetIsSpentByPriority, Spent
<1> QED BY <1>1, CompilerInitially, CompilerStepKeeps, PTL DEF CompilerSpec
=============================================================================
