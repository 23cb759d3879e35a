--------------------------- MODULE MC_Interaction ---------------------------
(***************************************************************************)
(* Small instances of the parts that serve one utterance: a smart-home     *)
(* command, its interpretation, a device capability, a role group's round, *)
(* the prompt of a turn, a streamed model answer.  They share no state, so *)
(* a behaviour runs one of them (`feature`) and leaves the others in one   *)
(* initial state; the state spaces add up instead of multiplying.          *)
(*                                                                         *)
(* Smart home: two devices that can be switched on, one of which moves, a  *)
(* third one, and a scene.  The second command repeats the turn of the     *)
(* first; the third is about "it" and may come from another Companion or   *)
(* another session.                                                        *)
(***************************************************************************)
EXTENDS SmartHome, Interpretation, BodyControl, Coordination, LLMRouter, ContextCompiler

VARIABLE feature

Scope(k, c) == [key |-> k, companion |-> c]
MCScopes ==
    <<{Scope("k1", "ann")}, {Scope("k1", "ann")},
      {Scope("k1", "ann"), Scope("k1", "bob"), Scope("k2", "ann")}>>
MCTurn == <<"t1", "t1", "t2">>
MCStored == [night |-> {"lamp"}]
MCVerdict ==
    [p \in {"lamp", "heater", "fan"} \X {"on", "set"} |->
       IF p[2] = "on" THEN "ok"
       ELSE IF p[1] = "lamp" THEN "ok"
       ELSE IF p[1] = "heater" THEN "range" ELSE "unsupported"]

U(kind, status, targets, action) ==
    [kind |-> kind, status |-> status, targets |-> targets,
     action |-> action]
Do(targets, action) == U("control", "resolved", targets, action)
Which(targets, action) == U("control", "ambiguous", targets, action)
All ==
    {Do({"lamp"}, "on"), Do({"lamp", "heater"}, "on"),
     Do({"lamp", "heater", "fan"}, "on"), Do({"heater"}, "set"),
     Do({"fan"}, "set"), Do({"lamp", "fan"}, "set"),
     Do({"night"}, "activate"), Do({"lamp"}, "activate"), Do({"night"}, "on"),
     Which({"lamp", "heater"}, "on"), Which({"lamp", "fan"}, "set"),
     Which({"lamp", "heater", "fan"}, "on"),
     U("query", "resolved", {"lamp"}, None),
     U("query", "resolved", {"night"}, None),
     U("control", "none", {}, "on"), U("unrelated", "none", {}, None),
     U("cancel", "none", {}, None), Clarify({"fan"}, None),
     Clarify({"lamp", "heater"}, "on"), Clarify({"lamp", "fan"}, "set")}
MCUnderstandings ==
    <<All, {Do({"lamp"}, "on"), Do({"night"}, "activate")},
      {Do({"lamp"}, "on")}>>

(***************************************************************************)
(* Prompt compilation: a usual turn, and turns that differ from it in one  *)
(* respect; three messages of history, one of them cancelled.              *)
(***************************************************************************)
Message(cost, mark) == [cost |-> cost, mark |-> mark]
Pasts == {<<>>, <<Message(1, "plain"), Message(2, "cancelled"), Message(1, "plain")>>}

AllTurns ==
    [text : BOOLEAN, privacy : Privacy, topicSwitch : BOOLEAN, coordinated : BOOLEAN,
     memory : MemoryGrants, realtime : {TRUE}, speaker : {FALSE}, past : Pasts]

Unusual(i) ==
    Cardinality({c \in 1..5 :
        \/ c = 1 /\ ~i.text
        \/ c = 2 /\ i.topicSwitch
        \/ c = 3 /\ i.coordinated
        \/ c = 4 /\ i.privacy # "normal"
        \/ c = 5 /\ i.memory # "on"})

MCTurnInputs == {i \in AllTurns : Unusual(i) <= 1}

MCCompilerConfigs ==
    {[port |-> TRUE, summaries |-> TRUE, budget |-> b, mode |-> "enabled"] : b \in {0, 5, 9, 12}}
    \union {[port |-> FALSE, summaries |-> FALSE, budget |-> 9, mode |-> "shadow"]}

MCCost ==
    [source \in SegmentSources |-> IF source \in {"summary", "memory"} THEN 2 ELSE 1]

(***************************************************************************)
(* Interpretation: a question which of two devices is meant, an open one,  *)
(* one device in focus, two in focus; the fan only switches.               *)
(***************************************************************************)
Previous(pending, status, targets, verb) ==
    [pending |-> pending, status |-> status, targets |-> targets, verb |-> verb]
MCHomeContexts ==
    {Previous(TRUE, "ambiguous", {"lamp", "fan"}, "on"), Previous(TRUE, "none", {}, "none"),
     Previous(FALSE, "resolved", {"lamp"}, "on"), Previous(FALSE, "resolved", {"lamp", "fan"}, "on")}
MCExpressible == {<<"lamp", "on">>, <<"lamp", "up">>, <<"fan", "on">>, <<"no_device", "on">>}

(***************************************************************************)
(* Body control: d1 is ann's while it is there; d2 is called ann or bob;   *)
(* d12, whose id contains d1's, is bob's or nobody's.  Versions 1 and 2 of *)
(* the capability are declared with the shapes shown.                      *)
(***************************************************************************)
Body(status, name, companion, one, two) ==
    [status |-> status, name |-> name, companion |-> companion, provides |-> <<one, two>>]
MCAppearances ==
    [d \in {"d1", "d2", "d12"} |->
       CASE d = "d1" -> {Body("online", "ann", "a", "s1", "none"),
                         Body("offline", "ann", "a", "s1", "none"), Gone}
         [] d = "d2" -> {Body("online", "ann", "b", "s1", "s2"),
                         Body("online", "bob", "b", "s1", "s1"),
                         Body("unknown", "bob", "b", "s2", "none")}
         [] d = "d12" -> {Body("online", "bob", "b", "s1", "target"),
                          Body("online", "", "c", "s1", "none"), Gone}]
MCNamedWith == [d \in {"d1", "d2", "d12"} |-> IF d = "d1" THEN {"d1", "d12"} ELSE {d}]

(***************************************************************************)
(* One feature at a time.                                                  *)
(***************************************************************************)
InteractionInit ==
    /\ feature \in {"home", "words", "body", "group", "model", "prompt"}
    /\ Init /\ (feature # "home" => fallback)
    /\ InterpretationInit
    /\ BodyInit
    /\ feature # "body" => \A d \in Bodies : directory[d] = CHOOSE a \in Appearances[d] : TRUE
    /\ GroupInit
    /\ RouterInit /\ (feature # "model" => request = [model |-> 0, fallbacks |-> <<>>])
    /\ CompilerInit
    /\ feature # "prompt" =>
          /\ input = CHOOSE i \in TurnInputs : TRUE
          /\ config = CHOOSE c \in CompilerConfigs : TRUE

InteractionNext ==
    /\ UNCHANGED feature
    /\ \/ /\ feature = "home" /\ Next
          /\ UNCHANGED <<interpretationVars, bodyVars, groupVars, llmVars, compilerVars>>
       \/ /\ feature = "words" /\ InterpretationNext
          /\ UNCHANGED <<vars, bodyVars, groupVars, llmVars, compilerVars>>
       \/ /\ feature = "body" /\ BodyNext
          /\ UNCHANGED <<vars, interpretationVars, groupVars, llmVars, compilerVars>>
       \/ /\ feature = "group" /\ GroupNext
          /\ UNCHANGED <<vars, interpretationVars, bodyVars, llmVars, compilerVars>>
       \/ /\ feature = "model" /\ RouterNext
          /\ UNCHANGED <<vars, interpretationVars, bodyVars, groupVars, compilerVars>>
       \/ /\ feature = "prompt" /\ CompilerNext
          /\ UNCHANGED <<vars, interpretationVars, bodyVars, groupVars, llmVars>>

InteractionSpec ==
    /\ InteractionInit
    /\ [][InteractionNext]_<<feature, vars, interpretationVars, bodyVars, groupVars, llmVars,
                             compilerVars>>
=============================================================================
