--------------------------- MODULE Interpretation ---------------------------
(***************************************************************************)
(* How an utterance becomes a proposal: InterpretationService runs one     *)
(* primary adapter for the caller and shadows for the record, and the Laya *)
(* adapter combines the answers of one batched model request.  The model   *)
(* is asked about the sentence alone (intent, device, action) and, when    *)
(* there is a previous turn, about the sentence in its context             *)
(* (context_device, and pick or follow).  It may answer anything.          *)
(*                                                                         *)
(* A probability matters only where the code compares it: 0 below every    *)
(* threshold, 1 from 0.8, 2 from 0.95, 3 from 0.99.  A device stands for   *)
(* the option label that device_options gives it.                          *)
(***************************************************************************)
EXTENDS Naturals, FiniteSets

CONSTANTS
    HomeDevices,     \* candidates that are no scenes: device_options
    Verbs,           \* the actions the model may choose
    Expressible,     \* <<device, verb>> that command_for turns into a command
    HomeContexts,    \* previous turns of the session the request may carry
    NoContext        \* a request without one

VARIABLES
    ask,        \* the request under way: its context, and where the call is
    reply,      \* the payload the model answered with
    verdict,    \* what interpret() returned or raised
    shadow,     \* the shadow run: absent, running, ended
    journal,    \* the record: none, waiting for the shadow, written, dropped
    draining    \* drain(): not called, waiting, returned

interpretationVars == <<ask, reply, verdict, shadow, journal, draining>>

Exits == {"multiple", "no_device"}
Again == "reinterpret"
Cancel == "cancel"
Unanswered == [choice |-> "none", p |-> 0]
Surely == 3     \* 0.99
Likely == 2     \* 0.95
Rather == 1     \* 0.8

\* The previous turn: open question or not, and the proposal it left.
HomeContextType ==
    [pending : BOOLEAN, status : {"ambiguous", "resolved", "none"},
     targets : SUBSET HomeDevices, verb : Verbs \union {"none"}]

ASSUME InterpretationAssumption ==
    /\ HomeContexts \subseteq HomeContextType
    /\ NoContext \notin HomeContexts
    /\ Expressible \subseteq (HomeDevices \union {"no_device"}) \X Verbs
    /\ HomeDevices \intersect (Exits \union {Again, Cancel, "none"}) = {}

(***************************************************************************)
(* The questions.                                                          *)
(***************************************************************************)
Answer(choices, levels) == [choice : choices, p : levels]

\* A pending selection among two to eight devices is offered for picking.
AsksPick(c) ==
    /\ c.pending /\ c.status = "ambiguous" /\ c.verb # "none"
    /\ Cardinality(c.targets) \in 2..8
\* One device that was just used may be followed up.
AsksFollow(c) ==
    /\ ~(c.pending /\ c.status = "ambiguous" /\ c.verb # "none")
    /\ c.status = "resolved" /\ Cardinality(c.targets) = 1

\* What the model may answer; an old server ignores the state of a question.
Replies(c) ==
    [truncated : BOOLEAN,
     questionState : IF c = NoContext THEN {FALSE} ELSE BOOLEAN,
     intent : Answer({"control", "query", "unrelated"}, {0, Surely}),
     device : Answer(HomeDevices \union Exits, {0, Rather, Surely}),
     action : Answer(Verbs, {0, Surely}),
     contextDevice : IF c # NoContext /\ AsksFollow(c)
                     THEN Answer(HomeDevices \union Exits, {0, Likely}) ELSE {Unanswered},
     pick : IF c # NoContext /\ AsksPick(c)
            THEN Answer(c.targets \union {Again, Cancel}, {0, Likely}) ELSE {Unanswered},
     follow : IF c # NoContext /\ AsksFollow(c)
              THEN Answer(Verbs \union {Again}, {0, Likely}) ELSE {Unanswered}]

(***************************************************************************)
(* The decision.                                                           *)
(***************************************************************************)
Proposing(intent, status, targets, verb) ==
    [status |-> "decided", intent |-> intent, target |-> status,
     targets |-> targets, verb |-> verb]
Abstained ==
    [status |-> "abstained", intent |-> "none", target |-> "none",
     targets |-> {}, verb |-> "none"]
Cancellation == [Proposing("unrelated", "none", {}, "none") EXCEPT !.status = "cancelled"]

\* _control: the command the verb means for the device, if it has one.
Control(device, verb) ==
    IF <<device, verb>> \notin Expressible THEN Abstained
    ELSE IF device = "no_device" THEN Proposing("control", "none", {}, verb)
    ELSE Proposing("control", "resolved", {device}, verb)

\* _result: the sentence on its own.
Primary(r) ==
    IF r.truncated THEN Abstained
    ELSE IF r.intent.choice = "unrelated" THEN Proposing("unrelated", "none", {}, "none")
    ELSE IF r.device.choice = "multiple" THEN Abstained
    ELSE IF r.intent.choice = "query"
         THEN IF r.device.choice = "no_device" THEN Proposing("query", "none", {}, "none")
              ELSE Proposing("query", "resolved", {r.device.choice}, "none")
    ELSE Control(r.device.choice, r.action.choice)

\* A complete command of its own, of which the model is sure.
Direct(r) ==
    /\ Primary(r).status = "decided" /\ Primary(r).intent # "unrelated"
    /\ \A question \in {"intent", "device", "action"} : r[question].p >= Surely

Picked(c, r) == r.pick.p >= Likely /\ r.pick.choice \in c.targets
PickedCommand(c, r) == Proposing("control", "resolved", {r.pick.choice}, c.verb)

\* A follow-up names an action, and context points at the one device in focus.
Followed(c, r) ==
    /\ r.intent = [choice |-> "control", p |-> Surely]
    /\ r.follow.choice \in Verbs /\ r.follow.p >= Likely
    /\ r.contextDevice.p >= Likely /\ c.targets = {r.contextDevice.choice}
FollowedCommand(r) == Control(r.contextDevice.choice, r.follow.choice)
Contradicts(r) ==
    /\ Primary(r).status = "decided" /\ Primary(r).intent = "control"
    /\ r.device.p >= Rather /\ Primary(r).targets # FollowedCommand(r).targets

\* Mutant: a complete new command replaces pending work on its own.
MutWhilePending(r) == IF Direct(r) THEN Primary(r) ELSE Abstained
\* The question stays open unless the model also asks for reinterpretation.
WhilePending(r) ==
    IF Direct(r) /\ r.pick.choice = Again /\ r.pick.p >= Likely THEN Primary(r)
    ELSE Abstained

\* _context_result: the answers in context, combined with the sentence alone.
Combined(c, r) ==
    IF r.truncated THEN Primary(r)
    ELSE IF r.pick.p >= Likely /\ r.pick.choice = Cancel
         THEN IF Direct(r) THEN Abstained ELSE Cancellation
    ELSE IF Picked(c, r)
         THEN IF Direct(r) /\ Primary(r) # PickedCommand(c, r) THEN Abstained
              ELSE PickedCommand(c, r)
    ELSE IF c.pending THEN WhilePending(r)
    ELSE IF Direct(r) THEN Primary(r)
    ELSE IF r.device.choice = "multiple" THEN Abstained
    ELSE IF Followed(c, r) /\ FollowedCommand(r).status = "decided"
         THEN IF Contradicts(r) THEN Abstained ELSE FollowedCommand(r)
    ELSE IF Primary(r).intent = "unrelated" THEN Abstained
    ELSE Primary(r)

\* LayaInterpreter.interpret: without question state the answers are void.
Interpreted(c, r) ==
    IF c = NoContext THEN Primary(r)
    ELSE IF ~r.questionState THEN Abstained
    ELSE Combined(c, r)

(***************************************************************************)
(* The service.                                                            *)
(***************************************************************************)
NoAnswer == [answered |-> FALSE]
Failure(reason) == [Abstained EXCEPT !.status = reason]

InterpretationInit ==
    /\ ask = [st |-> "idle", context |-> NoContext]
    /\ reply = NoAnswer
    /\ verdict = Failure("none")
    /\ shadow = "absent"
    /\ journal = "none"
    /\ draining = "no"

\* interpret(): shadows start first so that they overlap the primary.
Interpret(c, shadowed) ==
    /\ ask.st = "idle"
    /\ ask' = [st |-> "asking", context |-> c]
    /\ shadow' = IF shadowed THEN "running" ELSE "absent"
    /\ UNCHANGED <<reply, verdict, journal, draining>>

\* _finish: with a recorder or a shadow, a task waits for what is to be kept.
Ends(outcome, recorder) ==
    /\ ask' = [ask EXCEPT !.st = "done"]
    /\ verdict' = outcome
    /\ journal' = IF recorder \/ shadow # "absent" THEN "waiting" ELSE "none"
    /\ UNCHANGED <<shadow, draining>>

\* _checked: the result is returned, or rejected by validate_proposal and
\* turned into an abstention.
PrimaryAnswers(recorder) ==
    /\ ask.st = "asking"
    /\ \E r \in Replies(ask.context), valid \in BOOLEAN :
          /\ reply' = r
          /\ Ends(IF valid THEN Interpreted(ask.context, r) ELSE Abstained, recorder)

\* Deadline, transport, status or an unreadable payload: predict and
\* _run_primary raise an InterpretationError.
PrimaryErrs(reason, recorder) ==
    /\ ask.st = "asking"
    /\ Ends(Failure(reason), recorder)
    /\ UNCHANGED reply

\* The caller gives up; the run is still recorded.
CallerCancels(recorder) ==
    /\ ask.st = "asking"
    /\ Ends(Failure("cancelled_call"), recorder)
    /\ UNCHANGED reply

\* The caller goes on with the result; nothing else runs before it has it.
CallerContinues ==
    /\ ask.st = "done"
    /\ ask' = [st |-> "over", context |-> NoContext]
    /\ reply' = NoAnswer
    /\ verdict' = Failure("none")
    /\ UNCHANGED <<shadow, journal, draining>>

\* The shadow answers, fails or reaches its own deadline.
ShadowEnds ==
    /\ ask.st \in {"asking", "over"} /\ shadow = "running"
    /\ shadow' = "ended"
    /\ UNCHANGED <<ask, reply, verdict, journal, draining>>

\* _record: after the shadows; a failed write is logged and dropped.
Record ==
    /\ ask.st = "over" /\ journal = "waiting" /\ shadow # "running"
    /\ journal' \in {"written", "dropped"}
    /\ UNCHANGED <<ask, reply, verdict, shadow, draining>>

\* drain() at shutdown: no more calls; it returns when no record is pending.
Drain ==
    /\ ask.st = "over"
    /\ \/ draining = "no" /\ draining' = "waiting"
       \/ draining = "waiting" /\ journal # "waiting" /\ draining' = "returned"
    /\ UNCHANGED <<ask, reply, verdict, shadow, journal>>

InterpretationNext ==
    \/ \E c \in HomeContexts \union {NoContext}, shadowed \in BOOLEAN : Interpret(c, shadowed)
    \/ \E recorder \in BOOLEAN : PrimaryAnswers(recorder)
    \/ \E reason \in {"timeout", "unavailable", "invalid"}, recorder \in BOOLEAN :
          PrimaryErrs(reason, recorder)
    \/ \E recorder \in BOOLEAN : CallerCancels(recorder)
    \/ CallerContinues
    \/ ShadowEnds
    \/ Record
    \/ Drain

InterpretationSpec == InterpretationInit /\ [][InterpretationNext]_interpretationVars

(***************************************************************************)
(* Evidence, not precedence, decides (_context_result).  A decision is     *)
(* never made from a truncated request or from answers an old server gave  *)
(* without the context; a command the model is sure of is carried out as   *)
(* it is or not at all, never turned into another one or into a            *)
(* cancellation; and while the user is being asked which device is meant,  *)
(* only three things end that question: a pick of an offered device for    *)
(* the asked action, a cancellation, or a sure new command that the        *)
(* continuation answer also calls a new request.                           *)
(***************************************************************************)
DecisionIsSupported ==
    verdict.status \in {"decided", "cancelled"} =>
        LET c == ask.context IN
        /\ ~reply.truncated /\ (c # NoContext => reply.questionState)
        /\ Direct(reply) => verdict = Primary(reply)
        /\ c # NoContext /\ c.pending =>
             /\ AsksPick(c) /\ reply.pick.p >= Likely
             /\ \/ /\ reply.pick.choice \in c.targets
                   /\ verdict.targets = {reply.pick.choice} /\ verdict.verb = c.verb
                \/ reply.pick.choice = Cancel /\ verdict.status = "cancelled"
                \/ reply.pick.choice = Again /\ Direct(reply)
=============================================================================
