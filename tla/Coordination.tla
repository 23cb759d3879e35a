---------------------------- MODULE Coordination ----------------------------
(***************************************************************************)
(* A role group: one push-to-talk input and several companions that answer *)
(* through devices of their own.  CoordinationSession runs one round per   *)
(* released capture (transcribe, wait for silence, decide, reply, decide   *)
(* again ...); CoordinationStream carries its frames to the devices        *)
(* through a priority queue and their receipts back.  A press revokes all  *)
(* earlier work at once and asks every device to stop.                     *)
(*                                                                         *)
(* Cancelling the round task is one step with the press: asyncio gives a   *)
(* cancelled task nothing but its cleanup to run, and that touches only    *)
(* the reported member states, which are left out.  The devices behind the *)
(* stream are external: each plays what it is sent, in order, flushes on   *)
(* stop, and answers; an answer may stay under way for ever.               *)
(***************************************************************************)
EXTENDS Integers, Sequences, FiniteSets

CONSTANTS
    NumMembers,  \* companions in the group, each with a device
    ReplyBudget, \* replies one round may schedule
    MaxPresses,  \* bound: captures (256 in the code)
    MaxMishaps   \* bound: errors of a round, stop timeouts, refusals of a device

ASSUME GroupBounds ==
    /\ NumMembers \in Nat \ {0} /\ ReplyBudget \in Nat \ {0}
    /\ MaxPresses \in Nat /\ MaxMishaps \in Nat

Members == 1..NumMembers

VARIABLES
    session,   \* CoordinationSession's own fields
    round,     \* the round task, if one runs
    stops,     \* stops[e][m]: the stop of epoch e at member m
    outbound,  \* frames not yet written: urgent ones overtake
    inbox,     \* frames under way to each device
    playing,   \* the turn each device is playing, 0 when silent
    receipts,  \* answers of the devices under way
    heard      \* history: turns a device played to the end

groupVars == <<session, round, stops, outbound, inbox, playing, receipts, heard>>

\* Every press has one round, which may fail.
MaxEpoch == 2 * MaxPresses + 1

NoRound == [pc |-> "none", epoch |-> 0, waits |-> {}, left |-> 0,
            speaker |-> 0, clarify |-> FALSE, text |-> FALSE]

Stop(m, e) == [type |-> "stop", to |-> m, epoch |-> e, turn |-> 0]
Reply(kind, m, e, t) == [type |-> kind, to |-> m, epoch |-> e, turn |-> t]

GroupInit ==
    /\ session = [epoch |-> 0, st |-> "opening", held |-> FALSE, closed |-> FALSE,
                  presses |-> 0, active |-> 0, turns |-> 0, failures |-> {},
                  history |-> <<>>, mishaps |-> 0, connected |-> TRUE]
    /\ round = NoRound
    /\ stops = [e \in 0..MaxEpoch |-> [m \in Members |-> "none"]]
    /\ outbound = [urgent |-> <<>>, reply |-> <<>>]
    /\ inbox = [m \in Members |-> <<>>]
    /\ playing = [m \in Members |-> 0]
    /\ receipts = {}
    /\ heard = {}

\* prepare: every companion is authorized before anything is sent to a
\* device, and one refusal rejects the whole group.
Prepare(authorized) ==
    /\ session.st = "opening"
    /\ session' = IF authorized = Members THEN [session EXCEPT !.st = "waiting"]
                  ELSE [session EXCEPT !.st = "closed", !.closed = TRUE, !.connected = FALSE]
    /\ UNCHANGED <<round, stops, outbound, inbox, playing, receipts, heard>>

(***************************************************************************)
(* Stops: _dispatch_stop, _stop_all, CoordinationStream.stop.              *)
(***************************************************************************)
\* The stop frames of epoch e, put on the urgent side of the queue.
StopFrames(e) == [m \in Members |-> Stop(m, e)]

Asked == [m \in Members |-> "asked"]

DispatchStop(e) ==
    /\ stops' = [stops EXCEPT ![e] = Asked]
    /\ outbound' = [outbound EXCEPT !.urgent = @ \o StopFrames(e)]

\* Only the current silence barrier changes an endpoint's health.
NoteStop(s, e, m, ok) ==
    IF e # s.epoch THEN s
    ELSE [s EXCEPT !.failures = IF ok THEN @ \ {m} ELSE @ \union {m}]

\* accept(Receipt) for a stop: only while its request is pending.
StopReceipt(e, m, ok) ==
    LET receipt == [kind |-> "stop", from |-> m, epoch |-> e, turn |-> 0, ok |-> ok] IN
    /\ session.connected
    /\ receipt \in receipts
    /\ receipts' = receipts \ {receipt}
    /\ IF stops[e][m] = "asked"
       THEN /\ stops' = [stops EXCEPT ![e][m] = IF ok THEN "ok" ELSE "failed"]
            /\ session' = NoteStop(session, e, m, ok)
       ELSE UNCHANGED <<stops, session>>
    /\ UNCHANGED <<round, outbound, inbox, playing, heard>>

\* asyncio.timeout(stop_timeout), or the stream is gone.
StopTimeout(e, m) ==
    /\ stops[e][m] = "asked" /\ session.mishaps < MaxMishaps
    /\ stops' = [stops EXCEPT ![e][m] = "failed"]
    /\ session' = [NoteStop(session, e, m, FALSE) EXCEPT !.mishaps = @ + 1]
    /\ UNCHANGED <<round, outbound, inbox, playing, receipts, heard>>

(***************************************************************************)
(* The input: press and release.                                           *)
(***************************************************************************)
\* CoordinationSession.press: earlier work is revoked before any stop is sent.
Pressed(s) ==
    [s EXCEPT !.epoch = @ + 1, !.held = TRUE, !.active = 0, !.presses = @ + 1,
              !.st = "recording"]

\* A press with a new capture id; a repeated press changes nothing.
Press ==
    /\ ~session.closed /\ session.st # "opening"
    /\ session.presses < MaxPresses
    /\ session' = Pressed(session)
    /\ round' = NoRound
    /\ DispatchStop(session.epoch + 1)
    /\ UNCHANGED <<inbox, playing, receipts, heard>>

\* CoordinationSession.release: the round waits for the stops still running
\* at this moment.
Released ==
    [NoRound EXCEPT !.pc = "transcribe", !.epoch = session.epoch, !.left = ReplyBudget,
        !.waits = {e \in DOMAIN stops : \E m \in Members : stops[e][m] = "asked"}]

Release ==
    /\ ~session.closed /\ session.held
    /\ session' = [session EXCEPT !.held = FALSE, !.st = "transcribing"]
    /\ round' = Released
    /\ UNCHANGED <<stops, outbound, inbox, playing, receipts, heard>>

(***************************************************************************)
(* The round: _run.                                                        *)
(***************************************************************************)
\* _fail_round: the round's epoch ends; unless the stop barrier itself was
\* what failed, every device is asked to stop.
FailRound(andStop, mishaps) ==
    /\ session' = [session EXCEPT !.st = "failed", !.epoch = @ + 1, !.active = 0,
                                  !.mishaps = mishaps]
    /\ round' = NoRound
    /\ IF andStop THEN DispatchStop(session.epoch + 1) ELSE UNCHANGED <<stops, outbound>>

Finish ==
    /\ session' = [session EXCEPT !.st = "waiting"]
    /\ round' = NoRound

Transcribed(text) ==
    /\ round.pc = "transcribe"
    /\ round' = [round EXCEPT !.pc = "stops", !.text = text]
    /\ UNCHANGED <<session, stops, outbound, inbox, playing, receipts, heard>>

\* All awaited stops are settled: give up unless every member is confirmed
\* silent, end quietly on empty input, else record the request and decide.
SilenceKnown ==
    /\ round.pc = "stops"
    /\ \A e \in round.waits : \A m \in Members : stops[e][m] # "asked"
    /\ \/ session.failures # {} /\ FailRound(FALSE, session.mishaps)
       \/ /\ session.failures = {} /\ ~round.text
          /\ Finish /\ UNCHANGED <<stops, outbound>>
       \/ /\ session.failures = {} /\ round.text
          /\ session' = [session EXCEPT !.st = "deciding", !.history =
                Append(@, [by |-> 0, turn |-> 0, epoch |-> round.epoch])]
          /\ round' = [round EXCEPT !.pc = "primary"]
          /\ UNCHANGED <<stops, outbound>>
    /\ UNCHANGED <<inbox, playing, receipts, heard>>

\* FallbackParticipationDecision: abstaining and recoverable failures of the
\* first model are tried once on the second.
PrimaryGivesWay ==
    /\ round.pc = "primary"
    /\ round' = [round EXCEPT !.pc = "fallback"]
    /\ UNCHANGED <<session, stops, outbound, inbox, playing, receipts, heard>>

\* wait, finish, or the second model abstains.
DecideSilence ==
    /\ round.pc \in {"primary", "fallback"}
    /\ Finish
    /\ UNCHANGED <<stops, outbound, inbox, playing, receipts, heard>>

\* Who may be chosen: the members whose device is not quarantined.
Speakers == Members \ session.failures

\* respond or clarify: a permit, then the reply's first frame.
DecideReply(m, clarify) ==
    /\ round.pc \in {"primary", "fallback"}
    /\ m \in Speakers
    /\ LET turn == session.turns + 1 IN
       /\ session' = [session EXCEPT !.st = "responding", !.active = turn, !.turns = turn]
       /\ outbound' = [outbound EXCEPT !.reply =
                          Append(@, Reply("start", m, round.epoch, turn))]
    /\ round' = [round EXCEPT !.pc = "reply", !.speaker = m, !.clarify = clarify]
    /\ UNCHANGED <<stops, inbox, playing, receipts, heard>>

\* CoordinatedReplies and RoleReplyExecutor: the text is complete.
ReplyGenerated ==
    /\ round.pc = "reply"
    /\ outbound' = [outbound EXCEPT !.reply =
                       Append(@, Reply("end", round.speaker, round.epoch, session.active))]
    /\ round' = [round EXCEPT !.pc = "present"]
    /\ UNCHANGED <<session, stops, inbox, playing, receipts, heard>>

\* An exception in a stage of the round.
RoundError(stages) ==
    /\ round.pc \in stages
    /\ session.mishaps < MaxMishaps
    /\ FailRound(TRUE, session.mishaps + 1)
    /\ UNCHANGED <<inbox, playing, receipts, heard>>

\* asyncio.timeout(stage_timeout) around the transcript.
TranscriptTimeout == RoundError({"transcribe"})

\* An incoherent, repeated, missing or late answer of the model: fatal in the
\* first model unless it is recoverable (PrimaryGivesWay), always in the second.
DecisionFails == RoundError({"primary", "fallback"})

\* A tool call, a finish other than STOP, text after it, or no text at all.
ReplyFails == RoundError({"reply"})

\* A reply that was played to the end is the next thing everybody has heard.
Played(s, over) ==
    [s EXCEPT !.active = 0, !.st = IF over THEN "waiting" ELSE "deciding",
              !.history = Append(@, [by |-> round.speaker, turn |-> s.active,
                                     epoch |-> round.epoch])]

\* Mutant: the reply counts as said once it is on its way.
MutPlaybackReceipt(t, ok) ==
    /\ round.pc = "present" /\ t = session.active
    /\ session' = Played(session, TRUE)
    /\ round' = NoRound
    /\ UNCHANGED <<stops, outbound, inbox, playing, receipts, heard>>
\* accept(Receipt) for a reply: a pending request with a current permit.  A
\* clarification or the last reply of the budget ends the round.
PlaybackReceipt(t, ok) ==
    LET receipt == [kind |-> "reply", from |-> round.speaker, epoch |-> round.epoch,
                    turn |-> t, ok |-> ok]
        over == round.clarify \/ round.left = 1
    IN /\ session.connected
       /\ round.pc \in {"reply", "present"} /\ t = session.active
       /\ receipt \in receipts
       /\ receipts' = receipts \ {receipt}
       /\ \/ ~ok /\ FailRound(TRUE, session.mishaps)
          \/ /\ ok
             /\ session' = Played(session, over)
             /\ round' = IF over THEN NoRound
                         ELSE [round EXCEPT !.pc = "primary", !.left = @ - 1, !.speaker = 0]
             /\ UNCHANGED <<stops, outbound>>
       /\ UNCHANGED <<inbox, playing, heard>>

\* CoordinationSession.close: revoke first.
ClosedSession(s) ==
    [s EXCEPT !.closed = TRUE, !.held = FALSE, !.epoch = @ + 1, !.st = "closed", !.active = 0]

\* close(), also reached by disconnect(): revoke, cancel every task, then a
\* last stop of the new epoch (which fails at once without a connection).
\* No request of an earlier epoch is pending any more, so the answers under
\* way to them are forgotten here.
CloseGroup(disconnected) ==
    /\ ~session.closed /\ session.st # "opening"
    /\ LET e == session.epoch + 1 IN
       /\ session' = [ClosedSession(session) EXCEPT !.connected = ~disconnected,
                         !.failures = IF disconnected THEN Members ELSE @]
       /\ stops' = [f \in DOMAIN stops |->
                       IF f = e THEN [m \in Members |-> IF disconnected THEN "failed" ELSE "asked"]
                       ELSE [m \in Members |-> IF stops[f][m] = "asked" THEN "cancelled"
                                               ELSE stops[f][m]]]
       /\ outbound' = IF disconnected THEN [urgent |-> <<>>, reply |-> <<>>]
                      ELSE [outbound EXCEPT !.urgent = @ \o StopFrames(e)]
    /\ round' = NoRound
    /\ receipts' = {}
    /\ UNCHANGED <<inbox, playing, heard>>

(***************************************************************************)
(* The writer: urgent frames first, and a reply frame only while its       *)
(* permit is current.                                                      *)
(***************************************************************************)
\* Mutant: the permit is not looked at again when a frame is written.
MutPermitCurrent(frame) == TRUE
PermitCurrent(frame) ==
    /\ ~session.closed /\ ~session.held
    /\ frame.epoch = session.epoch
    /\ session.active = frame.turn
    /\ frame.to \notin session.failures

WriteUrgent ==
    /\ session.connected /\ outbound.urgent # <<>>
    /\ LET frame == Head(outbound.urgent) IN
       inbox' = [inbox EXCEPT ![frame.to] = Append(@, frame)]
    /\ outbound' = [outbound EXCEPT !.urgent = Tail(@)]
    /\ UNCHANGED <<session, round, stops, playing, receipts, heard>>

WriteReply ==
    /\ session.connected /\ outbound.urgent = <<>> /\ outbound.reply # <<>>
    /\ LET frame == Head(outbound.reply) IN
       inbox' = IF PermitCurrent(frame) THEN [inbox EXCEPT ![frame.to] = Append(@, frame)]
                ELSE inbox
    /\ outbound' = [outbound EXCEPT !.reply = Tail(@)]
    /\ UNCHANGED <<session, round, stops, playing, receipts, heard>>

(***************************************************************************)
(* A device, external: play, flush, answer.                                *)
(***************************************************************************)
DeviceHandles(m, ok) ==
    /\ inbox[m] # <<>>
    /\ LET frame == Head(inbox[m])
           answer == [kind |-> IF frame.type = "stop" THEN "stop" ELSE "reply",
                      from |-> m, epoch |-> frame.epoch, turn |-> frame.turn, ok |-> ok]
       IN /\ playing' = [playing EXCEPT ![m] =
                CASE frame.type = "start" -> IF ok THEN frame.turn ELSE 0
                  [] frame.type = "stop" -> IF ok THEN 0 ELSE @
                  [] frame.type = "end" -> 0]
          /\ receipts' = IF frame.type = "start" /\ ok THEN receipts
                         ELSE receipts \union {answer}
          /\ ok \/ session.mishaps < MaxMishaps
          /\ session' = [session EXCEPT !.mishaps = IF ok THEN @ ELSE @ + 1]
          /\ heard' = IF frame.type = "end" /\ ok THEN heard \union {frame.turn} ELSE heard
    /\ inbox' = [inbox EXCEPT ![m] = Tail(@)]
    /\ UNCHANGED <<round, stops, outbound>>

GroupNext ==
    \/ \E authorized \in SUBSET Members : Prepare(authorized)
    \/ Press
    \/ Release
    \/ \E text \in BOOLEAN : Transcribed(text)
    \/ SilenceKnown
    \/ PrimaryGivesWay
    \/ DecideSilence
    \/ \E m \in Members, clarify \in BOOLEAN : DecideReply(m, clarify)
    \/ ReplyGenerated
    \/ TranscriptTimeout
    \/ DecisionFails
    \/ ReplyFails
    \/ \E t \in {session.active} \ {0}, ok \in BOOLEAN : PlaybackReceipt(t, ok)
    \/ \E e \in 1..MaxEpoch, m \in Members, ok \in BOOLEAN : StopReceipt(e, m, ok)
    \/ \E e \in 1..MaxEpoch, m \in Members : StopTimeout(e, m)
    \/ \E disconnected \in BOOLEAN : CloseGroup(disconnected)
    \/ WriteUrgent
    \/ WriteReply
    \/ \E m \in Members, ok \in BOOLEAN : DeviceHandles(m, ok)

GroupSpec == GroupInit /\ [][GroupNext]_groupVars

(***************************************************************************)
(* Properties.                                                             *)
(***************************************************************************)
\* Two companions never speak at the same time: a reply starts only after
\* every device has confirmed that it is silent, however presses, stop
\* timeouts, late receipts and failed rounds interleave (the silence barrier
\* of _run and the permit check of write_to).
OneVoice ==
    \A m, n \in Members : playing[m] # 0 /\ playing[n] # 0 => m = n

\* What the group remembers as said was played to the end by its device, in
\* the round whose request precedes it; a revoked reply leaves no trace in
\* the history the next decision sees.
HistoryIsHeard ==
    \A i \in DOMAIN session.history :
        LET said == session.history[i] IN
        /\ said.by # 0 => said.turn \in heard
        /\ said.by # 0 => \E j \in 1..(i - 1) :
                /\ session.history[j].by = 0 /\ session.history[j].epoch = said.epoch
                /\ \A k \in (j + 1)..i : session.history[k].by # 0
                /\ i - j <= ReplyBudget
=============================================================================
