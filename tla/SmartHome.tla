----------------------------- MODULE SmartHome -----------------------------
(***************************************************************************)
(* Spoken commands for the home: SmartHomeApplication and its HomeSessions,  *)
(* SmartHomeCommand, the fallback's handling of references, and the actuator *)
(* that submits a plan to the Hub.                                           *)
(*                                                                          *)
(* A step runs from one await to the next.  The asyncio.Lock of a session is *)
(* a holder and a queue: release() leaves it unlocked until the first waiter *)
(* runs, and acquire() waits behind earlier waiters.                         *)
(*                                                                          *)
(* The models (Laya, rules, LLM) answer with any understanding that passes   *)
(* validation against the request's candidates.  The Hub is external: it     *)
(* answers a known request id with its first result and runs nothing after   *)
(* the deadline of a request.  Messages and device state are left out.       *)
(***************************************************************************)
EXTENDS Naturals, Sequences, FiniteSets

CONSTANTS
    NumRequests,    \* the commands that are posted, in this order
    Scopes,         \* request -> the scopes it may carry: [key, companion]
    Turn,           \* request -> its turn_id (a command may be sent again)
    Vague,          \* requests that say "it" and name no device
    Devices, Scenes,
    Stored,         \* scene -> the devices its stored actions name
    Movable,        \* devices and scenes that come and go while we look
    Actions,        \* device actions
    Verdict,        \* device and action -> what device_command says
    Understandings, \* request -> what the models may answer
    Capacity,       \* HomeSessions capacity
    MaxCommands,    \* MAX_COMMANDS of one ExecuteRequest
    MaxCandidates,  \* MAX_CANDIDATES of a card
    HistoryLimit,   \* context_turns
    MaxSessions,    \* bound: session objects created
    MaxEvents,      \* bound: steps of the surroundings (see Happens)
    None

Requests == 1..NumRequests
Refs == Devices \union Scenes
SceneAction == "activate"
Keys == {sc.key : sc \in UNION {Scopes[r] : r \in Requests}}
Objects == 1..MaxSessions

\* Proposal, HomeClarification, HomeCancellation or None.
UnderstandingType ==
    [kind : {"control", "query", "unrelated", "cancel", "clarify", "nothing"},
     status : {"resolved", "ambiguous", "none"}, targets : SUBSET Refs,
     action : Actions \union {SceneAction, None}]
Nothing ==
    [kind |-> "nothing", status |-> "none", targets |-> {}, action |-> None]
Clarify(targets, action) ==
    [kind |-> "clarify", status |-> "none", targets |-> targets,
     action |-> action]

ASSUME HomeAssumption ==
    /\ Understandings \in [Requests -> SUBSET UnderstandingType]
    /\ \A r \in Requests : \A u \in Understandings[r] :
         u.kind = "control" =>
           u.action # None /\ (u.status = "none" \/ u.targets # {})
    /\ Verdict \in [Devices \X Actions -> {"ok", "range", "unsupported"}]
    /\ Stored \in [Scenes -> SUBSET Devices]
    /\ Devices \intersect Scenes = {} /\ Movable \subseteq Refs
    /\ Vague \subseteq Requests /\ SceneAction \notin Actions
    /\ {Capacity, MaxCommands, MaxCandidates, HistoryLimit} \subseteq Nat \ {0}
    /\ MaxSessions \in Nat /\ MaxEvents \in Nat
    /\ NumRequests \in Nat /\ None \notin Requests
    /\ \A r \in Requests : \A sc \in Scopes[r] :
         sc = [key |-> sc.key, companion |-> sc.companion]

VARIABLES
    fallback,   \* whether an LLM fallback is configured
    closed,     \* SmartHomeApplication.close() has run
    home,       \* the registry the Hub keeps
    events,     \* steps of the surroundings so far
    table,      \* key -> session object, 0 when there is none (_items)
    sessions,   \* object -> HomeSession and its HomeContext
    req,        \* request -> where its handler is and what it holds
    wire,       \* request -> its ExecuteRequest, between Agent and Hub
    hub         \* the first result the Hub gave for each request id

vars == <<fallback, closed, home, events, table, sessions, req, wire, hub>>
\* What a step of a handler that submits nothing leaves alone.
outside == <<fallback, closed, home, events, table, wire, hub>>

(***************************************************************************)
(* HomeContext: focus is what a reference resolves to (the targets of the    *)
(* remembered proposal or clarification), by the turn that wrote it.         *)
(***************************************************************************)
Blank == [focus |-> {}, pending |-> FALSE, by |-> None]
ContextType ==
    [focus : SUBSET Refs, pending : BOOLEAN, by : Requests \union {None}]

\* life: "open" is context.active; cold: touched ttl_s ago or more; fresh:
\* expires_at lies ahead; rev: the turn whose revision is current.
SessionType ==
    [scope : [key : Keys, companion : {sc.companion :
                sc \in UNION {Scopes[r] : r \in Requests}}] \union {None},
     life : {"unused", "open", "ended", "evicted"}, cold : BOOLEAN,
     ctx : ContextType, fresh : BOOLEAN, history : 0..HistoryLimit,
     rev : Requests \union {None}, holder : Requests \union {None},
     queue : Seq(Requests)]
Unused ==
    [scope |-> None, life |-> "unused", cold |-> FALSE, ctx |-> Blank,
     fresh |-> FALSE, history |-> 0, rev |-> None, holder |-> None,
     queue |-> <<>>]

Wiped(s) == [s EXCEPT !.ctx = Blank, !.fresh = FALSE, !.history = 0]
\* clear(preserve_history=True)
Unfocused(s) == [s EXCEPT !.ctx = Blank, !.fresh = FALSE]
Remembering(s, r, focus, pending) ==
    [s EXCEPT !.ctx = [focus |-> focus, pending |-> pending, by |-> r],
              !.fresh = TRUE,
              !.history = IF @ < HistoryLimit THEN @ + 1 ELSE @]

Current(r) ==
    LET s == sessions[req[r].obj] IN s.life = "open" /\ s.rev = r

(***************************************************************************)
(* Requests                                                                 *)
(***************************************************************************)
\* ctx: the context the models are given; stale: an answer formed with it came
\* after it had expired; card: the outcome returned, "unheard" for the failed one
\* of an empty utterance, "refused" for an error.
Cards ==
    {"executed", "partial", "failed", "unavailable", "clarification",
     "ambiguous", "answered", "unrelated", "not_found", "unheard", "refused"}
ASSUME NoCardAssumption == None \notin Cards
Stages ==
    {"new", "queued", "authorize", "snapshot", "primary", "fallback",
     "offer", "recheck", "execute", "done"}
RequestType ==
    [st : Stages, obj : Objects \union {0}, ctx : ContextType,
     cand : SUBSET Refs, ans : UnderstandingType, stale : BOOLEAN,
     plan : SUBSET Refs, card : Cards \union {None}]
Unsent ==
    [st |-> "new", obj |-> 0, ctx |-> Blank, cand |-> {}, ans |-> Nothing,
     stale |-> FALSE, plan |-> {}, card |-> None]

HasContext(r) == req[r].ctx.by # None
Expired(r) == HasContext(r) /\ ~sessions[req[r].obj].fresh

Goes(r, st) == req' = [req EXCEPT ![r].st = st]
\* handle() returns or raises: async with releases the lock.  s is the session
\* as the handler leaves it.
Return(r, card, s) ==
    /\ req' = [req EXCEPT ![r].st = "done", ![r].card = card,
                          ![r].cand = {}, ![r].ans = Nothing,
                          ![r].ctx = Blank, ![r].stale = FALSE]
    /\ sessions' = [sessions EXCEPT ![req[r].obj] = [s EXCEPT !.holder = None]]
Leave(r, card) == Return(r, card, sessions[req[r].obj])
\* remember() and return.
Note(r, card, focus, pending) ==
    Return(r, card, Remembering(sessions[req[r].obj], r, focus, pending))
Forget(r, card) == Return(r, card, Unfocused(sessions[req[r].obj]))
\* An unavailable directory or model: clear() if the turn is still current.
GiveUp(r) ==
    Return(r, "unavailable", IF Current(r) THEN Wiped(sessions[req[r].obj])
                             ELSE sessions[req[r].obj])

(***************************************************************************)
(* HomeSessions and the lock                                                *)
(***************************************************************************)
Entries(tb) == {tb[k] : k \in Keys} \ {0}
\* get() first drops every session that is unlocked and past its ttl.
Swept ==
    {o \in Entries(table) : sessions[o].holder = None /\ sessions[o].cold}
Kept == [k \in Keys |-> IF table[k] \in Swept THEN 0 ELSE table[k]]
Retired ==
    [o \in Objects |->
       IF o \in Swept THEN [sessions[o] EXCEPT !.life = "evicted"]
       ELSE sessions[o]]
HasRoom == Cardinality(Entries(Kept)) < Capacity

\* Mutant: a free lock is taken although others are waiting for it.
MutLockIsFree(s) == s.holder = None
\* asyncio.Lock.acquire returns without waiting.
LockIsFree(s) == s.holder = None /\ s.queue = <<>>
\* The handler has the lock: revision += 1.
Taking(s, r) == [s EXCEPT !.holder = r, !.rev = r]

IsNext(r) == req[r].st = "new" /\ \A q \in 1..(r - 1) : req[q].st # "new"
\* The first command of a session creates it.
Open(r, sc) ==
    /\ IsNext(r)
    /\ Kept[sc.key] = 0 /\ HasRoom
    /\ \E n \in Objects :
         /\ sessions[n].life = "unused"
         /\ \A o \in Objects : o < n => sessions[o].life # "unused"
         /\ sessions' = [Retired EXCEPT ![n] =
                           Taking([Unused EXCEPT !.scope = sc,
                                                 !.life = "open"], r)]
         /\ table' = [Kept EXCEPT ![sc.key] = n]
         /\ req' = [req EXCEPT ![r].st = "authorize", ![r].obj = n]
    /\ UNCHANGED <<fallback, closed, home, events, wire, hub>>

\* A later one takes the lock or waits for it.
Join(r, sc) ==
    LET o == Kept[sc.key] IN
    /\ IsNext(r)
    /\ o # 0 /\ sessions[o].scope = sc /\ sessions[o].life = "open"
    /\ LET s == [sessions[o] EXCEPT !.cold = FALSE] IN
       \/ /\ LockIsFree(s)
          /\ sessions' = [Retired EXCEPT ![o] = Taking(s, r)]
          /\ req' = [req EXCEPT ![r].st = "authorize", ![r].obj = o]
       \/ /\ ~LockIsFree(s)
          /\ sessions' = [Retired EXCEPT ![o] =
                            [s EXCEPT !.queue = Append(@, r)]]
          /\ req' = [req EXCEPT ![r].st = "queued", ![r].obj = o]
    /\ table' = Kept
    /\ UNCHANGED <<fallback, closed, home, events, wire, hub>>

\* Capacity, another Companion's session, or a closed one: 409.  Only the last
\* counts as a use of the session.
Refuse(r, sc) ==
    LET o == Kept[sc.key] IN
    /\ IsNext(r)
    /\ \/ /\ o = 0 /\ ~HasRoom
          /\ sessions' = Retired
       \/ /\ o # 0 /\ sessions[o].scope # sc
          /\ sessions' = Retired
       \/ /\ o # 0 /\ sessions[o].scope = sc /\ sessions[o].life # "open"
          /\ sessions' = [Retired EXCEPT ![o].cold = FALSE]
    /\ req' = [req EXCEPT ![r].st = "done", ![r].card = "refused"]
    /\ table' = Kept
    /\ UNCHANGED <<fallback, closed, home, events, wire, hub>>

\* The first waiter runs: it gives up if the session was closed meanwhile.
Wake(o) ==
    LET s == sessions[o] IN
    /\ s.holder = None /\ s.queue # <<>>
    /\ LET r == Head(s.queue)
           left == [s EXCEPT !.queue = Tail(@)] IN
       \/ /\ s.life = "open"
          /\ sessions' = [sessions EXCEPT ![o] = Taking(left, r)]
          /\ Goes(r, "authorize")
       \/ /\ s.life # "open"
          /\ sessions' = [sessions EXCEPT ![o] = left]
          /\ req' = [req EXCEPT ![r].st = "done", ![r].card = "refused"]
    /\ UNCHANGED outside

\* The home changes, time passes, somebody ends a session.
Happens == events < MaxEvents /\ events' = events + 1

Ending(s) == [Wiped(s) EXCEPT !.life = "ended", !.cold = FALSE]
\* end_session: the object stays in the table as a tombstone.
EndSession(o) ==
    /\ Happens /\ o \in Entries(table)
    /\ sessions' = [sessions EXCEPT ![o] = Ending(@)]
    /\ UNCHANGED <<fallback, closed, home, table, req, wire, hub>>

\* close() at shutdown clears the table.  Nothing refuses a command that still
\* arrives: it opens a session anew.
Close ==
    /\ Happens /\ ~closed /\ closed' = TRUE
    /\ sessions' = [o \in Objects |->
                      IF o \in Entries(table)
                      THEN [Wiped(sessions[o]) EXCEPT !.life = "ended"]
                      ELSE sessions[o]]
    /\ table' = [k \in Keys |-> 0]
    /\ UNCHANGED <<fallback, home, req, wire, hub>>

\* 30 s after the last remember(), 120 s after the last use.  A command takes
\* far less than the 90 s between them, so the context goes first.
ContextExpires(o) ==
    /\ Happens /\ sessions[o].fresh
    /\ sessions' = [sessions EXCEPT ![o].fresh = FALSE]
    /\ UNCHANGED <<fallback, closed, home, table, req, wire, hub>>
SessionCools(o) ==
    /\ Happens /\ o \in Entries(table)
    /\ ~sessions[o].cold /\ ~sessions[o].fresh
    /\ sessions' = [sessions EXCEPT ![o].cold = TRUE]
    /\ UNCHANGED <<fallback, closed, home, table, req, wire, hub>>

(***************************************************************************)
(* SmartHomeCommand.handle up to the understanding                          *)
(***************************************************************************)
\* authorize() returned: the context is read, and wiped when it has expired.
Authorized(r) ==
    LET s == sessions[req[r].obj] IN
    /\ req[r].st = "authorize"
    /\ \/ ~Current(r) /\ Leave(r, "unavailable")
       \/ /\ Current(r) \* nothing was heard
          /\ Return(r, "unheard", IF s.fresh THEN s ELSE Wiped(s))
       \/ /\ Current(r) /\ s.fresh
          /\ req' = [req EXCEPT ![r].st = "snapshot", ![r].ctx = s.ctx]
          /\ UNCHANGED sessions
       \/ /\ Current(r) /\ ~s.fresh
          /\ Goes(r, "snapshot")
          /\ sessions' = [sessions EXCEPT ![req[r].obj] = Wiped(s)]
    /\ UNCHANGED outside
Denied(r) ==
    /\ req[r].st = "authorize"
    /\ Leave(r, "refused")
    /\ UNCHANGED outside

\* The registry becomes the candidates; an expired context is not handed on.
Snapshot(r) ==
    /\ req[r].st = "snapshot"
    /\ \/ ~Current(r) /\ Leave(r, "unavailable")
       \/ /\ Current(r)
          /\ req' = [req EXCEPT ![r].st = "primary", ![r].cand = home,
                                ![r].ctx = IF Expired(r) THEN Blank ELSE @]
          /\ UNCHANGED sessions
    /\ UNCHANGED outside
SnapshotFails(r) ==
    /\ req[r].st = "snapshot"
    /\ GiveUp(r)
    /\ UNCHANGED outside

\* Mutant: the focus of the previous turn survives a failed one.
MutDropped(r, card) == Leave(r, card)
\* context.clear(preserve_history=True), then a card and nothing remembered.
Dropped(r, card) == Forget(r, card)

\* What handle() does with what was understood, up to its next await.
Understood(r, u) ==
    \/ ~Current(r) /\ Leave(r, "unavailable")
    \/ /\ Current(r) /\ u.kind = "cancel"
       /\ Note(r, "answered", {}, FALSE)
    \/ /\ Current(r) /\ u.kind = "clarify"
       /\ u.action # None /\ Cardinality(u.targets) >= 2
       /\ req' = [req EXCEPT ![r].st = "offer", ![r].ans = u]
       /\ UNCHANGED sessions
    \/ /\ Current(r) /\ u.kind = "clarify"
       /\ u.action = None \/ Cardinality(u.targets) < 2
       /\ Note(r, "clarification", u.targets, TRUE)
    \/ /\ Current(r) /\ u.kind = "nothing"
       /\ Dropped(r, "failed")
    \/ /\ Current(r) /\ u.kind = "unrelated"
       /\ Note(r, "unrelated", {}, FALSE)
    \/ /\ Current(r) /\ u.kind \in {"control", "query"} /\ u.status = "none"
       /\ Dropped(r, "not_found")
    \/ /\ Current(r) /\ u.kind \in {"control", "query"} /\ u.status # "none"
       /\ req' = [req EXCEPT ![r].st = "recheck", ![r].ans = u,
                             ![r].stale = Expired(r)]
       /\ sessions' = [sessions EXCEPT ![req[r].obj] = Unfocused(@)]

\* validate_proposal: every target is a candidate of the request.
Valid(r, u) == u.targets \subseteq req[r].cand

\* The primary decides, confidently and before the context has expired.
PrimaryDecides(r, u) ==
    /\ req[r].st = "primary" /\ ~Expired(r)
    /\ u.kind \notin {"clarify", "nothing"} /\ Valid(r, u)
    /\ Understood(r, u)
    /\ UNCHANGED outside
\* It abstains, is unsure, errs or times out, and there is a fallback.
Escalate(r) ==
    /\ req[r].st = "primary" /\ fallback
    /\ req' = [req EXCEPT ![r].st = "fallback",
                          ![r].ctx = IF Expired(r) THEN Blank ELSE @]
    /\ UNCHANGED <<outside, sessions>>
\* There is none: abstaining is not understanding, an error is unavailability.
PrimaryAbstains(r) ==
    /\ req[r].st = "primary" /\ ~fallback
    /\ Understood(r, Nothing)
    /\ UNCHANGED outside
PrimaryFails(r) ==
    /\ req[r].st = "primary" /\ ~fallback
    /\ GiveUp(r)
    /\ UNCHANGED outside

\* LlmHomeFallback.propose: a singular reference needs a focus of one device,
\* unless it answers a question about several.
Referred(r, u) ==
    LET focus == req[r].ctx.focus IN
    IF r \notin Vague \/ u.kind \notin {"control", "query", "clarify"} THEN u
    ELSE IF focus = {} THEN Clarify({}, None)
    ELSE IF Cardinality(focus) > 1 /\ ~req[r].ctx.pending
    THEN Clarify(focus, u.action)
    ELSE u
\* _understand, after the fallback answered.
Timely(r, u) == IF Expired(r) THEN Clarify({}, None) ELSE u

FallbackAnswers(r, u) ==
    /\ req[r].st = "fallback"
    /\ \/ /\ Valid(r, u) /\ Valid(r, Referred(r, u))
          /\ Understood(r, Timely(r, Referred(r, u)))
       \/ /\ Valid(r, u) /\ ~Valid(r, Referred(r, u))
          /\ GiveUp(r)
    /\ UNCHANGED outside
\* It errs, times out or leaves the candidates.
FallbackFails(r) ==
    /\ req[r].st = "fallback"
    /\ GiveUp(r)
    /\ UNCHANGED outside

(***************************************************************************)
(* SmartHomeCommand.handle from the understanding to the plan               *)
(***************************************************************************)
Accepts(d, a, verdict) == a \in Actions /\ Verdict[d, a] = verdict
\* The targets that device_command accepts in the registry of now.
Able(targets, a) ==
    {d \in targets \intersect Devices \intersect home : Accepts(d, a, "ok")}
Offered(targets, a) == Cardinality(Able(targets, a)) \in 2..MaxCandidates

\* A question with a complete action becomes a choice of devices.
Offer(r) ==
    LET u == req[r].ans IN
    /\ req[r].st = "offer"
    /\ \/ ~Current(r) /\ Leave(r, "unavailable")
       \/ /\ Current(r) /\ Offered(u.targets, u.action)
          /\ Note(r, "ambiguous", Able(u.targets, u.action), TRUE)
       \/ /\ Current(r) /\ ~Offered(u.targets, u.action)
          /\ Note(r, "clarification", u.targets, TRUE)
    /\ UNCHANGED outside

\* _bounded, and the refusal of a plan that would run in part.
TooMixed(targets, a) ==
    LET able == Able(targets, a) IN
    \/ Cardinality(able) > MaxCommands
    \/ able # targets /\ Cardinality(targets) > 1
    \/ \E d \in targets : Accepts(d, a, "range")

Submit(r, plan) ==
    /\ req' = [req EXCEPT ![r].st = "execute", ![r].plan = plan,
                          ![r].cand = {}, ![r].ans = Nothing]
    /\ wire' = [wire EXCEPT ![r] = "sent"]
    /\ UNCHANGED sessions

Silent == UNCHANGED wire
\* plan_action and what follows it.
Plan(r, targets, a) ==
    \/ /\ a = SceneAction /\ Cardinality(targets) = 1 /\ targets \subseteq Scenes
       /\ Submit(r, targets)
    \/ /\ a = SceneAction
       /\ Cardinality(targets) # 1 \/ ~(targets \subseteq Scenes)
       /\ Leave(r, "failed") /\ Silent
    \/ /\ a # SceneAction /\ ~(targets \subseteq Devices)
       /\ Leave(r, "failed") /\ Silent
    \/ /\ a # SceneAction /\ targets \subseteq Devices /\ TooMixed(targets, a)
       /\ Note(r, "clarification", targets, TRUE) /\ Silent
    \/ /\ a # SceneAction /\ targets \subseteq Devices /\ ~TooMixed(targets, a)
       /\ IF Able(targets, a) = {} THEN Leave(r, "failed") /\ Silent
          ELSE Submit(r, Able(targets, a))

\* is_current() before the plan is made and submitted.
Acts(r) == Current(r)

\* The proposal meets the registry of now.
Recheck(r) ==
    LET u == req[r].ans
        able == Able(u.targets, u.action) IN
    /\ req[r].st = "recheck"
    /\ \/ /\ ~(u.targets \subseteq home)
          /\ Leave(r, "not_found") /\ Silent
       \/ /\ u.targets \subseteq home /\ ~Acts(r)
          /\ Leave(r, "unavailable") /\ Silent
       \/ /\ u.targets \subseteq home /\ Acts(r)
          /\ \/ /\ u.kind = "query" /\ u.targets \intersect Devices = {}
                /\ Leave(r, "failed") /\ Silent
             \/ /\ u.kind = "query" /\ u.targets \intersect Devices # {}
                /\ Note(r, "answered", u.targets, FALSE) /\ Silent
             \/ /\ u.kind = "control" /\ u.status = "resolved"
                /\ Plan(r, u.targets, u.action)
             \/ /\ u.kind = "control" /\ u.status = "ambiguous"
                /\ Cardinality(able) = 1
                /\ Plan(r, able, u.action)
             \/ /\ u.kind = "control" /\ u.status = "ambiguous"
                /\ Offered(u.targets, u.action)
                /\ Note(r, "ambiguous", able, TRUE) /\ Silent
             \/ /\ u.kind = "control" /\ u.status = "ambiguous"
                /\ Cardinality(able) \notin 1..MaxCandidates
                /\ Leave(r, "failed") /\ Silent
    /\ UNCHANGED <<fallback, closed, home, events, table, hub>>
\* The directory cannot be read: the context is left as it is.
DirectoryFails(r) ==
    /\ req[r].st \in {"offer", "recheck"}
    /\ Leave(r, "unavailable")
    /\ UNCHANGED outside

(***************************************************************************)
(* The home and the Hub (external), and HomeActuator.execute                *)
(***************************************************************************)
\* A device or scene is added to or removed from the registry.
HomeChanges(x) ==
    /\ Happens
    /\ home' = IF x \in home THEN home \ {x} ELSE home \union {x}
    /\ UNCHANGED <<fallback, closed, table, sessions, req, wire, hub>>

\* request_id("voice", turn_id)
RequestId(r) == Turn[r]
Answers(r) == {h \in hub : h.id = RequestId(r)}
\* The devices a plan touches: those the Runtime expands a scene to.
Touched(plan) == (plan \intersect Devices)
                 \union UNION {Stored[x] : x \in plan \intersect Scenes}

\* What the Hub answers to a handler that has given up is not modelled.
ToHub(r, st) == wire' = [wire EXCEPT ![r] = st]
HubRuns(r) ==
    /\ wire[r] = "sent" /\ Answers(r) = {}
    /\ LET devs == IF req[r].plan \intersect Scenes \subseteq home
                   THEN Touched(req[r].plan) ELSE {} IN
       \E res \in [devs -> BOOLEAN] : \* succeeded or delegated
         /\ \A d \in devs : res[d] => d \in home
         /\ hub' = hub \union {[id |-> RequestId(r), for |-> r,
                                plan |-> req[r].plan, res |-> res]}
    /\ ToHub(r, "answered")
    /\ UNCHANGED <<fallback, closed, home, events, table, sessions, req>>
HubRepeats(r) ==
    /\ req[r].st = "execute"
    /\ wire[r] \in {"sent", "late"} /\ Answers(r) # {}
    /\ ToHub(r, "answered")
    /\ UNCHANGED <<fallback, closed, home, events, table, sessions, req, hub>>
DeadlinePasses(r) ==
    /\ wire[r] = "sent"
    /\ ToHub(r, "late")
    /\ UNCHANGED <<fallback, closed, home, events, table, sessions, req, hub>>
HubDeclines(r) ==
    /\ req[r].st = "execute" /\ wire[r] = "late" /\ Answers(r) = {}
    /\ ToHub(r, "declined")
    /\ UNCHANGED <<fallback, closed, home, events, table, sessions, req, hub>>

\* Mutant: results that do not line up with the commands are read anyway.
MutAligned(plan, res) == TRUE
\* validate_execute_result; a scene's results are not compared with anything.
Aligned(plan, res) == plan \subseteq Scenes \/ DOMAIN res = plan
\* summarize, over the devices of the plan or, for a scene, of the result.
Completion(plan, res) ==
    LET of == IF plan \subseteq Devices THEN plan ELSE DOMAIN res
        done == {d \in of \intersect DOMAIN res : res[d]} IN
    IF done = {} \/ ~Aligned(plan, res) THEN "failed"
    ELSE IF done = of THEN "executed" ELSE "partial"

Remembers(r, card) == card = "executed" /\ Current(r)
Receive(r) ==
    /\ req[r].st = "execute" /\ wire[r] = "answered"
    /\ \E h \in Answers(r) :
         LET card == Completion(req[r].plan, h.res) IN
         \/ Remembers(r, card) /\ Note(r, card, req[r].plan, FALSE)
         \/ ~Remembers(r, card) /\ Leave(r, card)
    /\ UNCHANGED outside
\* result.error: the Hub ran nothing.
Declined(r) ==
    /\ req[r].st = "execute" /\ wire[r] = "declined"
    /\ Leave(r, "failed")
    /\ UNCHANGED outside
\* httpx.ConnectError: the request never left.
NotConnected(r) ==
    /\ req[r].st = "execute" /\ wire[r] = "sent"
    /\ Leave(r, "unavailable")
    /\ ToHub(r, "none")
    /\ UNCHANGED <<fallback, closed, home, events, table, hub>>
\* Every outcome is UNKNOWN.
Unconfirmed == "failed"
\* Any other transport error, a reply that does not validate, or no reply by
\* the deadline; the request itself may still reach the Hub.
NoReply(r) ==
    /\ req[r].st = "execute"
    /\ Leave(r, Unconfirmed)
    /\ UNCHANGED outside

(***************************************************************************)
(* Specification                                                            *)
(***************************************************************************)
Init ==
    /\ fallback \in BOOLEAN /\ closed = FALSE
    /\ home = Refs /\ events = 0
    /\ table = [k \in Keys |-> 0]
    /\ sessions = [o \in Objects |-> Unused]
    /\ req = [r \in Requests |-> Unsent]
    /\ wire = [r \in Requests |-> "none"]
    /\ hub = {}

\* The handler of r takes its next step.
Advance(r) ==
    \/ Authorized(r) \/ Denied(r) \/ Snapshot(r) \/ SnapshotFails(r)
    \/ Escalate(r) \/ PrimaryAbstains(r) \/ PrimaryFails(r)
    \/ FallbackFails(r)
    \/ \E u \in Understandings[r] : PrimaryDecides(r, u)
    \/ \E u \in Understandings[r] \union {Nothing} : FallbackAnswers(r, u)
    \/ Offer(r) \/ Recheck(r) \/ DirectoryFails(r)
    \/ Receive(r) \/ Declined(r) \/ NotConnected(r) \/ NoReply(r)
Arrive(r) == \E sc \in Scopes[r] : Open(r, sc) \/ Join(r, sc) \/ Refuse(r, sc)
Runtime(r) ==
    HubRuns(r) \/ HubRepeats(r) \/ DeadlinePasses(r) \/ HubDeclines(r)

Next ==
    \/ \E r \in Requests : Arrive(r) \/ Advance(r) \/ Runtime(r)
    \/ \E o \in Objects : Wake(o) \/ EndSession(o) \/ ContextExpires(o)
                          \/ SessionCools(o)
    \/ \E x \in Movable : HomeChanges(x)
    \/ Close

Spec == Init /\ [][Next]_vars

(***************************************************************************)
(* Properties                                                               *)
(***************************************************************************)
TypeOK ==
    /\ fallback \in BOOLEAN /\ closed \in BOOLEAN
    /\ home \subseteq Refs /\ events \in 0..MaxEvents
    /\ table \in [Keys -> Objects \union {0}]
    /\ sessions \in [Objects -> SessionType]
    /\ req \in [Requests -> RequestType]
    /\ wire \in [Requests ->
                   {"none", "sent", "late", "answered", "declined"}]
    /\ \A h \in hub : h.for \in Requests /\ h.plan \subseteq Refs
    /\ Cardinality(Entries(table)) <= Capacity

Submits(r) == wire[r] = "none" /\ wire'[r] = "sent"
\* handle() and is_current(), "FIFO per session": a plan is submitted only from
\* inside the lock and while the session is open, whatever ended, closed or
\* evicted it during the awaits before, and of two commands of one session the
\* one that came first is never submitted second.
InOrder ==
    [][\A r \in Requests : Submits(r) =>
         LET s == sessions[req[r].obj]
             later == {q \in Requests : r < q /\ req[q].obj = req[r].obj}
         IN /\ s.life = "open" /\ s.holder = r
            /\ \A q \in later : req[q].plan = {}]_vars

\* HubSmartHomeClient.execute, summarize: a card says what happened.  One that
\* does not speak of an execution is a promise that this command ran nothing,
\* now or later; "executed" means that the Hub confirmed every device of the
\* plan, of this very plan unless an earlier submission of the turn was
\* understood otherwise.
TruthfulCard ==
    /\ \A r \in Requests :
         req[r].card \in Cards \ {"executed", "partial", "failed"} =>
           \A h \in hub : h.for # r
    /\ \A r \in Requests : req[r].card = "executed" =>
         \E h \in hub :
           /\ Turn[h.for] = Turn[r] /\ DOMAIN h.res # {}
           /\ \A d \in DOMAIN h.res : h.res[d]
           /\ h.for = r => h.plan = req[r].plan
           /\ req[r].plan \subseteq Devices => DOMAIN h.res = req[r].plan

\* _understand, HomeContext.clear and remember: a command that acts with the
\* help of a context had a live one when the model answered, and has it from
\* the turn before it (turns between the two were refused, not heard or found
\* the home or the models unavailable); an ended session keeps nothing of what
\* was said, also when a command was still executing.
FocusIsPrevious ==
    /\ \A r \in Requests : req[r].st = "execute" /\ HasContext(r) =>
         /\ ~req[r].stale
         /\ \A q \in Requests :
              (/\ req[q].obj = req[r].obj /\ req[q].st = "done"
               /\ req[r].ctx.by < q /\ q < r)
              => req[q].card \in {"refused", "unheard", "unavailable"}
    /\ \A o \in Objects : sessions[o].life = "ended" =>
         sessions[o].ctx = Blank /\ sessions[o].history = 0
=============================================================================
