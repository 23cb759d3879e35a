--------------------------- MODULE RuntimeAccess ---------------------------
(***************************************************************************)
(* Who may run a turn as whom.  The interceptor verifies a credential when *)
(* an RPC opens; RuntimeSessionAuthorizer turns it into a scope with two   *)
(* reads of the System Data authority; the Chat servicer repeats both      *)
(* before every turn of a personal stream; AgentRegistry hands out the one *)
(* runtime of the pinned genome.  Meanwhile the owner revokes credentials  *)
(* (one key after the other) and the authority's facts change.             *)
(*                                                                         *)
(* One owner, one companion, one person.  Time is counted in revocations:  *)
(* a credential is as old as the last one before it was issued, or as the  *)
(* one before that if it was issued in the same second, because iat counts *)
(* whole seconds.  Verifier and authority are external services.           *)
(***************************************************************************)
EXTENDS Integers, FiniteSets

CONSTANTS
    Streams,         \* Chat RPCs
    RevocationKeys,  \* number of keys owner_revocation_keys gives
    MaxRevocations,  \* bound: revocations
    MaxChanges,      \* bound: changes of the authority's facts
    MaxRuntimes      \* bound: runtimes the registry creates

ASSUME AccessBounds ==
    /\ RevocationKeys \in Nat \ {0} /\ MaxRevocations \in Nat
    /\ MaxChanges \in Nat /\ MaxRuntimes \in Nat

NoStream == "no stream"

ASSUME StreamsAssumption == NoStream \notin Streams

VARIABLES
    watermarks, \* DEVICE_REVOCATIONS: the instant of each key, 0 for no entry
    revoking,   \* the instant of the last revocation; its next key, 0 when done
    authority,  \* System Data: the person's binding, the genome, availability
    registry,   \* AgentRegistry._instances, by genome; 0 for none
    created,    \* runtimes created
    registryLock, \* the stream that holds AgentRegistry._lock, or NoStream
    streams     \* the Chat RPCs

accessVars == <<watermarks, revoking, authority, registry, created,
                registryLock, streams>>

Genomes == 1..2
Changes == 0..MaxChanges

\* A binding names the person's realm by the revision it belongs to.
Bound(facts) == [rev |-> facts.rev, rights |-> facts.rights]
Binding == Bound(authority)

Anonymous == [rev |-> -1, rights |-> {}]

\* device: no person; shared: a session several people use, whose credential
\* names the person recognised last; provisional: the same with the person's
\* provisional memory; broken: claims that do not fit together.
Kinds == {"device", "personal", "shared", "provisional", "broken"}

NoGrant == [memory |-> "none", binding |-> Anonymous]

NewStream == [pc |-> "new", kind |-> "device", iat |-> 0, rev |-> 0, opening |-> TRUE,
              genome |-> 0, scope |-> Anonymous, found |-> Anonymous,
              run |-> 0, grant |-> NoGrant, seen |-> {}, valid |-> FALSE]

ShutStream == [NewStream EXCEPT !.pc = "closed"]

AccessInit ==
    /\ watermarks = [k \in 1..RevocationKeys |-> 0]
    /\ revoking = [key |-> 0, at |-> 0]
    /\ authority = [rev |-> 0, genome |-> 1, rights |-> {"save", "recall"}, changes |-> 0]
    /\ registry = [g \in Genomes |-> 0]
    /\ created = 0
    /\ registryLock = NoStream
    /\ streams = [s \in Streams |-> NewStream]

(***************************************************************************)
(* The owner's side.                                                       *)
(***************************************************************************)
\* revoke_owner_sessions, and the first half of delete_owner_data: one
\* instant, written under every key.
Revoke ==
    /\ revoking.key = 0 /\ revoking.at < MaxRevocations
    /\ revoking' = [key |-> 1, at |-> revoking.at + 1]
    /\ UNCHANGED <<watermarks, authority, registry, created, registryLock, streams>>

RevokeKey ==
    /\ revoking.key # 0
    /\ watermarks' = [watermarks EXCEPT ![revoking.key] = revoking.at]
    /\ revoking' = [revoking EXCEPT !.key = (@ + 1) % (RevocationKeys + 1)]
    /\ UNCHANGED <<authority, registry, created, registryLock, streams>>

\* A put fails: the request ends with an error, the keys written stay.
RevokeFails ==
    /\ revoking.key # 0
    /\ revoking' = [revoking EXCEPT !.key = 0]
    /\ UNCHANGED <<watermarks, authority, registry, created, registryLock, streams>>

\* The person's record, the policy of a provisional realm or the committed
\* genome changes.  Streams that handle a start frame may see both states.
Notice(facts) ==
    [s \in Streams |->
        IF streams[s].opening \/ streams[s].pc = "open" THEN streams[s]
        ELSE [streams[s] EXCEPT !.seen = @ \union {Bound(facts)}]]

AuthorityChanges(facts) ==
    /\ authority.changes < MaxChanges
    /\ authority' = [facts EXCEPT !.changes = authority.changes + 1]
    /\ streams' = Notice(facts)
    /\ UNCHANGED <<watermarks, revoking, registry, created, registryLock>>

NewFacts ==
    {[authority EXCEPT !.rev = @ + 1], [authority EXCEPT !.genome = 3 - @]}
    \union {[authority EXCEPT !.rights = r] : r \in SUBSET {"save", "recall"} \ {authority.rights}}

(***************************************************************************)
(* Opening an RPC and starting a turn.                                     *)
(***************************************************************************)
\* RuntimeTokenVerifier.verify
Refused(iat) == \E k \in 1..RevocationKeys : watermarks[k] > iat

Named(kind) == kind # "device"

\* AuthInterceptor: a credential issued earlier, for the revision of then.
Open(s, kind, iat, rev) ==
    /\ streams[s].pc = "new"
    /\ iat <= revoking.at /\ rev <= authority.rev
    /\ streams' = [streams EXCEPT ![s] =
          IF Refused(iat) THEN ShutStream
          ELSE [@ EXCEPT !.pc = "resolve", !.kind = kind, !.iat = iat, !.rev = rev]]
    /\ UNCHANGED <<watermarks, revoking, authority, registry, created, registryLock>>

\* Mutant: the credential checked at the opening is trusted.
MutStartFrame(s) ==
    /\ streams[s].pc = "open"
    /\ streams' = [streams EXCEPT ![s] =
          [@ EXCEPT !.pc = "prepare", !.run = 0, !.grant = NoGrant,
                    !.seen = {Binding}, !.valid = ~Refused(streams[s].iat)]]
    /\ UNCHANGED <<watermarks, revoking, authority, registry, created, registryLock>>
\* A start frame.  Only a stream that names a person checks again.
StartFrame(s) ==
    /\ streams[s].pc = "open"
    /\ streams' = [streams EXCEPT ![s] =
          [@ EXCEPT !.pc = IF Named(streams[s].kind) THEN "verify" ELSE "prepare",
                    !.run = 0, !.grant = NoGrant, !.seen = {Binding}, !.valid = FALSE]]
    /\ UNCHANGED <<watermarks, revoking, authority, registry, created, registryLock>>

\* reauthenticate_current; a refusal ends the RPC and cancels its turn.
Reauthenticate(s) ==
    /\ streams[s].pc = "verify"
    /\ streams' = [streams EXCEPT ![s] =
          IF Refused(@.iat) THEN ShutStream ELSE [@ EXCEPT !.pc = "resolve", !.valid = TRUE]]
    /\ UNCHANGED <<watermarks, revoking, authority, registry, created, registryLock>>

\* authorize(): claims that do not fit together are refused before any read;
\* then the companion's facts, then the person's memory.
Resolve(s) ==
    /\ streams[s].pc = "resolve"
    /\ streams' = [streams EXCEPT ![s] =
          LET stream == @ IN
          IF stream.kind = "broken" THEN ShutStream
          ELSE [stream EXCEPT !.genome = IF stream.opening THEN authority.genome ELSE @,
                              !.found = Anonymous,
                              !.pc = IF Named(stream.kind) THEN "memory" ELSE "compare"]]
    /\ UNCHANGED <<watermarks, revoking, authority, registry, created, registryLock>>

\* resolve_person_memory and resolve_provisional_memory
MemoryGranted(stream) ==
    /\ stream.rev = authority.rev
    /\ stream.kind = "provisional" => authority.rights # {}

ResolveMemory(s) ==
    /\ streams[s].pc = "memory"
    /\ streams' = [streams EXCEPT ![s] =
          IF ~MemoryGranted(@) THEN ShutStream
          ELSE [@ EXCEPT !.pc = "compare",
                  !.found = IF streams[s].kind = "provisional" THEN Binding
                            ELSE [Binding EXCEPT !.rights = {}]]]
    /\ UNCHANGED <<watermarks, revoking, authority, registry, created, registryLock>>

\* The authority does not answer, or has no such companion or person.
ResolveFails(s) ==
    /\ streams[s].pc \in {"verify", "resolve", "memory"}
    /\ streams' = [streams EXCEPT ![s] = ShutStream]
    /\ UNCHANGED <<watermarks, revoking, authority, registry, created, registryLock>>

\* The first scope opens the stream; a later one must be the same.
Compare(s) ==
    /\ streams[s].pc = "compare"
    /\ streams' = [streams EXCEPT ![s] =
          IF @.opening THEN [@ EXCEPT !.pc = "open", !.opening = FALSE,
                                      !.scope = streams[s].found]
          ELSE IF @.found # @.scope THEN ShutStream
          ELSE [@ EXCEPT !.pc = "prepare"]]
    /\ UNCHANGED <<watermarks, revoking, authority, registry, created, registryLock>>

(***************************************************************************)
(* AcceptReply.prepare and AgentRegistry.resolve_runtime.                  *)
(***************************************************************************)
\* On a shared session only a speaker identified in this very utterance gets
\* the credential's memory.
GrantOf(stream, identified) ==
    IF ~Named(stream.kind) \/ (stream.kind # "personal" /\ ~identified) THEN NoGrant
    ELSE [memory |-> IF stream.kind = "provisional" THEN "provisional" ELSE "personal",
          binding |-> stream.scope]

RunTurn(s, agent, identified) ==
    streams' = [streams EXCEPT ![s] =
        [@ EXCEPT !.pc = "open", !.run = agent, !.grant = GrantOf(streams[s], identified)]]

\* The lookup without the lock, and the second one with it.
ResolveRuntime(s, identified) ==
    /\ streams[s].pc = "prepare"
    /\ LET agent == registry[streams[s].genome] IN
       IF agent # 0 THEN RunTurn(s, agent, identified)
       ELSE streams' = [streams EXCEPT ![s].pc = "lock"]
    /\ UNCHANGED <<watermarks, revoking, authority, registry, created, registryLock>>

\* Mutant: the registry is not looked up again under the lock.
MutTakeLock(s, identified) ==
    /\ streams[s].pc = "lock" /\ registryLock = NoStream
    /\ registryLock' = s
    /\ streams' = [streams EXCEPT ![s].pc = "create"]
    /\ UNCHANGED <<watermarks, revoking, authority, registry, created>>
TakeLock(s, identified) ==
    /\ streams[s].pc = "lock" /\ registryLock = NoStream
    /\ LET agent == registry[streams[s].genome] IN
       IF agent # 0
       THEN RunTurn(s, agent, identified) /\ UNCHANGED registryLock
       ELSE /\ registryLock' = s
            /\ streams' = [streams EXCEPT ![s].pc = "create"]
    /\ UNCHANGED <<watermarks, revoking, authority, registry, created>>

Create(s, identified) ==
    /\ streams[s].pc = "create" /\ created < MaxRuntimes
    /\ created' = created + 1
    /\ registry' = [registry EXCEPT ![streams[s].genome] = created + 1]
    /\ registryLock' = NoStream
    /\ RunTurn(s, created + 1, identified)
    /\ UNCHANGED <<watermarks, revoking, authority>>

\* The factory raises, or the client leaves while it works.
CreateFails(s) ==
    /\ streams[s].pc = "create"
    /\ registryLock' = NoStream
    /\ streams' = [streams EXCEPT ![s] = ShutStream]
    /\ UNCHANGED <<watermarks, revoking, authority, registry, created>>

AccessNext ==
    \/ Revoke \/ RevokeKey \/ RevokeFails
    \/ \E facts \in NewFacts : AuthorityChanges(facts)
    \/ \E s \in Streams :
        \/ \E kind \in Kinds, iat \in 0..MaxRevocations, rev \in Changes : Open(s, kind, iat, rev)
        \/ StartFrame(s) \/ Reauthenticate(s) \/ Resolve(s) \/ ResolveMemory(s)
        \/ ResolveFails(s) \/ Compare(s)
        \/ \E identified \in BOOLEAN : \/ ResolveRuntime(s, identified)
                                       \/ TakeLock(s, identified)
                                       \/ Create(s, identified)
        \/ CreateFails(s)

AccessSpec == AccessInit /\ [][AccessNext]_accessVars

(***************************************************************************)
(* Properties.                                                             *)
(***************************************************************************)
\* A turn with someone's memory was admitted on facts no older than its own
\* start frame: between the frame and the turn the credential was valid, and
\* the realm, the revision and the provisional rights it runs with were the
\* person's, however the owner's revocations and the authority's changes fall
\* between the servicer's reads.
GrantIsFresh ==
    \A s \in Streams :
        LET stream == streams[s] IN
        stream.run # 0 /\ stream.grant # NoGrant =>
            /\ stream.valid
            /\ \E b \in stream.seen :
                  /\ b.rev = stream.grant.binding.rev
                  /\ stream.grant.memory = "provisional" => b = stream.grant.binding
            /\ stream.grant.binding.rev = stream.rev

\* Every turn of one genome runs on the one runtime the registry lists, also
\* when several streams ask for it before it exists.
OneRuntimePerGenome ==
    \A s \in Streams : streams[s].run # 0 => registry[streams[s].genome] = streams[s].run
=============================================================================
