--------------------------- MODULE Services_proofs ---------------------------
(***************************************************************************)
(* Proofs about the parts that work behind the turns, each about one of     *)
(* six specifications: the admission of streams (RuntimeAccess), the audit  *)
(* outbox, the live-turn board, start-up and shutdown (Lifecycle), the      *)
(* session pools of the memory client, and the memory-turn outbox, which    *)
(* implements the feed of RealmFeed.  They share no state.                  *)
(***************************************************************************)
EXTENDS RuntimeAccess, AuditOutbox, LiveTurns, Lifecycle, MemoryClient, MemoryOutbox,
        NumberLemmas

(***************************************************************************)
(* RuntimeAccess: types.                                                    *)
(***************************************************************************)
Rights == {"save", "recall"}
BindingType == [rev : Int, rights : SUBSET Rights]
Pcs == {"new", "resolve", "memory", "compare", "open", "verify", "prepare",
        "lock", "create", "closed"}
GrantType == [memory : {"none", "personal", "provisional"}, binding : BindingType]
StreamType ==
    [pc : Pcs, kind : Kinds, iat : Nat, rev : Int, opening : BOOLEAN,
     genome : Int, scope : BindingType, found : BindingType, run : Int,
     grant : GrantType,
     seen : SUBSET BindingType, valid : BOOLEAN]

AccessTyped ==
    /\ authority \in [rev : Int, genome : Genomes, rights : SUBSET Rights, changes : Int]
    /\ registry \in [Genomes -> Nat]
    /\ created \in Nat
    /\ streams \in [Streams -> StreamType]

(***************************************************************************)
(* The invariant, as facts about one stream x.                              *)
(***************************************************************************)
\* The steps of a start frame, from its check to its runtime.
Handling(x) == ~x.opening /\ x.pc \in {"verify", "resolve", "memory", "compare",
                                       "prepare", "lock", "create"}

\* A stream that has its scope has the genome that was pinned with it; before
\* that it runs nothing and is not handling a frame.
PinnedGenome(x) ==
    /\ ~x.opening => x.genome \in Genomes
    /\ x.pc \in {"memory", "compare"} => x.genome \in Genomes
    /\ x.pc = "new" => x.opening
    /\ x.opening => x.run = 0 /\ x.pc \in {"new", "resolve", "memory", "compare", "closed"}

\* A binding that was the person's between the frame and now.
WasTheirs(x, b) ==
    /\ b.rev = x.rev
    /\ \E c \in x.seen : c.rev = b.rev /\ (x.kind = "provisional" => c = b)

\* What the reads of a start frame have established so far.
FrameIsChecked(x) ==
    Named(x.kind) =>
        /\ ~x.opening => x.scope.rev = x.rev
        /\ x.pc = "compare" => x.found.rev = x.rev
        /\ Handling(x) /\ x.pc # "verify" => x.valid
        /\ Handling(x) /\ x.pc = "compare" => WasTheirs(x, x.found)
        /\ Handling(x) /\ x.pc \in {"prepare", "lock", "create"} => WasTheirs(x, x.scope)

GrantIsTheirs(x) ==
    x.run # 0 /\ x.grant # NoGrant =>
        /\ x.valid /\ WasTheirs(x, x.grant.binding)
        /\ x.grant.memory = "provisional" => x.kind = "provisional"

\* A stream that handles a frame has noticed the facts of now.
Notices(x) == Handling(x) => Binding \in x.seen

\* Only the holder of the registry lock creates, and only what is not there.
CreatesAlone(s) ==
    streams[s].pc = "create" => /\ registryLock = s
                                /\ registry[streams[s].genome] = 0

StreamInv(x) == PinnedGenome(x) /\ FrameIsChecked(x) /\ GrantIsTheirs(x)

RunIsListed(x) == x.run # 0 => registry[x.genome] = x.run

AccessInv ==
    /\ AccessTyped
    /\ \A s \in Streams : /\ StreamInv(streams[s]) /\ Notices(streams[s])
                          /\ RunIsListed(streams[s]) /\ CreatesAlone(s)

LEMMA NewIsTyped == NewStream \in StreamType /\ ShutStream \in StreamType
<1>1. NoGrant \in GrantType
  BY DEF NoGrant, Anonymous, BindingType, GrantType
<1>2. Anonymous \in BindingType
  BY DEF Anonymous, BindingType
<1>3. NewStream \in StreamType
  BY <1>1, <1>2 DEF NewStream, StreamType, Pcs, Kinds
<1>4. [NewStream EXCEPT !.pc = "closed"] \in StreamType
  BY <1>3 DEF StreamType, Pcs
<1> QED BY <1>3, <1>4 DEF ShutStream

\* A closed stream, or a new one, promises nothing.
LEMMA ShutIsGood ==
    /\ StreamInv(ShutStream) /\ Notices(ShutStream)' /\ RunIsListed(ShutStream)'
    /\ ShutStream.pc = "closed"
    /\ StreamInv(NewStream) /\ Notices(NewStream) /\ RunIsListed(NewStream)
    /\ NewStream.pc = "new"
BY DEF StreamInv, PinnedGenome, FrameIsChecked, GrantIsTheirs, Notices, RunIsListed,
       NewStream, ShutStream, Handling, Named, WasTheirs

LEMMA AccessInitInv == AccessInit => AccessInv
<1> SUFFICES ASSUME AccessInit PROVE AccessInv
  OBVIOUS
<1>1. AccessTyped
  BY NewIsTyped DEF AccessInit, AccessTyped, Genomes, Rights
<1>2. \A s \in Streams : streams[s] = NewStream
  BY DEF AccessInit
<1>3. StreamInv(NewStream) /\ Notices(NewStream) /\ RunIsListed(NewStream)
  BY ShutIsGood
<1> QED BY <1>1, <1>2, <1>3, ShutIsGood DEF AccessInv, CreatesAlone

\* A step that moves one stream from one good state to another, and leaves the
\* others and what they rely on alone.
LEMMA MoveOne ==
    ASSUME AccessInv, NEW s \in Streams, NEW x \in StreamType,
           streams' = [streams EXCEPT ![s] = x], UNCHANGED authority,
           registry' \in [Genomes -> Nat], created' \in Nat,
           StreamInv(x), Notices(x), x.run # 0 => registry'[x.genome] = x.run,
           x.pc = "create" => registryLock' = s /\ registry'[x.genome] = 0,
           \A t \in Streams \ {s} :
              /\ streams[t].run # 0 => registry'[streams[t].genome] = streams[t].run
              /\ streams[t].pc = "create" => /\ registryLock' = t
                                             /\ registry'[streams[t].genome] = 0
    PROVE  AccessInv'
<1>1. AccessTyped'
  BY DEF AccessInv, AccessTyped
<1>2. ASSUME NEW t \in Streams
      PROVE  StreamInv(streams'[t]) /\ Notices(streams'[t]) /\ RunIsListed(streams[t])'
             /\ CreatesAlone(t)'
  <2>1. CASE t = s
    <3>1. streams'[t] = x
      BY <2>1 DEF AccessInv, AccessTyped
    <3> QED BY <2>1, <3>1 DEF RunIsListed, CreatesAlone
  <2>2. CASE t # s
    <3>1. streams'[t] = streams[t]
      BY <2>2 DEF AccessInv, AccessTyped
    <3> QED BY <2>2, <3>1 DEF RunIsListed, CreatesAlone, AccessInv
  <2> QED BY <2>1, <2>2
<1>3. \A t \in Streams : Notices(streams'[t]) => Notices(streams[t])'
  BY DEF Notices, Binding, Bound
<1>4. \A t \in Streams : StreamInv(streams'[t]) => StreamInv(streams[t])'
  OBVIOUS
<1> QED BY <1>1, <1>2, <1>3, <1>4 DEF AccessInv

\* The same when registry and lock are not touched and the stream does not
\* come to create.
LEMMA MoveQuietly ==
    ASSUME AccessInv, NEW s \in Streams, NEW x \in StreamType,
           streams' = [streams EXCEPT ![s] = x],
           UNCHANGED <<authority, registry, created, registryLock>>,
           StreamInv(x), Notices(x), RunIsListed(x), x.pc # "create"
    PROVE  AccessInv'
BY MoveOne DEF AccessInv, AccessTyped, RunIsListed, CreatesAlone

LEMMA Shuts ==
    ASSUME AccessInv, NEW s \in Streams, streams' = [streams EXCEPT ![s] = ShutStream],
           UNCHANGED <<authority, registry, created, registryLock>>
    PROVE  AccessInv'
<1>1. Notices(ShutStream) /\ RunIsListed(ShutStream)
  BY DEF Notices, RunIsListed, ShutStream, NewStream, Handling
<1> QED BY <1>1, ShutIsGood, NewIsTyped, MoveQuietly

(***************************************************************************)
(* One lemma per kind of step of a stream.                                  *)
(***************************************************************************)
LEMMA OpenStep ==
    ASSUME AccessInv, NEW s \in Streams, NEW kind \in Kinds, NEW iat \in 0..MaxRevocations,
           NEW rev \in Changes, Open(s, kind, iat, rev)
    PROVE  AccessInv'
<1> DEFINE y == streams[s]
           x == [y EXCEPT !.pc = "resolve", !.kind = kind, !.iat = iat, !.rev = rev]
<1>y. y \in StreamType /\ StreamInv(y) /\ RunIsListed(y) /\ y.pc = "new"
  BY DEF AccessInv, AccessTyped, Open
<1>1. CASE Refused(iat)
  BY <1>1, Shuts DEF Open
<1>2. CASE ~Refused(iat)
  <2>1. streams' = [streams EXCEPT ![s] = x]
    BY <1>2 DEF Open
  <2>i. iat \in Nat /\ rev \in Int
    BY AccessBounds DEF Changes
  <2>2. x \in StreamType
    BY <1>y, <2>i DEF StreamType, Pcs
  <2>3. y.opening /\ y.run = 0
    BY <1>y DEF StreamInv, PinnedGenome, FrameIsChecked, Named
  <2>4. x.pc = "resolve" /\ x.opening /\ x.run = 0
    BY <1>y, <2>3 DEF StreamType
  <2>5. StreamInv(x) /\ Notices(x) /\ RunIsListed(x)
    BY <2>4 DEF StreamInv, PinnedGenome, FrameIsChecked, GrantIsTheirs, Notices,
                RunIsListed, Handling, Named
  <2> QED BY <2>1, <2>2, <2>4, <2>5, MoveQuietly DEF Open
<1> QED BY <1>1, <1>2

LEMMA FrameIsTyped ==
    ASSUME NEW y \in StreamType, NEW p \in Pcs, NEW run \in Int, NEW valid \in BOOLEAN,
           NEW seen \in SUBSET BindingType, NEW grant \in GrantType
    PROVE  [y EXCEPT !.pc = p, !.run = run, !.grant = grant, !.seen = seen, !.valid = valid]
              \in StreamType
BY DEF StreamType

LEMMA StartFrameStep ==
    ASSUME AccessInv, NEW s \in Streams, StartFrame(s)
    PROVE  AccessInv'
<1> DEFINE y == streams[s]
           p == IF Named(y.kind) THEN "verify" ELSE "prepare"
           x == [y EXCEPT !.pc = p, !.run = 0, !.grant = NoGrant, !.seen = {Binding}, !.valid = FALSE]
<1>y. y \in StreamType /\ StreamInv(y) /\ y.pc = "open"
  BY DEF AccessInv, AccessTyped, StartFrame
<1>b. Binding \in BindingType
  BY DEF AccessInv, AccessTyped, Binding, Bound, BindingType
<1>g. NoGrant \in GrantType
  BY DEF NoGrant, Anonymous, BindingType, GrantType
<1>1. streams' = [streams EXCEPT ![s] = x]
  BY DEF StartFrame
<1>p. p \in {"verify", "prepare"} /\ (Named(y.kind) => p = "verify")
  OBVIOUS
<1> HIDE DEF p
<1>2. x \in StreamType
  <2>1. {Binding} \in SUBSET BindingType
    BY <1>b
  <2>2. p \in Pcs
    BY <1>p DEF Pcs
  <2>3. 0 \in Int /\ FALSE \in BOOLEAN
    OBVIOUS
  <2> QED BY <1>y, <1>g, <2>1, <2>2, <2>3, FrameIsTyped
<1>3. /\ x.pc = p
      /\ x.run = 0 /\ x.seen = {Binding} /\ x.kind = y.kind /\ x.rev = y.rev
      /\ x.opening = y.opening /\ x.genome = y.genome /\ x.scope = y.scope
  BY <1>y DEF StreamType
<1>4. StreamInv(x) /\ Notices(x) /\ RunIsListed(x)
  BY <1>y, <1>p, <1>3 DEF StreamInv, PinnedGenome, FrameIsChecked, GrantIsTheirs, Notices,
                    RunIsListed, Handling
<1> QED BY <1>1, <1>2, <1>3, <1>4, <1>p, MoveQuietly DEF StartFrame

LEMMA ReauthenticateStep ==
    ASSUME AccessInv, NEW s \in Streams, Reauthenticate(s)
    PROVE  AccessInv'
<1> DEFINE y == streams[s]
           x == [y EXCEPT !.pc = "resolve", !.valid = TRUE]
<1>y. /\ y \in StreamType /\ StreamInv(y) /\ Notices(y) /\ RunIsListed(y)
      /\ y.pc = "verify"
  BY DEF AccessInv, AccessTyped, Reauthenticate
<1>1. CASE Refused(y.iat)
  BY <1>1, Shuts DEF Reauthenticate
<1>2. CASE ~Refused(y.iat)
  <2>1. streams' = [streams EXCEPT ![s] = x]
    BY <1>2 DEF Reauthenticate
  <2>2. x \in StreamType
    BY <1>y DEF StreamType, Pcs
  <2>3. /\ x.pc = "resolve" /\ x.valid /\ x.run = y.run /\ x.seen = y.seen /\ x.kind = y.kind
        /\ x.rev = y.rev /\ x.opening = y.opening /\ x.genome = y.genome
        /\ x.scope = y.scope /\ x.grant = y.grant
    BY <1>y DEF StreamType
  <2>4. StreamInv(x) /\ Notices(x) /\ RunIsListed(x)
    BY <1>y, <2>3 DEF StreamInv, PinnedGenome, FrameIsChecked, GrantIsTheirs, WasTheirs,
                      Notices, RunIsListed, Handling
  <2> QED BY <2>1, <2>2, <2>3, <2>4, MoveQuietly DEF Reauthenticate
<1> QED BY <1>1, <1>2

LEMMA ResolveStep ==
    ASSUME AccessInv, NEW s \in Streams, Resolve(s)
    PROVE  AccessInv'
<1> DEFINE y == streams[s]
           p == IF Named(y.kind) THEN "memory" ELSE "compare"
           g == IF y.opening THEN authority.genome ELSE y.genome
           x == [y EXCEPT !.genome = g, !.found = Anonymous, !.pc = p]
<1>y. /\ y \in StreamType /\ StreamInv(y) /\ Notices(y) /\ RunIsListed(y)
      /\ y.pc = "resolve" /\ authority.genome \in Genomes
  BY DEF AccessInv, AccessTyped, Resolve
<1>1. CASE y.kind = "broken"
  BY <1>1, Shuts DEF Resolve
<1>2. CASE y.kind # "broken"
  <2>1. streams' = [streams EXCEPT ![s] = x]
    BY <1>2 DEF Resolve
  <2>p. /\ p \in {"memory", "compare"} /\ (Named(y.kind) => p = "memory")
        /\ g \in Int /\ Anonymous \in BindingType
        /\ g = IF y.opening THEN authority.genome ELSE y.genome
    BY <1>y DEF StreamType, Genomes, Anonymous, BindingType
  <2> HIDE DEF p, g
  <2>2. x \in StreamType
    BY <1>y, <2>p DEF StreamType, Pcs
  <2>3. /\ x.pc = p
        /\ x.valid = y.valid /\ x.run = y.run /\ x.seen = y.seen /\ x.kind = y.kind
        /\ x.rev = y.rev /\ x.opening = y.opening /\ x.grant = y.grant
        /\ x.genome = g /\ x.scope = y.scope
    BY <1>y DEF StreamType
  <2>4. StreamInv(x) /\ Notices(x) /\ RunIsListed(x)
    BY <1>y, <2>p, <2>3 DEF StreamInv, PinnedGenome, FrameIsChecked, GrantIsTheirs, WasTheirs,
                      Notices, RunIsListed, Handling
  <2> QED BY <2>1, <2>2, <2>3, <2>4, <2>p, MoveQuietly DEF Resolve
<1> QED BY <1>1, <1>2

LEMMA ResolveMemoryStep ==
    ASSUME AccessInv, NEW s \in Streams, ResolveMemory(s)
    PROVE  AccessInv'
<1> DEFINE y == streams[s]
           b == IF y.kind = "provisional" THEN Binding ELSE [Binding EXCEPT !.rights = {}]
           x == [y EXCEPT !.pc = "compare", !.found = b]
<1>y. /\ y \in StreamType /\ StreamInv(y) /\ Notices(y) /\ RunIsListed(y)
      /\ y.pc = "memory"
  BY DEF AccessInv, AccessTyped, ResolveMemory
<1>1. CASE ~MemoryGranted(y)
  BY <1>1, Shuts DEF ResolveMemory
<1>2. CASE MemoryGranted(y)
  <2>1. streams' = [streams EXCEPT ![s] = x]
    BY <1>2 DEF ResolveMemory
  <2>b. /\ b \in BindingType /\ b.rev = y.rev /\ Binding.rev = y.rev
        /\ y.kind = "provisional" => b = Binding
    BY <1>2 DEF MemoryGranted, Binding, Bound, BindingType, AccessInv, AccessTyped
  <2> HIDE DEF b
  <2>2. x \in StreamType
    BY <1>y, <2>b DEF StreamType, Pcs
  <2>3. /\ x.pc = "compare" /\ x.found = b
        /\ x.valid = y.valid /\ x.run = y.run /\ x.seen = y.seen /\ x.kind = y.kind
        /\ x.rev = y.rev /\ x.opening = y.opening /\ x.genome = y.genome
        /\ x.scope = y.scope /\ x.grant = y.grant
    BY <1>y DEF StreamType
  <2>g. GrantIsTheirs(x)
    BY <1>y, <2>3 DEF StreamInv, GrantIsTheirs, WasTheirs
  <2>h. y.genome \in Genomes
    BY <1>y DEF StreamInv, PinnedGenome
  <2>4. PinnedGenome(x) /\ Notices(x) /\ RunIsListed(x)
    BY <1>y, <2>3, <2>h DEF StreamInv, PinnedGenome, Notices, RunIsListed, Handling
  <2>5. FrameIsChecked(x)
    BY <1>y, <2>b, <2>3 DEF StreamInv, FrameIsChecked, WasTheirs, Notices, Handling
  <2> QED BY <2>1, <2>2, <2>3, <2>4, <2>5, <2>g, MoveQuietly DEF ResolveMemory, StreamInv
<1> QED BY <1>1, <1>2

LEMMA CompareStep ==
    ASSUME AccessInv, NEW s \in Streams, Compare(s)
    PROVE  AccessInv'
<1> DEFINE y == streams[s]
           ready == [y EXCEPT !.pc = "open", !.opening = FALSE, !.scope = y.found]
           x == [y EXCEPT !.pc = "prepare"]
<1>y. /\ y \in StreamType /\ StreamInv(y) /\ Notices(y) /\ RunIsListed(y)
      /\ y.pc = "compare"
  BY DEF AccessInv, AccessTyped, Compare
<1>1. CASE y.opening
  <2>1. streams' = [streams EXCEPT ![s] = ready]
    BY <1>1 DEF Compare
  <2>2. ready \in StreamType
    BY <1>y DEF StreamType, Pcs
  <2>3. /\ ready.pc = "open" /\ ready.run = y.run /\ ready.kind = y.kind
        /\ ready.rev = y.rev /\ ~ready.opening /\ ready.genome = y.genome
        /\ ready.scope = y.found
    BY <1>y DEF StreamType
  <2>4. StreamInv(ready) /\ Notices(ready) /\ RunIsListed(ready)
    BY <1>y, <1>1, <2>3 DEF StreamInv, PinnedGenome, FrameIsChecked, GrantIsTheirs,
                            Notices, RunIsListed, Handling
  <2> QED BY <2>1, <2>2, <2>3, <2>4, MoveQuietly DEF Compare
<1>2. CASE ~y.opening /\ y.found # y.scope
  BY <1>2, Shuts DEF Compare
<1>3. CASE ~y.opening /\ y.found = y.scope
  <2>1. streams' = [streams EXCEPT ![s] = x]
    BY <1>3 DEF Compare
  <2>2. x \in StreamType
    BY <1>y DEF StreamType, Pcs
  <2>3. /\ x.pc = "prepare" /\ x.valid = y.valid /\ x.run = y.run /\ x.seen = y.seen
        /\ x.kind = y.kind /\ x.rev = y.rev /\ x.opening = y.opening
        /\ x.genome = y.genome /\ x.scope = y.scope /\ x.grant = y.grant
    BY <1>y DEF StreamType
  <2>4. StreamInv(x) /\ Notices(x) /\ RunIsListed(x)
    BY <1>y, <1>3, <2>3 DEF StreamInv, PinnedGenome, FrameIsChecked, GrantIsTheirs,
                            WasTheirs, Notices, RunIsListed, Handling
  <2> QED BY <2>1, <2>2, <2>3, <2>4, MoveQuietly DEF Compare
<1> QED BY <1>1, <1>2, <1>3

LEMMA TurnIsTyped ==
    ASSUME NEW y \in StreamType, NEW p \in Pcs, NEW run \in Int, NEW grant \in GrantType
    PROVE  [y EXCEPT !.pc = p, !.run = run, !.grant = grant] \in StreamType
<1>1. [y EXCEPT !.pc = p, !.run = run] \in StreamType
  BY DEF StreamType
<1> QED BY <1>1 DEF StreamType

\* The stream y once RunTurn has started a turn on it.
Ran(y, agent, identified) ==
    [y EXCEPT !.pc = "open", !.run = agent, !.grant = GrantOf(y, identified)]

\* RunTurn: the memory a turn gets is the one its frame was checked for.
LEMMA RunTurnIsGood ==
    ASSUME NEW y \in StreamType, StreamInv(y), y.pc \in {"prepare", "lock", "create"},
           NEW agent \in Nat, NEW identified \in BOOLEAN
    PROVE  LET x == Ran(y, agent, identified)
           IN /\ x \in StreamType /\ StreamInv(x) /\ Notices(x)
              /\ x.pc = "open" /\ x.run = agent /\ x.genome = y.genome
<1> DEFINE x == Ran(y, agent, identified)
           grant == GrantOf(y, identified)
<1>1. ~y.opening /\ Handling(y)
  BY DEF StreamInv, PinnedGenome, Handling
<1>2. grant \in GrantType
  BY DEF GrantOf, GrantType, NoGrant, Anonymous, BindingType, StreamType
<1>3. grant # NoGrant => /\ Named(y.kind) /\ grant.binding = y.scope
                         /\ grant.memory = "provisional" => y.kind = "provisional"
  BY DEF GrantOf
<1> HIDE DEF grant
<1>4. x \in StreamType
  <2>1. "open" \in Pcs /\ agent \in Int
    BY DEF Pcs
  <2> QED BY <1>2, <2>1, TurnIsTyped DEF grant, Ran
<1>5. /\ x.pc = "open" /\ x.run = agent /\ x.grant = grant /\ x.genome = y.genome
      /\ x.kind = y.kind /\ x.opening = y.opening /\ x.scope = y.scope /\ x.rev = y.rev
      /\ x.seen = y.seen /\ x.valid = y.valid
  BY DEF StreamType, grant, Ran
<1> HIDE DEF x
<1>6. PinnedGenome(x) /\ FrameIsChecked(x) /\ Notices(x)
  BY <1>1, <1>5 DEF StreamInv, PinnedGenome, FrameIsChecked, Notices, Handling
<1>7. GrantIsTheirs(x)
  <2> SUFFICES ASSUME grant # NoGrant
               PROVE  /\ y.valid /\ WasTheirs(y, grant.binding)
                      /\ grant.memory = "provisional" => y.kind = "provisional"
    BY <1>5 DEF GrantIsTheirs, WasTheirs
  <2>1. y.valid /\ WasTheirs(y, y.scope)
    BY <1>1, <1>3 DEF StreamInv, FrameIsChecked
  <2> QED BY <1>3, <2>1
<1> QED BY <1>4, <1>5, <1>6, <1>7 DEF StreamInv, x

LEMMA ResolveRuntimeStep ==
    ASSUME AccessInv, NEW s \in Streams, NEW identified \in BOOLEAN,
           ResolveRuntime(s, identified)
    PROVE  AccessInv'
<1> DEFINE y == streams[s]
           agent == registry[y.genome]
           ran == Ran(y, agent, identified)
           x == [y EXCEPT !.pc = "lock"]
<1>y. /\ y \in StreamType /\ StreamInv(y) /\ Notices(y) /\ RunIsListed(y)
      /\ y.pc = "prepare"
  BY DEF AccessInv, AccessTyped, ResolveRuntime
<1>a. agent \in Nat
  BY <1>y DEF AccessInv, AccessTyped, StreamInv, PinnedGenome
<1>1. CASE agent # 0
  <2>1. streams' = [streams EXCEPT ![s] = ran]
    BY <1>1 DEF ResolveRuntime, RunTurn, Ran
  <2>2. /\ ran \in StreamType /\ StreamInv(ran) /\ Notices(ran)
        /\ ran.pc = "open" /\ ran.run = agent /\ ran.genome = y.genome
    BY <1>y, <1>a, RunTurnIsGood
  <2> HIDE DEF ran
  <2>3. RunIsListed(ran)
    BY <2>2 DEF RunIsListed
  <2> QED BY <2>1, <2>2, <2>3, MoveQuietly DEF ResolveRuntime
<1>2. CASE agent = 0
  <2>1. streams' = [streams EXCEPT ![s] = x]
    BY <1>2 DEF ResolveRuntime
  <2>2. x \in StreamType
    BY <1>y DEF StreamType, Pcs
  <2>3. /\ x.pc = "lock" /\ x.valid = y.valid /\ x.run = y.run /\ x.seen = y.seen
        /\ x.kind = y.kind /\ x.rev = y.rev /\ x.opening = y.opening
        /\ x.genome = y.genome /\ x.scope = y.scope /\ x.grant = y.grant
    BY <1>y DEF StreamType
  <2>4. StreamInv(x) /\ Notices(x) /\ RunIsListed(x)
    BY <1>y, <2>3 DEF StreamInv, PinnedGenome, FrameIsChecked, GrantIsTheirs,
                      WasTheirs, Notices, RunIsListed, Handling
  <2> QED BY <2>1, <2>2, <2>3, <2>4, MoveQuietly DEF ResolveRuntime
<1> QED BY <1>1, <1>2

LEMMA TakeLockStep ==
    ASSUME AccessInv, NEW s \in Streams, NEW identified \in BOOLEAN, TakeLock(s, identified)
    PROVE  AccessInv'
<1> DEFINE y == streams[s]
           agent == registry[y.genome]
           ran == Ran(y, agent, identified)
           x == [y EXCEPT !.pc = "create"]
<1>y. /\ y \in StreamType /\ StreamInv(y) /\ Notices(y) /\ RunIsListed(y)
      /\ y.pc = "lock" /\ registryLock = NoStream
  BY DEF AccessInv, AccessTyped, TakeLock
<1>a. agent \in Nat
  BY <1>y DEF AccessInv, AccessTyped, StreamInv, PinnedGenome
<1>1. CASE agent # 0
  <2>1. streams' = [streams EXCEPT ![s] = ran]
    BY <1>1 DEF TakeLock, RunTurn, Ran
  <2>2. /\ ran \in StreamType /\ StreamInv(ran) /\ Notices(ran)
        /\ ran.pc = "open" /\ ran.run = agent /\ ran.genome = y.genome
    BY <1>y, <1>a, RunTurnIsGood
  <2> HIDE DEF ran
  <2>3. RunIsListed(ran)
    BY <2>2 DEF RunIsListed
  <2>4. UNCHANGED <<authority, registry, created, registryLock>>
    BY <1>1 DEF TakeLock
  <2> QED BY <2>1, <2>2, <2>3, <2>4, MoveQuietly
<1>2. CASE agent = 0
  <2>1. /\ streams' = [streams EXCEPT ![s] = x] /\ registryLock' = s
        /\ UNCHANGED <<authority, registry, created>>
    BY <1>2 DEF TakeLock
  <2>2. x \in StreamType
    BY <1>y DEF StreamType, Pcs
  <2>3. /\ x.pc = "create" /\ x.valid = y.valid /\ x.run = y.run /\ x.seen = y.seen
        /\ x.kind = y.kind /\ x.rev = y.rev /\ x.opening = y.opening
        /\ x.genome = y.genome /\ x.scope = y.scope /\ x.grant = y.grant
    BY <1>y DEF StreamType
  <2>4. StreamInv(x) /\ Notices(x) /\ RunIsListed(x)
    BY <1>y, <2>3 DEF StreamInv, PinnedGenome, FrameIsChecked, GrantIsTheirs,
                      WasTheirs, Notices, RunIsListed, Handling
  <2>5. \A t \in Streams : streams[t].pc # "create"
    BY <1>y, StreamsAssumption DEF AccessInv, CreatesAlone
  <2>6. registry' \in [Genomes -> Nat] /\ created' \in Nat
    BY <2>1 DEF AccessInv, AccessTyped
  <2>7. \A t \in Streams : streams[t].run # 0 => registry'[streams[t].genome] = streams[t].run
    BY <2>1 DEF AccessInv, RunIsListed
  <2>8. x.run # 0 => registry'[x.genome] = x.run
    BY <2>1, <2>4 DEF RunIsListed
  <2>9. registry'[x.genome] = 0
    BY <1>2, <2>1, <2>3
  <2> HIDE DEF x
  <2> QED BY <2>1, <2>2, <2>3, <2>4, <2>5, <2>6, <2>7, <2>8, <2>9, MoveOne
<1> QED BY <1>1, <1>2

LEMMA CreateStep ==
    ASSUME AccessInv, NEW s \in Streams, NEW identified \in BOOLEAN, Create(s, identified)
    PROVE  AccessInv'
<1> DEFINE y == streams[s]
           x == Ran(y, created + 1, identified)
<1>y. /\ y \in StreamType /\ StreamInv(y) /\ y.pc = "create" /\ y.genome \in Genomes
      /\ registry[y.genome] = 0 /\ registryLock = s
  BY DEF AccessInv, AccessTyped, Create, CreatesAlone, StreamInv, PinnedGenome
<1>a. created + 1 \in Nat /\ created + 1 # 0 /\ registry \in [Genomes -> Nat]
  BY DEF AccessInv, AccessTyped
<1>1. streams' = [streams EXCEPT ![s] = x]
  BY DEF Create, RunTurn, Ran
<1>2. /\ x \in StreamType /\ StreamInv(x) /\ Notices(x)
      /\ x.pc = "open" /\ x.run = created + 1 /\ x.genome = y.genome
  BY <1>y, <1>a, RunTurnIsGood
<1> HIDE DEF x
<1>3. /\ registry' = [registry EXCEPT ![y.genome] = created + 1]
      /\ created' = created + 1 /\ UNCHANGED authority
  BY DEF Create
<1>4. registry' \in [Genomes -> Nat] /\ created' \in Nat /\ registry'[x.genome] = x.run
  BY <1>y, <1>a, <1>2, <1>3
<1>5. ASSUME NEW t \in Streams \ {s}
      PROVE  /\ streams[t].run # 0 => registry'[streams[t].genome] = streams[t].run
             /\ streams[t].pc # "create"
  <2>1. streams[t].pc # "create"
    BY <1>y, <1>5 DEF AccessInv, CreatesAlone
  <2>2. CASE streams[t].run # 0
    <3>1. registry[streams[t].genome] = streams[t].run
      BY <2>2 DEF AccessInv, RunIsListed
    <3>2. streams[t].genome # y.genome
      BY <1>y, <2>2, <3>1
    <3>3. ~streams[t].opening
      BY <2>2 DEF AccessInv, StreamInv, PinnedGenome, AccessTyped, StreamType
    <3>4. streams[t].genome \in Genomes
      BY <3>3 DEF AccessInv, StreamInv, PinnedGenome
    <3> QED BY <1>a, <1>3, <2>1, <3>1, <3>2, <3>4
  <2> QED BY <2>1, <2>2
<1> QED BY <1>1, <1>2, <1>3, <1>4, <1>5, MoveOne

LEMMA CreateFailsStep ==
    ASSUME AccessInv, NEW s \in Streams, CreateFails(s)
    PROVE  AccessInv'
<1>1. registryLock = s
  BY DEF CreateFails, AccessInv, CreatesAlone
<1>2. \A t \in Streams \ {s} : streams[t].pc # "create"
  BY <1>1 DEF AccessInv, CreatesAlone
<1>3. /\ ShutStream \in StreamType /\ StreamInv(ShutStream)
      /\ ShutStream.pc = "closed" /\ Notices(ShutStream) /\ ShutStream.run = 0
  BY NewIsTyped, ShutIsGood DEF Notices, ShutStream, NewStream, Handling
<1>4. /\ streams' = [streams EXCEPT ![s] = ShutStream]
      /\ UNCHANGED <<authority, registry, created>>
  BY DEF CreateFails
<1>5. /\ registry' \in [Genomes -> Nat] /\ created' \in Nat
      /\ \A t \in Streams : streams[t].run # 0
                               => registry'[streams[t].genome] = streams[t].run
  BY <1>4 DEF AccessInv, AccessTyped, RunIsListed
<1> QED BY <1>2, <1>3, <1>4, <1>5, MoveOne

\* A change of the facts is noticed by every stream that handles a frame.
LEMMA AuthorityStep ==
    ASSUME AccessInv, NEW facts \in NewFacts, AuthorityChanges(facts)
    PROVE  AccessInv'
<1>1. /\ facts \in [rev : Int, genome : Genomes, rights : SUBSET Rights, changes : Int]
  BY DEF AccessInv, AccessTyped, NewFacts, Genomes, Rights
<1>2. /\ authority' = [facts EXCEPT !.changes = authority.changes + 1]
      /\ streams' = Notice(facts) /\ UNCHANGED <<registry, created, registryLock>>
  BY DEF AuthorityChanges
<1>3. /\ authority' \in [rev : Int, genome : Genomes, rights : SUBSET Rights, changes : Int]
      /\ Binding' = Bound(facts) /\ Bound(facts) \in BindingType
  BY <1>1, <1>2 DEF AccessInv, AccessTyped, Binding, Bound, BindingType
<1>4. ASSUME NEW s \in Streams
      PROVE  /\ streams'[s] \in StreamType /\ StreamInv(streams'[s])
             /\ Handling(streams'[s]) => Bound(facts) \in streams'[s].seen
             /\ streams'[s].run = streams[s].run /\ streams'[s].pc = streams[s].pc
             /\ streams'[s].genome = streams[s].genome
  <2> DEFINE y == streams[s]
             x == [y EXCEPT !.seen = @ \union {Bound(facts)}]
  <2>y. y \in StreamType /\ StreamInv(y)
    BY DEF AccessInv, AccessTyped
  <2>1. CASE y.opening \/ y.pc = "open"
    BY <1>2, <2>y, <2>1 DEF Notice, Handling
  <2>2. CASE ~(y.opening \/ y.pc = "open")
    <3>1. streams'[s] = x
      BY <1>2, <2>2 DEF Notice
    <3>2. x \in StreamType
      BY <1>3, <2>y DEF StreamType
    <3>3. /\ x.pc = y.pc /\ x.valid = y.valid /\ x.run = y.run
          /\ x.seen = y.seen \union {Bound(facts)} /\ x.found = y.found
          /\ x.kind = y.kind /\ x.rev = y.rev /\ x.opening = y.opening
          /\ x.genome = y.genome /\ x.scope = y.scope /\ x.grant = y.grant
      BY <2>y DEF StreamType
    <3> HIDE DEF x
    <3>4. \A b : WasTheirs(y, b) => WasTheirs(x, b)
      BY <3>3 DEF WasTheirs
    <3>5. StreamInv(x)
      BY <2>y, <3>3, <3>4 DEF StreamInv, PinnedGenome, FrameIsChecked, GrantIsTheirs, Handling
    <3> QED BY <3>1, <3>2, <3>3, <3>5
  <2> QED BY <2>1, <2>2
<1>5. streams' \in [Streams -> StreamType]
  BY <1>2, <1>4 DEF Notice
<1>6. AccessTyped'
  BY <1>2, <1>3, <1>5 DEF AccessInv, AccessTyped
<1>7. \A s \in Streams : Notices(streams[s])' /\ RunIsListed(streams[s])' /\ CreatesAlone(s)'
  BY <1>2, <1>3, <1>4 DEF AccessInv, Notices, RunIsListed, CreatesAlone
<1>8. \A s \in Streams : StreamInv(streams[s])'
  BY <1>4
<1> QED BY <1>6, <1>7, <1>8 DEF AccessInv

LEMMA AccessNextInv == AccessInv /\ [AccessNext]_accessVars => AccessInv'
<1> SUFFICES ASSUME AccessInv, [AccessNext]_accessVars PROVE AccessInv'
  OBVIOUS
<1>q. ASSUME UNCHANGED <<authority, registry, created, registryLock, streams>>
      PROVE  AccessInv'
  BY <1>q DEF AccessInv, AccessTyped, Notices, RunIsListed, CreatesAlone, Binding, Bound
<1>1. CASE Revoke \/ RevokeKey \/ RevokeFails
  BY <1>1, <1>q DEF Revoke, RevokeKey, RevokeFails
<1>2. ASSUME NEW facts \in NewFacts, AuthorityChanges(facts) PROVE AccessInv'
  BY <1>2, AuthorityStep
<1>3. ASSUME NEW s \in Streams, NEW kind \in Kinds, NEW iat \in 0..MaxRevocations,
             NEW rev \in Changes, Open(s, kind, iat, rev)
      PROVE  AccessInv'
  BY <1>3, OpenStep
<1>4. ASSUME NEW s \in Streams,
             \/ StartFrame(s) \/ Reauthenticate(s) \/ Resolve(s) \/ ResolveMemory(s)
             \/ ResolveFails(s) \/ Compare(s) \/ CreateFails(s)
      PROVE  AccessInv'
  BY <1>4, StartFrameStep, ReauthenticateStep, ResolveStep, ResolveMemoryStep,
     CompareStep, CreateFailsStep, Shuts DEF ResolveFails
<1>5. ASSUME NEW s \in Streams, NEW identified \in BOOLEAN,
             \/ ResolveRuntime(s, identified) \/ TakeLock(s, identified)
             \/ Create(s, identified)
      PROVE  AccessInv'
  BY <1>5, ResolveRuntimeStep, TakeLockStep, CreateStep
<1>6. CASE UNCHANGED accessVars
  BY <1>6, <1>q DEF accessVars
<1> QED BY <1>1, <1>2, <1>3, <1>4, <1>5, <1>6 DEF AccessNext

LEMMA AccessInvariant == AccessSpec => []AccessInv
BY AccessInitInv, AccessNextInv, PTL DEF AccessSpec

\* However revocations and changes of the authority's facts fall between the
\* reads of a start frame, a turn that gets someone's memory was admitted on a
\* credential and a binding that were valid after its own frame.
THEOREM AdmissionIsFresh == AccessSpec => []GrantIsFresh
<1>1. AccessInv => GrantIsFresh
  <2> SUFFICES ASSUME AccessInv, NEW s \in Streams,
                      streams[s].run # 0, streams[s].grant # NoGrant
               PROVE  /\ streams[s].valid
                      /\ \E b \in streams[s].seen :
                            /\ b.rev = streams[s].grant.binding.rev
                            /\ streams[s].grant.memory = "provisional"
                                  => b = streams[s].grant.binding
                      /\ streams[s].grant.binding.rev = streams[s].rev
    BY DEF GrantIsFresh
  <2> QED BY DEF AccessInv, StreamInv, GrantIsTheirs, WasTheirs
<1> QED BY <1>1, AccessInvariant, PTL

\* AgentRegistry never runs two runtimes of one genome: every turn runs on the
\* one that is listed, however many streams ask for it at the same time.
THEOREM RuntimeIsShared == AccessSpec => []OneRuntimePerGenome
<1>1. AccessInv => OneRuntimePerGenome
  BY DEF AccessInv, RunIsListed, OneRuntimePerGenome
<1> QED BY <1>1, AccessInvariant, PTL
(***************************************************************************)
(* AuditOutbox.  A row leaves "pending" only on an acknowledgement, and     *)
(* what is acknowledged the broker has; a row waits only after a try.       *)
(***************************************************************************)
Waits == {w \in Int : w <= MaxWait}
AuditRowType ==
    [st : {"none", "pending", "published", "purged"}, tries : 0..MaxTries, wait : Waits]
AuditPcs == {"idle", "publish", "mark", "retry"}
DispatchType ==
    [pc : AuditPcs, batch : SUBSET Events, acked : SUBSET Events, wait : Waits]

RowIsKept(e) ==
    /\ auditRows[e].st \in {"published", "purged"} => e \in broker
    /\ auditRows[e].wait > 0 => auditRows[e].tries > 0

AuditInv ==
    /\ auditRows \in [Events -> AuditRowType]
    /\ dispatcher \in DispatchType
    /\ dispatcher.acked \subseteq broker
    /\ \A e \in Events : RowIsKept(e)

LEMMA NothingIsTyped ==
    /\ NoAuditRow \in AuditRowType
    /\ NoDispatch \in DispatchType /\ NoDispatch.acked = {}
<1>1. 0 \in Waits /\ 0 \in 0..MaxTries
  BY AuditBounds DEF Waits
<1> QED BY <1>1 DEF NoAuditRow, NoDispatch, AuditRowType, DispatchType, AuditPcs

LEMMA AuditInitInv == AuditInit => AuditInv
<1> SUFFICES ASSUME AuditInit PROVE AuditInv
  OBVIOUS
<1>1. NoAuditRow.st = "none" /\ NoAuditRow.wait = 0
  BY DEF NoAuditRow
<1> QED BY <1>1, NothingIsTyped DEF AuditInit, AuditInv, RowIsKept

\* A batch that is read is not empty: it has the first due row.
LEMMA FirstIsDue == ASSUME Due # {} PROVE DueBatch # {} /\ DueBatch \in SUBSET Events
<1>1. Due \in SUBSET Nat
  BY AuditBounds DEF Due
<1>2. PICK e \in Due : \A f \in Due : e <= f
  BY <1>1, LeastNatural
<1>3. {f \in Due : f < e} = {}
  <2>1. e \in Int /\ \A f \in Due : f \in Int
    BY <1>1
  <2>2. \A f \in Due : ~(f < e)
    BY <1>2, <2>1
  <2> QED BY <2>2
<1>4. Cardinality({f \in Due : f < e}) < AuditBatch
  BY <1>3, FS_EmptySet, AuditBounds
<1> QED BY <1>4 DEF DueBatch, Due

\* The wait of a batch is bounded, whatever its rows have been through.
LEMMA RetryIsBounded ==
    ASSUME AuditInv, NEW batch \in SUBSET Events, batch # {}
    PROVE  RetryAfter(batch) \in Waits
<1> DEFINE All == {auditRows[e].tries : e \in batch}
           Most(n) == \A e \in batch : auditRows[e].tries <= n
           tries == CHOOSE n \in All : Most(n)
<1>0. \A e \in batch : auditRows[e].tries \in 0..MaxTries
  BY DEF AuditInv, AuditRowType
<1>1. All # {} /\ \A n \in All : n \in 0..MaxTries
  BY <1>0
<1>2. \E n \in All : \A k \in All : k <= n
  <2> HIDE DEF All
  <2>1. MaxTries \in Int
    BY AuditBounds
  <2>2. All \in SUBSET Int /\ \A n \in All : n <= MaxTries
    BY <1>1, <2>1
  <2> QED BY <1>1, <2>1, <2>2, GreatestBelow
<1>3. \E n \in All : Most(n)
  BY <1>2
<1>4. tries \in All
  <2> HIDE DEF All, Most
  <2> QED BY <1>3
<1>5. tries \in Nat
  <2> HIDE DEF tries, All
  <2>1. tries \in 0..MaxTries
    BY <1>1, <1>4
  <2> QED BY <2>1, AuditBounds
<1>6. RetryAfter(batch) = IF 2 ^ tries > MaxWait THEN MaxWait ELSE 2 ^ tries
  BY DEF RetryAfter
<1> HIDE DEF tries
<1>7. 2 ^ tries \in Int
  BY <1>5
<1> QED BY <1>6, <1>7, AuditBounds DEF Waits

LEMMA CommitStep == ASSUME AuditInv, NEW e \in Events, Commit(e) PROVE AuditInv'
<1>1. auditRows' \in [Events -> AuditRowType]
  BY DEF AuditInv, Commit, AuditRowType
<1>2. \A f \in Events : /\ auditRows'[f].wait = auditRows[f].wait
                        /\ auditRows'[f].tries = auditRows[f].tries
                        /\ auditRows'[f].st \in {"published", "purged"}
                              => auditRows[f].st = auditRows'[f].st
  BY DEF AuditInv, Commit, AuditRowType
<1> QED BY <1>1, <1>2 DEF AuditInv, Commit, RowIsKept

\* The steps that rewrite every row: enough that each row stays well.
LEMMA RowsRewritten ==
    ASSUME AuditInv, dispatcher' \in DispatchType, dispatcher'.acked \subseteq broker,
           UNCHANGED broker, auditRows' = [e \in Events |-> auditRows'[e]],
           \A e \in Events :
              /\ auditRows'[e] \in AuditRowType
              /\ auditRows'[e].st \in {"published", "purged"} => e \in broker
              /\ auditRows'[e].wait > 0 => auditRows'[e].tries > 0
    PROVE  AuditInv'
BY DEF AuditInv, RowIsKept

LEMMA AuditTickStep == ASSUME AuditInv, AuditTick PROVE AuditInv'
<1>1. ASSUME NEW e \in Events
      PROVE  /\ auditRows'[e] \in AuditRowType
             /\ auditRows'[e].st = auditRows[e].st /\ auditRows'[e].tries = auditRows[e].tries
             /\ auditRows'[e].wait > 0 => auditRows[e].wait > 0
  <2> DEFINE w == IF auditRows[e].wait = 0 THEN 0 ELSE auditRows[e].wait - 1
  <2>1. auditRows[e] \in AuditRowType /\ auditRows[e].wait \in Waits
    BY DEF AuditInv, AuditRowType
  <2>2. w \in Waits /\ (w > 0 => auditRows[e].wait > 0)
    BY <2>1, AuditBounds DEF Waits
  <2>3. auditRows'[e] = [auditRows[e] EXCEPT !.wait = w]
    BY DEF AuditTick
  <2> HIDE DEF w
  <2> QED BY <2>1, <2>2, <2>3 DEF AuditRowType
<1>2. auditRows' = [e \in Events |-> auditRows'[e]] /\ UNCHANGED <<dispatcher, broker>>
  BY DEF AuditTick
<1> QED BY <1>1, <1>2, RowsRewritten DEF AuditInv, RowIsKept

LEMMA ReadBatchStep == ASSUME AuditInv, ReadBatch PROVE AuditInv'
<1> DEFINE w == RetryAfter(DueBatch)
<1>1. DueBatch # {} /\ DueBatch \in SUBSET Events
  BY FirstIsDue DEF ReadBatch
<1>2. w \in Waits
  BY <1>1, RetryIsBounded
<1>3. dispatcher' = [NoDispatch EXCEPT !.pc = "publish", !.batch = DueBatch, !.wait = w]
  BY DEF ReadBatch
<1> HIDE DEF w
<1>4. dispatcher' \in DispatchType /\ dispatcher'.acked = {}
  BY <1>1, <1>2, <1>3 DEF DispatchType, NoDispatch, AuditPcs
<1> QED BY <1>4 DEF AuditInv, ReadBatch, RowIsKept

LEMMA PublishStep ==
    ASSUME AuditInv, NEW stored \in SUBSET dispatcher.batch,
           \/ AuditPublishRaises(stored)
           \/ \E acked \in SUBSET stored : PublishMany(stored, acked)
    PROVE  AuditInv'
<1>1. stored \in SUBSET Events
  BY DEF AuditInv, DispatchType
<1>2. PICK acked \in SUBSET stored, pc \in AuditPcs :
         dispatcher' = [dispatcher EXCEPT !.pc = pc, !.acked = acked]
  BY DEF AuditPublishRaises, PublishMany, AuditPcs
<1>3. dispatcher' \in DispatchType /\ dispatcher'.acked = acked
  BY <1>1, <1>2 DEF AuditInv, DispatchType
<1>4. UNCHANGED auditRows /\ broker' = broker \union stored
  BY DEF AuditPublishRaises, PublishMany
<1> QED BY <1>2, <1>3, <1>4 DEF AuditInv, RowIsKept

LEMMA MarkStep == ASSUME AuditInv, MarkAuditPublished PROVE AuditInv'
<1>1. dispatcher' \in DispatchType /\ dispatcher'.acked = dispatcher.acked
  BY DEF AuditInv, MarkAuditPublished, DispatchType, AuditPcs
<1>2. ASSUME NEW e \in Events
      PROVE  /\ auditRows'[e] \in AuditRowType
             /\ auditRows'[e].tries = auditRows[e].tries /\ auditRows'[e].wait = auditRows[e].wait
             /\ auditRows'[e].st # auditRows[e].st => e \in dispatcher.acked
  <2>1. auditRows[e] \in AuditRowType
    BY DEF AuditInv
  <2>2. CASE e \in dispatcher.acked \intersect dispatcher.batch /\ auditRows[e].st = "pending"
    BY <2>1, <2>2 DEF MarkAuditPublished, AuditRowType
  <2>3. CASE ~(e \in dispatcher.acked \intersect dispatcher.batch /\ auditRows[e].st = "pending")
    BY <2>1, <2>3 DEF MarkAuditPublished
  <2> QED BY <2>2, <2>3
<1>3. auditRows' = [e \in Events |-> auditRows'[e]] /\ UNCHANGED broker
  BY DEF MarkAuditPublished
<1> QED BY <1>1, <1>2, <1>3, RowsRewritten DEF AuditInv, RowIsKept

LEMMA MarkFailedStep == ASSUME AuditInv, MarkAuditFailed PROVE AuditInv'
<1>1. dispatcher' \in DispatchType /\ dispatcher'.acked = {}
  BY NothingIsTyped DEF MarkAuditFailed
<1>2. ASSUME NEW e \in Events
      PROVE  /\ auditRows'[e] \in AuditRowType /\ auditRows'[e].st = auditRows[e].st
             /\ \/ auditRows'[e] = auditRows[e]
                \/ auditRows'[e].tries > 0
  <2>1. /\ auditRows[e] \in AuditRowType /\ auditRows[e].tries \in 0..MaxTries
        /\ dispatcher.wait \in Waits
    BY DEF AuditInv, AuditRowType, DispatchType
  <2>2. CASE e \in dispatcher.batch \ dispatcher.acked /\ auditRows[e].st = "pending"
    <3> DEFINE n == IF auditRows[e].tries < MaxTries THEN auditRows[e].tries + 1
                    ELSE auditRows[e].tries
    <3>1. n \in 0..MaxTries /\ n > 0
      BY <2>1, AuditBounds
    <3>2. auditRows'[e] = [auditRows[e] EXCEPT !.wait = dispatcher.wait, !.tries = n]
      BY <2>2 DEF MarkAuditFailed
    <3> HIDE DEF n
    <3> QED BY <2>1, <3>1, <3>2 DEF AuditRowType
  <2>3. CASE ~(e \in dispatcher.batch \ dispatcher.acked /\ auditRows[e].st = "pending")
    BY <2>1, <2>3 DEF MarkAuditFailed
  <2> QED BY <2>2, <2>3
<1>3. auditRows' = [e \in Events |-> auditRows'[e]] /\ UNCHANGED broker
  BY DEF MarkAuditFailed
<1> QED BY <1>1, <1>2, <1>3, RowsRewritten DEF AuditInv, RowIsKept

LEMMA PurgeStep == ASSUME AuditInv, Purge PROVE AuditInv'
<1>1. PICK old \in SUBSET {e \in Events : auditRows[e].st = "published"} :
         auditRows' = [e \in Events |->
            IF e \in old THEN [auditRows[e] EXCEPT !.st = "purged"] ELSE auditRows[e]]
  BY DEF Purge
<1>2. ASSUME NEW e \in Events
      PROVE  /\ auditRows'[e] \in AuditRowType
             /\ auditRows'[e].tries = auditRows[e].tries /\ auditRows'[e].wait = auditRows[e].wait
             /\ auditRows'[e].st # auditRows[e].st => auditRows[e].st = "published"
  <2>1. auditRows[e] \in AuditRowType
    BY DEF AuditInv
  <2>2. CASE e \in old
    BY <1>1, <2>1, <2>2 DEF AuditRowType
  <2>3. CASE e \notin old
    BY <1>1, <2>1, <2>3
  <2> QED BY <2>2, <2>3
<1>3. auditRows' = [e \in Events |-> auditRows'[e]] /\ UNCHANGED <<broker, dispatcher>>
  BY <1>1 DEF Purge
<1> QED BY <1>2, <1>3, RowsRewritten DEF AuditInv, RowIsKept

LEMMA AuditNextInv == AuditInv /\ [AuditNext]_auditVars => AuditInv'
<1> SUFFICES ASSUME AuditInv, [AuditNext]_auditVars PROVE AuditInv'
  OBVIOUS
<1>1. CASE Interrupted
  BY <1>1, NothingIsTyped DEF Interrupted, AuditInv, RowIsKept
<1>2. CASE UNCHANGED auditVars
  BY <1>2 DEF auditVars, AuditInv, RowIsKept
<1> QED BY <1>1, <1>2, CommitStep, AuditTickStep, ReadBatchStep, PublishStep, MarkStep,
           MarkFailedStep, PurgeStep DEF AuditNext

\* No audit event is lost between publishing, marking and purging, whatever
\* fails or dies in between, for every number of events, batch size and number
\* of faults; and no row waits longer than the longest wait of the back-off.
THEOREM AuditIsKept == AuditSpec => []NoAuditLost
<1>1. AuditInv => NoAuditLost
  BY DEF AuditInv, NoAuditLost, RowIsKept, AuditRowType, Waits
<1>2. AuditSpec => []AuditInv
  BY AuditInitInv, AuditNextInv, PTL DEF AuditSpec
<1> QED BY <1>1, <1>2, PTL
(***************************************************************************)
(* LiveTurns.  An entry is running only while a stream of its turn is open, *)
(* and settled only with a status such a stream reported; every change of   *)
(* the board keeps it within its bound.                                     *)
(***************************************************************************)
EntryType == [st : {"absent", "running"} \union Finals, age : Int, since : Int]

Follows(e, t) ==
    /\ e.st = "running" => \E r \in BoardRuns : TurnIdOf[r] = t /\ observed[r] = "open"
    /\ e.st \in Finals => \E r \in BoardRuns : TurnIdOf[r] = t /\ e.st = reported[r]

WithinBound(board) ==
    IsFiniteSet(OnBoard(board)) /\ Cardinality(OnBoard(board)) <= BoardSize

BoardInv ==
    /\ entries \in [TurnIds -> EntryType]
    /\ observed \in [BoardRuns -> {"unseen", "open", "closed"}]
    /\ reported \in [BoardRuns -> {"none"} \union Finals]
    /\ \A t \in TurnIds : Follows(entries[t], t)
    /\ WithinBound(entries)

LEMMA PlainEntries ==
    /\ Absent \in EntryType /\ Running \in EntryType
    /\ Absent.st = "absent" /\ Running.st = "running"
    /\ \A status \in Finals : [st |-> status, age |-> 0, since |-> 0] \in EntryType
BY DEF Absent, Running, EntryType

\* Fewer entries are still within the bound.
LEMMA FewerFit ==
    ASSUME NEW board, NEW other, WithinBound(board), OnBoard(other) \subseteq OnBoard(board)
    PROVE  WithinBound(other)
<1>1. IsFiniteSet(OnBoard(other)) /\ Cardinality(OnBoard(other)) <= Cardinality(OnBoard(board))
  BY FS_Subset DEF WithinBound
<1>2. Cardinality(OnBoard(other)) \in Nat /\ Cardinality(OnBoard(board)) \in Nat
  BY <1>1, FS_CardinalityType DEF WithinBound
<1> QED BY <1>1, <1>2, BoardBounds DEF WithinBound

\* So are as many, one of them replaced, or one more on a board that is not full.
LEMMA OneMoreFits ==
    ASSUME NEW board, NEW other, NEW t, NEW S \in SUBSET OnBoard(board),
           WithinBound(board), OnBoard(other) = S \union {t},
           \/ t \in S
           \/ ~(Cardinality(OnBoard(board)) >= BoardSize)
           \/ \E u \in OnBoard(board) : u \notin S
    PROVE  WithinBound(other)
<1> DEFINE B == OnBoard(board)
<1>1. IsFiniteSet(B) /\ Cardinality(B) \in Nat /\ Cardinality(B) <= BoardSize
  BY FS_CardinalityType DEF WithinBound
<1>2. IsFiniteSet(S) /\ Cardinality(S) <= Cardinality(B) /\ (Cardinality(B) = Cardinality(S) => B = S)
  BY <1>1, FS_Subset
<1>3. Cardinality(S) \in Nat
  BY <1>2, FS_CardinalityType
<1>4. /\ IsFiniteSet(S \union {t})
      /\ Cardinality(S \union {t}) = IF t \in S THEN Cardinality(S) ELSE Cardinality(S) + 1
  BY <1>2, FS_AddElement
<1> HIDE DEF B
<1>5. Cardinality(S \union {t}) <= BoardSize
  <2>1. CASE t \in S
    BY <1>1, <1>2, <1>3, <1>4, <2>1, BoardBounds
  <2>2. CASE ~(Cardinality(OnBoard(board)) >= BoardSize)
    <3>1. Cardinality(B) < BoardSize
      BY <1>1, <2>2, BoardBounds DEF B
    <3> QED BY <1>1, <1>2, <1>3, <1>4, <3>1, BoardBounds
  <2>3. CASE \E u \in OnBoard(board) : u \notin S
    <3>1. Cardinality(B) # Cardinality(S)
      BY <1>2, <2>3 DEF B
    <3> QED BY <1>1, <1>2, <1>3, <1>4, <3>1, BoardBounds
  <2> QED BY <2>1, <2>2, <2>3
<1> QED BY <1>4, <1>5 DEF WithinBound

\* Sweeping keeps an entry as it is or takes it off.
LEMMA SweptIsGood ==
    ASSUME BoardInv
    PROVE  /\ Swept \in [TurnIds -> EntryType]
           /\ \A t \in TurnIds : /\ Swept[t] = entries[t] \/ Swept[t] = Absent
                                 /\ Follows(Swept[t], t)
           /\ OnBoard(Swept) \subseteq OnBoard(entries)
           /\ WithinBound(Swept)
<1>1. \A t \in TurnIds : Swept[t] = entries[t] \/ Swept[t] = Absent
  BY DEF Swept
<1>2. Swept \in [TurnIds -> EntryType]
  BY <1>1, PlainEntries DEF BoardInv, Swept
<1>3. \A t \in TurnIds : Follows(Swept[t], t)
  BY <1>1, PlainEntries DEF BoardInv, Follows, Finals
<1>4. OnBoard(Swept) \subseteq OnBoard(entries)
  BY <1>1, PlainEntries DEF OnBoard
<1> QED BY <1>1, <1>2, <1>3, <1>4, FewerFit DEF BoardInv

LEMMA BoardInitInv == BoardInit => BoardInv
<1> SUFFICES ASSUME BoardInit PROVE BoardInv
  OBVIOUS
<1>1. OnBoard(entries) = {}
  BY PlainEntries DEF BoardInit, OnBoard
<1>2. WithinBound(entries)
  BY <1>1, FS_EmptySet, BoardBounds DEF WithinBound
<1> QED BY <1>2, PlainEntries DEF BoardInit, BoardInv, Follows, Finals

LEMMA BoardTickStep == ASSUME BoardInv, BoardTick PROVE BoardInv'
<1>1. ASSUME NEW t \in TurnIds
      PROVE  entries'[t] \in EntryType /\ entries'[t].st = entries[t].st
  <2>1. entries[t] \in EntryType
    BY DEF BoardInv
  <2>2. CASE entries[t].st = "absent"
    BY <2>2, PlainEntries DEF BoardTick
  <2>3. CASE entries[t].st # "absent"
    <3> DEFINE a == Older(entries[t].age, Ttl)
               b == IF entries[t].st \in Finals THEN Older(entries[t].since, Handover) ELSE 0
    <3>1. a \in Int /\ b \in Int
      BY <2>1, BoardBounds DEF EntryType, Older
    <3>2. entries'[t] = [entries[t] EXCEPT !.age = a, !.since = b]
      BY <2>3 DEF BoardTick
    <3> HIDE DEF a, b
    <3> QED BY <2>1, <3>1, <3>2 DEF EntryType
  <2> QED BY <2>2, <2>3
<1>2. entries' \in [TurnIds -> EntryType] /\ UNCHANGED <<observed, reported>>
  BY <1>1 DEF BoardTick
<1>3. OnBoard(entries)' = OnBoard(entries)
  BY <1>1 DEF OnBoard
<1> QED BY <1>1, <1>2, <1>3 DEF BoardInv, Follows, WithinBound

LEMMA SnapshotStep == ASSUME BoardInv, Snapshot PROVE BoardInv'
<1>1. \A t \in TurnIds : Follows(entries[t], t)'
  BY SweptIsGood DEF Snapshot, Follows
<1>2. OnBoard(entries') = OnBoard(Swept)
  BY DEF Snapshot, OnBoard
<1> QED BY <1>1, <1>2, SweptIsGood DEF Snapshot, BoardInv, WithinBound

LEMMA BeginStep == ASSUME BoardInv, NEW r \in BoardRuns, Begin(r) PROVE BoardInv'
<1> DEFINE t == TurnIdOf[r]
           B == OnBoard(Swept)
<1>t. t \in TurnIds
  BY DEF TurnIds
<1>s. /\ Swept \in [TurnIds -> EntryType] /\ WithinBound(Swept)
      /\ \A v \in TurnIds : Follows(Swept[v], v)
  BY SweptIsGood
<1>o. /\ observed' = [observed EXCEPT ![r] = "open"] /\ UNCHANGED reported
      /\ observed'[r] = "open"
      /\ observed' \in [BoardRuns -> {"unseen", "open", "closed"}]
      /\ \A q \in BoardRuns : observed[q] = "open" => observed'[q] = "open"
  BY DEF Begin, BoardInv
<1>k. ASSUME NEW v \in TurnIds, NEW e \in EntryType, Follows(e, v)
      PROVE  /\ e.st = "running" => \E q \in BoardRuns : TurnIdOf[q] = v /\ observed'[q] = "open"
             /\ e.st \in Finals => \E q \in BoardRuns : TurnIdOf[q] = v /\ e.st = reported'[q]
  BY <1>o, <1>k DEF Follows
<1>1. CASE /\ ~(Cardinality(B) >= BoardSize /\ t \notin B)
           /\ entries' = [Swept EXCEPT ![t] = Running]
  <2>1. entries' \in [TurnIds -> EntryType]
        /\ \A v \in TurnIds : entries'[v] = IF v = t THEN Running ELSE Swept[v]
    BY <1>t, <1>s, <1>1, PlainEntries
  <2>2. OnBoard(entries') = B \union {t}
    BY <1>t, <2>1, PlainEntries DEF OnBoard
  <2>3. WithinBound(entries')
    BY <1>s, <1>1, <2>2, OneMoreFits
  <2>4. ASSUME NEW v \in TurnIds PROVE Follows(entries[v], v)'
    <3>1. CASE v = t
      BY <1>o, <2>1, <3>1, PlainEntries DEF Follows, Finals
    <3>2. CASE v # t
      BY <1>k, <1>s, <2>1, <3>2 DEF Follows
    <3> QED BY <3>1, <3>2
  <2>5. WithinBound(entries)'
    BY <2>3 DEF WithinBound, OnBoard
  <2> QED BY <1>o, <2>1, <2>4, <2>5 DEF BoardInv
<1>2. ASSUME t \notin B, NEW u \in B, entries' = [Swept EXCEPT ![u] = Absent, ![t] = Running]
      PROVE  BoardInv'
  <2>u. u \in TurnIds /\ u # t
    BY <1>2 DEF OnBoard
  <2>1. entries' \in [TurnIds -> EntryType]
        /\ \A v \in TurnIds : entries'[v] = IF v = t THEN Running
                                            ELSE IF v = u THEN Absent ELSE Swept[v]
    BY <1>t, <1>s, <1>2, <2>u, PlainEntries
  <2>2. OnBoard(entries') = (B \ {u}) \union {t}
    BY <1>t, <2>1, <2>u, PlainEntries DEF OnBoard
  <2>3. WithinBound(entries')
    BY <1>s, <1>2, <2>2, OneMoreFits
  <2>4. ASSUME NEW v \in TurnIds PROVE Follows(entries[v], v)'
    <3>1. CASE v = t
      BY <1>o, <2>1, <3>1, PlainEntries DEF Follows, Finals
    <3>2. CASE v = u
      BY <2>1, <2>u, <3>2, PlainEntries DEF Follows, Finals
    <3>3. CASE v # t /\ v # u
      BY <1>k, <1>s, <2>1, <3>3 DEF Follows
    <3> QED BY <3>1, <3>2, <3>3
  <2>5. WithinBound(entries)'
    BY <2>3 DEF WithinBound, OnBoard
  <2> QED BY <1>o, <2>1, <2>4, <2>5 DEF BoardInv
<1> QED BY <1>1, <1>2 DEF Begin

\* A step that changes at most one entry, without putting one on the board.
LEMMA EntryStep ==
    ASSUME BoardInv, NEW t \in TurnIds, NEW e \in EntryType,
           entries' = [entries EXCEPT ![t] = e], entries[t].st = "absent" => e.st = "absent",
           observed' \in [BoardRuns -> {"unseen", "open", "closed"}],
           reported' \in [BoardRuns -> {"none"} \union Finals],
           \A r \in BoardRuns : reported[r] # "none" => reported'[r] = reported[r],
           \A r \in BoardRuns : TurnIdOf[r] # t => observed'[r] = observed[r],
           e.st = "running" => UNCHANGED observed /\ entries[t].st = "running",
           e.st \in Finals => \E r \in BoardRuns : TurnIdOf[r] = t /\ e.st = reported'[r]
    PROVE  BoardInv'
<1>1. entries' \in [TurnIds -> EntryType]
      /\ \A v \in TurnIds : entries'[v] = IF v = t THEN e ELSE entries[v]
  BY DEF BoardInv
<1>2. OnBoard(entries') \subseteq OnBoard(entries)
  BY <1>1 DEF OnBoard
<1>3. WithinBound(entries')
  BY <1>2, FewerFit DEF BoardInv
<1>4. WithinBound(entries)'
  BY <1>3 DEF WithinBound, OnBoard
<1>5. ASSUME NEW v \in TurnIds PROVE Follows(entries[v], v)'
  <2>f. Follows(entries[v], v)
    BY DEF BoardInv
  <2>1. CASE v = t
    BY <1>1, <2>1, <2>f DEF Follows
  <2>2. CASE v # t
    <3>1. \A s \in Finals : s # "none"
      BY DEF Finals
    <3> QED BY <1>1, <2>2, <2>f, <3>1 DEF Follows
  <2> QED BY <2>1, <2>2
<1> QED BY <1>1, <1>4, <1>5 DEF BoardInv

LEMMA SawEventStep == ASSUME BoardInv, NEW r \in BoardRuns, SawEvent(r) PROVE BoardInv'
<1> DEFINE t == TurnIdOf[r]
           e == [entries[t] EXCEPT !.age = 0]
<1>1. t \in TurnIds /\ entries[t] \in EntryType /\ Follows(entries[t], t)
  BY DEF TurnIds, BoardInv
<1>2. e \in EntryType /\ e.st = entries[t].st
  BY <1>1 DEF EntryType
<1>3. entries' = [entries EXCEPT ![t] = e] /\ UNCHANGED <<observed, reported>>
  BY <1>1 DEF SawEvent, BoardInv
<1> HIDE DEF e, t
<1> QED BY <1>1, <1>2, <1>3, EntryStep DEF Follows, BoardInv

LEMMA SawFinalStep ==
    ASSUME BoardInv, NEW r \in BoardRuns, NEW status \in Finals, SawFinal(r, status)
    PROVE  BoardInv'
<1> DEFINE t == TurnIdOf[r]
           e == IF entries[t].st = "absent" THEN entries[t]
                ELSE [st |-> status, age |-> 0, since |-> 0]
<1>1. t \in TurnIds /\ entries[t] \in EntryType
  BY DEF TurnIds, BoardInv
<1>2. e \in EntryType /\ (e.st = "absent" \/ e.st = status) /\ (entries[t].st = "absent" => e.st = "absent")
  BY <1>1, PlainEntries
<1>3. entries' = [entries EXCEPT ![t] = e] /\ UNCHANGED observed
  BY <1>1 DEF SawFinal, BoardInv
<1>4. /\ reported' \in [BoardRuns -> {"none"} \union Finals] /\ reported'[r] = status
      /\ \A q \in BoardRuns : reported[q] # "none" => reported'[q] = reported[q]
  BY DEF SawFinal, BoardInv
<1>5. e.st # "running" /\ (e.st \in Finals => e.st = status)
  BY <1>2 DEF Finals
<1> HIDE DEF e
<1> QED BY <1>1, <1>2, <1>3, <1>4, <1>5, EntryStep DEF BoardInv

LEMMA EndStep == ASSUME BoardInv, NEW r \in BoardRuns, End(r) PROVE BoardInv'
<1> DEFINE t == TurnIdOf[r]
           e == IF entries[t].st \in Finals THEN entries[t] ELSE Absent
<1>1. t \in TurnIds /\ entries[t] \in EntryType /\ Follows(entries[t], t)
  BY DEF TurnIds, BoardInv
<1>2. e \in EntryType /\ ((e = entries[t] /\ e.st \in Finals) \/ e.st = "absent")
  BY <1>1, PlainEntries
<1>3. entries' = [entries EXCEPT ![t] = e] /\ UNCHANGED reported
  BY <1>1 DEF End, BoardInv
<1>4. /\ observed' \in [BoardRuns -> {"unseen", "open", "closed"}]
      /\ \A q \in BoardRuns : TurnIdOf[q] # t => observed'[q] = observed[q]
  BY DEF End, BoardInv
<1>5. e.st # "running" /\ (entries[t].st = "absent" => e.st = "absent")
  BY <1>2 DEF Finals
<1>6. e.st \in Finals => \E q \in BoardRuns : TurnIdOf[q] = t /\ e.st = reported'[q]
  <2>1. "absent" \notin Finals
    BY DEF Finals
  <2> QED BY <1>1, <1>2, <1>3, <2>1 DEF Follows
<1> HIDE DEF e
<1> QED BY <1>1, <1>2, <1>3, <1>4, <1>5, <1>6, EntryStep DEF BoardInv

LEMMA BoardNextInv == BoardInv /\ [BoardNext]_boardVars => BoardInv'
<1> SUFFICES ASSUME BoardInv, [BoardNext]_boardVars PROVE BoardInv'
  OBVIOUS
<1>1. CASE UNCHANGED boardVars
  BY <1>1 DEF boardVars, BoardInv, Follows, WithinBound, OnBoard
<1> QED BY <1>1, BoardTickStep, SnapshotStep, BeginStep, SawEventStep, SawFinalStep, EndStep
           DEF BoardNext

\* The live turn board never says running of a turn without an open stream,
\* never invents a final status, keeps none longer than the hand-over and never
\* outgrows its bound, however many streams carry whichever turn ids.
THEOREM BoardTellsTheTruth == BoardSpec => []BoardIsTruthful
<1>1. ASSUME BoardInv PROVE BoardIsTruthful
  <2>1. Cardinality(OnBoard(entries)) <= BoardSize
    BY <1>1 DEF BoardInv, WithinBound
  <2>2. ASSUME NEW t \in OnBoard(Swept)
        PROVE  \/ Swept[t].st = "running" /\ \E r \in BoardRuns : TurnIdOf[r] = t /\ observed[r] = "open"
               \/ /\ Swept[t].since < Handover
                  /\ \E r \in BoardRuns : TurnIdOf[r] = t /\ Swept[t].st = reported[r]
    <3>1. t \in TurnIds /\ Swept[t].st # "absent" /\ Swept[t] \in EntryType
      BY <1>1, SweptIsGood DEF OnBoard
    <3>2. Follows(Swept[t], t) /\ Swept[t] = entries[t]
      BY <1>1, <3>1, SweptIsGood, PlainEntries
    <3>3. ~Stale(entries[t])
      BY <3>1, <3>2, PlainEntries DEF Swept
    <3>4. CASE Swept[t].st = "running"
      BY <3>2, <3>4 DEF Follows
    <3>5. CASE Swept[t].st \in Finals
      <4>1. ~(Swept[t].since >= Handover)
        BY <3>2, <3>3, <3>5 DEF Stale
      <4>2. Swept[t].since \in Int /\ Handover \in Int
        BY <3>1, BoardBounds DEF EntryType
      <4> QED BY <3>2, <3>5, <4>1, <4>2 DEF Follows
    <3> QED BY <3>1, <3>4, <3>5 DEF EntryType
  <2> QED BY <2>1, <2>2 DEF BoardIsTruthful
<1>2. BoardSpec => []BoardInv
  BY BoardInitInv, BoardNextInv, PTL DEF BoardSpec
<1> QED BY <1>1, <1>2, PTL
(***************************************************************************)
(* Lifecycle: what is open, and what may run, at each stage.                *)
(***************************************************************************)
WithRegistry == {"transport", "serve"} \union RunningStages
WithTools == {"verifier", "registry"} \union WithRegistry
WithWorker == {"tools"} \union WithTools
WithRouter == {"worker"} \union WithWorker
WithDispatchers == {"router"} \union WithRouter
WithPersonas == {"dispatchers"} \union WithDispatchers
WithBus == {"personas"} \union WithPersonas
WithAuthority == {"bus"} \union WithBus
WithStore == {"authority"} \union WithAuthority

\* Resources are open from their stage of start-up on; the participation client
\* goes with its server, and four more are closed in this order.
IsOpen ==
    /\ stage \in WithStore \ {"closeHome"} => "store" \in opened
    /\ stage \in WithAuthority \ {"closeStore", "closeHome"} => "authority" \in opened
    /\ stage \in WithBus => "bus" \in opened
    /\ stage \in WithBus \ {"closeRouter", "closeAuthority", "closeStore", "closeHome"}
          => "memory" \in opened
    /\ stage \in WithPersonas => "personas" \in opened
    /\ stage \in WithDispatchers => "history" \in opened /\ "background" \in opened
    /\ stage \in WithRouter \ {"closeAuthority", "closeStore", "closeHome"} => "llm" \in opened
    /\ stage \in WithTools => "tools" \in opened
    /\ stage \in WithRegistry => "registry" \in opened
    /\ stage \in {"serve", "serving", "stopGrpc", "drainServers"} => "participation" \in opened

Closing == {"closeMemory", "closeRouter", "closeAuthority", "closeStore", "closeHome"}
AfterWorker == {"drainTurns", "stopDispatchers"} \union Closing

MayRun ==
    /\ live \subseteq {"rpc", "request", "turnWork"} \union Owned
    /\ "rpc" \in live => stage \in {"serving", "stopGrpc"}
    /\ "request" \in live =>
          /\ stage \in RunningStages
          /\ stage \in {"stopRefresher", "stopWorker"} \union AfterWorker => late
    /\ "turnWork" \in live =>
          /\ stage \in RunningStages
          /\ stage \in {"stopDispatchers"} \union Closing => late
    /\ "refresher" \in live =>
          /\ stage \in WithBus \ ({"stopWorker"} \union AfterWorker)
          /\ "routes" \in opened
    /\ "worker" \in live => stage \in WithWorker \ AfterWorker
    /\ "auditDispatch" \in live => stage \in WithDispatchers \ Closing
    /\ "memoryDispatch" \in live => stage \in WithDispatchers \ Closing

LifeInv == IsOpen /\ MayRun

LEMMA LifeNextInv == LifeInv /\ [LifeNext]_lifeVars => LifeInv'
<1> SUFFICES ASSUME LifeInv, [LifeNext]_lifeVars PROVE LifeInv'
  OBVIOUS
<1> USE DEF LifeInv, IsOpen, MayRun, WithRegistry, WithTools, WithWorker, WithRouter,
            WithDispatchers, WithPersonas, WithBus, WithAuthority, WithStore,
            RunningStages, Closing, AfterWorker, Owned, Go, Opens, Closes
<1>1. CASE Configure
  BY <1>1 DEF Configure
<1>2. CASE OpenStore
  BY <1>2 DEF OpenStore
<1>3. CASE OpenAuthority
  BY <1>3 DEF OpenAuthority
<1>4. CASE ConnectBus
  BY <1>4 DEF ConnectBus
<1>5. CASE StartPersonas
  BY <1>5 DEF StartPersonas
<1>6. CASE StartDispatchers
  BY <1>6 DEF StartDispatchers
<1>7. CASE OpenRouter
  BY <1>7 DEF OpenRouter
<1>8. CASE StartWorker
  BY <1>8 DEF StartWorker
<1>9. CASE RegisterTools
  BY <1>9 DEF RegisterTools
<1>10. CASE BuildVerifier
  BY <1>10 DEF BuildVerifier
<1>11. CASE BuildRegistry
  BY <1>11 DEF BuildRegistry
<1>12. CASE BuildTransport
  BY <1>12 DEF BuildTransport
<1>13. CASE Serve
  BY <1>13 DEF Serve
<1>14. CASE BootFails
  BY <1>14 DEF BootFails, Booting
<1>15. ASSUME NEW activity \in {"rpc", "request"},
              ClientCalls(activity) \/ LeaveWork(activity)
       PROVE  LifeInv'
  BY <1>15 DEF ClientCalls, LeaveWork
<1>16. ASSUME NEW activity \in {"rpc", "request", "turnWork"}, Finish(activity)
       PROVE  LifeInv'
  BY <1>16 DEF Finish
<1>17. CASE Signal
  BY <1>17 DEF Signal
<1>18. CASE StopGrpc
  BY <1>18 DEF StopGrpc
<1>19. CASE DrainServers
  BY <1>19 DEF DrainServers
<1>20. CASE StopRefresher
  BY <1>20 DEF StopRefresher
<1>21. CASE StopWorker
  BY <1>21 DEF StopWorker
<1>22. CASE DrainTurns
  BY <1>22 DEF DrainTurns
<1>23. CASE StopDispatchers
  BY <1>23 DEF StopDispatchers
<1>24. CASE CloseMemory
  BY <1>24 DEF CloseMemory
<1>25. CASE CloseRouter
  BY <1>25 DEF CloseRouter
<1>26. CASE CloseAuthority
  BY <1>26 DEF CloseAuthority
<1>27. CASE CloseStore
  BY <1>27 DEF CloseStore
<1>28. CASE CloseHome
  BY <1>28 DEF CloseHome
<1>29. CASE ShutdownFails
  BY <1>29 DEF ShutdownFails
<1>30. CASE UNCHANGED lifeVars
  BY <1>30 DEF lifeVars
<1> HIDE DEF LifeInv
<1> QED BY <1>1, <1>2, <1>3, <1>4, <1>5, <1>6, <1>7, <1>8, <1>9, <1>10, <1>11, <1>12,
           <1>13, <1>14, <1>15, <1>16, <1>17, <1>18, <1>19, <1>20, <1>21, <1>22, <1>23,
           <1>24, <1>25, <1>26, <1>27, <1>28, <1>29, <1>30 DEF LifeNext, BootStep, StopStep

\* From the start of the process to its exit, in every deployment and whatever
\* stage raises, a loop the process owns never finds a resource
\* closed, and neither does what clients asked for, unless a drain timed out.
THEOREM NothingIsClosedUnderUse == LifeSpec => []NothingUsesWhatIsClosed
<1>1. LifeInit => LifeInv
  BY DEF LifeInit, LifeInv, IsOpen, MayRun, WithRegistry, WithTools, WithWorker, WithRouter,
         WithDispatchers, WithPersonas, WithBus, WithAuthority, WithStore, RunningStages
<1>2. ASSUME LifeInv, NEW activity \in live, activity \in Owned \/ ~late
      PROVE  Uses(activity) \subseteq opened
  <2> USE DEF LifeInv, IsOpen, MayRun, WithRegistry, WithTools, WithWorker, WithRouter,
            WithDispatchers, WithPersonas, WithBus, WithAuthority, WithStore,
            RunningStages, Closing, AfterWorker
  <2>1. CASE activity = "rpc"
    BY <1>2, <2>1 DEF Uses, EngineNeeds
  <2>2. CASE activity = "request"
    BY <1>2, <2>2 DEF Uses, EngineNeeds, Owned
  <2>3. CASE activity = "turnWork"
    BY <1>2, <2>3 DEF Uses, EngineNeeds, Owned
  <2>4. CASE activity = "refresher"
    BY <1>2, <2>4 DEF Uses, EngineNeeds
  <2>5. CASE activity = "worker"
    BY <1>2, <2>5 DEF Uses, EngineNeeds
  <2>6. CASE activity = "auditDispatch"
    BY <1>2, <2>6 DEF Uses, EngineNeeds
  <2>7. CASE activity = "memoryDispatch"
    BY <1>2, <2>7 DEF Uses, EngineNeeds
  <2> QED BY <1>2, <2>1, <2>2, <2>3, <2>4, <2>5, <2>6, <2>7 DEF Owned
<1>3. LifeInv => NothingUsesWhatIsClosed
  BY <1>2 DEF NothingUsesWhatIsClosed
<1>4. LifeSpec => []LifeInv
  BY <1>1, LifeNextInv, PTL DEF LifeSpec
<1> QED BY <1>3, <1>4, PTL
(***************************************************************************)
(* MemoryClient: types.                                                     *)
(***************************************************************************)
RequestType == {NoRequest, Names} \union {Call(r) : r \in Reads}
WorkerType == [st : {"none", "idle", "busy", "leaving", "gone"}, req : RequestType]
PoolType == [st : {"none", "open", "closed"}, url : Urls, queue : Seq(RequestType),
             failed : BOOLEAN, work : [Workers -> WorkerType]]
ReadType ==
    [pc : {"idle", "lock", "revoked", "submit", "wait", "drop", "closing", "retry", "done"},
     want : Urls, sess : Int, first : Int, attempt : {0, 1}, shut : Int,
     then : {"none", "retry", "give_up", "no_route", "replace"},
     result : {"none", "ok", "mismatch", "unavailable", "no_route", "timeout", "deadline"}]

MemoryTyped ==
    /\ route \in Routes /\ refreshes \in Nat
    /\ pools \in [Pools -> PoolType]
    /\ made \in 0..MaxPools /\ cached \in 0..made
    /\ lock \in BOOLEAN
    /\ reads \in [Reads -> ReadType]

(***************************************************************************)
(* The invariant.                                                           *)
(***************************************************************************)
\* Why a pool may be closed.
GivenUp(p) == pools[p].failed \/ refreshes > 0 \/ phase \in {"closing", "closed"}

\* The pools that were made, one of them open at most; until the first refresh
\* they are all of the one route.
PoolGood(p) ==
    /\ pools[p].st = "none" <=> p > made
    /\ pools[p].st = "open" => p = cached
    /\ pools[p].st = "closed" => GivenUp(p)
    /\ refreshes = 0 /\ p <= made => pools[p].url = route.url
    /\ \A w \in Workers : pools[p].work[w].st # "busy" => pools[p].work[w].req = NoRequest

\* A pool holds the request of read r.
Holds(pool, r) ==
    \/ \E i \in DOMAIN pool.queue : pool.queue[i] = Call(r)
    \/ \E w \in Workers : pool.work[w].req = Call(r)

Replacing(x) == x.pc = "closing" /\ x.then = "replace"

\* What a read relies on: the pool it uses, fails on or waits to be gone, the
\* lock while it replaces the cached pool, and on a second attempt another pool.
ReadGood(r) ==
    LET x == reads[r] IN
    /\ x.pc \in {"submit", "wait", "drop"} => x.sess \in 1..made
    /\ x.pc = "drop" => pools[x.sess].failed \/ pools[x.sess].st = "closed"
    /\ x.pc = "wait" => pools[x.sess].st = "open" /\ Holds(pools[x.sess], r)
    /\ x.pc = "closing" => /\ x.shut \in 1..made /\ pools[x.shut].st = "closed"
                           /\ x.then # "none"
    /\ Replacing(x) => lock /\ cached = x.shut
    /\ x.pc = "closing" /\ x.then = "retry" => x.sess \in 1..made /\ x.sess # cached
    /\ x.attempt = 1 => x.first \in 1..made /\ x.first # cached
    /\ x.attempt = 1 /\ x.pc \in {"submit", "wait"} => x.sess # x.first
    /\ refreshes = 0 => x.pc # "revoked" /\ (x.pc # "idle" => x.want = route.url)

MemoryInv ==
    /\ MemoryTyped
    /\ refreshes = 0 => route.enabled
    /\ phase = "boot" => made = 0 /\ \A r \in Reads : reads[r].pc = "idle"
    /\ \A p \in Pools : PoolGood(p)
    /\ \A r \in Reads : ReadGood(r)
    /\ \A r, q \in Reads : Replacing(reads[r]) /\ Replacing(reads[q]) => r = q

LEMMA PlainWorkers ==
    /\ NoWorker \in WorkerType /\ Idle \in WorkerType /\ Leaving \in WorkerType
    /\ Gone \in WorkerType
    /\ NoWorker.st # "busy" /\ Idle.st # "busy" /\ Leaving.st # "busy" /\ Gone.st # "busy"
    /\ NoWorker.req = NoRequest /\ Idle.req = NoRequest /\ Leaving.req = NoRequest
    /\ Gone.req = NoRequest
    /\ \A r \in Reads : Call(r) # NoRequest /\ Call(r) # Names /\ Call(r) \in RequestType
                        /\ Call(r).op = "call" /\ Call(r).by = r
    /\ NoRequest.op # "call" /\ Names.op # "call"
BY DEF NoWorker, Idle, Leaving, Gone, WorkerType, RequestType, NoRequest, Names, Call

\* No worker keeps a request it does not work on.
Tidy(pool) == \A w \in Workers : pool.work[w].st # "busy" => pool.work[w].req = NoRequest

LEMMA CancelFacts ==
    ASSUME NEW pool \in PoolType, Tidy(pool)
    PROVE  /\ CancelWorkers(pool) \in PoolType /\ Tidy(CancelWorkers(pool))
           /\ CancelWorkers(pool).st = pool.st /\ CancelWorkers(pool).url = pool.url
           /\ CancelWorkers(pool).failed = pool.failed
<1>1. ASSUME NEW w \in Workers
      PROVE  /\ Cancelled(pool.work[w]) \in WorkerType
             /\ Cancelled(pool.work[w]).st # "busy" => Cancelled(pool.work[w]).req = NoRequest
  <2>1. pool.work[w] \in WorkerType
    BY DEF PoolType
  <2> QED BY <2>1, PlainWorkers DEF Cancelled, Tidy
<1> DEFINE work == [w \in Workers |-> Cancelled(pool.work[w])]
<1>2. work \in [Workers -> WorkerType] /\ CancelWorkers(pool) = [pool EXCEPT !.work = work]
      /\ \A w \in Workers : work[w].st # "busy" => work[w].req = NoRequest
  BY <1>1 DEF CancelWorkers
<1> HIDE DEF work
<1> QED BY <1>2 DEF PoolType, Tidy

LEMMA CloseFacts ==
    ASSUME NEW pool \in PoolType, Tidy(pool)
    PROVE  /\ ClosedPool(pool) \in PoolType /\ Tidy(ClosedPool(pool))
           /\ ClosedPool(pool).st = "closed" /\ ClosedPool(pool).url = pool.url
           /\ ClosedPool(pool).failed = pool.failed
<1> DEFINE y == CancelWorkers(pool)
<1>1. y \in PoolType /\ Tidy(y) /\ y.url = pool.url /\ y.failed = pool.failed
  BY CancelFacts
<1> DEFINE none == <<>>
           z == [y EXCEPT !.st = "closed", !.queue = none]
<1>2. ClosedPool(pool) = z /\ none \in Seq(RequestType)
  BY DEF ClosedPool
<1> HIDE DEF y, none
<1>3. z \in PoolType /\ z.work = y.work /\ z.st = "closed" /\ z.url = y.url
      /\ z.failed = y.failed
  BY <1>1, <1>2 DEF PoolType
<1> HIDE DEF z
<1> QED BY <1>1, <1>2, <1>3 DEF Tidy

LEMMA NewPoolFacts ==
    ASSUME NEW url \in Urls
    PROVE  /\ NewPool(url) \in PoolType /\ Tidy(NewPool(url))
           /\ NewPool(url).st = "open" /\ NewPool(url).url = url
<1> DEFINE work == [w \in Workers |-> NoWorker]
<1>1. work \in [Workers -> WorkerType] /\ \A w \in Workers : work[w] = NoWorker
  BY PlainWorkers
<1>2. NewPool(url) = [st |-> "open", url |-> url, queue |-> <<>>, failed |-> FALSE, work |-> work]
  BY DEF NewPool
<1> HIDE DEF work
<1>3. <<>> \in Seq(RequestType) /\ FALSE \in BOOLEAN
  OBVIOUS
<1>4. NewPool(url) \in PoolType /\ NewPool(url).work = work
      /\ NewPool(url).st = "open" /\ NewPool(url).url = url
  BY <1>1, <1>2, <1>3 DEF PoolType
<1> QED BY <1>1, <1>4, PlainWorkers DEF Tidy

LEMMA StartFacts ==
    ASSUME NEW pool \in PoolType, Tidy(pool)
    PROVE  /\ Started(pool) \in PoolType /\ Tidy(Started(pool))
           /\ Started(pool).st = pool.st /\ Started(pool).url = pool.url
           /\ Started(pool).failed = pool.failed /\ Started(pool).queue = pool.queue
           /\ \A r \in Reads : Holds(pool, r) => Holds(Started(pool), r)
<1>1. CASE \A w \in Workers : pool.work[w].st = "none"
  <2> DEFINE work == [w \in Workers |-> Idle]
             y == [pool EXCEPT !.work = work]
  <2>1. Started(pool) = y
    BY <1>1 DEF Started
  <2>2. work \in [Workers -> WorkerType] /\ \A w \in Workers : work[w] = Idle
    BY PlainWorkers
  <2> HIDE DEF work
  <2>3. y \in PoolType /\ y.work = work /\ y.st = pool.st /\ y.url = pool.url
        /\ y.failed = pool.failed /\ y.queue = pool.queue
    BY <2>2 DEF PoolType
  <2> HIDE DEF y
  <2>4. Tidy(y)
    BY <2>2, <2>3, PlainWorkers DEF Tidy
  <2>5. \A r \in Reads : Holds(pool, r) => Holds(y, r)
    BY <1>1, <2>3, PlainWorkers DEF Holds, Tidy
  <2> QED BY <2>1, <2>3, <2>4, <2>5
<1>2. CASE ~\A w \in Workers : pool.work[w].st = "none"
  BY <1>2 DEF Started
<1> QED BY <1>1, <1>2

\* A read that a step does not touch, when the pools it relies on keep.
LEMMA ReadKeeps ==
    ASSUME MemoryInv, NEW r \in Reads, reads'[r] = reads[r],
           made' \in Int, made <= made', cached' = 0 \/ cached' = cached \/ cached' > made,
           \A p \in 1..made : /\ pools[p].failed => pools'[p].failed
                              /\ pools[p].st = "closed" => pools'[p].st = "closed",
           reads[r].pc = "wait" => /\ pools'[reads[r].sess].st = "open"
                                   /\ Holds(pools'[reads[r].sess], r),
           Replacing(reads[r]) => lock' /\ cached' = cached,
           UNCHANGED <<route, refreshes>>
    PROVE  ReadGood(r)'
<1> DEFINE x == reads[r]
<1>1. x \in ReadType /\ ReadGood(r) /\ made \in Nat /\ cached \in Int
  BY MemoryBounds DEF MemoryInv, MemoryTyped
<1>2. \A n \in Int : n \in 1..made => n \in 1..made' /\ n # 0 /\ ~(n > made)
  BY <1>1
<1>3. x.sess \in Int /\ x.first \in Int /\ x.shut \in Int
  BY <1>1 DEF ReadType
<1> QED BY <1>1, <1>2, <1>3 DEF ReadGood, Holds, Replacing

\* A pool that a step does not touch.
LEMMA PoolKeeps ==
    ASSUME MemoryInv, NEW p \in Pools, pools'[p] = pools[p],
           pools[p].st # "open" \/ cached' = cached,
           made' = made \/ (made' = made + 1 /\ p # made + 1),
           UNCHANGED <<route, refreshes>>, GivenUp(p) => GivenUp(p)'
    PROVE  PoolGood(p)'
<1>1. PoolGood(p) /\ made \in Int /\ p \in Int /\ pools[p] \in PoolType
  BY MemoryBounds DEF MemoryInv, MemoryTyped, Pools
<1>2. (p > made <=> p > made') /\ (p <= made <=> p <= made')
  BY <1>1
<1> QED BY <1>1, <1>2 DEF PoolGood

\* Steps that only move one read.
LEMMA OneRead ==
    ASSUME MemoryInv, NEW r \in Reads, NEW x \in ReadType, reads' = [reads EXCEPT ![r] = x],
           UNCHANGED <<route, refreshes, pools, made, cached, phase>>, phase # "boot",
           lock' \in BOOLEAN, Replacing(x) => lock' /\ Replacing(reads[r]),
           \A q \in Reads \ {r} : Replacing(reads[q]) => lock',
           ReadGood(r)'
    PROVE  MemoryInv'
<1>1. MemoryTyped'
  BY DEF MemoryInv, MemoryTyped
<1>2. \A p \in Pools : PoolGood(p)'
  BY DEF MemoryInv, PoolGood, GivenUp
<1>3. ASSUME NEW q \in Reads, q # r PROVE ReadGood(q)'
  <2>1. reads'[q] = reads[q] /\ made \in Int /\ ReadGood(q)
    BY <1>3, MemoryBounds DEF MemoryInv, MemoryTyped
  <2> QED BY <1>3, <2>1, ReadKeeps DEF ReadGood
<1>4. \A q \in Reads : reads'[q] = IF q = r THEN x ELSE reads[q]
  BY DEF MemoryInv, MemoryTyped
<1>5. \A q, s \in Reads : Replacing(reads'[q]) /\ Replacing(reads'[s]) => q = s
  BY <1>4 DEF MemoryInv
<1> QED BY <1>1, <1>2, <1>3, <1>5 DEF MemoryInv, Replacing
LEMMA ReadRouteStep == ASSUME MemoryInv, NEW r \in Reads, ReadRoute(r) PROVE MemoryInv'
<1> DEFINE y == reads[r]
           pc == IF route.enabled THEN "lock" ELSE "revoked"
           x == [y EXCEPT !.pc = pc, !.want = route.url]
<1>1. y \in ReadType /\ ReadGood(r) /\ route.url \in Urls /\ pc \in {"lock", "revoked"}
  BY DEF MemoryInv, MemoryTyped, Routes
<1>2. reads' = [reads EXCEPT ![r] = x] /\ phase = "running"
      /\ UNCHANGED <<route, refreshes, pools, made, cached, lock, phase>>
  BY DEF ReadRoute, MemoryInv, MemoryTyped
<1>3. refreshes = 0 => pc = "lock"
  BY DEF MemoryInv
<1> HIDE DEF pc
<1>4. x \in ReadType /\ x.pc = pc /\ x.want = route.url /\ x.attempt = y.attempt
      /\ x.first = y.first
  BY <1>1 DEF ReadType
<1> HIDE DEF x
<1>5. reads'[r] = x
  BY <1>2 DEF MemoryInv, MemoryTyped
<1>6. ReadGood(r)'
  BY <1>1, <1>2, <1>3, <1>4, <1>5 DEF ReadGood, Replacing
<1>7. \A q \in Reads : Replacing(reads[q]) => lock
  BY DEF MemoryInv, ReadGood
<1> QED BY <1>1, <1>2, <1>4, <1>6, <1>7, OneRead DEF MemoryInv, MemoryTyped, Replacing

LEMMA CallTimeoutStep == ASSUME MemoryInv, NEW r \in Reads, CallTimeout(r) PROVE MemoryInv'
<1> DEFINE y == reads[r]
           x == [y EXCEPT !.pc = "done", !.result = "timeout"]
<1>1. y \in ReadType /\ ReadGood(r) /\ y.pc = "wait"
  BY DEF MemoryInv, MemoryTyped, CallTimeout
<1>2. reads' = [reads EXCEPT ![r] = x] /\ phase # "boot"
      /\ UNCHANGED <<route, refreshes, pools, made, cached, lock, phase>>
  BY <1>1 DEF CallTimeout, MemoryInv, Ended
<1>3. x \in ReadType /\ x.pc = "done" /\ x.attempt = y.attempt /\ x.first = y.first
      /\ x.want = y.want
  BY <1>1 DEF ReadType
<1> HIDE DEF x
<1>4. reads'[r] = x
  BY <1>2 DEF MemoryInv, MemoryTyped
<1>5. ReadGood(r)'
  BY <1>1, <1>2, <1>3, <1>4 DEF ReadGood, Replacing
<1>6. \A q \in Reads : Replacing(reads[q]) => lock
  BY DEF MemoryInv, ReadGood
<1> QED BY <1>1, <1>2, <1>3, <1>5, <1>6, OneRead DEF MemoryInv, MemoryTyped, Replacing

\* A pool that works on, whatever its workers do.
LEMMA OnePool ==
    ASSUME MemoryInv, NEW p \in Pools, NEW z \in PoolType, Tidy(z),
           pools' = [pools EXCEPT ![p] = z], z.st = pools[p].st, z.url = pools[p].url,
           pools[p].failed => z.failed,
           UNCHANGED <<route, refreshes, made, cached, phase>>
    PROVE  /\ pools' \in [Pools -> PoolType] /\ pools'[p] = z
           /\ \A q \in Pools : /\ PoolGood(q)' /\ pools'[q].st = pools[q].st
                               /\ pools[q].failed => pools'[q].failed
                               /\ q # p => pools'[q] = pools[q]
<1>1. pools \in [Pools -> PoolType] /\ \A q \in Pools : PoolGood(q)
  BY DEF MemoryInv, MemoryTyped
<1>2. pools' \in [Pools -> PoolType] /\ pools'[p] = z /\ \A q \in Pools \ {p} : pools'[q] = pools[q]
  BY <1>1
<1>3. PoolGood(p)'
  BY <1>1, <1>2 DEF PoolGood, GivenUp, Tidy
<1>4. \A q \in Pools \ {p} : PoolGood(q)'
  BY <1>1, <1>2 DEF PoolGood, GivenUp
<1> QED BY <1>2, <1>3, <1>4

LEMMA InPools == ASSUME MemoryInv PROVE \A p \in Int : p \in 1..made => p \in Pools
BY MemoryBounds DEF MemoryInv, MemoryTyped, Pools

LEMMA OnePoolQuietly ==
    ASSUME MemoryInv, NEW p \in Pools, NEW z \in PoolType, Tidy(z),
           pools' = [pools EXCEPT ![p] = z], z.st = pools[p].st, z.url = pools[p].url,
           pools[p].failed => z.failed,
           UNCHANGED <<route, refreshes, made, cached, phase, reads, lock>>,
           \A r \in Reads : Holds(pools[p], r) => Holds(z, r)
    PROVE  MemoryInv'
<1>1. /\ pools' \in [Pools -> PoolType] /\ pools'[p] = z
      /\ \A q \in Pools : /\ PoolGood(q)' /\ pools'[q].st = pools[q].st
                          /\ pools[q].failed => pools'[q].failed
                          /\ q # p => pools'[q] = pools[q]
  BY OnePool
<1>2. MemoryTyped'
  BY <1>1 DEF MemoryInv, MemoryTyped
<1>3. ASSUME NEW r \in Reads PROVE ReadGood(r)'
  <2>1. ReadGood(r) /\ made \in Int /\ reads[r] \in ReadType
    BY MemoryBounds DEF MemoryInv, MemoryTyped
  <2>2. reads[r].sess \in Int
    BY <2>1 DEF ReadType
  <2>3. reads[r].pc = "wait" => /\ pools'[reads[r].sess].st = "open"
                                /\ Holds(pools'[reads[r].sess], r)
    BY <1>1, <2>1, <2>2, InPools DEF ReadGood
  <2>4. \A q \in 1..made : /\ pools[q].failed => pools'[q].failed
                           /\ pools[q].st = "closed" => pools'[q].st = "closed"
    BY <1>1, <2>1, InPools
  <2>5. Replacing(reads[r]) => lock
    BY <2>1 DEF ReadGood
  <2> QED BY <2>1, <2>3, <2>4, <2>5, ReadKeeps
<1> QED BY <1>1, <1>2, <1>3 DEF MemoryInv, Replacing

LEMMA WorkerTakesStep ==
    ASSUME MemoryInv, NEW p \in Pools, NEW w \in Workers, WorkerTakes(p, w)
    PROVE  MemoryInv'
<1> DEFINE y == pools[p]
           h == Head(y.queue)
           t == Tail(y.queue)
           b == [st |-> "busy", req |-> h]
           work == [y.work EXCEPT ![w] = b]
           z == [y EXCEPT !.work = work, !.queue = t]
<1>1. y \in PoolType /\ Tidy(y) /\ y.work[w].st = "idle" /\ y.queue # <<>>
  BY DEF MemoryInv, MemoryTyped, PoolGood, Tidy, WorkerTakes
<1>2. y.queue \in Seq(RequestType) /\ y.work \in [Workers -> WorkerType]
  BY <1>1 DEF PoolType
<1>3. h \in RequestType /\ t \in Seq(RequestType)
      /\ \A i \in DOMAIN y.queue : y.queue[i] = h \/ \E j \in DOMAIN t : t[j] = y.queue[i]
  <2>1. \A i \in DOMAIN y.queue : i = 1 \/ (i - 1 \in DOMAIN t /\ t[i - 1] = y.queue[i])
    BY <1>1, <1>2
  <2>2. h = y.queue[1] /\ h \in RequestType /\ t \in Seq(RequestType)
    BY <1>1, <1>2
  <2> QED BY <2>1, <2>2
<1> HIDE DEF h, t
<1>4. b \in WorkerType /\ b.st = "busy" /\ b.req = h
  BY <1>3 DEF WorkerType
<1>5. pools' = [pools EXCEPT ![p] = z]
  BY <1>1 DEF WorkerTakes, MemoryInv, MemoryTyped, h, t
<1> HIDE DEF b
<1>6. work \in [Workers -> WorkerType] /\ work[w] = b
      /\ \A v \in Workers \ {w} : work[v] = y.work[v]
  BY <1>2, <1>4
<1> HIDE DEF work
<1>7. z \in PoolType /\ z.work = work /\ z.queue = t /\ z.st = y.st /\ z.url = y.url
      /\ z.failed = y.failed
  BY <1>1, <1>3, <1>6 DEF PoolType
<1> HIDE DEF z
<1>8. Tidy(z)
  BY <1>1, <1>4, <1>6, <1>7 DEF Tidy
<1>9. \A r \in Reads : Holds(y, r) => Holds(z, r)
  BY <1>1, <1>3, <1>4, <1>6, <1>7, PlainWorkers DEF Holds, Tidy
<1> QED BY <1>5, <1>7, <1>8, <1>9, OnePoolQuietly DEF WorkerTakes

LEMMA WorkerLeavesStep ==
    ASSUME MemoryInv, NEW p \in Pools, NEW w \in Workers, WorkerLeaves(p, w)
    PROVE  MemoryInv'
<1> DEFINE y == pools[p]
           work == [y.work EXCEPT ![w] = Gone]
           z == [y EXCEPT !.work = work]
<1>1. y \in PoolType /\ Tidy(y) /\ y.work[w].st = "leaving" /\ y.work \in [Workers -> WorkerType]
  BY DEF MemoryInv, MemoryTyped, PoolGood, Tidy, WorkerLeaves, PoolType
<1>2. pools' = [pools EXCEPT ![p] = z]
  BY <1>1 DEF WorkerLeaves, MemoryInv, MemoryTyped
<1>3. work \in [Workers -> WorkerType] /\ work[w] = Gone
      /\ \A v \in Workers \ {w} : work[v] = y.work[v]
  BY <1>1, PlainWorkers
<1> HIDE DEF work
<1>4. z \in PoolType /\ z.work = work /\ z.queue = y.queue /\ z.st = y.st /\ z.url = y.url
      /\ z.failed = y.failed
  BY <1>1, <1>3 DEF PoolType
<1> HIDE DEF z
<1>5. Tidy(z)
  BY <1>1, <1>3, <1>4, PlainWorkers DEF Tidy
<1>6. \A r \in Reads : Holds(y, r) => Holds(z, r)
  BY <1>1, <1>3, <1>4, PlainWorkers DEF Holds, Tidy
<1> QED BY <1>2, <1>4, <1>5, <1>6, OnePoolQuietly DEF WorkerLeaves

LEMMA WorkerAnswersStep ==
    ASSUME MemoryInv, NEW p \in Pools, NEW w \in Workers,
           NEW answer \in {"ok", "mismatch", "unavailable"}, WorkerAnswers(p, w, answer)
    PROVE  MemoryInv'
<1> DEFINE y == pools[p]
           req == y.work[w].req
           f == y.failed \/ answer = "unavailable"
           work == [y.work EXCEPT ![w] = Idle]
           z == [y EXCEPT !.work = work, !.failed = f]
           waiting == req.op = "call" /\ reads[req.by].pc = "wait" /\ reads[req.by].sess = p
<1>1. y \in PoolType /\ Tidy(y) /\ y.work \in [Workers -> WorkerType] /\ y.failed \in BOOLEAN
  BY DEF MemoryInv, MemoryTyped, PoolGood, Tidy, PoolType
<1>2. req \in RequestType /\ f \in BOOLEAN
  BY <1>1 DEF WorkerType
<1>3. pools' = [pools EXCEPT ![p] = z]
  BY <1>1 DEF WorkerAnswers, MemoryInv, MemoryTyped
<1>4. work \in [Workers -> WorkerType] /\ work[w] = Idle
      /\ \A v \in Workers \ {w} : work[v] = y.work[v]
  BY <1>1, PlainWorkers
<1>f. (y.failed => f) /\ (answer = "unavailable" => f)
  OBVIOUS
<1> HIDE DEF work, f
<1>5. z \in PoolType /\ z.work = work /\ z.queue = y.queue /\ z.st = y.st /\ z.url = y.url
      /\ z.failed = f
  BY <1>1, <1>2, <1>4 DEF PoolType
<1> HIDE DEF z
<1>6. Tidy(z)
  BY <1>1, <1>4, <1>5, PlainWorkers DEF Tidy
<1>7. \A r \in Reads : Holds(y, r) => Holds(z, r) \/ req = Call(r)
  BY <1>4, <1>5 DEF Holds
<1>8. UNCHANGED <<route, refreshes, made, cached, lock, phase>>
  BY DEF WorkerAnswers
<1>9. CASE ~waiting
  <2>1. UNCHANGED reads
    BY <1>9 DEF WorkerAnswers
  <2>2. ASSUME NEW r \in Reads, reads[r].pc = "wait", reads[r].sess = p, req = Call(r)
        PROVE  FALSE
    BY <1>9, <2>2, PlainWorkers
  <2>3. /\ pools' \in [Pools -> PoolType] /\ pools'[p] = z
        /\ \A q \in Pools : /\ PoolGood(q)' /\ pools'[q].st = pools[q].st
                            /\ pools[q].failed => pools'[q].failed
                            /\ q # p => pools'[q] = pools[q]
    BY <1>3, <1>5, <1>6, <1>8, <1>f, OnePool
  <2>4. ASSUME NEW r \in Reads PROVE ReadGood(r)'
    <3>1. ReadGood(r) /\ made \in Int /\ reads[r] \in ReadType /\ reads[r].sess \in Int
      BY MemoryBounds DEF MemoryInv, MemoryTyped, ReadType
    <3>2. reads[r].pc = "wait" => /\ pools'[reads[r].sess].st = "open"
                                  /\ Holds(pools'[reads[r].sess], r)
      <4>1. CASE reads[r].sess = p
        BY <1>7, <2>2, <2>3, <3>1, <4>1, InPools DEF ReadGood
      <4>2. CASE reads[r].sess # p
        BY <2>3, <3>1, <4>2, InPools DEF ReadGood
      <4> QED BY <4>1, <4>2
    <3>3. \A q \in 1..made : /\ pools[q].failed => pools'[q].failed
                             /\ pools[q].st = "closed" => pools'[q].st = "closed"
      BY <2>3, <3>1, InPools
    <3>4. Replacing(reads[r]) => lock
      BY <3>1 DEF ReadGood
    <3> QED BY <1>8, <2>1, <3>1, <3>2, <3>3, <3>4, ReadKeeps
  <2> QED BY <1>8, <2>1, <2>3, <2>4 DEF MemoryInv, MemoryTyped, Replacing
<1>10. CASE waiting
  <2>0. PICK s \in Reads : req = Call(s)
    BY <1>2, <1>10, PlainWorkers DEF RequestType
  <2>b. req.by = s /\ req.op = "call"
    BY <2>0, PlainWorkers
  <2> DEFINE x == IF answer = "unavailable" THEN [reads[s] EXCEPT !.pc = "drop"]
                  ELSE [reads[s] EXCEPT !.pc = "done", !.result = answer]
  <2>1. s \in Reads /\ req = Call(s) /\ reads[s].pc = "wait" /\ reads[s].sess = p
        /\ reads' = [reads EXCEPT ![s] = x]
    BY <1>10, <2>0, <2>b DEF WorkerAnswers, MemoryInv, MemoryTyped
  <2> HIDE DEF req
  <2>2. reads[s] \in ReadType /\ ReadGood(s) /\ made \in Int
    BY MemoryBounds DEF MemoryInv, MemoryTyped
  <2>p. p \in 1..made
    BY <2>1, <2>2 DEF ReadGood
  <2>3. x \in ReadType /\ x.attempt = reads[s].attempt /\ x.first = reads[s].first
        /\ x.want = reads[s].want /\ x.sess = p
        /\ ((x.pc = "drop" /\ answer = "unavailable") \/ x.pc = "done")
    BY <2>1, <2>2 DEF ReadType
  <2> HIDE DEF x
  <2>4. /\ pools' \in [Pools -> PoolType] /\ pools'[p] = z
        /\ \A q \in Pools : /\ PoolGood(q)' /\ pools'[q].st = pools[q].st
                            /\ pools[q].failed => pools'[q].failed
                            /\ q # p => pools'[q] = pools[q]
    BY <1>3, <1>5, <1>6, <1>8, <1>f, OnePool
  <2>5. reads' \in [Reads -> ReadType] /\ reads'[s] = x
        /\ \A r \in Reads \ {s} : reads'[r] = reads[r]
    BY <2>1, <2>3 DEF MemoryInv, MemoryTyped
  <2>6. ReadGood(s)'
    BY <1>5, <1>8, <1>f, <2>1, <2>2, <2>p, <2>3, <2>4, <2>5 DEF ReadGood, Replacing
  <2>7. ASSUME NEW r \in Reads \ {s} PROVE ReadGood(r)'
    <3>1. ReadGood(r) /\ made \in Int /\ reads[r] \in ReadType /\ reads[r].sess \in Int
      BY MemoryBounds DEF MemoryInv, MemoryTyped, ReadType
    <3>2. req # Call(r)
      BY <2>1, PlainWorkers
    <3>3. reads[r].pc = "wait" => /\ pools'[reads[r].sess].st = "open"
                                  /\ Holds(pools'[reads[r].sess], r)
      BY <1>7, <2>4, <3>1, <3>2, InPools DEF ReadGood
    <3>4. \A q \in 1..made : /\ pools[q].failed => pools'[q].failed
                             /\ pools[q].st = "closed" => pools'[q].st = "closed"
      BY <2>4, <3>1, InPools
    <3>5. Replacing(reads[r]) => lock
      BY <3>1 DEF ReadGood
    <3> QED BY <1>8, <2>5, <3>1, <3>3, <3>4, <3>5, ReadKeeps
  <2>8. \A r, q \in Reads : Replacing(reads'[r]) /\ Replacing(reads'[q]) => r = q
    BY <2>3, <2>5 DEF MemoryInv, Replacing
  <2>9. phase # "boot"
    BY <2>1 DEF MemoryInv
  <2>10. MemoryTyped'
    BY <1>8, <2>4, <2>5 DEF MemoryInv, MemoryTyped
  <2>11. \A r \in Reads : ReadGood(r)'
    BY <2>6, <2>7
  <2>12. \A r, q \in Reads : (Replacing(reads[r]) /\ Replacing(reads[q]) => r = q)'
    BY <2>8
  <2> QED BY <1>8, <2>4, <2>9, <2>10, <2>11, <2>12 DEF MemoryInv
<1> QED BY <1>9, <1>10
LEMMA SubmitStep == ASSUME MemoryInv, NEW r \in Reads, Submit(r) PROVE MemoryInv'
<1> DEFINE y == reads[r]
           p == y.sess
<1>1. y \in ReadType /\ ReadGood(r) /\ y.pc = "submit" /\ made \in Int /\ y.sess \in Int
      /\ phase # "boot"
  BY MemoryBounds DEF MemoryInv, MemoryTyped, Submit, ReadType
<1>2. p \in 1..made /\ p \in Pools
  BY <1>1, InPools DEF ReadGood
<1>3. pools[p] \in PoolType /\ PoolGood(p) /\ Tidy(pools[p])
  BY <1>2 DEF MemoryInv, MemoryTyped, PoolGood, Tidy
<1>4. UNCHANGED <<route, refreshes, made, cached, lock, phase>>
  BY DEF Submit
<1>5. \A q \in Reads : Replacing(reads[q]) => lock
  BY DEF MemoryInv, ReadGood
<1>6. CASE pools[p].st = "closed"
  <2> DEFINE x == [y EXCEPT !.pc = "drop"]
  <2>1. reads' = [reads EXCEPT ![r] = x] /\ UNCHANGED pools
    BY <1>6 DEF Submit
  <2>2. x \in ReadType /\ x.pc = "drop" /\ x.attempt = y.attempt /\ x.first = y.first
        /\ x.want = y.want /\ x.sess = p
    BY <1>1 DEF ReadType
  <2> HIDE DEF x
  <2>3. reads'[r] = x
    BY <2>1 DEF MemoryInv, MemoryTyped
  <2>4. ReadGood(r)'
    BY <1>1, <1>2, <1>4, <1>6, <2>1, <2>2, <2>3 DEF ReadGood, Replacing
  <2> QED BY <1>1, <1>4, <1>5, <2>1, <2>2, <2>4, OneRead DEF MemoryInv, MemoryTyped, Replacing
<1>7. CASE pools[p].st # "closed"
  <2> DEFINE x == [y EXCEPT !.pc = "wait"]
             s == Started(pools[p])
             queue == Append(s.queue, Call(r))
             z == [s EXCEPT !.queue = queue]
  <2>1. reads' = [reads EXCEPT ![r] = x] /\ pools' = [pools EXCEPT ![p] = z]
    BY <1>7 DEF Submit, Enqueued
  <2>2. x \in ReadType /\ x.pc = "wait" /\ x.attempt = y.attempt /\ x.first = y.first
        /\ x.want = y.want /\ x.sess = p
    BY <1>1 DEF ReadType
  <2>3. /\ s \in PoolType /\ Tidy(s) /\ s.st = pools[p].st /\ s.url = pools[p].url
        /\ s.failed = pools[p].failed
        /\ \A q \in Reads : Holds(pools[p], q) => Holds(s, q)
    BY <1>3, StartFacts
  <2> HIDE DEF s, x
  <2>4. s.queue \in Seq(RequestType)
    BY <2>3 DEF PoolType
  <2>5. /\ queue \in Seq(RequestType) /\ \E i \in DOMAIN queue : queue[i] = Call(r)
        /\ \A i \in DOMAIN s.queue : i \in DOMAIN queue /\ queue[i] = s.queue[i]
    <3>1. Call(r) \in RequestType
      BY PlainWorkers
    <3>2. /\ queue \in Seq(RequestType) /\ queue[Len(s.queue) + 1] = Call(r)
          /\ Len(s.queue) + 1 \in DOMAIN queue
          /\ \A i \in DOMAIN s.queue : i \in DOMAIN queue /\ queue[i] = s.queue[i]
      BY <2>4, <3>1
    <3> QED BY <3>2
  <2> HIDE DEF queue
  <2>6. z \in PoolType /\ z.work = s.work /\ z.queue = queue /\ z.st = s.st /\ z.url = s.url
        /\ z.failed = s.failed
    BY <2>3, <2>5 DEF PoolType
  <2> HIDE DEF z
  <2>7. Tidy(z) /\ Holds(z, r) /\ \A q \in Reads : Holds(s, q) => Holds(z, q)
    BY <2>3, <2>5, <2>6 DEF Tidy, Holds
  <2>8. /\ pools' \in [Pools -> PoolType] /\ pools'[p] = z
        /\ \A q \in Pools : /\ PoolGood(q)' /\ pools'[q].st = pools[q].st
                            /\ pools[q].failed => pools'[q].failed
                            /\ q # p => pools'[q] = pools[q]
    BY <1>2, <1>4, <2>1, <2>3, <2>6, <2>7, OnePool
  <2>9. reads' \in [Reads -> ReadType] /\ reads'[r] = x
        /\ \A q \in Reads \ {r} : reads'[q] = reads[q]
    BY <2>1, <2>2 DEF MemoryInv, MemoryTyped
  <2>10. pools[p].st = "open"
    BY <1>1, <1>2, <1>3, <1>7 DEF PoolGood, PoolType
  <2>11. ReadGood(r)'
    BY <1>1, <1>2, <1>4, <2>2, <2>7, <2>8, <2>9, <2>10 DEF ReadGood, Replacing, Holds
  <2>12. ASSUME NEW q \in Reads \ {r} PROVE ReadGood(q)'
    <3>1. ReadGood(q) /\ reads[q] \in ReadType /\ reads[q].sess \in Int
      BY MemoryBounds DEF MemoryInv, MemoryTyped, ReadType
    <3>2. reads[q].pc = "wait" => /\ pools'[reads[q].sess].st = "open"
                                  /\ Holds(pools'[reads[q].sess], q)
      BY <1>1, <2>3, <2>7, <2>8, <3>1, InPools DEF ReadGood
    <3>3. \A o \in 1..made : /\ pools[o].failed => pools'[o].failed
                             /\ pools[o].st = "closed" => pools'[o].st = "closed"
      BY <1>1, <2>8, <3>1, InPools
    <3> QED BY <1>1, <1>4, <1>5, <2>9, <3>2, <3>3, ReadKeeps
  <2>13. \A q \in Reads : ReadGood(q)'
    BY <2>11, <2>12
  <2>14. \A q, o \in Reads : (Replacing(reads[q]) /\ Replacing(reads[o]) => q = o)'
    BY <2>2, <2>9 DEF MemoryInv, Replacing
  <2>15. MemoryTyped'
    BY <1>4, <2>8, <2>9 DEF MemoryInv, MemoryTyped
  <2> QED BY <1>1, <1>4, <2>8, <2>13, <2>14, <2>15 DEF MemoryInv
<1> QED BY <1>6, <1>7

\* Closing the cached pool is good for every pool and for every read that is
\* left alone or, having waited for that pool, fails.
LEMMA CloseCached ==
    ASSUME MemoryInv, NEW c, c = cached, c # 0, pools' = [pools EXCEPT ![c] = ClosedPool(@)],
           UNCHANGED <<route, refreshes, made>>, GivenUp(c)',
           phase' = phase \/ (phase' = "closing" /\ phase = "running"),
           cached' = 0 \/ cached' = cached
    PROVE  /\ pools' \in [Pools -> PoolType] /\ c \in 1..made /\ c \in Pools
           /\ pools'[c].st = "closed"
           /\ \A p \in Pools : PoolGood(p)'
           /\ \A r \in Reads :
                 /\ reads[r].pc # "drop" \/ AfterClose(c)[r].pc = "drop"
                 /\ AfterClose(c)[r] \in ReadType
                 /\ Replacing(AfterClose(c)[r]) <=> Replacing(reads[r])
                 /\ AfterClose(c)[r].pc = "idle" <=> reads[r].pc = "idle"
                 /\ /\ reads'[r] = AfterClose(c)[r]
                    /\ Replacing(reads[r]) => lock' /\ cached' = cached
                    => ReadGood(r)'
<1>1. c \in 1..made /\ made \in Int /\ c \in Pools
  BY InPools, MemoryBounds DEF MemoryInv, MemoryTyped
<1>2. pools[c] \in PoolType /\ PoolGood(c) /\ Tidy(pools[c])
      /\ pools \in [Pools -> PoolType]
  BY <1>1 DEF MemoryInv, MemoryTyped, PoolGood, Tidy
<1> DEFINE z == ClosedPool(pools[c])
<1>3. z \in PoolType /\ Tidy(z) /\ z.st = "closed" /\ z.url = pools[c].url
      /\ z.failed = pools[c].failed
  BY <1>2, CloseFacts
<1>4. pools' = [pools EXCEPT ![c] = z]
  BY <1>2
<1> HIDE DEF z
<1>5. pools' \in [Pools -> PoolType] /\ pools'[c] = z
      /\ \A p \in Pools \ {c} : pools'[p] = pools[p]
  BY <1>1, <1>2, <1>3, <1>4
<1>6. PoolGood(c)'
  BY <1>1, <1>2, <1>3, <1>5 DEF PoolGood, Tidy, Pools, GivenUp
<1>7. ASSUME NEW p \in Pools \ {c} PROVE PoolGood(p)'
  <2>1. pools'[p] = pools[p] /\ PoolGood(p) /\ (GivenUp(p) => GivenUp(p)')
    BY <1>5, <1>7 DEF GivenUp, MemoryInv
  <2>2. pools[p].st # "open"
    BY <2>1 DEF PoolGood
  <2>3. p \in Pools /\ made' = made /\ UNCHANGED <<route, refreshes>>
    BY <1>7
  <2> QED BY <2>1, <2>2, <2>3, PoolKeeps
<1>8. ASSUME NEW r \in Reads
      PROVE  /\ reads[r].pc # "drop" \/ AfterClose(c)[r].pc = "drop"
             /\ AfterClose(c)[r] \in ReadType
             /\ Replacing(AfterClose(c)[r]) <=> Replacing(reads[r])
             /\ AfterClose(c)[r].pc = "idle" <=> reads[r].pc = "idle"
             /\ /\ reads'[r] = AfterClose(c)[r]
                /\ Replacing(reads[r]) => lock' /\ cached' = cached
                => ReadGood(r)'
  <2>1. reads[r] \in ReadType /\ ReadGood(r) /\ reads[r].sess \in Int
    BY DEF MemoryInv, MemoryTyped, ReadType
  <2>2. CASE r \in FailedBy(c)
    <3> DEFINE x == [reads[r] EXCEPT !.pc = "drop"]
    <3>1. AfterClose(c)[r] = x /\ reads[r].pc = "wait" /\ reads[r].sess = c
      BY <2>2 DEF AfterClose, FailedBy
    <3>2. x \in ReadType /\ x.pc = "drop" /\ x.attempt = reads[r].attempt
          /\ x.first = reads[r].first /\ x.want = reads[r].want /\ x.sess = c
      BY <2>1, <3>1 DEF ReadType
    <3> HIDE DEF x
    <3>3. (reads'[r] = x) => ReadGood(r)'
      <4>1. reads[r].attempt = 1 => reads[r].first \in 1..made /\ reads[r].first # cached'
        BY <1>1, <2>1 DEF ReadGood, ReadType
      <4> QED BY <1>1, <1>3, <1>5, <2>1, <3>1, <3>2, <4>1 DEF ReadGood, Replacing
    <3> QED BY <3>1, <3>2, <3>3 DEF Replacing
  <2>3. CASE r \notin FailedBy(c)
    <3>1. AfterClose(c)[r] = reads[r]
      BY <2>3 DEF AfterClose
    <3>2. \A p \in 1..made : /\ pools[p].failed => pools'[p].failed
                             /\ pools[p].st = "closed" => pools'[p].st = "closed"
      BY <1>1, <1>3, <1>5, InPools
    <3>3. reads[r].pc = "wait" => /\ pools'[reads[r].sess].st = "open"
                                  /\ Holds(pools'[reads[r].sess], r)
      <4>1. reads[r].pc = "wait" => reads[r].sess # c
        BY <2>3 DEF FailedBy
      <4> QED BY <1>1, <1>5, <2>1, <4>1, InPools DEF ReadGood
    <3> QED BY <1>1, <2>1, <3>1, <3>2, <3>3, ReadKeeps
  <2> QED BY <2>2, <2>3
<1> QED BY <1>1, <1>3, <1>5, <1>6, <1>7, <1>8

LEMMA ShutdownStep == ASSUME MemoryInv, Shutdown PROVE MemoryInv'
<1>1. /\ UNCHANGED <<route, refreshes, made, lock, reads>> /\ cached' = 0
      /\ phase = "running" /\ phase' = "closing"
      /\ \A r \in Reads : reads[r].pc \in {"idle", "done"}
  BY DEF Shutdown
<1>2. \A r \in Reads : ~Replacing(reads[r]) /\ r \notin FailedBy(cached)
  BY <1>1 DEF Replacing, FailedBy
<1>3. CASE cached = 0
  <2>1. UNCHANGED <<pools, cached>>
    BY <1>1, <1>3 DEF Shutdown
  <2>2. MemoryTyped' /\ \A r \in Reads : ReadGood(r)'
    BY <1>1, <2>1 DEF MemoryInv, MemoryTyped, ReadGood, Holds
  <2>3. \A p \in Pools : PoolGood(p)'
    BY <1>1, <2>1 DEF MemoryInv, PoolGood, GivenUp
  <2> QED BY <1>1, <2>2, <2>3 DEF MemoryInv, Replacing
<1>4. CASE cached # 0
  <2> PICK c : c = cached
    OBVIOUS
  <2>1. pools' = [pools EXCEPT ![c] = ClosedPool(@)] /\ GivenUp(c)'
    BY <1>1, <1>4 DEF Shutdown, GivenUp
  <2>2. /\ pools' \in [Pools -> PoolType] /\ \A p \in Pools : PoolGood(p)'
        /\ \A r \in Reads : reads'[r] = AfterClose(c)[r] => ReadGood(r)'
    BY <1>1, <1>2, <1>4, <2>1, CloseCached
  <2>3. \A r \in Reads : reads'[r] = AfterClose(c)[r]
    BY <1>1, <1>2 DEF AfterClose
  <2>4. MemoryTyped'
    BY <1>1, <2>2 DEF MemoryInv, MemoryTyped
  <2> QED BY <1>1, <2>2, <2>3, <2>4 DEF MemoryInv, Replacing
<1> QED BY <1>3, <1>4
LEMMA DropSessionStep == ASSUME MemoryInv, NEW r \in Reads, DropSession(r) PROVE MemoryInv'
<1> DEFINE y == reads[r]
           n == IF y.pc = "revoked" THEN "no_route" ELSE IF y.attempt = 0 THEN "retry" ELSE "give_up"
           t == [y EXCEPT !.then = n]
<1>1. y \in ReadType /\ ReadGood(r) /\ y.pc \in {"drop", "revoked"} /\ ~lock
      /\ made \in Nat /\ phase # "boot" /\ cached \in Int /\ y.sess \in Int /\ lock \in BOOLEAN
  BY MemoryBounds DEF MemoryInv, MemoryTyped, DropSession, ReadType
<1>2. UNCHANGED <<route, refreshes, made, lock, phase>>
  BY DEF DropSession
<1>3. \A q \in Reads : ~Replacing(reads[q])
  BY <1>1 DEF MemoryInv, ReadGood
<1>4. n \in {"retry", "give_up", "no_route"} /\ (n = "retry" => y.pc = "drop")
  BY <1>1
<1>5. Then(y) = t
  BY DEF Then
<1> HIDE DEF n
<1>6. t \in ReadType /\ t.then = n /\ t.pc = y.pc /\ t.want = y.want /\ t.sess = y.sess
      /\ t.first = y.first /\ t.attempt = y.attempt
  BY <1>1, <1>4 DEF ReadType
<1> HIDE DEF t
<1>7. CASE Droppable(r)
  <2> DEFINE z == [t EXCEPT !.pc = "closing", !.shut = cached]
  <2> PICK c : c = cached
    OBVIOUS
  <2>1. /\ pools' = [pools EXCEPT ![c] = ClosedPool(@)] /\ cached' = 0 /\ c # 0
        /\ reads' = [AfterClose(c) EXCEPT ![r] = z]
    BY <1>5, <1>7 DEF DropSession, Droppable
  <2>2. z \in ReadType /\ z.pc = "closing" /\ z.shut = c /\ z.then = n /\ z.want = y.want
        /\ z.sess = y.sess /\ z.first = y.first /\ z.attempt = y.attempt
    BY <1>1, <1>6 DEF ReadType
  <2> HIDE DEF z
  <2>3. GivenUp(c)'
    <3>1. c \in Pools
      BY <1>1, <2>1, InPools DEF MemoryInv, MemoryTyped
    <3>2. GivenUp(c)
      BY <1>1, <1>7, <3>1 DEF Droppable, ReadGood, MemoryInv, MemoryTyped, PoolGood, GivenUp
    <3>3. pools'[c].failed = pools[c].failed
      <4>1. pools \in [Pools -> PoolType] /\ pools[c] \in PoolType /\ Tidy(pools[c])
        BY <3>1 DEF MemoryInv, MemoryTyped, PoolGood, Tidy
      <4>2. pools'[c] = ClosedPool(pools[c])
        BY <2>1, <3>1, <4>1
      <4> QED BY <4>1, <4>2, CloseFacts
    <3> QED BY <1>2, <3>2, <3>3 DEF GivenUp
  <2>4. /\ pools' \in [Pools -> PoolType] /\ c \in 1..made /\ c \in Pools
        /\ pools'[c].st = "closed"
        /\ \A p \in Pools : PoolGood(p)'
        /\ \A q \in Reads :
              /\ AfterClose(c)[q] \in ReadType
              /\ ~Replacing(AfterClose(c)[q])
              /\ (reads'[q] = AfterClose(c)[q]) => ReadGood(q)'
    BY <1>2, <1>3, <2>1, <2>3, CloseCached
  <2>5. AfterClose(c) \in [Reads -> ReadType]
    BY <2>4 DEF AfterClose
  <2>6. reads' \in [Reads -> ReadType] /\ reads'[r] = z
        /\ \A q \in Reads \ {r} : reads'[q] = AfterClose(c)[q]
    BY <2>1, <2>2, <2>5
  <2>7. ReadGood(r)'
    <3>1. n = "retry" => y.sess \in 1..made /\ y.sess # 0
      BY <1>1, <1>4 DEF ReadGood
    <3>2. y.attempt = 1 => y.first \in 1..made /\ y.first # 0
      BY <1>1 DEF ReadGood, ReadType
    <3> QED BY <1>1, <1>2, <1>4, <2>1, <2>2, <2>4, <2>6, <3>1, <3>2 DEF ReadGood, Replacing
  <2>8. \A q \in Reads : ReadGood(q)'
    BY <2>4, <2>6, <2>7
  <2>9. \A q \in Reads : ~Replacing(reads[q])'
    <3>1. ~Replacing(z)
      BY <1>4, <2>2 DEF Replacing
    <3>2. \A q \in Reads : ~Replacing(reads'[q])
      BY <2>4, <2>6, <3>1
    <3> QED BY <3>2
  <2>10. MemoryTyped'
    BY <1>1, <1>2, <2>1, <2>4, <2>6 DEF MemoryInv, MemoryTyped
  <2> QED BY <1>1, <1>2, <2>4, <2>8, <2>9, <2>10 DEF MemoryInv
<1>8. CASE ~Droppable(r)
  <2> DEFINE x == AfterDrop(t)
  <2>1. reads' = [reads EXCEPT ![r] = x] /\ UNCHANGED <<pools, cached>>
    BY <1>5, <1>8 DEF DropSession
  <2>2. CASE n = "retry"
    <3> DEFINE z == [t EXCEPT !.pc = "retry", !.attempt = 1, !.first = y.sess]
    <3>1. x = z
      BY <1>6, <2>2 DEF AfterDrop
    <3>2. 1 \in {0, 1}
      OBVIOUS
    <3>3. z \in ReadType /\ z.pc = "retry" /\ z.first = y.sess /\ z.want = y.want
      BY <1>1, <1>6, <3>2 DEF ReadType
    <3> HIDE DEF z
    <3>4. reads'[r] = z
      BY <2>1, <3>1 DEF MemoryInv, MemoryTyped
    <3>5. y.sess \in 1..made /\ y.sess # cached
      BY <1>1, <1>4, <1>8, <2>2 DEF ReadGood, Droppable
    <3>6. ReadGood(r)'
      BY <1>1, <1>2, <2>1, <3>3, <3>4, <3>5 DEF ReadGood, Replacing
    <3>7. ~Replacing(z)
      BY <3>3 DEF Replacing
    <3> QED BY <1>1, <1>2, <1>3, <2>1, <3>1, <3>3, <3>6, <3>7, OneRead
  <2>3. CASE n # "retry"
    <3>1. PICK res \in {"unavailable", "no_route"} : x = [t EXCEPT !.pc = "done", !.result = res]
      BY <1>4, <1>6, <2>3 DEF AfterDrop, Ended
    <3>2. x \in ReadType /\ x.pc = "done" /\ x.first = y.first /\ x.attempt = y.attempt
          /\ x.want = y.want
      BY <1>6, <3>1 DEF ReadType
    <3> HIDE DEF x
    <3>3. reads'[r] = x
      BY <2>1 DEF MemoryInv, MemoryTyped
    <3>4. ReadGood(r)'
      BY <1>1, <1>2, <2>1, <3>2, <3>3 DEF ReadGood, Replacing
    <3>5. ~Replacing(x)
      BY <3>2 DEF Replacing
    <3> QED BY <1>1, <1>2, <1>3, <2>1, <3>2, <3>4, <3>5, OneRead
  <2> QED BY <2>2, <2>3
<1> QED BY <1>7, <1>8

\* A new pool takes the place of a cached one that is closed, or of none.
LEMMA NewPoolStep ==
    ASSUME MemoryInv, NEW r \in Reads, NEW url \in Urls, url = reads[r].want,
           reads[r].pc \in {"lock", "closing"},
           made < MaxPools, made' = made + 1, cached' = made + 1,
           pools' = [pools EXCEPT ![made + 1] = NewPool(url)], UseSession(r, made + 1),
           UNCHANGED <<route, refreshes, phase>>, lock' \in BOOLEAN,
           cached = 0 \/ pools[cached].st = "closed",
           \A q \in Reads \ {r} : ~Replacing(reads[q])
    PROVE  MemoryInv'
<1> DEFINE m == made + 1
           z == NewPool(url)
           y == reads[r]
           x == [y EXCEPT !.pc = "submit", !.sess = m]
<1>1. y \in ReadType /\ ReadGood(r) /\ made \in Nat /\ m \in Pools /\ m \in Int /\ phase # "boot"
      /\ pools \in [Pools -> PoolType] /\ reads \in [Reads -> ReadType]
  BY MemoryBounds DEF MemoryInv, MemoryTyped, Pools
<1>2. z \in PoolType /\ Tidy(z) /\ z.st = "open" /\ z.url = url
  BY NewPoolFacts
<1> HIDE DEF z
<1>3. pools' \in [Pools -> PoolType] /\ pools'[m] = z /\ \A p \in Pools \ {m} : pools'[p] = pools[p]
  BY <1>1, <1>2 DEF z
<1>4. reads' = [reads EXCEPT ![r] = x]
  BY <1>1 DEF UseSession
<1>5. x \in ReadType /\ x.pc = "submit" /\ x.sess = m /\ x.first = y.first
      /\ x.attempt = y.attempt /\ x.want = y.want
  BY <1>1 DEF ReadType
<1> HIDE DEF x
<1>6. reads' \in [Reads -> ReadType] /\ reads'[r] = x /\ \A q \in Reads \ {r} : reads'[q] = reads[q]
  BY <1>1, <1>4, <1>5
<1>7. MemoryTyped'
  BY <1>1, <1>3, <1>6, MemoryBounds DEF MemoryInv, MemoryTyped
<1>8. ASSUME NEW p \in Pools PROVE PoolGood(p)'
  <2>1. CASE p = m
    <3>1. refreshes = 0 => url = route.url
      BY <1>1 DEF ReadGood
    <3>2. ~(m > made') /\ cached' = m
      BY <1>1
    <3> QED BY <1>2, <1>3, <2>1, <3>1, <3>2 DEF PoolGood, Tidy
  <2>2. CASE p # m
    <3>1. pools'[p] = pools[p] /\ PoolGood(p) /\ (GivenUp(p) => GivenUp(p)')
      BY <1>3, <2>2 DEF MemoryInv, GivenUp
    <3>2. p # 0
      BY DEF Pools
    <3>3. pools[p].st # "open"
      BY <3>1, <3>2 DEF PoolGood
    <3> QED BY <2>2, <3>1, <3>3, PoolKeeps
  <2> QED BY <2>1, <2>2
<1>9. \A p \in 1..made : p \in Pools /\ p # m /\ pools'[p] = pools[p]
  <2>1. \A p \in 1..made : p \in Pools /\ p # m
    BY <1>1, InPools
  <2> QED BY <1>3, <2>1
<1>10. ReadGood(r)'
  <2>1. y.attempt = 1 => y.first \in 1..made' /\ y.first # m /\ m \in 1..made' /\ cached' = m
    BY <1>1 DEF ReadGood, ReadType
  <2>2. m \in 1..made'
    BY <1>1
  <2> QED BY <1>1, <1>5, <1>6, <2>1, <2>2 DEF ReadGood, Replacing
<1>11. ASSUME NEW q \in Reads \ {r} PROVE ReadGood(q)'
  <2>1. ReadGood(q) /\ reads[q] \in ReadType /\ reads[q].sess \in Int
    BY DEF MemoryInv, MemoryTyped, ReadType
  <2>2. reads[q].pc = "wait" => /\ pools'[reads[q].sess].st = "open"
                                /\ Holds(pools'[reads[q].sess], q)
    BY <1>1, <1>9, <2>1 DEF ReadGood
  <2>3. made' \in Int /\ made <= made' /\ cached' > made
    BY <1>1
  <2> QED BY <1>6, <1>9, <2>2, <2>3, ReadKeeps
<1>12. \A q \in Reads : ReadGood(q)'
  BY <1>10, <1>11
<1>13. \A q \in Reads : ~Replacing(reads[q])'
  <2>1. ~Replacing(x)
    BY <1>5 DEF Replacing
  <2>2. \A q \in Reads : ~Replacing(reads'[q])
    BY <1>6, <2>1
  <2> QED BY <2>2
<1> QED BY <1>1, <1>7, <1>8, <1>12, <1>13 DEF MemoryInv
LEMMA TakeSessionStep == ASSUME MemoryInv, NEW r \in Reads, TakeSession(r) PROVE MemoryInv'
<1> DEFINE y == reads[r]
<1>1. y \in ReadType /\ ReadGood(r) /\ y.pc = "lock" /\ ~lock /\ made \in Nat /\ phase # "boot"
      /\ cached \in 0..made /\ y.want \in Urls /\ lock \in BOOLEAN
  BY MemoryBounds DEF MemoryInv, MemoryTyped, TakeSession, ReadType
<1>2. UNCHANGED <<route, refreshes, phase>>
  BY DEF TakeSession
<1>3. \A q \in Reads : ~Replacing(reads[q])
  BY <1>1 DEF MemoryInv, ReadGood
<1>4. CASE /\ cached # 0 /\ UseSession(r, cached) /\ UNCHANGED <<pools, made, cached, lock>>
  <2> DEFINE x == [y EXCEPT !.pc = "submit", !.sess = cached]
  <2>1. reads' = [reads EXCEPT ![r] = x]
    BY <1>1, <1>4 DEF UseSession, MemoryInv, MemoryTyped
  <2>2. cached \in Int /\ cached \in 1..made
    BY <1>1, <1>4
  <2>3. x \in ReadType /\ x.pc = "submit" /\ x.sess = cached /\ x.first = y.first
        /\ x.attempt = y.attempt /\ x.want = y.want
    BY <1>1, <2>2 DEF ReadType
  <2> HIDE DEF x
  <2>4. reads'[r] = x
    BY <2>1 DEF MemoryInv, MemoryTyped
  <2>5. ReadGood(r)'
    BY <1>1, <1>2, <1>4, <2>2, <2>3, <2>4 DEF ReadGood, Replacing
  <2>6. ~Replacing(x)
    BY <2>3 DEF Replacing
  <2> QED BY <1>1, <1>2, <1>3, <1>4, <2>1, <2>3, <2>5, <2>6, OneRead
<1>5. CASE /\ cached = 0 /\ made < MaxPools /\ made' = made + 1 /\ cached' = made + 1
           /\ pools' = [pools EXCEPT ![made + 1] = NewPool(y.want)]
           /\ UseSession(r, made + 1) /\ UNCHANGED lock
  BY <1>1, <1>2, <1>3, <1>5, NewPoolStep
<1>6. CASE /\ cached # 0 /\ pools[cached].url # y.want /\ lock' = TRUE
           /\ pools' = [pools EXCEPT ![cached] = ClosedPool(@)]
           /\ reads' = [AfterClose(cached) EXCEPT
                           ![r].pc = "closing", ![r].shut = cached, ![r].then = "replace"]
           /\ UNCHANGED <<made, cached>>
  <2> DEFINE z == [AfterClose(cached)[r] EXCEPT !.pc = "closing", !.shut = cached, !.then = "replace"]
  <2> PICK c : c = cached
    OBVIOUS
  <2>1. c \in 1..made /\ c \in Int /\ c \in Pools
    BY <1>1, <1>6, InPools
  <2>2. refreshes > 0
    <3>1. PoolGood(c) /\ refreshes \in Nat /\ c <= made
      BY <1>1, <2>1 DEF MemoryInv, MemoryTyped
    <3> QED BY <1>1, <1>6, <3>1 DEF PoolGood, ReadGood
  <2>3. GivenUp(c)'
    BY <1>2, <2>2 DEF GivenUp
  <2>4. /\ pools' \in [Pools -> PoolType] /\ pools'[c].st = "closed"
        /\ \A p \in Pools : PoolGood(p)'
        /\ \A q \in Reads :
              /\ AfterClose(c)[q] \in ReadType /\ ~Replacing(AfterClose(c)[q])
              /\ (reads'[q] = AfterClose(c)[q]) => ReadGood(q)'
    BY <1>2, <1>3, <1>6, <2>1, <2>3, CloseCached
  <2>5. AfterClose(c) \in [Reads -> ReadType] /\ AfterClose(c)[r] = y
    BY <1>1, <2>4 DEF AfterClose, FailedBy
  <2>6. reads' = [AfterClose(c) EXCEPT ![r] = z]
    BY <1>6, <2>5
  <2>7. z \in ReadType /\ z.pc = "closing" /\ z.shut = c /\ z.then = "replace" /\ z.want = y.want
        /\ z.first = y.first /\ z.attempt = y.attempt
    BY <1>1, <2>1, <2>5 DEF ReadType
  <2> HIDE DEF z
  <2>8. reads' \in [Reads -> ReadType] /\ reads'[r] = z
        /\ \A q \in Reads \ {r} : reads'[q] = AfterClose(c)[q]
    BY <2>5, <2>6, <2>7
  <2>9. ReadGood(r)'
    <3>1. lock' /\ cached' = c /\ made' = made /\ refreshes' = refreshes /\ route' = route
      BY <1>2, <1>6
    <3>2. y.attempt = 1 => y.first \in 1..made /\ y.first # c
      BY <1>1 DEF ReadGood
    <3> QED BY <1>1, <2>1, <2>2, <2>4, <2>7, <2>8, <3>1, <3>2 DEF ReadGood, Replacing
  <2>10. \A q \in Reads : ReadGood(q)'
    BY <2>4, <2>8, <2>9
  <2>11. \A q \in Reads \ {r} : ~Replacing(reads'[q])
    BY <2>4, <2>8
  <2>12. \A q, s \in Reads : (Replacing(reads[q]) /\ Replacing(reads[s]) => q = s)'
    BY <2>11
  <2>13. MemoryTyped'
    BY <1>1, <1>2, <1>6, <2>4, <2>8 DEF MemoryInv, MemoryTyped
  <2> QED BY <1>1, <1>2, <2>4, <2>10, <2>12, <2>13 DEF MemoryInv
<1> QED BY <1>4, <1>5, <1>6 DEF TakeSession

LEMMA CloseDoneStep == ASSUME MemoryInv, NEW r \in Reads, CloseDone(r) PROVE MemoryInv'
<1> DEFINE y == reads[r]
<1>1. y \in ReadType /\ ReadGood(r) /\ y.pc = "closing" /\ made \in Nat /\ phase # "boot"
      /\ y.want \in Urls /\ lock \in BOOLEAN
  BY MemoryBounds DEF MemoryInv, MemoryTyped, CloseDone, ReadType
<1>2. UNCHANGED <<route, refreshes, phase>>
  BY DEF CloseDone
<1>3. CASE y.then = "replace"
  <2>1. Replacing(y)
    BY <1>1, <1>3 DEF Replacing
  <2>2. \A q \in Reads \ {r} : ~Replacing(reads[q])
    BY <2>1 DEF MemoryInv
  <2>3. pools[cached].st = "closed"
    BY <1>1, <2>1 DEF ReadGood
  <2> QED BY <1>1, <1>2, <1>3, <2>2, <2>3, NewPoolStep DEF CloseDone
<1>4. CASE y.then # "replace"
  <2> DEFINE x == AfterDrop(y)
  <2>1. reads' = [reads EXCEPT ![r] = x] /\ UNCHANGED <<pools, made, cached, lock>>
    BY <1>4 DEF CloseDone
  <2>2. \A q \in Reads : Replacing(reads[q]) => lock
    BY DEF MemoryInv, ReadGood
  <2>3. CASE y.then = "retry"
    <3> DEFINE z == [y EXCEPT !.pc = "retry", !.attempt = 1, !.first = y.sess]
    <3>1. x = z /\ 1 \in {0, 1} /\ y.sess \in Int
      BY <1>1, <2>3 DEF AfterDrop, ReadType
    <3>2. z \in ReadType /\ z.pc = "retry" /\ z.first = y.sess /\ z.want = y.want
      BY <1>1, <3>1 DEF ReadType
    <3> HIDE DEF z
    <3>3. reads'[r] = z
      BY <2>1, <3>1 DEF MemoryInv, MemoryTyped
    <3>4. ReadGood(r)'
      BY <1>1, <1>2, <2>1, <2>3, <3>2, <3>3 DEF ReadGood, Replacing
    <3>5. ~Replacing(z)
      BY <3>2 DEF Replacing
    <3> QED BY <1>1, <1>2, <2>1, <2>2, <3>1, <3>2, <3>4, <3>5, OneRead
  <2>4. CASE y.then \in {"give_up", "no_route"}
    <3>1. PICK res \in {"unavailable", "no_route"} : x = [y EXCEPT !.pc = "done", !.result = res]
      BY <2>4 DEF AfterDrop, Ended
    <3>2. x \in ReadType /\ x.pc = "done" /\ x.first = y.first /\ x.attempt = y.attempt
          /\ x.want = y.want
      BY <1>1, <3>1 DEF ReadType
    <3> HIDE DEF x
    <3>3. reads'[r] = x
      BY <2>1 DEF MemoryInv, MemoryTyped
    <3>4. ReadGood(r)'
      BY <1>1, <1>2, <2>1, <3>2, <3>3 DEF ReadGood, Replacing
    <3>5. ~Replacing(x)
      BY <3>2 DEF Replacing
    <3> QED BY <1>1, <1>2, <2>1, <2>2, <3>2, <3>4, <3>5, OneRead
  <2>5. y.then \in {"retry", "give_up", "no_route"}
    BY <1>1, <1>4 DEF ReadGood, ReadType
  <2> QED BY <2>3, <2>4, <2>5
<1> QED BY <1>3, <1>4

LEMMA ReadDeadlineStep == ASSUME MemoryInv, NEW r \in Reads, ReadDeadline(r) PROVE MemoryInv'
<1> DEFINE y == reads[r]
           x == [y EXCEPT !.pc = "done", !.result = "deadline"]
<1>1. y \in ReadType /\ ReadGood(r) /\ y.pc \notin {"idle", "done"} /\ made \in Nat
      /\ phase # "boot" /\ lock \in BOOLEAN /\ y.shut \in Int
  BY MemoryBounds DEF MemoryInv, MemoryTyped, ReadDeadline, ReadType
<1>2. UNCHANGED <<route, refreshes, made, cached, phase>> /\ reads' = [reads EXCEPT ![r] = x]
  BY DEF ReadDeadline, Ended
<1>3. x \in ReadType /\ x.pc = "done" /\ x.first = y.first /\ x.attempt = y.attempt
      /\ x.want = y.want
  BY <1>1 DEF ReadType
<1> HIDE DEF x
<1>4. reads' \in [Reads -> ReadType] /\ reads'[r] = x /\ \A q \in Reads \ {r} : reads'[q] = reads[q]
  BY <1>2, <1>3 DEF MemoryInv, MemoryTyped
<1>5. ~Replacing(x)
  BY <1>3 DEF Replacing
<1>6. CASE y.pc # "closing"
  <2>1. UNCHANGED <<pools, lock>>
    BY <1>6 DEF ReadDeadline
  <2>2. ReadGood(r)'
    BY <1>1, <1>2, <1>3, <1>4, <2>1 DEF ReadGood, Replacing
  <2>3. \A q \in Reads : Replacing(reads[q]) => lock
    BY DEF MemoryInv, ReadGood
  <2> QED BY <1>1, <1>2, <1>3, <1>5, <2>1, <2>2, <2>3, OneRead
<1>7. CASE y.pc = "closing"
  <2> DEFINE p == y.shut
             z == CancelWorkers(pools[p])
  <2>1. pools' = [pools EXCEPT ![p] = z] /\ lock' = (lock /\ y.then # "replace")
    BY <1>7 DEF ReadDeadline
  <2>2. p \in 1..made /\ p \in Pools /\ pools[p].st = "closed"
    BY <1>1, <1>7, InPools DEF ReadGood
  <2>3. pools[p] \in PoolType /\ Tidy(pools[p])
    BY <2>2 DEF MemoryInv, MemoryTyped, PoolGood, Tidy
  <2>4. z \in PoolType /\ Tidy(z) /\ z.st = pools[p].st /\ z.url = pools[p].url
        /\ z.failed = pools[p].failed
    BY <2>3, CancelFacts
  <2> HIDE DEF z, p
  <2>5. /\ pools' \in [Pools -> PoolType] /\ pools'[p] = z
        /\ \A q \in Pools : /\ PoolGood(q)' /\ pools'[q].st = pools[q].st
                            /\ pools[q].failed => pools'[q].failed
                            /\ q # p => pools'[q] = pools[q]
    BY <1>2, <2>1, <2>2, <2>4, OnePool
  <2>6. ReadGood(r)'
    BY <1>1, <1>2, <1>3, <1>4 DEF ReadGood, Replacing
  <2>7. ASSUME NEW q \in Reads \ {r} PROVE ReadGood(q)'
    <3>1. ReadGood(q) /\ reads[q] \in ReadType /\ reads[q].sess \in Int
      BY DEF MemoryInv, MemoryTyped, ReadType
    <3>2. reads[q].pc = "wait" => /\ pools'[reads[q].sess].st = "open"
                                  /\ Holds(pools'[reads[q].sess], q)
      BY <2>2, <2>5, <3>1, InPools DEF ReadGood
    <3>3. \A o \in 1..made : /\ pools[o].failed => pools'[o].failed
                             /\ pools[o].st = "closed" => pools'[o].st = "closed"
      BY <1>1, <2>5, InPools
    <3>4. Replacing(reads[q]) => lock' /\ cached' = cached
      <4>1. Replacing(reads[q]) => lock /\ ~Replacing(reads[r])
        BY <3>1 DEF ReadGood, MemoryInv
      <4> QED BY <1>2, <1>7, <2>1, <4>1 DEF Replacing
    <3> QED BY <1>1, <1>2, <1>4, <3>2, <3>3, <3>4, ReadKeeps
  <2>8. \A q \in Reads : ReadGood(q)'
    BY <2>6, <2>7
  <2>9. \A q, o \in Reads : (Replacing(reads[q]) /\ Replacing(reads[o]) => q = o)'
    BY <1>4, <1>5 DEF MemoryInv
  <2>10. MemoryTyped'
    BY <1>1, <1>2, <1>4, <2>1, <2>5 DEF MemoryInv, MemoryTyped
  <2> QED BY <1>1, <1>2, <2>5, <2>8, <2>9, <2>10 DEF MemoryInv
<1> QED BY <1>6, <1>7

LEMMA WarmupStep == ASSUME MemoryInv, Warmup PROVE MemoryInv'
<1>1. UNCHANGED <<route, refreshes, lock, reads>> /\ phase = "boot" /\ made = 0 /\ cached = 0
      /\ \A r \in Reads : reads[r] \in ReadType /\ reads[r].pc = "idle" /\ ReadGood(r)
  BY DEF Warmup, MemoryInv, MemoryTyped
<1>2. \A r \in Reads : reads[r].attempt # 1
  <2> SUFFICES ASSUME NEW r \in Reads, reads[r].attempt = 1 PROVE FALSE
    OBVIOUS
  <2>1. reads[r].first \in 1..0
    BY <1>1 DEF ReadGood
  <2> QED BY <2>1
<1>3. \A r \in Reads : ReadGood(r)' /\ ~Replacing(reads[r])'
  BY <1>1, <1>2 DEF ReadGood, Replacing
<1>4. CASE ~route.reachable
  <2>1. UNCHANGED <<pools, made, cached>> /\ phase' = "running"
    BY <1>4 DEF Warmup
  <2>2. \A p \in Pools : PoolGood(p)'
    BY <1>1, <2>1 DEF MemoryInv, PoolGood, GivenUp
  <2> QED BY <1>1, <1>3, <2>1, <2>2 DEF MemoryInv, MemoryTyped
<1>5. CASE route.reachable
  <2> DEFINE s == Started(NewPool(route.url))
             queue == [w \in Workers |-> Names]
             z == [s EXCEPT !.queue = queue]
  <2>1. /\ pools' = [pools EXCEPT ![1] = z] /\ made' = 1 /\ cached' = 1 /\ phase' = "warming"
    BY <1>5 DEF Warmup
  <2>2. route.url \in Urls /\ pools \in [Pools -> PoolType]
    BY DEF MemoryInv, MemoryTyped, Routes
  <2>3. s \in PoolType /\ Tidy(s) /\ s.st = "open" /\ s.url = route.url
    BY <2>2, NewPoolFacts, StartFacts
  <2>4. queue \in Seq(RequestType)
    <3>1. Names \in RequestType
      BY DEF RequestType
    <3> QED BY <3>1, MemoryBounds DEF Workers
  <2> HIDE DEF s, queue
  <2>5. z \in PoolType /\ z.work = s.work /\ z.st = "open" /\ z.url = route.url
    BY <2>3, <2>4 DEF PoolType
  <2>t. Tidy(z)
    BY <2>3, <2>5 DEF Tidy
  <2> HIDE DEF z
  <2>6. 1 \in Pools
    BY MemoryBounds DEF Pools
  <2>7. pools' \in [Pools -> PoolType] /\ pools'[1] = z /\ \A p \in Pools \ {1} : pools'[p] = pools[p]
    BY <2>1, <2>2, <2>5, <2>6
  <2>8. ASSUME NEW p \in Pools PROVE PoolGood(p)'
    <3>1. CASE p = 1
      BY <1>1, <2>1, <2>5, <2>t, <2>7, <3>1 DEF PoolGood, Tidy
    <3>2. CASE p # 1
      <4>1. PoolGood(p) /\ p > 1 /\ p > 0 /\ pools'[p] = pools[p]
        BY <2>7, <3>2, MemoryBounds DEF MemoryInv, Pools
      <4>2. pools[p].st = "none" /\ ~(p <= 1)
        BY <1>1, <4>1, MemoryBounds DEF PoolGood, Pools
      <4> QED BY <1>1, <2>1, <4>1, <4>2 DEF PoolGood
    <3> QED BY <3>1, <3>2
  <2>9. MemoryTyped'
    BY <1>1, <2>1, <2>7, MemoryBounds DEF MemoryInv, MemoryTyped
  <2> QED BY <1>1, <1>3, <2>1, <2>8, <2>9 DEF MemoryInv
<1> QED BY <1>4, <1>5

LEMMA MemoryNextInv == MemoryInv /\ [MemoryNext]_memoryVars => MemoryInv'
<1> SUFFICES ASSUME MemoryInv, [MemoryNext]_memoryVars PROVE MemoryInv'
  OBVIOUS
<1>1. ASSUME UNCHANGED <<route, refreshes, pools, made, cached, lock, reads>>,
             phase' = phase \/ phase' = "running" \/ (phase' = "closed" /\ phase = "closing"),
             phase' = "running" => phase \in {"warming", "running"}
      PROVE  MemoryInv'
  <2>1. \A p \in Pools : PoolGood(p)'
    BY <1>1 DEF MemoryInv, PoolGood, GivenUp
  <2>2. \A r \in Reads : ReadGood(r)'
    BY <1>1 DEF MemoryInv, ReadGood, Holds, Replacing
  <2> QED BY <1>1, <2>1, <2>2 DEF MemoryInv, MemoryTyped, Replacing
<1>2. CASE WarmupEnds
  BY <1>1, <1>2 DEF WarmupEnds
<1>3. CASE ShutdownDone
  BY <1>1, <1>3 DEF ShutdownDone
<1>4. CASE UNCHANGED memoryVars
  BY <1>1, <1>4 DEF memoryVars
<1>5. ASSUME NEW new \in Routes, Refresh(new) PROVE MemoryInv'
  <2>1. /\ route' \in Routes /\ refreshes' \in Nat /\ refreshes' # 0 /\ refreshes' > 0
        /\ UNCHANGED <<pools, made, cached, lock, reads, phase>>
    BY <1>5 DEF Refresh, MemoryInv, MemoryTyped
  <2>2. \A p \in Pools : PoolGood(p)'
    BY <2>1 DEF MemoryInv, PoolGood, GivenUp
  <2>3. \A r \in Reads : ReadGood(r)'
    BY <2>1 DEF MemoryInv, ReadGood, Holds, Replacing
  <2> QED BY <2>1, <2>2, <2>3 DEF MemoryInv, MemoryTyped, Replacing
<1> QED BY <1>2, <1>3, <1>4, <1>5, WarmupStep, ReadRouteStep, TakeSessionStep, SubmitStep,
           DropSessionStep, CloseDoneStep, CallTimeoutStep, ReadDeadlineStep, WorkerTakesStep,
           WorkerAnswersStep, WorkerLeavesStep, ShutdownStep DEF MemoryNext

LEMMA MemoryInitInv == MemoryInit => MemoryInv
<1> SUFFICES ASSUME MemoryInit PROVE MemoryInv
  OBVIOUS
<1> DEFINE u == CHOOSE v \in Urls : TRUE
           work == [w \in Workers |-> NoWorker]
<1>1. u \in Urls
  BY MemoryBounds
<1>2. work \in [Workers -> WorkerType] /\ \A w \in Workers : work[w] = NoWorker
  BY PlainWorkers
<1>3. NoPool = [st |-> "none", url |-> u, queue |-> <<>>, failed |-> FALSE, work |-> work]
      /\ <<>> \in Seq(RequestType) /\ FALSE \in BOOLEAN
  BY DEF NoPool
<1> DEFINE zero == 0
<1>4. NewRead = [pc |-> "idle", want |-> u, sess |-> zero, first |-> zero, attempt |-> zero,
                 shut |-> zero, then |-> "none", result |-> "none"]
      /\ zero \in Int /\ zero \in {0, 1} /\ zero = 0
  BY DEF NewRead
<1> HIDE DEF u, work, zero
<1>5. NoPool \in PoolType /\ NoPool.st = "none" /\ NoPool.work = work
  BY <1>1, <1>2, <1>3 DEF PoolType
<1>6. NewRead \in ReadType /\ NewRead.pc = "idle" /\ NewRead.attempt = 0
  BY <1>1, <1>4 DEF ReadType
<1>7. route \in Routes /\ route.enabled
  <2>1. PICK v \in Urls, b \in BOOLEAN : route = [url |-> v, enabled |-> TRUE, reachable |-> b]
    BY DEF MemoryInit
  <2> QED BY <2>1 DEF Routes
<1>8. MemoryTyped
  <2>1. pools \in [Pools -> PoolType] /\ reads \in [Reads -> ReadType]
    BY <1>5, <1>6 DEF MemoryInit
  <2>2. made \in 0..MaxPools /\ cached \in 0..made /\ refreshes \in Nat
    BY MemoryBounds DEF MemoryInit
  <2>3. lock \in BOOLEAN
    BY DEF MemoryInit
  <2> QED BY <1>7, <2>1, <2>2, <2>3 DEF MemoryTyped
<1>9. \A p \in Pools : PoolGood(p)
  BY <1>2, <1>5, PlainWorkers DEF MemoryInit, PoolGood, Pools
<1>10. \A r \in Reads : ReadGood(r) /\ ~Replacing(reads[r])
  BY <1>6 DEF MemoryInit, ReadGood, Replacing
<1> QED BY <1>6, <1>7, <1>8, <1>9, <1>10 DEF MemoryInit, MemoryInv

\* However route changes, transport failures, time-outs and cancelled reads
\* interleave, the only open pool is the cached one, no pool is closed for one
\* caller's latency budget, and a read that waits has its request in an open
\* pool, on its second attempt not the one that failed it: for every number of
\* reads, endpoints, workers and pools.
THEOREM ReadsAreServed == MemorySpec => []PoolsServeReads
<1>1. ASSUME MemoryInv PROVE PoolsServeReads
  <2>1. ASSUME NEW p \in Pools
        PROVE  /\ pools[p].st = "open" => p = cached
               /\ pools[p].st = "closed" =>
                    pools[p].failed \/ refreshes > 0 \/ phase \in {"closing", "closed"}
    BY <1>1 DEF MemoryInv, PoolGood, GivenUp
  <2>2. ASSUME NEW r \in Reads
        PROVE  /\ reads[r].attempt = 1 /\ reads[r].pc \in {"submit", "wait"} =>
                     reads[r].sess # reads[r].first
               /\ reads[r].pc = "wait" =>
                     /\ pools[reads[r].sess].st = "open" /\ Holds(pools[reads[r].sess], r)
    BY <1>1 DEF MemoryInv, ReadGood
  <2> QED BY <2>1, <2>2 DEF PoolsServeReads, Holds
<1>2. MemorySpec => []MemoryInv
  BY MemoryInitInv, MemoryNextInv, PTL DEF MemorySpec
<1> QED BY <1>1, <1>2, PTL

(***************************************************************************)
(* MemoryOutbox: turns of one subject never overtake each other, accepted   *)
(* turns are never lost, and the outbox implements RealmFeed, for every set *)
(* of turns, batch limit and bound.                                         *)
(***************************************************************************)
\* Accepted, not yet on the stream, not deleted with its owner.
Fresh(t) == order[t] > 0 /\ t \notin delivered /\ t \notin dropped

\* Turns are numbered within the clock, and only accepted turns have a row
\* or were sent.
ClockBounds == /\ \A t \in Turns : order[t] <= clock
               /\ \A t \in Turns : Present(t) => order[t] > 0
               /\ \A t \in delivered : order[t] > 0

\* Among fresh turns, an older turn has the smaller outbox_id.
AgeIsId == \A t, u \in Turns :
              Fresh(t) /\ Fresh(u) /\ order[u] < order[t]
                 => rows[u].id < rows[t].id

\* A fresh turn of the batch still has the row that was read.
BatchIsCurrent == \A r \in disp.batch :
                     /\ order[r.turn] > 0
                     /\ Fresh(r.turn) => rows[r.turn].id = r.id

\* With a fresh turn the batch holds every older fresh turn of its subject.
BatchIsClosed == \A r \in disp.batch, u \in Turns :
                    Fresh(r.turn) /\ Fresh(u) /\ Before(u, r.turn)
                       => \E q \in disp.batch : q.turn = u

\* Only what was sent is marked published.
MarkedIsSent == disp.pc = "mark_published" => disp.row.turn \in delivered

IInv == /\ TypeOK /\ ClockBounds /\ NothingLost /\ AgeIsId
        /\ BatchIsCurrent /\ BatchIsClosed /\ MarkedIsSent /\ NoOvertaking

(***************************************************************************)
(* Lemmas about the operators.                                              *)
(***************************************************************************)
\* Storing a message makes exactly its turn delivered.
LEMMA SendDelivers ==
    ASSUME NEW r \in BatchRow, sent' = sent \cup {<<r.turn, r.payload>>}
    PROVE  delivered' = delivered \cup {r.turn}
BY DEF delivered, BatchRow

\* The row the dispatcher takes is the oldest of its subject in the batch.
LEMMA NextRowIsOldest ==
    ASSUME TypeOK, NEW r \in disp.batch, IsNextRow(r),
           NEW q \in disp.batch, Subject[q.turn] = Subject[r.turn]
    PROVE  r.id <= q.id
BY DEF IsNextRow, OfSubject

\* pending_batch is closed under older rows of the same subject.
LEMMA BatchTakesOlder ==
    ASSUME TypeOK, NEW t \in PendingBatch, NEW u \in Turns,
           Present(u), Subject[u] = Subject[t], rows[u].id < rows[t].id
    PROVE  u \in PendingBatch
<1> DEFINE below(v) == {w \in Eligible : rows[w].id < rows[v].id}
<1>1. t \in Eligible /\ t \in Turns
  BY DEF PendingBatch, Eligible
<1>2. u \in Eligible
  BY <1>1 DEF Eligible
<1>3. IsFiniteSet(Turns)
  BY OutboxAssumption
<1>4. below(t) \subseteq Turns /\ below(u) \subseteq below(t)
  BY <1>1 DEF Eligible, TypeOK, RowsTyped
<1>5. IsFiniteSet(below(t))
  BY <1>3, <1>4, FS_Subset
<1>6. /\ Cardinality(below(u)) <= Cardinality(below(t))
      /\ Cardinality(below(u)) \in Nat /\ Cardinality(below(t)) \in Nat
  BY <1>4, <1>5, FS_Subset, FS_CardinalityType
<1>7. Cardinality(below(t)) < BatchLimit
  BY DEF PendingBatch
<1> QED BY <1>2, <1>6, <1>7, OutboxAssumption DEF PendingBatch

(***************************************************************************)
(* Type correctness.                                                        *)
(***************************************************************************)
\* Writing a well-formed row keeps the table well-formed.
LEMMA WriteRow ==
    ASSUME RowsTyped, NEW x, NEW n \in Nat, NEW p \in Payloads \cup {None},
           NEW d \in BOOLEAN, n > 0 => p \in Payloads,
           rows' = [rows EXCEPT ![x] = [id |-> n, payload |-> p, due |-> d]]
    PROVE  RowsTyped'
<1> DEFINE R == [id : Nat, payload : Payloads \cup {None}, due : BOOLEAN]
<1>1. [id |-> n, payload |-> p, due |-> d] \in R
  OBVIOUS
<1>2. rows' \in [Turns -> R]
  BY <1>1 DEF RowsTyped
<1>3. ASSUME NEW t \in Turns, rows'[t].id > 0 PROVE rows'[t].payload \in Payloads
  <2>1. CASE t = x
    BY <1>3, <2>1 DEF RowsTyped
  <2>2. CASE t # x
    BY <1>3, <2>2 DEF RowsTyped, Present
  <2> QED BY <2>1, <2>2
<1> QED BY <1>2, <1>3 DEF RowsTyped, Present

\* Changing `due` leaves id and content of every row alone.
LEMMA SetDue ==
    ASSUME RowsTyped, NEW t \in Turns, NEW d \in BOOLEAN,
           rows' = [rows EXCEPT ![t].due = d]
    PROVE  /\ RowsTyped'
           /\ \A u \in Turns : rows'[u].id = rows[u].id
<1> DEFINE R == [id : Nat, payload : Payloads \cup {None}, due : BOOLEAN]
<1>1. rows' \in [Turns -> R]
  BY DEF RowsTyped
<1>2. \A u \in Turns : rows'[u].id = rows[u].id /\ rows'[u].payload = rows[u].payload
  <2> TAKE u \in Turns
  <2>1. CASE u = t
    BY <2>1 DEF RowsTyped
  <2>2. CASE u # t
    BY <2>2 DEF RowsTyped
  <2> QED BY <2>1, <2>2
<1> QED BY <1>1, <1>2 DEF RowsTyped, Present

LEMMA InitType == Init => TypeOK
BY DEF Init, TypeOK, RowsTyped, DispatcherTyped, Present, NoRow, NoCall, IdleDispatcher

LEMMA NextType == TypeOK /\ [Next]_vars => TypeOK'
<1> SUFFICES ASSUME TypeOK, [Next]_vars PROVE TypeOK'
  OBVIOUS
<1> USE DEF TypeOK, history, bounds
<1>a. ASSUME UNCHANGED rows PROVE RowsTyped'
  BY <1>a DEF RowsTyped, Present
<1>b. ASSUME UNCHANGED disp PROVE DispatcherTyped'
  BY <1>b DEF DispatcherTyped
<1>c. \A r \in disp.batch : /\ r \in BatchRow /\ r.turn \in Turns
                            /\ Subject[r.turn] \in {Subject[t] : t \in Turns}
                            /\ <<r.turn, r.payload>> \in Turns \X Payloads
  BY DEF BatchRow, DispatcherTyped
<1>d. disp' = IdleDispatcher => DispatcherTyped'
  BY DEF DispatcherTyped, IdleDispatcher
<1>1. ASSUME NEW t \in Turns, NEW p \in Payloads, EnqueueCommit(t, p) PROVE TypeOK'
  <2>1. DispatcherTyped'
    BY <1>1, <1>b DEF EnqueueCommit
  <2>2. CASE Present(t)
    BY <1>1, <1>a, <2>1, <2>2 DEF EnqueueCommit, InsertOrIgnore
  <2>3. CASE ~ Present(t)
    <3>1. PICK n \in 1 .. MaxId :
             rows' = [rows EXCEPT ![t] = [id |-> n, payload |-> p, due |-> TRUE]]
      BY <1>1, <2>3 DEF EnqueueCommit, InsertOrIgnore
    <3>2. n \in Nat
      OBVIOUS
    <3>3. RowsTyped'
      BY <3>1, <3>2, WriteRow
    <3> QED BY <1>1, <2>1, <2>3, <3>3 DEF EnqueueCommit, InsertOrIgnore
  <2> QED BY <2>2, <2>3
<1>2. ASSUME NEW t \in Turns, EnqueueVerify(t) PROVE TypeOK'
  BY <1>2, <1>a, <1>b DEF EnqueueVerify
<1>3. ASSUME NEW t \in Turns, BackoffElapses(t) PROVE TypeOK'
  <2>1. RowsTyped'
    BY <1>3, SetDue DEF BackoffElapses
  <2> QED BY <1>3, <1>b, <2>1 DEF BackoffElapses
<1>4. CASE Fetch
  <2>1. \A t \in PendingBatch : t \in Turns /\ rows[t].payload \in Payloads
                                /\ rows[t].id \in Nat
    BY DEF PendingBatch, Eligible, RowsTyped
  <2>2. disp'.batch \subseteq BatchRow
    BY <1>4, <2>1 DEF Fetch, BatchRow, DispatcherTyped
  <2>3. DispatcherTyped'
    BY <1>4, <2>2 DEF Fetch, DispatcherTyped
  <2> QED BY <1>4, <1>a, <2>3 DEF Fetch
<1>5. ASSUME NEW r \in disp.batch, PublishAcked(r) PROVE TypeOK'
  <2>1. DispatcherTyped'
    BY <1>5, <1>c DEF PublishAcked, DispatcherTyped
  <2> QED BY <1>5, <1>a, <1>c, <2>1 DEF PublishAcked
<1>6. ASSUME NEW r \in disp.batch, NEW stored \in BOOLEAN, PublishRaises(r, stored)
      PROVE TypeOK'
  <2>1. DispatcherTyped'
    BY <1>6, <1>c DEF PublishRaises, DispatcherTyped
  <2> QED BY <1>6, <1>a, <1>c, <2>1 DEF PublishRaises
<1>7. CASE MarkPublished
  <2>1. RowsTyped'
    <3>1. rows' = [rows EXCEPT ![disp.row.turn] =
                      [id |-> 0, payload |-> None, due |-> TRUE]]
      BY <1>7 DEF MarkPublished, NoRow
    <3>2. 0 \in Nat /\ None \in Payloads \cup {None} /\ TRUE \in BOOLEAN
      OBVIOUS
    <3>3. 0 > 0 => None \in Payloads
      OBVIOUS
    <3>4. RowsTyped
      OBVIOUS
    <3> QED BY <3>1, <3>2, <3>3, <3>4, WriteRow
  <2>2. DispatcherTyped'
    BY <1>7 DEF MarkPublished, DispatcherTyped
  <2> QED BY <1>7, <2>1, <2>2 DEF MarkPublished
<1>8. CASE MarkFailed
  <2>1. RowsTyped'
    <3>1. CASE Present(disp.row.turn)
      <4>1. disp.row.turn \in Turns
        BY <1>8, <1>c DEF MarkFailed, DispatcherTyped
      <4> QED BY <1>8, <3>1, <4>1, SetDue DEF MarkFailed
    <3>2. CASE ~ Present(disp.row.turn)
      BY <1>8, <1>a, <3>2 DEF MarkFailed
    <3> QED BY <3>1, <3>2
  <2>2. DispatcherTyped'
    BY <1>8 DEF MarkFailed, DispatcherTyped, OfSubject
  <2> QED BY <1>8, <2>1, <2>2 DEF MarkFailed
<1>9. CASE IterationFails
  BY <1>9, <1>a, <1>d DEF IterationFails
<1>10. ASSUME NEW o, DeleteOwnerRuntime(o) PROVE TypeOK'
  <2>1. RowsTyped'
    BY <1>10 DEF DeleteOwnerRuntime, RowsTyped, Present, NoRow
  <2> QED BY <1>10, <1>b, <2>1 DEF DeleteOwnerRuntime
<1>11. CASE Restart
  BY <1>11, <1>a, <1>d DEF Restart, NoCall
<1>12. CASE UNCHANGED vars
  BY <1>12, <1>a, <1>b DEF vars
<1> QED BY <1>1, <1>2, <1>3, <1>4, <1>5, <1>6, <1>7, <1>8, <1>9, <1>10,
           <1>11, <1>12 DEF Next, Publish

\* The state of the outbox stays well typed: TypeOK is an invariant.
THEOREM OutboxWellTyped == Spec => []TypeOK
BY InitType, NextType, PTL DEF Spec

(***************************************************************************)
(* The inductive invariant.                                                 *)
(***************************************************************************)
LEMMA InitIInv == Init => IInv
<1> SUFFICES ASSUME Init PROVE IInv
  OBVIOUS
<1>1. TypeOK
  BY InitType
<1>2. \A t \in Turns : rows[t].id = 0 /\ order[t] = 0
  BY DEF Init, NoRow
<1>3. delivered = {} /\ disp.batch = {} /\ disp.pc = "loop"
  BY DEF Init, delivered, IdleDispatcher
<1> QED BY <1>1, <1>2, <1>3 DEF Init, IInv, ClockBounds, NothingLost, AgeIsId,
           BatchIsCurrent, BatchIsClosed, MarkedIsSent, NoOvertaking, Fresh, Present

\* A step that leaves the history alone, keeps the id of every fresh turn and
\* of the batch takes away only whole subjects or delivered turns, keeps the
\* invariant.
LEMMA QuietStep ==
    ASSUME IInv, TypeOK', UNCHANGED <<sent, order, clock, dropped>>,
           \A t \in Turns : Fresh(t) => rows'[t].id = rows[t].id,
           \A t \in Turns : rows'[t].id > 0 => rows[t].id > 0,
           disp'.batch \subseteq disp.batch,
           \A q \in disp.batch \ disp'.batch :
              \/ q.turn \in delivered
              \/ \A r \in disp'.batch : Subject[r.turn] # Subject[q.turn],
           disp'.pc = "mark_published" => disp.pc = "mark_published" /\ disp'.row = disp.row
    PROVE  IInv'
<1>1. delivered' = delivered
  BY DEF delivered
<1>2. \A t \in Turns : Fresh(t)' <=> Fresh(t)
  BY <1>1 DEF Fresh
<1>3. \A t, u \in Turns : Before(u, t)' <=> Before(u, t)
  BY DEF Before
<1>4. \A r \in disp'.batch : r.turn \in Turns
  BY DEF TypeOK, DispatcherTyped, BatchRow
<1>5. ClockBounds'
  BY <1>1 DEF IInv, ClockBounds, Present
<1>6. NothingLost'
  <2> SUFFICES ASSUME NEW t \in Turns, order[t] > 0, t \notin delivered, t \notin dropped
               PROVE  rows'[t].id > 0
    BY <1>1 DEF NothingLost, Present
  <2>1. Fresh(t)
    BY DEF Fresh
  <2>2. rows[t].id > 0
    BY DEF IInv, NothingLost, Present
  <2> QED BY <2>1, <2>2
<1>7. AgeIsId'
  BY <1>2 DEF IInv, AgeIsId
<1>8. BatchIsCurrent'
  BY <1>2, <1>4 DEF IInv, BatchIsCurrent
<1>9. BatchIsClosed'
  <2> SUFFICES ASSUME NEW r \in disp'.batch, NEW u \in Turns,
                      Fresh(r.turn), Fresh(u), Before(u, r.turn)
               PROVE  \E q \in disp'.batch : q.turn = u
    BY <1>2, <1>3, <1>4 DEF BatchIsClosed
  <2>1. PICK q \in disp.batch : q.turn = u
    BY DEF IInv, BatchIsClosed
  <2>2. q \in disp'.batch
    BY <2>1 DEF Fresh, Before
  <2> QED BY <2>1, <2>2
<1>10. MarkedIsSent'
  BY <1>1 DEF IInv, MarkedIsSent
<1>11. NoOvertaking'
  BY <1>1 DEF IInv, NoOvertaking, Before
<1> QED BY <1>5, <1>6, <1>7, <1>8, <1>9, <1>10, <1>11 DEF IInv

LEMMA EnqueueStep ==
    ASSUME IInv, TypeOK', NEW t \in Turns, NEW p \in Payloads, EnqueueCommit(t, p)
    PROVE  IInv'
<1> USE DEF IInv
<1>1. delivered' = delivered /\ dropped' = dropped /\ disp' = disp
  BY DEF EnqueueCommit, delivered
<1>2. CASE Present(t)
  BY <1>1, <1>2, QuietStep DEF EnqueueCommit, InsertOrIgnore
<1>3. CASE ~ Present(t)
  <2>1. PICK n \in 1 .. MaxId :
           /\ IsNewId(n)
           /\ rows' = [rows EXCEPT ![t] = [id |-> n, payload |-> p, due |-> TRUE]]
    BY <1>3 DEF EnqueueCommit, InsertOrIgnore
  <2>2. /\ \A u \in Turns : u # t => rows'[u].id = rows[u].id
        /\ rows'[t].id = n /\ n \in Nat /\ n > 0
        /\ \A u \in Turns : rows[u].id < n /\ rows[u].id \in Nat
    BY <2>1 DEF IsNewId, TypeOK, RowsTyped
  <2>3. CASE order[t] > 0
    <3>1. t \in delivered \cup dropped
      BY <1>3, <2>3 DEF NothingLost
    <3>2. UNCHANGED <<sent, order, clock, dropped>>
      BY <1>3, <2>3 DEF EnqueueCommit, InsertOrIgnore, TypeOK
    <3>3. \A u \in Turns : Fresh(u) => u # t
      BY <3>1 DEF Fresh
    <3>4. \A u \in Turns : Fresh(u)' <=> Fresh(u)
      BY <1>1, <3>2 DEF Fresh
    <3>5. ClockBounds'
      BY <1>1, <2>2, <2>3, <3>2 DEF ClockBounds, Present
    <3>6. NothingLost'
      BY <1>1, <2>2, <3>2 DEF NothingLost, Present
    <3>7. AgeIsId'
      BY <2>2, <3>2, <3>3, <3>4 DEF AgeIsId
    <3>8. BatchIsCurrent'
      BY <1>1, <2>2, <3>2, <3>3, <3>4 DEF BatchIsCurrent, TypeOK, DispatcherTyped, BatchRow
    <3>9. BatchIsClosed' /\ MarkedIsSent' /\ NoOvertaking'
      <4>1. \A v \in Turns, u \in Turns : Before(u, v)' <=> Before(u, v)
        BY <3>2 DEF Before
      <4>2. \A r \in disp.batch : r.turn \in Turns
        BY DEF TypeOK, DispatcherTyped, BatchRow
      <4>3. BatchIsClosed'
        BY <1>1, <3>4, <4>1, <4>2 DEF BatchIsClosed
      <4>4. NoOvertaking'
        BY <1>1, <4>1 DEF NoOvertaking, delivered
      <4> QED BY <1>1, <4>3, <4>4 DEF MarkedIsSent
    <3> QED BY <3>5, <3>6, <3>7, <3>8, <3>9
  <2>4. CASE order[t] = 0
    <3>1. /\ clock' = clock + 1 /\ clock \in Nat
          /\ order'[t] = clock + 1
          /\ \A u \in Turns : u # t => order'[u] = order[u]
          /\ \A u \in Turns : order[u] \in Nat /\ order[u] <= clock
      BY <1>3, <2>4 DEF EnqueueCommit, InsertOrIgnore, TypeOK, ClockBounds
    <3>2. \A u \in Turns : u # t => (Fresh(u)' <=> Fresh(u))
      BY <1>1, <3>1 DEF Fresh
    <3>3. \A u \in Turns : u # t /\ Fresh(u)' => order'[u] < order'[t]
      BY <3>1
    <3>4. \A r \in disp.batch : r.turn \in Turns /\ r.turn # t
      BY <2>4 DEF BatchIsCurrent, TypeOK, DispatcherTyped, BatchRow
    <3>5. \A v, u \in Turns : v # t => (Before(u, v)' <=> Before(u, v))
      <4> TAKE v, u \in Turns
      <4>1. CASE u = t
        BY <2>4, <3>1, <4>1 DEF Before
      <4>2. CASE u # t
        BY <3>1, <4>2 DEF Before
      <4> QED BY <4>1, <4>2
    <3>6. delivered \subseteq Turns
      BY DEF delivered
    <3>7. ClockBounds'
      BY <1>1, <2>2, <2>4, <3>1, <3>6 DEF ClockBounds, Present
    <3>8. NothingLost'
      BY <1>1, <2>2, <3>1 DEF NothingLost, Present
    <3>9. AgeIsId'
      <4> SUFFICES ASSUME NEW v \in Turns, NEW u \in Turns, Fresh(v)', Fresh(u)',
                          order'[u] < order'[v]
                   PROVE  rows'[u].id < rows'[v].id
        BY DEF AgeIsId
      <4>1. u # t
        BY <3>1
      <4>2. CASE v = t
        BY <2>2, <4>1, <4>2
      <4>3. CASE v # t
        BY <2>2, <3>1, <3>2, <4>1, <4>3 DEF AgeIsId
      <4> QED BY <4>2, <4>3
    <3>10. BatchIsCurrent'
      BY <1>1, <2>2, <3>1, <3>2, <3>4 DEF BatchIsCurrent
    <3>11. BatchIsClosed'
      <4> SUFFICES ASSUME NEW r \in disp.batch, NEW u \in Turns,
                          Fresh(r.turn)', Fresh(u)', Before(u, r.turn)'
                   PROVE  \E q \in disp.batch : q.turn = u
        BY <1>1 DEF BatchIsClosed
      <4>1. r.turn \in Turns /\ r.turn # t /\ Fresh(r.turn) /\ Before(u, r.turn)
        BY <3>2, <3>4, <3>5
      <4>2. u # t
        BY <2>4, <4>1 DEF Before
      <4> QED BY <3>2, <4>1, <4>2 DEF BatchIsClosed
    <3>12. MarkedIsSent'
      BY <1>1 DEF MarkedIsSent
    <3>13. NoOvertaking'
      <4> SUFFICES ASSUME NEW v \in delivered \ dropped, NEW u \in Turns, Before(u, v)'
                   PROVE  u \in delivered \cup dropped
        BY <1>1 DEF NoOvertaking
      <4>1. v \in Turns
        BY DEF delivered
      <4>2. v # t
        BY <2>4 DEF ClockBounds
      <4> QED BY <3>5, <4>1, <4>2 DEF NoOvertaking
    <3> QED BY <3>7, <3>8, <3>9, <3>10, <3>11, <3>12, <3>13
  <2> QED BY <2>3, <2>4 DEF TypeOK
<1> QED BY <1>2, <1>3

LEMMA FetchStep ==
    ASSUME IInv, TypeOK', Fetch
    PROVE  IInv'
<1> USE DEF IInv
<1>1. /\ delivered' = delivered
      /\ UNCHANGED <<rows, order, clock, dropped>>
      /\ disp'.pc = "loop"
      /\ disp'.batch = {[turn |-> t, id |-> rows[t].id, payload |-> rows[t].payload] :
                           t \in PendingBatch}
  BY DEF Fetch, history, delivered, TypeOK, DispatcherTyped
<1>2. \A t \in PendingBatch : t \in Turns /\ Present(t)
  BY DEF PendingBatch, Eligible
<1>3. \A t \in Turns : Fresh(t)' <=> Fresh(t)
  BY <1>1 DEF Fresh
<1>4. \A r \in disp'.batch : r.turn \in PendingBatch /\ r.id = rows[r.turn].id
  BY <1>1
<1>5. ClockBounds' /\ NothingLost' /\ MarkedIsSent'
  BY <1>1 DEF ClockBounds, NothingLost, MarkedIsSent, Present
<1>6. AgeIsId'
  BY <1>1, <1>3 DEF AgeIsId
<1>7. BatchIsCurrent'
  BY <1>1, <1>2, <1>4 DEF BatchIsCurrent, ClockBounds
<1>8. BatchIsClosed'
  <2> SUFFICES ASSUME NEW r \in disp'.batch, NEW u \in Turns,
                      Fresh(r.turn)', Fresh(u)', Before(u, r.turn)'
               PROVE  \E q \in disp'.batch : q.turn = u
    BY DEF BatchIsClosed
  <2>1. r.turn \in PendingBatch /\ r.turn \in Turns
    BY <1>2, <1>4
  <2>2. Fresh(u) /\ Fresh(r.turn) /\ Before(u, r.turn)
    BY <1>1, <1>3, <2>1 DEF Before
  <2>3. Present(u) /\ Subject[u] = Subject[r.turn] /\ rows[u].id < rows[r.turn].id
    BY <2>1, <2>2 DEF Fresh, Before, NothingLost, AgeIsId
  <2>4. u \in PendingBatch
    BY <2>1, <2>3, BatchTakesOlder
  <2>5. [turn |-> u, id |-> rows[u].id, payload |-> rows[u].payload] \in disp'.batch
    BY <1>1, <2>4
  <2> QED BY <2>5
<1>9. NoOvertaking'
  BY <1>1 DEF NoOvertaking, Before
<1> QED BY <1>5, <1>6, <1>7, <1>8, <1>9

\* The heart of the argument: the row published next has no fresh older turn.
LEMMA NoFreshBefore ==
    ASSUME IInv, NEW r \in disp.batch, IsNextRow(r), r.turn \notin dropped,
           NEW u \in Turns, Before(u, r.turn)
    PROVE  u \in delivered \cup dropped
<1> USE DEF IInv
<1>1. r.turn \in Turns
  BY DEF TypeOK, DispatcherTyped, BatchRow
<1>2. CASE r.turn \in delivered
  BY <1>2 DEF NoOvertaking
<1>3. CASE r.turn \notin delivered
  <2> SUFFICES ASSUME u \notin delivered, u \notin dropped PROVE FALSE
    OBVIOUS
  <2>1. Fresh(u) /\ Fresh(r.turn)
    BY <1>3 DEF Fresh, Before, BatchIsCurrent
  <2>2. PICK q \in disp.batch : q.turn = u
    BY <2>1 DEF BatchIsClosed
  <2>3. q.id = rows[u].id /\ r.id = rows[r.turn].id
    BY <2>1, <2>2 DEF BatchIsCurrent
  <2>4. rows[u].id < rows[r.turn].id
    BY <1>1, <2>1 DEF AgeIsId, Before
  <2>5. r.id <= q.id
    BY <2>2, NextRowIsOldest DEF Before
  <2>6. rows[u].id \in Nat /\ rows[r.turn].id \in Nat
    BY <1>1 DEF TypeOK, RowsTyped
  <2> QED BY <2>3, <2>4, <2>5, <2>6
<1> QED BY <1>2, <1>3

LEMMA SendStep ==
    ASSUME IInv, TypeOK', NEW r \in disp.batch, IsNextRow(r),
           delivered' = delivered \cup {r.turn},
           UNCHANGED <<rows, order, clock, dropped>>,
           disp'.batch = disp.batch, disp'.row = r
    PROVE  IInv'
<1> USE DEF IInv
<1>1. r.turn \in Turns /\ order[r.turn] > 0
  BY DEF TypeOK, DispatcherTyped, BatchRow, BatchIsCurrent
<1>2. \A t \in Turns : Fresh(t)' => Fresh(t)
  BY DEF Fresh
<1>3. ClockBounds' /\ NothingLost' /\ MarkedIsSent'
  BY <1>1 DEF ClockBounds, NothingLost, MarkedIsSent, Present
<1>4. AgeIsId'
  BY <1>2 DEF AgeIsId
<1>5. BatchIsCurrent' /\ BatchIsClosed'
  BY <1>2 DEF BatchIsCurrent, BatchIsClosed, Before, TypeOK, DispatcherTyped, BatchRow
<1>6. NoOvertaking'
  <2> SUFFICES ASSUME NEW t \in (delivered \cup {r.turn}) \ dropped,
                      NEW u \in Turns, Before(u, t)
               PROVE  u \in delivered \cup dropped
    BY DEF NoOvertaking, Before
  <2>1. CASE t = r.turn
    BY <2>1, NoFreshBefore
  <2>2. CASE t # r.turn
    BY <2>2 DEF NoOvertaking
  <2> QED BY <2>1, <2>2
<1> QED BY <1>3, <1>4, <1>5, <1>6

LEMMA DeleteStep ==
    ASSUME IInv, TypeOK', NEW o, DeleteOwnerRuntime(o)
    PROVE  IInv'
<1> USE DEF IInv
<1> DEFINE gone == {t \in Turns : Owner[t] = o /\ Present(t)}
<1>1. /\ delivered' = delivered /\ dropped' = dropped \cup gone
      /\ UNCHANGED <<order, clock, disp>>
      /\ \A t \in Turns : t \notin gone => rows'[t] = rows[t]
      /\ \A t \in Turns : rows'[t].id > 0 => rows[t].id > 0
  BY DEF DeleteOwnerRuntime, delivered, NoRow
<1>2. \A t \in Turns : Fresh(t)' => Fresh(t) /\ t \notin gone
  BY <1>1 DEF Fresh
<1>3. ClockBounds' /\ NothingLost' /\ MarkedIsSent'
  BY <1>1 DEF ClockBounds, NothingLost, MarkedIsSent, Present
<1>4. AgeIsId'
  BY <1>1, <1>2 DEF AgeIsId
<1>5. BatchIsCurrent' /\ BatchIsClosed'
  BY <1>1, <1>2 DEF BatchIsCurrent, BatchIsClosed, Before, TypeOK, DispatcherTyped, BatchRow
<1>6. NoOvertaking'
  BY <1>1 DEF NoOvertaking, Before
<1> QED BY <1>3, <1>4, <1>5, <1>6

LEMMA NextIInv == IInv /\ [Next]_vars => IInv'
<1> SUFFICES ASSUME IInv, [Next]_vars PROVE IInv'
  OBVIOUS
<1>t. TypeOK'
  BY NextType DEF IInv
<1>c. \A r \in disp.batch : r \in BatchRow
  BY DEF IInv, TypeOK, DispatcherTyped
<1> USE DEF history
<1>1. ASSUME NEW t \in Turns, NEW p \in Payloads, EnqueueCommit(t, p) PROVE IInv'
  BY <1>t, <1>1, EnqueueStep
<1>2. ASSUME NEW t \in Turns, EnqueueVerify(t) PROVE IInv'
  BY <1>t, <1>2, QuietStep DEF EnqueueVerify
<1>3. ASSUME NEW t \in Turns, BackoffElapses(t) PROVE IInv'
  <2>1. \A u \in Turns : rows'[u].id = rows[u].id
    BY <1>3, SetDue DEF BackoffElapses, IInv, TypeOK
  <2> QED BY <1>t, <1>3, <2>1, QuietStep DEF BackoffElapses
<1>4. CASE Fetch
  BY <1>t, <1>4, FetchStep
<1>5. ASSUME NEW r \in disp.batch, PublishAcked(r) PROVE IInv'
  <2>1. delivered' = delivered \cup {r.turn}
    BY <1>c, <1>5, SendDelivers DEF PublishAcked
  <2>2. disp'.batch = disp.batch /\ disp'.row = r
    BY <1>5 DEF PublishAcked, IInv, TypeOK, DispatcherTyped
  <2> QED BY <1>t, <1>5, <2>1, <2>2, SendStep DEF PublishAcked
<1>6. ASSUME NEW r \in disp.batch, NEW stored \in BOOLEAN, PublishRaises(r, stored)
      PROVE IInv'
  <2>1. disp'.batch = disp.batch /\ disp'.row = r /\ disp'.pc = "mark_failed"
    BY <1>6 DEF PublishRaises, IInv, TypeOK, DispatcherTyped
  <2>2. CASE stored
    <3>1. delivered' = delivered \cup {r.turn}
      BY <1>c, <1>6, <2>2, SendDelivers DEF PublishRaises
    <3> QED BY <1>t, <1>6, <2>1, <3>1, SendStep DEF PublishRaises
  <2>3. CASE ~ stored
    <3>1. UNCHANGED <<sent, rows, order, clock, dropped>>
      BY <1>6, <2>3 DEF PublishRaises
    <3> QED BY <1>t, <2>1, <3>1, QuietStep
  <2> QED BY <2>2, <2>3
<1>7. CASE MarkPublished
  <2>1. /\ disp.pc = "mark_published"
        /\ disp'.pc = "loop" /\ disp'.batch = disp.batch \ {disp.row}
    BY <1>7 DEF MarkPublished, IInv, TypeOK, DispatcherTyped
  <2>2. disp.row.turn \in delivered
    BY <2>1 DEF IInv, MarkedIsSent
  <2>3. /\ \A t \in Turns : Fresh(t) => rows'[t].id = rows[t].id
        /\ \A t \in Turns : rows'[t].id > 0 => rows[t].id > 0
    BY <1>7, <2>2 DEF MarkPublished, Fresh, NoRow, IInv, TypeOK, RowsTyped
  <2>4. UNCHANGED <<sent, order, clock, dropped>>
    BY <1>7 DEF MarkPublished
  <2> QED BY <1>t, <2>1, <2>2, <2>3, <2>4, QuietStep
<1>8. CASE MarkFailed
  <2>1. /\ disp'.pc = "loop"
        /\ disp'.batch = disp.batch \ OfSubject(disp.batch, Subject[disp.row.turn])
        /\ UNCHANGED <<sent, order, clock, dropped>>
    BY <1>8 DEF MarkFailed, IInv, TypeOK, DispatcherTyped
  <2>2. \A u \in Turns : rows'[u].id = rows[u].id
    <3>1. disp.row.turn \in Turns
      BY <1>8, <1>c DEF MarkFailed, IInv, TypeOK, DispatcherTyped, BatchRow
    <3> QED BY <1>8, <3>1, SetDue DEF MarkFailed, IInv, TypeOK
  <2>3. /\ disp'.batch \subseteq disp.batch
        /\ \A q \in disp.batch \ disp'.batch, r \in disp'.batch :
              Subject[r.turn] # Subject[q.turn]
    BY <2>1 DEF OfSubject
  <2> QED BY <1>t, <2>1, <2>2, <2>3, QuietStep
<1>9. CASE IterationFails
  BY <1>t, <1>9, QuietStep DEF IterationFails, IdleDispatcher
<1>10. ASSUME NEW o, DeleteOwnerRuntime(o) PROVE IInv'
  BY <1>t, <1>10, DeleteStep
<1>11. CASE Restart
  BY <1>t, <1>11, QuietStep DEF Restart, IdleDispatcher
<1>12. CASE UNCHANGED vars
  BY <1>t, <1>12, QuietStep DEF vars
<1> QED BY <1>1, <1>2, <1>3, <1>4, <1>5, <1>6, <1>7, <1>8, <1>9, <1>10,
           <1>11, <1>12 DEF Next, Publish

\* The inductive invariant holds in every reachable state.
THEOREM InductiveInvariant == Spec => []IInv
BY InitIInv, NextIInv, PTL DEF Spec

\* Turns of one Realm reach the stream in the order of acceptance, whatever
\* the number of turns, failures, restarts and deletions: dispatch_once never
\* lets a turn overtake an older one of its subject.
THEOREM OrderIsKept == Spec => []NoOvertaking
<1>1. IInv => NoOvertaking
  BY DEF IInv
<1> QED BY <1>1, InductiveInvariant, PTL

\* An accepted turn keeps its row until the broker has stored it or the
\* owner's data is deleted.
THEOREM AcceptedIsKept == Spec => []NothingLost
<1>1. IInv => NothingLost
  BY DEF IInv
<1> QED BY <1>1, InductiveInvariant, PTL

(***************************************************************************)
(* The outbox implements RealmFeed.                                         *)
(***************************************************************************)
LEMMA InitFeed == Init => Feed!Init
BY DEF Init, Feed!Init, delivered

LEMMA NextFeed == IInv /\ [Next]_vars => [Feed!Next]_Feed!vars
<1> SUFFICES ASSUME IInv, [Next]_vars PROVE [Feed!Next]_Feed!vars
  OBVIOUS
<1>c. \A r \in disp.batch : r \in BatchRow /\ r.turn \in Turns /\ order[r.turn] > 0
  BY DEF IInv, TypeOK, DispatcherTyped, BatchRow, BatchIsCurrent
<1>q. ASSUME UNCHANGED <<sent, order, clock, dropped>> PROVE UNCHANGED Feed!vars
  BY <1>q DEF Feed!vars, delivered
<1>s. ASSUME NEW r \in disp.batch, IsNextRow(r),
             sent' = sent \cup {<<r.turn, r.payload>>},
             UNCHANGED <<order, clock, dropped>>
      PROVE  Feed!Deliver(r.turn)
  <2>1. delivered' = delivered \cup {r.turn}
    BY <1>c, <1>s, SendDelivers
  <2>2. r.turn \in dropped \/ \A u \in Turns : Before(u, r.turn) => u \in delivered \cup dropped
    BY <1>s, NoFreshBefore
  <2> QED BY <1>c, <1>s, <2>1, <2>2 DEF Feed!Deliver, Feed!Before, Before
<1> USE DEF history
<1>1. ASSUME NEW t \in Turns, NEW p \in Payloads, EnqueueCommit(t, p)
      PROVE  Feed!Accept(t) \/ UNCHANGED Feed!vars
  <2>1. CASE ~ Present(t) /\ order[t] = 0
    BY <1>1, <2>1 DEF EnqueueCommit, InsertOrIgnore, Feed!Accept, delivered
  <2>2. CASE ~ (~ Present(t) /\ order[t] = 0)
    BY <1>1, <1>q, <2>2 DEF EnqueueCommit, InsertOrIgnore
  <2> QED BY <2>1, <2>2
<1>2. ASSUME NEW t \in Turns, EnqueueVerify(t) \/ BackoffElapses(t)
      PROVE  UNCHANGED Feed!vars
  BY <1>2, <1>q DEF EnqueueVerify, BackoffElapses
<1>3. ASSUME Fetch \/ MarkPublished \/ MarkFailed \/ IterationFails \/ Restart
      PROVE  UNCHANGED Feed!vars
  BY <1>3, <1>q DEF Fetch, MarkPublished, MarkFailed, IterationFails, Restart
<1>4. ASSUME NEW r \in disp.batch, PublishAcked(r) PROVE Feed!Deliver(r.turn)
  BY <1>4, <1>s DEF PublishAcked
<1>5. ASSUME NEW r \in disp.batch, NEW stored \in BOOLEAN, PublishRaises(r, stored)
      PROVE  Feed!Deliver(r.turn) \/ UNCHANGED Feed!vars
  BY <1>5, <1>s, <1>q DEF PublishRaises
<1>6. ASSUME NEW o, DeleteOwnerRuntime(o)
      PROVE  \E S \in SUBSET Turns : Feed!Drop(S)
  <2> DEFINE gone == {t \in Turns : Owner[t] = o /\ Present(t)}
  <2>1. Feed!Drop(gone)
    BY <1>6 DEF DeleteOwnerRuntime, Feed!Drop, delivered
  <2> QED BY <2>1
<1>7. CASE UNCHANGED vars
  BY <1>7, <1>q DEF vars
<1> QED BY <1>c, <1>1, <1>2, <1>3, <1>4, <1>5, <1>6, <1>7 DEF Next, Publish, Feed!Next

\* Every behaviour of the outbox is a behaviour of the ordered feed.
THEOREM ImplementsFeed == Spec => FeedSpec
BY InitFeed, NextFeed, InductiveInvariant, PTL DEF Spec, FeedSpec, Feed!Spec

(***************************************************************************)
(* What is reported queued is what was stored.                              *)
(***************************************************************************)
\* Rows and the batch hold inserted contents only.
StoredIsInserted ==
    /\ \A t \in Turns : Present(t) => <<t, rows[t].payload>> \in inserted
    /\ \A r \in disp.batch : <<r.turn, r.payload>> \in inserted

ContentInv == TypeOK /\ StoredIsInserted /\ QueuedContentIsKept

LEMMA InitContent == Init => ContentInv
<1> SUFFICES ASSUME Init PROVE ContentInv
  OBVIOUS
<1>1. \A t \in Turns : rows[t].id = 0 /\ caller[t].pc = "none"
  BY DEF Init, NoRow, NoCall
<1>2. disp.batch = {}
  BY DEF Init, IdleDispatcher
<1> QED BY <1>1, <1>2, InitType DEF Init, ContentInv, StoredIsInserted,
           QueuedContentIsKept, Present

\* A step keeps the invariant when rows and batch entries that appear are
\* inserted, nothing is queued anew and nothing but the batch is sent.
LEMMA ContentStep ==
    ASSUME ContentInv, TypeOK', inserted \subseteq inserted',
           \A t \in Turns : Present(t)' => \/ Present(t) /\ rows'[t].payload = rows[t].payload
                                          \/ <<t, rows'[t].payload>> \in inserted',
           \A t \in Turns : caller'[t].pc = "queued" =>
              \/ caller'[t] = caller[t]
              \/ <<t, caller'[t].payload>> \in inserted',
           \A r \in disp'.batch : r \in disp.batch \/ <<r.turn, r.payload>> \in inserted',
           \A m \in sent' : m \in sent \/ \E r \in disp.batch : m = <<r.turn, r.payload>>
    PROVE  ContentInv'
<1>1. StoredIsInserted'
  BY DEF ContentInv, StoredIsInserted
<1>2. QueuedContentIsKept'
  BY DEF ContentInv, StoredIsInserted, QueuedContentIsKept
<1> QED BY <1>1, <1>2 DEF ContentInv

LEMMA NextContent == ContentInv /\ [Next]_vars => ContentInv'
<1> SUFFICES ASSUME ContentInv, [Next]_vars PROVE ContentInv'
  OBVIOUS
<1>t. TypeOK /\ TypeOK'
  BY NextType DEF ContentInv
<1>c. disp.pc # "loop" => disp.row \in disp.batch
  BY <1>t DEF TypeOK, DispatcherTyped
<1> USE DEF history, bounds
<1>1. ASSUME NEW t \in Turns, NEW p \in Payloads, EnqueueCommit(t, p) PROVE ContentInv'
  <2>1. /\ UNCHANGED <<disp, sent>> /\ inserted \subseteq inserted'
        /\ caller' = [caller EXCEPT ![t] = [pc |-> "committed", payload |-> p]]
    BY <1>1 DEF EnqueueCommit, InsertOrIgnore
  <2>2. \A u \in Turns : caller'[u].pc = "queued" => caller'[u] = caller[u]
    BY <1>t, <2>1 DEF TypeOK
  <2>3. \A u \in Turns : Present(u)' => \/ Present(u) /\ rows'[u].payload = rows[u].payload
                                        \/ <<u, rows'[u].payload>> \in inserted'
    <3>1. CASE Present(t)
      BY <1>1, <3>1 DEF EnqueueCommit, InsertOrIgnore, Present
    <3>2. CASE ~ Present(t)
      BY <1>1, <1>t, <3>2 DEF EnqueueCommit, InsertOrIgnore, Present, TypeOK, RowsTyped
    <3> QED BY <3>1, <3>2
  <2> QED BY <1>t, <2>1, <2>2, <2>3, ContentStep
<1>2. ASSUME NEW t \in Turns, EnqueueVerify(t) PROVE ContentInv'
  <2>1. UNCHANGED <<rows, disp, sent, inserted>>
    BY <1>2 DEF EnqueueVerify
  <2>2. \A u \in Turns : caller'[u].pc = "queued" =>
           \/ caller'[u] = caller[u]
           \/ <<u, caller'[u].payload>> \in inserted'
    <3> SUFFICES ASSUME NEW u \in Turns, caller'[u].pc = "queued"
                 PROVE  \/ caller'[u] = caller[u]
                        \/ <<u, caller'[u].payload>> \in inserted'
      OBVIOUS
    <3>1. CASE u # t
      BY <1>2, <1>t, <3>1 DEF EnqueueVerify, TypeOK
    <3>2. CASE u = t
      <4>1. Present(t) /\ rows[t].payload = caller[t].payload
        BY <1>2, <1>t, <3>2 DEF EnqueueVerify, TypeOK
      <4>2. caller'[t].payload = caller[t].payload
        BY <1>2, <1>t DEF EnqueueVerify, TypeOK
      <4> QED BY <2>1, <3>2, <4>1, <4>2 DEF ContentInv, StoredIsInserted
    <3> QED BY <3>1, <3>2
  <2> QED BY <1>t, <2>1, <2>2, ContentStep DEF Present
<1>3. ASSUME NEW t \in Turns, BackoffElapses(t) PROVE ContentInv'
  BY <1>t, <1>3, ContentStep DEF BackoffElapses, Present, TypeOK, RowsTyped
<1>4. CASE Fetch
  <2>1. \A t \in PendingBatch : <<t, rows[t].payload>> \in inserted
    BY DEF PendingBatch, Eligible, ContentInv, StoredIsInserted
  <2>2. disp'.batch = {[turn |-> t, id |-> rows[t].id, payload |-> rows[t].payload] :
                          t \in PendingBatch}
    BY <1>t, <1>4 DEF Fetch, TypeOK, DispatcherTyped
  <2>3. \A r \in disp'.batch : <<r.turn, r.payload>> \in inserted
    BY <2>1, <2>2
  <2> QED BY <1>t, <1>4, <2>3, ContentStep DEF Fetch, Present
<1>5. ASSUME NEW r \in disp.batch, PublishAcked(r) PROVE ContentInv'
  <2>1. disp'.batch = disp.batch
    BY <1>t, <1>5 DEF PublishAcked, TypeOK, DispatcherTyped
  <2> QED BY <1>t, <1>5, <2>1, ContentStep DEF PublishAcked, Present
<1>6. ASSUME NEW r \in disp.batch, NEW stored \in BOOLEAN, PublishRaises(r, stored)
      PROVE ContentInv'
  <2>1. disp'.batch = disp.batch
    BY <1>t, <1>6 DEF PublishRaises, TypeOK, DispatcherTyped
  <2>2. \A m \in sent' : m \in sent \/ m = <<r.turn, r.payload>>
    BY <1>6 DEF PublishRaises
  <2> QED BY <1>t, <1>6, <2>1, <2>2, ContentStep DEF PublishRaises, Present
<1>7. CASE MarkPublished
  <2>1. \A t \in Turns : Present(t)' => Present(t) /\ rows'[t].payload = rows[t].payload
    BY <1>t, <1>7 DEF MarkPublished, Present, NoRow, TypeOK, RowsTyped
  <2>2. disp'.batch \subseteq disp.batch /\ UNCHANGED <<caller, sent, inserted>>
    BY <1>t, <1>7 DEF MarkPublished, TypeOK, DispatcherTyped
  <2> QED BY <1>t, <2>1, <2>2, ContentStep
<1>8. CASE MarkFailed
  <2>1. \A t \in Turns : Present(t)' => Present(t) /\ rows'[t].payload = rows[t].payload
    BY <1>t, <1>8 DEF MarkFailed, Present, TypeOK, RowsTyped
  <2>2. disp'.batch \subseteq disp.batch /\ UNCHANGED <<caller, sent, inserted>>
    BY <1>t, <1>8 DEF MarkFailed, TypeOK, DispatcherTyped
  <2> QED BY <1>t, <2>1, <2>2, ContentStep
<1>9. CASE IterationFails
  BY <1>t, <1>9, ContentStep DEF IterationFails, IdleDispatcher, Present
<1>10. ASSUME NEW o, DeleteOwnerRuntime(o) PROVE ContentInv'
  <2>1. \A t \in Turns : Present(t)' => Present(t) /\ rows'[t].payload = rows[t].payload
    BY <1>10 DEF DeleteOwnerRuntime, Present, NoRow
  <2> QED BY <1>t, <1>10, <2>1, ContentStep DEF DeleteOwnerRuntime
<1>11. CASE Restart
  <2>1. \A t \in Turns : caller'[t].pc = "queued" => caller'[t] = caller[t]
    BY <1>11 DEF Restart, NoCall
  <2> QED BY <1>t, <1>11, <2>1, ContentStep DEF Restart, IdleDispatcher, Present
<1>12. CASE UNCHANGED vars
  BY <1>t, <1>12, ContentStep DEF vars, Present
<1> QED BY <1>1, <1>2, <1>3, <1>4, <1>5, <1>6, <1>7, <1>8, <1>9, <1>10,
           <1>11, <1>12 DEF Next, Publish

\* What publish_turn reported as queued was inserted with that very content,
\* and nothing but inserted content is ever sent, also when a turn id is
\* published again with another content, its row is deleted in between or the
\* process restarts.
THEOREM QueuedIsStored == Spec => []QueuedContentIsKept
<1>1. ContentInv => QueuedContentIsKept
  BY DEF ContentInv
<1> QED BY <1>1, InitContent, NextContent, PTL DEF Spec
==============================================================================
