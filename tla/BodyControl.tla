---------------------------- MODULE BodyControl ----------------------------
(***************************************************************************)
(* Capabilities of the owner's devices as tools.  A turn assembles one     *)
(* tool per contract (a capability version) that online devices offer; the *)
(* model names a Companion, and the call resolves that name to a device in *)
(* one listing of the directory and sends the command after a second one.  *)
(* Listings come from a cache with a time to live; the directory changes   *)
(* at any time.  Bootstrap passes no body service yet, so the provider     *)
(* offers nothing in production; this is the domain code on its own.       *)
(*                                                                         *)
(* A contract is the version of one capability; a device is identified by  *)
(* its id; the Hub that carries out commands is external.                  *)
(***************************************************************************)
EXTENDS Naturals, FiniteSets

CONSTANTS
    Bodies,         \* device ids
    Appearances,    \* device -> what the directory may say of it
    NamedWith,       \* device id -> devices with a name that contains this id
    Versions,       \* versions of the capability
    Shapes,         \* schemas a version may be declared with
    Reserved,       \* schemas that use the field of the target
    MaxFlips,       \* bound: changes of the directory and of the cache
    Gone            \* a device the directory does not list

VARIABLES
    directory,  \* what the store behind the cache would answer now
    entry,      \* the cache entry of this owner and Companion
    other,      \* a listing another turn has read and not stored yet
    call,       \* the turn: offered tools, its call, the listings it read
    performed,  \* history: what devices did on command
    flips

bodyVars == <<directory, entry, other, call, performed, flips>>

\* provides: version -> the shape it is declared with, for those offered.
AppearanceType ==
    [status : {"online", "unknown", "offline"}, name : STRING, companion : STRING,
     provides : [Versions -> Shapes \union {"none"}]]
Unread == [read |-> FALSE]

ASSUME BodyAssumption ==
    /\ IsFiniteSet(Bodies)
    /\ \A d \in Bodies : \A a \in Appearances[d] : a = Gone \/ a \in AppearanceType
    /\ NamedWith \in [Bodies -> SUBSET Bodies]
    /\ \A d \in Bodies : d \in NamedWith[d]
    /\ Reserved \subseteq Shapes

Listing == [Bodies -> UNION {Appearances[d] : d \in Bodies}]
Listed(l) == {d \in Bodies : l[d] # Gone}
Reachable(l) == {d \in Listed(l) : l[d].status # "offline"}
Offers(l, d, v) == l[d].provides[v] # "none"

(***************************************************************************)
(* The tools of a turn.                                                    *)
(***************************************************************************)
\* _compatible_contracts: one schema for all providers, none of its own
\* fields called target_companion, and providers with a name.
Providers(l, v) == {d \in Reachable(l) : l[d].name # "" /\ Offers(l, d, v)}
Compatible(l, v) ==
    LET shapes == {l[d].provides[v] : d \in Providers(l, v)}
    IN Cardinality(shapes) = 1 /\ shapes \intersect Reserved = {}
\* The enum of the target field.
TargetNames(l, v) ==
    IF Compatible(l, v) THEN {l[d].name : d \in Providers(l, v)} ELSE {}

(***************************************************************************)
(* Resolution.                                                             *)
(***************************************************************************)
OfCompanion(l, target) == {d \in Reachable(l) : l[d].name = target}
CompanionIds(l, target) == {l[d].companion : d \in OfCompanion(l, target)}
AbleBodies(l, target, v) == {d \in OfCompanion(l, target) : Offers(l, d, v)}

\* send_companion_capability finds one Companion and one device.
Resolvable(l, target, v) ==
    Cardinality(CompanionIds(l, target)) = 1 /\ Cardinality(AbleBodies(l, target, v)) = 1

\* resolve_body_device, given an id (no name is another device's id): the device
\* with that key, otherwise the only one with a name that contains it.
Matches(l, id) ==
    IF id \in Listed(l) THEN {id} ELSE NamedWith[id] \intersect Listed(l)

\* send_command refuses a device without the contract, or not online.
Sendable(l, d, v) == Offers(l, d, v) /\ l[d].status = "online"

(***************************************************************************)
(* The directory and its cache.                                            *)
(***************************************************************************)
Idle ==
    [st |-> "idle", offered |-> [v \in Versions |-> {}], captured |-> Unread,
     target |-> "", version |-> 0, first |-> Unread, second |-> Unread,
     provider |-> "none", device |-> "none", outcome |-> "none", got |-> 0]

BodyInit ==
    /\ directory \in {l \in Listing : \A d \in Bodies : l[d] \in Appearances[d]}
    /\ entry = Unread
    /\ other = Unread
    /\ call = Idle
    /\ performed = {}
    /\ flips = 0

Flip == flips < MaxFlips /\ flips' = flips + 1

\* A device comes, goes, is renamed or changes what it provides.
DirectoryChanges ==
    /\ Flip
    /\ \E d \in Bodies : \E a \in Appearances[d] :
          a # directory[d] /\ directory' = [directory EXCEPT ![d] = a]
    /\ UNCHANGED <<entry, other, call, performed>>

\* The entry expires, or invalidate() drops it.
EntryExpires ==
    /\ entry.read /\ Flip
    /\ entry' = Unread
    /\ UNCHANGED <<directory, other, call, performed>>

\* Another turn of the same owner reads the store without the lock ...
OtherReads ==
    /\ ~other.read /\ Flip
    /\ other' = [read |-> TRUE, devices |-> directory]
    /\ UNCHANGED <<directory, entry, call, performed>>

\* ... and stores what it read, however old it is by then.
OtherStores ==
    /\ other.read
    /\ entry' = other
    /\ other' = Unread
    /\ UNCHANGED <<directory, call, performed, flips>>

Listings == {"assemble", "resolve", "send"}

\* No entry: the turn asks the store and captures what it answers.
ReadStore ==
    /\ call.st \in Listings /\ ~call.captured.read /\ ~entry.read
    /\ call' = [call EXCEPT !.captured = [read |-> TRUE, devices |-> directory]]
    /\ UNCHANGED <<directory, entry, other, performed, flips>>

\* The store fails: no tools, or a failed call.
StoreFails ==
    /\ call.st \in Listings /\ ~call.captured.read /\ ~entry.read
    /\ call' = [call EXCEPT !.st = IF @ = "assemble" THEN "offered" ELSE "done",
                            !.outcome = "error"]
    /\ UNCHANGED <<directory, entry, other, performed, flips>>

\* list_devices returns: what was captured is stored, or the entry was valid.
HasListing == call.captured.read \/ entry.read
CurrentListing == IF call.captured.read THEN call.captured.devices ELSE entry.devices
Stores ==
    /\ entry' = IF call.captured.read THEN call.captured ELSE entry
    /\ UNCHANGED <<directory, other, performed, flips>>

(***************************************************************************)
(* A turn.                                                                 *)
(***************************************************************************)
StartTurn ==
    /\ call.st = "idle"
    /\ call' = [call EXCEPT !.st = "assemble"]
    /\ UNCHANGED <<directory, entry, other, performed, flips>>

AssembleTools ==
    /\ call.st = "assemble" /\ HasListing
    /\ call' = [call EXCEPT !.st = "offered", !.captured = Unread,
                            !.offered = [v \in Versions |-> TargetNames(CurrentListing, v)]]
    /\ Stores

\* The model calls the tool of a contract with a name from its enum.
Invoke(v, target) ==
    /\ call.st = "offered" /\ target \in call.offered[v]
    /\ call' = [call EXCEPT !.st = "resolve", !.target = target, !.version = v,
                            !.outcome = "none"]
    /\ UNCHANGED <<directory, entry, other, performed, flips>>

\* Unknown or ambiguous Companion, no provider or several: a failed result.
Resolve ==
    /\ call.st = "resolve" /\ HasListing
    /\ LET l == CurrentListing
           found == Resolvable(l, call.target, call.version)
       IN call' = [call EXCEPT
             !.captured = Unread,
             !.first = l,
             !.st = IF found THEN "send" ELSE "done",
             !.outcome = IF found THEN @ ELSE "error",
             !.provider = IF found THEN CHOOSE d \in AbleBodies(l, call.target, call.version) : TRUE
                          ELSE @]
    /\ Stores

\* send_command lists again, and sends to the one device that matches.
Send ==
    /\ call.st = "send" /\ HasListing
    /\ LET l == CurrentListing
           matches == Matches(l, call.provider)
           sent == Cardinality(matches) = 1 /\ \A d \in matches : Sendable(l, d, call.version)
       IN call' = [call EXCEPT
             !.captured = Unread,
             !.second = l,
             !.st = IF sent THEN "sent" ELSE "done",
             !.outcome = IF sent THEN @ ELSE "error",
             !.device = IF sent THEN CHOOSE d \in matches : TRUE ELSE @]
    /\ Stores

\* The payload or an option does not validate.
Reject ==
    /\ call.st = "send" /\ HasListing
    /\ call' = [call EXCEPT !.captured = Unread, !.st = "done", !.outcome = "error"]
    /\ Stores

\* The Hub answers: done, perhaps under the version the device has by now, or
\* not done, or the answer does not come in time and nobody knows.
HubAnswers(status, v) ==
    /\ call.st = "sent"
    /\ call' = [call EXCEPT !.st = "answered", !.outcome = status, !.got = v]
    /\ performed' \in
          CASE status = "done" -> {performed \union {<<call.device, v>>}}
            [] status = "failed" -> {performed}
            [] status = "timeout" -> {performed, performed \union {<<call.device, v>>}}
    /\ UNCHANGED <<directory, entry, other, flips>>

\* Mutant: any completion counts, whatever contract was completed.
MutCompleted(version) == call.outcome = "done"
\* invoke: completed means done, under the contract that was asked for.
Completed(version) == call.outcome = "done" /\ version = call.version

Receipt ==
    /\ call.st = "answered"
    /\ call' = [call EXCEPT !.st = "done",
                            !.outcome = IF Completed(call.got) THEN "completed"
                                        ELSE IF @ = "done" THEN "version_mismatch" ELSE @]
    /\ UNCHANGED <<directory, entry, other, performed, flips>>

BodyNext ==
    \/ DirectoryChanges
    \/ EntryExpires
    \/ OtherReads
    \/ OtherStores
    \/ ReadStore
    \/ StoreFails
    \/ StartTurn
    \/ AssembleTools
    \/ \E v \in Versions : \E target \in call.offered[v] : Invoke(v, target)
    \/ Resolve
    \/ Send
    \/ Reject
    \/ \E status \in {"done", "failed", "timeout"}, v \in Versions : HubAnswers(status, v)
    \/ Receipt

BodySpec == BodyInit /\ [][BodyNext]_bodyVars

(***************************************************************************)
(* A completed receipt is true.  The device it names carried out exactly   *)
(* the contract that was called, and was listed online with it when the    *)
(* command was sent; it is the one device of the named Companion that      *)
(* offered the contract when the name was resolved.  (Only if that device  *)
(* left the directory between the two listings can the receipt name        *)
(* another: the one whose names contain its id.)                           *)
(***************************************************************************)
ReceiptNamesTheBody ==
    call.outcome = "completed" =>
        /\ <<call.device, call.version>> \in performed
        /\ Sendable(call.second, call.device, call.version)
        /\ {d \in Bodies : /\ call.first[d] # Gone /\ call.first[d].status # "offline"
                           /\ call.first[d].name = call.target
                           /\ call.first[d].provides[call.version] # "none"} = {call.provider}
        /\ call.device # call.provider =>
             call.second[call.provider] = Gone /\ call.device \in NamedWith[call.provider]
=============================================================================
