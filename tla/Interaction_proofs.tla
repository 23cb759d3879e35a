------------------------- MODULE Interaction_proofs -------------------------

(***************************************************************************)
(* Proofs about parts that serve one utterance, each about a specification *)
(* of its own: a capability of a device called as a tool (BodyControl), a  *)
(* role group's round (Coordination) and a command for the home            *)
(* (SmartHome).                                                            *)
(***************************************************************************)
EXTENDS BodyControl, Coordination, SmartHome, FiniteSetTheorems, TLAPS

(***************************************************************************)
(* BodyControl.  Each listing a call reads is a snapshot of the directory, *)
(* however old; what was resolved is a fact about the first listing, what  *)
(* was sent about the second, and both stay recorded with the call.        *)
(***************************************************************************)
ListingRead == {Unread} \union [read : {TRUE}, devices : Listing]
CallSts == {"idle", "assemble", "offered", "resolve", "send", "sent", "answered", "done"}
CallOutcomes == {"none", "error", "done", "failed", "timeout", "completed", "version_mismatch"}
CallType ==
    [st : CallSts, offered : [Versions -> SUBSET STRING], captured : ListingRead,
     target : STRING \union {""}, version : Versions \union {0}, first : Listing \union {Unread},
     second : Listing \union {Unread}, provider : Bodies \union {"none"},
     device : Bodies \union {"none"}, outcome : CallOutcomes, got : Versions \union {0}]

BodyTyped ==
    /\ directory \in Listing
    /\ entry \in ListingRead
    /\ other \in ListingRead
    /\ call \in CallType

\* The name was resolved to one device, the provider, in the first listing.
Resolved(c) ==
    c.provider \in Bodies /\ AbleBodies(c.first, c.target, c.version) = {c.provider}
\* The command went to the one match of that id in the second listing.
Delivered(c) ==
    /\ Matches(c.second, c.provider) = {c.device}
    /\ Sendable(c.second, c.device, c.version)

CallInv ==
    /\ call.st \in {"idle", "assemble", "offered", "resolve"} =>
          call.outcome \in {"none", "error"}
    /\ call.st \in {"send", "sent", "answered"} => Resolved(call)
    /\ call.st \in {"resolve", "send", "sent"} => call.outcome = "none"
    /\ call.st \in {"sent", "answered"} => Delivered(call)
    /\ call.st = "answered" =>
          /\ call.outcome \in {"done", "failed", "timeout"}
          /\ call.outcome = "done" => <<call.device, call.got>> \in performed
    /\ call.outcome = "completed" =>
          /\ Resolved(call) /\ Delivered(call)
          /\ <<call.device, call.version>> \in performed

BodyInv == BodyTyped /\ CallInv

LEMMA ListingIsTyped ==
    ASSUME NEW l \in Listing, NEW d \in Listed(l) PROVE l[d] \in AppearanceType
BY BodyAssumption DEF Listing, Listed

LEMMA ReadIsListing ==
    /\ Unread \in ListingRead
    /\ \A l \in Listing : [read |-> TRUE, devices |-> l] \in ListingRead
    /\ \A r \in ListingRead : r.read => r.devices \in Listing
<1>1. \A r \in ListingRead : r.read => r.devices \in Listing
  <2> SUFFICES ASSUME NEW r \in ListingRead, r.read PROVE r.devices \in Listing
    OBVIOUS
  <2>1. r # Unread
    BY DEF Unread
  <2> QED BY <2>1 DEF ListingRead
<1> QED BY <1>1 DEF ListingRead

LEMMA CurrentIsListing ==
    ASSUME BodyTyped, HasListing PROVE CurrentListing \in Listing
<1>1. entry \in ListingRead /\ call.captured \in ListingRead
  BY DEF BodyTyped, CallType
<1> QED BY <1>1, ReadIsListing DEF HasListing, CurrentListing

LEMMA OneMember ==
    ASSUME NEW S \in SUBSET Bodies, Cardinality(S) = 1
    PROVE  S = {CHOOSE d \in S : TRUE} /\ (CHOOSE d \in S : TRUE) \in Bodies
<1>1. IsFiniteSet(S)
  BY BodyAssumption, FS_Subset
<1>2. PICK x : S = {x}
  BY <1>1, FS_Singleton
<1> QED BY <1>2

LEMMA MatchesAreBodies ==
    ASSUME NEW l \in Listing, NEW id \in Bodies PROVE Matches(l, id) \in SUBSET Bodies
BY BodyAssumption DEF Matches, Listed

LEMMA StoresKeepsTypes ==
    ASSUME BodyTyped, Stores
    PROVE  directory' \in Listing /\ entry' \in ListingRead /\ other' \in ListingRead
BY DEF BodyTyped, Stores, CallType

\* A step of the call from its parts: types, and what is known of the result.
LEMMA BodyInitInv == BodyInit => BodyInv
<1> SUFFICES ASSUME BodyInit PROVE BodyInv
  OBVIOUS
<1>1. directory \in Listing /\ entry \in ListingRead /\ other \in ListingRead
  BY DEF BodyInit, Listing, ListingRead
<1>2. call \in CallType
  <2> DEFINE nothing == [v \in Versions |-> {}]
  <2>1. nothing \in [Versions -> SUBSET STRING]
    OBVIOUS
  <2>2. call = [st |-> "idle", offered |-> nothing, captured |-> Unread, target |-> "",
                version |-> 0, first |-> Unread, second |-> Unread, provider |-> "none",
                device |-> "none", outcome |-> "none", got |-> 0]
    BY DEF BodyInit, Idle
  <2>3. /\ "none" \in Bodies \union {"none"} /\ 0 \in Versions \union {0}
        /\ "" \in STRING \union {""}
        /\ Unread \in Listing \union {Unread} /\ Unread \in ListingRead
        /\ "idle" \in CallSts /\ "none" \in CallOutcomes
    BY ReadIsListing DEF CallSts, CallOutcomes
  <2> HIDE DEF nothing
  <2> QED BY <2>1, <2>2, <2>3 DEF CallType
<1>3. CallInv
  BY DEF BodyInit, Idle, CallInv
<1> QED BY <1>1, <1>2, <1>3 DEF BodyInv, BodyTyped

LEMMA SurroundingsStep ==
    ASSUME BodyInv, DirectoryChanges \/ EntryExpires \/ OtherReads \/ OtherStores
    PROVE  BodyInv'
<1>1. UNCHANGED <<call, performed>>
  BY DEF DirectoryChanges, EntryExpires, OtherReads, OtherStores
<1>2. directory' \in Listing
  <2>1. CASE DirectoryChanges
    BY <2>1 DEF DirectoryChanges, BodyInv, BodyTyped, Listing
  <2> QED BY <2>1 DEF EntryExpires, OtherReads, OtherStores, BodyInv, BodyTyped
<1>3. entry' \in ListingRead /\ other' \in ListingRead
  BY ReadIsListing
     DEF DirectoryChanges, EntryExpires, OtherReads, OtherStores, BodyInv, BodyTyped
<1>4. CallInv'
  BY <1>1 DEF BodyInv, CallInv, Resolved, Delivered
<1> QED BY <1>1, <1>2, <1>3, <1>4 DEF BodyInv, BodyTyped

LEMMA ListStep ==
    ASSUME BodyInv, ReadStore \/ StoreFails \/ StartTurn PROVE BodyInv'
<1>1. directory' \in Listing /\ entry' \in ListingRead /\ other' \in ListingRead
  BY DEF ReadStore, StoreFails, StartTurn, BodyInv, BodyTyped
<1>2. CASE ReadStore
  <2>1. call' \in CallType
    BY <1>2, ReadIsListing DEF ReadStore, BodyInv, BodyTyped, CallType
  <2>2. CallInv'
    BY <1>2 DEF ReadStore, BodyInv, BodyTyped, CallType, CallInv, Resolved, Delivered
  <2> QED BY <1>1, <2>1, <2>2 DEF BodyInv, BodyTyped
<1>3. CASE StoreFails
  <2>1. call' \in CallType
    <3> DEFINE st == IF call.st = "assemble" THEN "offered" ELSE "done"
    <3>1. st \in CallSts
      BY DEF CallSts
    <3>2. call' = [call EXCEPT !.st = st, !.outcome = "error"]
      BY <1>3 DEF StoreFails
    <3> HIDE DEF st
    <3> QED BY <3>1, <3>2 DEF BodyInv, BodyTyped, CallType, CallOutcomes
  <2>2. CallInv'
    BY <1>3 DEF StoreFails, BodyInv, BodyTyped, CallType, CallInv, Listings
  <2> QED BY <1>1, <2>1, <2>2 DEF BodyInv, BodyTyped
<1>4. CASE StartTurn
  <2>1. call' \in CallType
    BY <1>4 DEF StartTurn, BodyInv, BodyTyped, CallType, CallSts
  <2>2. CallInv'
    BY <1>4 DEF StartTurn, BodyInv, BodyTyped, CallType, CallInv
  <2> QED BY <1>1, <2>1, <2>2 DEF BodyInv, BodyTyped
<1> QED BY <1>2, <1>3, <1>4

LEMMA AssembleStep ==
    ASSUME BodyInv, AssembleTools PROVE BodyInv'
<1>1. directory' \in Listing /\ entry' \in ListingRead /\ other' \in ListingRead
  BY StoresKeepsTypes DEF AssembleTools, BodyInv
<1>2. CurrentListing \in Listing
  BY CurrentIsListing DEF AssembleTools, BodyInv
<1>3. ASSUME NEW v \in Versions PROVE TargetNames(CurrentListing, v) \in SUBSET STRING
  <2> DEFINE l == CurrentListing
  <2>1. \A d \in Providers(l, v) : l[d] \in AppearanceType
    BY <1>2, ListingIsTyped DEF Providers, Reachable
  <2>2. \A d \in Providers(l, v) : l[d].name \in STRING
    BY <2>1 DEF AppearanceType
  <2> HIDE DEF l
  <2>3. {l[d].name : d \in Providers(l, v)} \in SUBSET STRING
    BY <2>2
  <2> QED BY <2>3 DEF TargetNames, l
<1>4. call' \in CallType
  BY <1>3, ReadIsListing DEF AssembleTools, BodyInv, BodyTyped, CallType, CallSts
<1>5. CallInv'
  BY DEF AssembleTools, BodyInv, BodyTyped, CallType, CallInv
<1> QED BY <1>1, <1>4, <1>5 DEF BodyInv, BodyTyped

LEMMA InvokeStep ==
    ASSUME BodyInv, NEW v \in Versions, NEW target \in call.offered[v], Invoke(v, target)
    PROVE  BodyInv'
<1>1. target \in STRING
  BY DEF BodyInv, BodyTyped, CallType
<1>2. directory' \in Listing /\ entry' \in ListingRead /\ other' \in ListingRead
  BY DEF Invoke, BodyInv, BodyTyped
<1>3. call' \in CallType
  BY <1>1 DEF Invoke, BodyInv, BodyTyped, CallType, CallSts, CallOutcomes
<1>4. CallInv'
  BY DEF Invoke, BodyInv, BodyTyped, CallType, CallInv
<1> QED BY <1>2, <1>3, <1>4 DEF BodyInv, BodyTyped

LEMMA ResolveStep ==
    ASSUME BodyInv, Resolve PROVE BodyInv'
<1> DEFINE l == CurrentListing
           able == AbleBodies(l, call.target, call.version)
           one == CHOOSE d \in able : TRUE
           found == Resolvable(l, call.target, call.version)
<1>1. directory' \in Listing /\ entry' \in ListingRead /\ other' \in ListingRead
  BY StoresKeepsTypes DEF Resolve, BodyInv
<1>2. l \in Listing /\ able \in SUBSET Bodies
  BY CurrentIsListing DEF Resolve, BodyInv, AbleBodies, OfCompanion, Reachable, Listed
<1>3. found => able = {one} /\ one \in Bodies
  BY <1>2, OneMember DEF Resolvable
<1>4. /\ call' = [call EXCEPT !.captured = Unread, !.first = l,
                     !.st = IF found THEN "send" ELSE "done",
                     !.outcome = IF found THEN @ ELSE "error",
                     !.provider = IF found THEN one ELSE @]
      /\ call.st = "resolve"
      /\ performed' = performed
  BY DEF Resolve, Stores
<1>5. found \in BOOLEAN
  BY DEF Resolvable
<1>7. able = AbleBodies(l, call.target, call.version)
  OBVIOUS
<1> HIDE DEF l, one, found, able
<1>6. call' \in CallType
  <2> DEFINE st == IF found THEN "send" ELSE "done"
             outcome == IF found THEN call.outcome ELSE "error"
             provider == IF found THEN one ELSE call.provider
  <2>1. st \in CallSts
    BY DEF CallSts
  <2>2. outcome \in CallOutcomes
    BY DEF CallOutcomes, BodyInv, BodyTyped, CallType
  <2>3. provider \in Bodies \union {"none"}
    BY <1>3 DEF BodyInv, BodyTyped, CallType
  <2>4. call' = [call EXCEPT !.captured = Unread, !.first = l, !.st = st,
                             !.outcome = outcome, !.provider = provider]
    BY <1>4
  <2> HIDE DEF st, outcome, provider
  <2> QED BY <1>2, <2>1, <2>2, <2>3, <2>4, ReadIsListing DEF BodyInv, BodyTyped, CallType
<1>8. CASE found
  <2>1. /\ call'.st = "send" /\ call'.first = l /\ call'.provider = one
        /\ call'.target = call.target /\ call'.version = call.version
        /\ call'.outcome = call.outcome
    BY <1>4, <1>8 DEF BodyInv, BodyTyped, CallType
  <2>2. call.outcome = "none"
    BY <1>4 DEF BodyInv, CallInv
  <2>3. Resolved(call)'
    BY <1>3, <1>7, <1>8, <2>1 DEF Resolved
  <2> QED BY <1>1, <1>6, <2>1, <2>2, <2>3 DEF BodyInv, BodyTyped, CallInv
<1>9. CASE ~found
  <2>1. call'.st = "done" /\ call'.outcome = "error"
    BY <1>4, <1>9 DEF BodyInv, BodyTyped, CallType
  <2> QED BY <1>1, <1>6, <2>1 DEF BodyInv, BodyTyped, CallInv
<1> QED BY <1>5, <1>8, <1>9

LEMMA SendStep ==
    ASSUME BodyInv, Send PROVE BodyInv'
<1> DEFINE l == CurrentListing
           matches == Matches(l, call.provider)
           one == CHOOSE d \in matches : TRUE
           sent == Cardinality(matches) = 1 /\ \A d \in matches : Sendable(l, d, call.version)
<1>1. directory' \in Listing /\ entry' \in ListingRead /\ other' \in ListingRead
  BY StoresKeepsTypes DEF Send, BodyInv
<1>0. Resolved(call) /\ call.outcome = "none" /\ call.st = "send"
  BY DEF Send, BodyInv, CallInv
<1>2. l \in Listing /\ matches \in SUBSET Bodies
  BY <1>0, CurrentIsListing, MatchesAreBodies DEF Send, BodyInv, Resolved
<1>3. sent => matches = {one} /\ one \in Bodies /\ Sendable(l, one, call.version)
  BY <1>2, OneMember
<1>4. /\ call' = [call EXCEPT !.captured = Unread, !.second = l,
                     !.st = IF sent THEN "sent" ELSE "done",
                     !.outcome = IF sent THEN @ ELSE "error",
                     !.device = IF sent THEN one ELSE @]
      /\ performed' = performed
  BY DEF Send, Stores
<1>5. sent \in BOOLEAN
  OBVIOUS
<1>7. matches = Matches(l, call.provider)
  OBVIOUS
<1> HIDE DEF l, one, sent, matches
<1>6. call' \in CallType
  <2> DEFINE st == IF sent THEN "sent" ELSE "done"
             outcome == IF sent THEN call.outcome ELSE "error"
             device == IF sent THEN one ELSE call.device
  <2>1. st \in CallSts
    BY DEF CallSts
  <2>2. outcome \in CallOutcomes
    BY DEF CallOutcomes, BodyInv, BodyTyped, CallType
  <2>3. device \in Bodies \union {"none"}
    BY <1>3 DEF BodyInv, BodyTyped, CallType
  <2>4. call' = [call EXCEPT !.captured = Unread, !.second = l, !.st = st,
                             !.outcome = outcome, !.device = device]
    BY <1>4
  <2> HIDE DEF st, outcome, device
  <2> QED BY <1>2, <2>1, <2>2, <2>3, <2>4, ReadIsListing DEF BodyInv, BodyTyped, CallType
<1>8. CASE sent
  <2>1. /\ call'.st = "sent" /\ call'.second = l /\ call'.device = one
        /\ call'.first = call.first /\ call'.provider = call.provider
        /\ call'.target = call.target /\ call'.version = call.version
        /\ call'.outcome = "none"
    BY <1>0, <1>4, <1>8 DEF BodyInv, BodyTyped, CallType
  <2>2. Resolved(call)'
    BY <1>0, <2>1 DEF Resolved
  <2>3. Delivered(call)'
    BY <1>3, <1>7, <1>8, <2>1 DEF Delivered
  <2> QED BY <1>1, <1>6, <2>1, <2>2, <2>3 DEF BodyInv, BodyTyped, CallInv
<1>9. CASE ~sent
  <2>1. call'.st = "done" /\ call'.outcome = "error"
    BY <1>4, <1>9 DEF BodyInv, BodyTyped, CallType
  <2> QED BY <1>1, <1>6, <2>1 DEF BodyInv, BodyTyped, CallInv
<1> QED BY <1>5, <1>8, <1>9

LEMMA RejectStep ==
    ASSUME BodyInv, Reject PROVE BodyInv'
<1>1. directory' \in Listing /\ entry' \in ListingRead /\ other' \in ListingRead
  BY StoresKeepsTypes DEF Reject, BodyInv
<1>2. call' \in CallType
  BY ReadIsListing DEF Reject, BodyInv, BodyTyped, CallType, CallSts, CallOutcomes
<1>3. call'.st = "done" /\ call'.outcome = "error"
  BY DEF Reject, BodyInv, BodyTyped, CallType
<1> QED BY <1>1, <1>2, <1>3 DEF BodyInv, BodyTyped, CallInv

LEMMA AnswerStep ==
    ASSUME BodyInv, NEW status \in {"done", "failed", "timeout"}, NEW v \in Versions,
           HubAnswers(status, v)
    PROVE  BodyInv'
<1>1. directory' \in Listing /\ entry' \in ListingRead /\ other' \in ListingRead
  BY DEF HubAnswers, BodyInv, BodyTyped
<1>2. call' \in CallType
  BY DEF HubAnswers, BodyInv, BodyTyped, CallType, CallSts, CallOutcomes
<1>3. /\ call'.st = "answered" /\ call'.outcome = status /\ call'.got = v
      /\ call'.second = call.second /\ call'.device = call.device
      /\ call'.first = call.first /\ call'.provider = call.provider
      /\ call'.target = call.target /\ call'.version = call.version
      /\ call.st = "sent"
  BY DEF HubAnswers, BodyInv, BodyTyped, CallType
<1>4. status = "done" => <<call.device, v>> \in performed'
  BY DEF HubAnswers
<1>5. Resolved(call) /\ Delivered(call)
  BY <1>3 DEF BodyInv, CallInv
<1>6. Resolved(call)'
  BY <1>3, <1>5 DEF Resolved
<1>7. Delivered(call)'
  BY <1>3, <1>5 DEF Delivered
<1> QED BY <1>1, <1>2, <1>3, <1>4, <1>6, <1>7 DEF BodyInv, BodyTyped, CallInv

LEMMA ReceiptStep ==
    ASSUME BodyInv, Receipt PROVE BodyInv'
<1> DEFINE outcome == IF Completed(call.got) THEN "completed"
                      ELSE IF call.outcome = "done" THEN "version_mismatch" ELSE call.outcome
<1>1. directory' \in Listing /\ entry' \in ListingRead /\ other' \in ListingRead
  BY DEF Receipt, BodyInv, BodyTyped
<1>2. call' = [call EXCEPT !.st = "done", !.outcome = outcome] /\ call.st = "answered"
  BY DEF Receipt
<1>3. outcome \in CallOutcomes
  BY DEF CallOutcomes, BodyInv, BodyTyped, CallType
<1>4. outcome = "completed" => call.outcome = "done" /\ call.got = call.version
  BY <1>2 DEF Completed, BodyInv, CallInv
<1> HIDE DEF outcome
<1>5. call' \in CallType
  BY <1>2, <1>3 DEF BodyInv, BodyTyped, CallType, CallSts
<1>6. /\ call'.st = "done" /\ call'.outcome = outcome
      /\ call'.second = call.second /\ call'.device = call.device
      /\ call'.first = call.first /\ call'.provider = call.provider
      /\ call'.target = call.target /\ call'.version = call.version
  BY <1>2 DEF BodyInv, BodyTyped, CallType
<1>7. Resolved(call) /\ Delivered(call)
  BY <1>2 DEF BodyInv, CallInv
<1>8. Resolved(call)'
  BY <1>6, <1>7 DEF Resolved
<1>9. Delivered(call)'
  BY <1>6, <1>7 DEF Delivered
<1>10. outcome = "completed" => <<call'.device, call'.version>> \in performed'
  BY <1>2, <1>4, <1>6 DEF Receipt, BodyInv, CallInv
<1> QED BY <1>1, <1>5, <1>6, <1>8, <1>9, <1>10 DEF BodyInv, BodyTyped, CallInv

LEMMA BodyNextInv == BodyInv /\ [BodyNext]_bodyVars => BodyInv'
<1> SUFFICES ASSUME BodyInv, [BodyNext]_bodyVars PROVE BodyInv'
  OBVIOUS
<1>1. CASE UNCHANGED bodyVars
  BY <1>1 DEF bodyVars, BodyInv, BodyTyped, CallInv, Resolved, Delivered
<1> QED BY <1>1, SurroundingsStep, ListStep, AssembleStep, InvokeStep, ResolveStep, SendStep,
           RejectStep, AnswerStep, ReceiptStep DEF BodyNext

\* A completed receipt of invoke() is true, for every directory, every history
\* of its changes and of the cache, and every set of contracts: the device did
\* what was called, was online with it in the second listing, and is the one
\* the name was resolved to in the first, unless that one has left.
THEOREM ReceiptIsTrue == BodySpec => []ReceiptNamesTheBody
<1>1. ASSUME BodyInv PROVE ReceiptNamesTheBody
  <2> SUFFICES ASSUME call.outcome = "completed"
               PROVE  /\ <<call.device, call.version>> \in performed
                      /\ Sendable(call.second, call.device, call.version)
                      /\ {d \in Bodies : /\ call.first[d] # Gone
                                         /\ call.first[d].status # "offline"
                                         /\ call.first[d].name = call.target
                                         /\ call.first[d].provides[call.version] # "none"}
                            = {call.provider}
                      /\ call.device # call.provider =>
                            /\ call.second[call.provider] = Gone
                            /\ call.device \in NamedWith[call.provider]
    BY DEF ReceiptNamesTheBody
  <2>1. Resolved(call) /\ Delivered(call) /\ <<call.device, call.version>> \in performed
    BY <1>1 DEF BodyInv, CallInv
  <2>2. {d \in Bodies : /\ call.first[d] # Gone
                        /\ call.first[d].status # "offline"
                        /\ call.first[d].name = call.target
                        /\ call.first[d].provides[call.version] # "none"}
          = AbleBodies(call.first, call.target, call.version)
    BY DEF AbleBodies, OfCompanion, Reachable, Listed, Offers
  <2>3. call.device # call.provider =>
           call.second[call.provider] = Gone /\ call.device \in NamedWith[call.provider]
    BY <2>1 DEF Resolved, Delivered, Matches, Listed
  <2> QED BY <2>1, <2>2, <2>3 DEF Resolved, Delivered
<1>2. BodyInit => BodyInv
  BY BodyInitInv
<1>3. BodyInv /\ [BodyNext]_bodyVars => BodyInv'
  BY BodyNextInv
<1> QED BY <1>1, <1>2, <1>3, PTL DEF BodySpec

(***************************************************************************)
(* Coordination.  What a device plays is decided by frames that left the   *)
(* session long before; the invariant follows them from the queue through  *)
(* the device's inbox to the receipt.                                      *)
(***************************************************************************)
RoundPcs == {"none", "transcribe", "stops", "primary", "fallback", "reply", "present"}
Waiting == {"transcribe", "stops"}
Deciding == {"primary", "fallback"}
Speaking == {"reply", "present"}
StopStates == {"none", "asked", "ok", "failed", "cancelled"}
FrameType == [type : {"stop", "start", "end"}, to : Members, epoch : Nat, turn : Nat]
ReceiptType ==
    [kind : {"stop", "reply"}, from : Members, epoch : Nat, turn : Nat, ok : BOOLEAN]
SessionSts ==
    {"opening", "waiting", "recording", "transcribing", "deciding", "responding", "failed",
     "closed"}
SaidType == [by : Nat, turn : Nat, epoch : Nat]
GroupType ==
    [epoch : Nat, st : SessionSts, held : BOOLEAN, closed : BOOLEAN, presses : Nat,
     active : Nat, turns : Nat, failures : SUBSET Members,
     history : Seq(SaidType), mishaps : Nat, connected : BOOLEAN]
RoundType ==
    [pc : RoundPcs, epoch : Nat, waits : SUBSET (0..MaxEpoch), left : Nat,
     speaker : 0..NumMembers, clarify : BOOLEAN, text : BOOLEAN]

GroupTyped ==
    /\ session \in GroupType
    /\ round \in RoundType
    /\ stops \in [0..MaxEpoch -> [Members -> StopStates]]
    /\ outbound \in [urgent : Seq(FrameType), reply : Seq(FrameType)]
    /\ inbox \in [Members -> Seq(FrameType)]
    /\ playing \in [Members -> Nat]
    /\ receipts \in SUBSET ReceiptType
    /\ heard \in SUBSET Nat

\* The session and its round agree on the epoch, and the epochs do not run
\* out: a press and the failure of its round are all that starts one.
RoundInv ==
    /\ session.presses <= MaxPresses
    /\ session.epoch <= 2 * session.presses + (IF session.closed THEN 1 ELSE 0)
    /\ session.held \/ round.pc # "none" =>
          session.epoch <= 2 * session.presses - 1 /\ ~session.closed
    /\ session.held => round.pc = "none"
    /\ session.st = "opening" => ~session.held /\ round.pc = "none"
    /\ round.pc # "none" => round.epoch = session.epoch /\ round.left >= 1
    /\ round.pc \in Speaking => round.speaker # 0 /\ session.active # 0
    /\ round.pc \notin Speaking => session.active = 0
    /\ round.pc \in Waiting => round.left = ReplyBudget
    /\ session.active <= session.turns

\* Nothing under way is of a later epoch or turn than the session's.
FrameInv ==
    /\ \A i \in DOMAIN outbound.urgent :
          /\ outbound.urgent[i].type = "stop" /\ outbound.urgent[i].epoch <= session.epoch
          /\ outbound.urgent[i].turn = 0
    /\ \A i \in DOMAIN outbound.reply :
          /\ outbound.reply[i].type \in {"start", "end"}
          /\ outbound.reply[i].turn \in 1..session.turns
    /\ \A m \in Members : \A i \in DOMAIN inbox[m] :
          /\ inbox[m][i].type = "stop" => inbox[m][i].epoch <= session.epoch
          /\ inbox[m][i].turn <= session.turns
    /\ \A r \in receipts :
          /\ r.kind = "stop" => r.epoch <= session.epoch
          /\ r.turn <= session.turns

\* The barrier: while a round runs, every member's stop of this epoch is being
\* waited for, confirmed, or known as a failure.
StopsNow(m) == stops[session.epoch][m]
BarrierInv ==
    /\ \A e \in 0..MaxEpoch, m \in Members : e > session.epoch => stops[e][m] = "none"
    /\ session.held \/ round.pc # "none" => \A m \in Members :
          /\ StopsNow(m) \in {"asked", "ok", "failed"}
          /\ StopsNow(m) = "failed" => m \in session.failures
    /\ round.pc \in Waiting => \A m \in Members :
          StopsNow(m) = "asked" => session.epoch \in round.waits
    /\ round.pc \in Deciding \union Speaking => \A m \in Members : StopsNow(m) = "ok"

\* Nothing plays at m and nothing on its way to m will start.
NoStart(q) == \A i \in DOMAIN q : q[i].type # "start"
Mute(m) == playing[m] = 0 /\ NoStart(inbox[m])

StopOk(m, e) == [kind |-> "stop", from |-> m, epoch |-> e, turn |-> 0, ok |-> TRUE]
ReplyOk(m, e, t) == [kind |-> "reply", from |-> m, epoch |-> e, turn |-> t, ok |-> TRUE]

\* m has confirmed the stop of this epoch.
Stopped(m) ==
    \/ StopsNow(m) = "ok"
    \/ StopsNow(m) = "asked" /\ StopOk(m, session.epoch) \in receipts

\* In front of the stop of this epoch there may be starts, behind it not.
StopsLast(q) == \A i, j \in DOMAIN q :
    i < j /\ q[i].type = "stop" /\ q[i].epoch = session.epoch => q[j].type # "start"

VoiceInv ==
    /\ \A m, n \in Members : Mute(m) \/ Mute(n) \/ m = n
    /\ session.active = 0 => \A m \in Members : Stopped(m) => Mute(m)
    /\ round.pc \in Speaking => \A m \in Members : m = round.speaker \/ Mute(m)
    /\ \A m \in Members : StopsNow(m) = "asked" => StopsLast(inbox[m])

\* A reply starts before it ends, on the one device it is for.
IsFrame(f, kind) == f.type = kind /\ f.turn = session.active
NotQueued(kind) == \A i \in DOMAIN outbound.reply : ~IsFrame(outbound.reply[i], kind)
ReplyInv ==
    round.pc \in Speaking =>
    /\ \A i \in DOMAIN outbound.reply :
          outbound.reply[i].turn = session.active => outbound.reply[i].to = round.speaker
    /\ \A i, j \in DOMAIN outbound.reply :
          i < j /\ IsFrame(outbound.reply[i], "end") => ~IsFrame(outbound.reply[j], "start")
    /\ \A i \in DOMAIN inbox[round.speaker] : IsFrame(inbox[round.speaker][i], "end") =>
          /\ NotQueued("start")
          /\ \A j \in DOMAIN inbox[round.speaker] :
                i < j => inbox[round.speaker][j].type # "start"
    /\ ReplyOk(round.speaker, round.epoch, session.active) \in receipts =>
          NotQueued("start") /\ Mute(round.speaker)

\* What devices reported as played was played, and the replies of the round
\* follow its request.
AfterRequest(h, i) ==
    \E j \in 1..(i - 1) :
       /\ h[j].by = 0 /\ h[j].epoch = h[i].epoch
       /\ \A k \in (j + 1)..i : h[k].by # 0
       /\ i - j <= ReplyBudget
HistoryGood(h, played) ==
    \A i \in DOMAIN h : h[i].by # 0 => h[i].turn \in played /\ AfterRequest(h, i)
\* The last request of h is of epoch e, with all replies but `left` since then.
InRound(h, e, left) ==
    \E j \in DOMAIN h :
       /\ h[j].by = 0 /\ h[j].epoch = e
       /\ \A k \in (j + 1)..Len(h) : h[k].by # 0
       /\ Len(h) - j = ReplyBudget - left
SaidInv ==
    /\ \A r \in receipts : r.kind = "reply" /\ r.ok => r.turn \in heard
    /\ HistoryGood(session.history, heard)
    /\ round.pc \in Deciding \union Speaking =>
          InRound(session.history, round.epoch, round.left)

GroupInv ==
    GroupTyped /\ RoundInv /\ FrameInv /\ BarrierInv /\ VoiceInv /\ ReplyInv /\ SaidInv
LEMMA FramesTyped ==
    \A q \in Seq(FrameType) : \A i \in DOMAIN q :
       /\ q[i].type \in {"stop", "start", "end"} /\ q[i].to \in Members
       /\ q[i].epoch \in Nat /\ q[i].turn \in Nat
<1>1. \A q \in Seq(FrameType) : \A i \in DOMAIN q : q[i] \in FrameType
  OBVIOUS
<1> QED BY <1>1 DEF FrameType

\* What the positions of a queue hold after a frame is appended, or taken.
LEMMA AppendedFrame ==
    ASSUME NEW q \in Seq(FrameType), NEW f \in FrameType
    PROVE  /\ Append(q, f) \in Seq(FrameType)
           /\ \A i \in DOMAIN Append(q, f) :
                 \/ i \in DOMAIN q /\ Append(q, f)[i] = q[i]
                 \/ /\ i = Len(q) + 1 /\ Append(q, f)[i] = f
                    /\ \A j \in DOMAIN q : j < i
OBVIOUS

LEMMA TakenFrame ==
    ASSUME NEW q \in Seq(FrameType), q # <<>>
    PROVE  /\ Tail(q) \in Seq(FrameType) /\ Head(q) = q[1] /\ 1 \in DOMAIN q
           /\ q[1] \in FrameType
           /\ \A i \in DOMAIN Tail(q) :
                 i + 1 \in DOMAIN q /\ Tail(q)[i] = q[i + 1] /\ 1 < i + 1 /\ i \in Nat
OBVIOUS

LEMMA StopFramesTyped ==
    ASSUME NEW e \in Nat
    PROVE  /\ StopFrames(e) \in Seq(FrameType)
           /\ \A i \in DOMAIN StopFrames(e) :
                 /\ StopFrames(e)[i].type = "stop" /\ StopFrames(e)[i].epoch = e
                 /\ StopFrames(e)[i].turn = 0
<1>1. StopFrames(e) \in [1..NumMembers -> FrameType]
  BY DEF StopFrames, Stop, FrameType, Members
<1>2. NumMembers \in Nat
  BY GroupBounds
<1>3. StopFrames(e) \in Seq(FrameType)
  BY <1>1, <1>2
<1> QED BY <1>3 DEF StopFrames, Stop, Members

LEMMA SessionStsAre ==
    /\ "waiting" \in SessionSts /\ "recording" \in SessionSts /\ "transcribing" \in SessionSts
    /\ "deciding" \in SessionSts /\ "responding" \in SessionSts /\ "failed" \in SessionSts
    /\ "closed" \in SessionSts
BY DEF SessionSts

LEMMA NoRoundTyped == NoRound \in RoundType /\ NoRound.pc = "none"
BY GroupBounds DEF NoRound, RoundType, RoundPcs

\* What DispatchStop(e) leaves, with the epoch in range.
LEMMA DispatchStep ==
    ASSUME GroupTyped, NEW e \in 0..MaxEpoch, DispatchStop(e)
    PROVE  /\ stops' \in [0..MaxEpoch -> [Members -> StopStates]]
           /\ \A f \in 0..MaxEpoch, m \in Members :
                 stops'[f][m] = IF f = e THEN "asked" ELSE stops[f][m]
           /\ outbound' \in [urgent : Seq(FrameType), reply : Seq(FrameType)]
           /\ outbound'.reply = outbound.reply
           /\ outbound'.urgent = outbound.urgent \o StopFrames(e)
<1>1. Asked \in [Members -> StopStates] /\ \A m \in Members : Asked[m] = "asked"
  BY DEF Asked, StopStates
<1>2. StopFrames(e) \in Seq(FrameType)
  BY StopFramesTyped
<1>3. outbound.urgent \o StopFrames(e) \in Seq(FrameType)
  BY <1>2 DEF GroupTyped
<1> QED BY <1>1, <1>3 DEF GroupTyped, DispatchStop

LEMMA GroupInitInv == GroupInit => GroupInv
<1> SUFFICES ASSUME GroupInit PROVE GroupInv
  OBVIOUS
<1>0. MaxEpoch \in Nat /\ ReplyBudget \in Nat /\ MaxPresses \in Nat /\ NumMembers \in Nat
  BY GroupBounds DEF MaxEpoch
<1>1. session \in GroupType
  BY DEF GroupInit, GroupType, SessionSts
<1>2. GroupTyped
  BY <1>1, NoRoundTyped DEF GroupInit, GroupTyped, StopStates
<1>3. RoundInv
  BY <1>0 DEF GroupInit, RoundInv, NoRound, Speaking, Waiting
<1>4. FrameInv
  BY DEF GroupInit, FrameInv
<1>5. BarrierInv
  BY <1>0 DEF GroupInit, BarrierInv, NoRound, Waiting, Deciding, Speaking
<1>6. VoiceInv
  BY <1>0 DEF GroupInit, VoiceInv, NoRound, Speaking, Mute, NoStart, Stopped, StopsNow, StopsLast
<1>7. ReplyInv /\ SaidInv
  BY DEF GroupInit, ReplyInv, SaidInv, NoRound, Speaking, Deciding, HistoryGood
<1> QED BY <1>2, <1>3, <1>4, <1>5, <1>6, <1>7 DEF GroupInv

(***************************************************************************)
(* A press, a failed round and a close all start a new epoch: what was     *)
(* under way becomes old at once.                                          *)
(***************************************************************************)
NewEpoch ==
    /\ session' \in GroupType /\ session'.epoch = session.epoch + 1
    /\ session'.active = 0 /\ session'.turns = session.turns
    /\ session'.history = session.history
    /\ round' = NoRound
    /\ stops' \in [0..MaxEpoch -> [Members -> StopStates]]
    /\ \A m \in Members :
          /\ stops'[session.epoch + 1][m] \in {"none", "asked", "failed"}
          /\ session'.held => stops'[session.epoch + 1][m] = "asked"
          /\ \A e \in 0..MaxEpoch : e > session.epoch + 1 => stops'[e][m] = "none"
    /\ outbound' \in [urgent : Seq(FrameType), reply : Seq(FrameType)]
    /\ outbound'.reply \in {outbound.reply, <<>>}
    /\ outbound'.urgent \in {outbound.urgent, <<>>,
                             outbound.urgent \o StopFrames(session.epoch + 1)}
    /\ receipts' \in SUBSET receipts
    /\ UNCHANGED <<inbox, playing, heard>>

LEMMA NewEpochStep ==
    ASSUME GroupInv, NewEpoch, RoundInv', session.epoch + 1 \in 0..MaxEpoch
    PROVE  GroupInv'
<1> DEFINE e == session.epoch + 1
<1>0. session.epoch \in Nat /\ session.turns \in Nat /\ e \in Nat
  BY DEF GroupInv, GroupTyped, GroupType
<1>1. GroupTyped'
  BY NoRoundTyped DEF GroupInv, GroupTyped, NewEpoch
<1>2. FrameInv'
  <2>1. \A i \in DOMAIN outbound'.urgent :
           /\ outbound'.urgent[i].type = "stop" /\ outbound'.urgent[i].epoch <= e
           /\ outbound'.urgent[i].turn = 0
    <3> DEFINE q == outbound.urgent
               s == StopFrames(e)
               IsStop(x) == x.type = "stop" /\ x.epoch <= e /\ x.turn = 0
    <3>1. q \in Seq(FrameType) /\ s \in Seq(FrameType)
      BY <1>0, StopFramesTyped DEF GroupInv, GroupTyped
    <3>2. \A i \in DOMAIN q : q[i].type = "stop" /\ q[i].epoch <= e /\ q[i].turn = 0
      BY <1>0, <3>1, FramesTyped DEF GroupInv, FrameInv
    <3>3. \A i \in DOMAIN s : s[i].type = "stop" /\ s[i].epoch = e /\ s[i].turn = 0
      BY <1>0, StopFramesTyped
    <3>4. outbound'.urgent \in {q, <<>>, q \o s}
      BY DEF NewEpoch
    <3> HIDE DEF q, s, e
    <3>5. \A i \in DOMAIN (q \o s) : IsStop((q \o s)[i])
      <4> SUFFICES ASSUME NEW i \in DOMAIN (q \o s)
                   PROVE  IsStop((q \o s)[i])
        OBVIOUS
      <4>1. (q \o s)[i] = IF i <= Len(q) THEN q[i] ELSE s[i - Len(q)]
        BY <3>1
      <4>2. IF i <= Len(q) THEN i \in DOMAIN q ELSE i - Len(q) \in DOMAIN s
        BY <3>1
      <4>3. CASE i <= Len(q)
        BY <3>2, <4>1, <4>2, <4>3
      <4>4. CASE ~(i <= Len(q))
        <5>1. (q \o s)[i].type = "stop" /\ (q \o s)[i].epoch = e /\ (q \o s)[i].turn = 0
          BY <3>3, <4>1, <4>2, <4>4
        <5> QED BY <1>0, <5>1
      <4> QED BY <4>3, <4>4
    <3>6. CASE outbound'.urgent = <<>>
      BY <3>6
    <3>7. CASE outbound'.urgent = q
      BY <3>2, <3>7
    <3>8. CASE outbound'.urgent = q \o s
      BY <3>5, <3>8
    <3> QED BY <3>4, <3>6, <3>7, <3>8
  <2>2. \A i \in DOMAIN outbound'.reply :
          /\ outbound'.reply[i].type \in {"start", "end"}
          /\ outbound'.reply[i].turn \in 1..session.turns
    BY DEF NewEpoch, GroupInv, FrameInv
  <2>3. \A m \in Members : \A i \in DOMAIN inbox[m] :
          /\ inbox[m][i].type = "stop" => inbox[m][i].epoch <= e
          /\ inbox[m][i].turn <= session.turns
    BY <1>0, FramesTyped DEF GroupInv, GroupTyped, FrameInv
  <2>4. \A r \in receipts : (r.kind = "stop" => r.epoch <= e) /\ r.turn <= session.turns
    BY <1>0 DEF GroupInv, GroupTyped, FrameInv, ReceiptType
  <2> QED BY <2>1, <2>2, <2>3, <2>4 DEF NewEpoch, FrameInv
<1>3. BarrierInv'
  BY <1>0, NoRoundTyped DEF NewEpoch, BarrierInv, StopsNow, Waiting, Deciding, Speaking
<1>4. VoiceInv'
  <2>1. \A m \in Members : Mute(m)' = Mute(m)
    BY DEF NewEpoch, Mute
  <2>2. \A m \in Members : ~Stopped(m)'
    <3>1. \A m \in Members : StopOk(m, e) \notin receipts
      BY <1>0 DEF GroupInv, FrameInv, StopOk
    <3> QED BY <3>1 DEF NewEpoch, Stopped, StopsNow
  <2>3. \A m \in Members : StopsLast(inbox[m])'
    BY <1>0, FramesTyped DEF NewEpoch, StopsLast, GroupInv, GroupTyped, FrameInv
  <2> QED BY <2>1, <2>2, <2>3, NoRoundTyped DEF NewEpoch, VoiceInv, GroupInv, Speaking
<1>5. ReplyInv'
  BY NoRoundTyped DEF NewEpoch, ReplyInv, Speaking
<1>6. SaidInv'
  <2>1. HistoryGood(session.history, heard)'
    BY DEF NewEpoch, GroupInv, SaidInv
  <2> QED BY <2>1, NoRoundTyped DEF NewEpoch, SaidInv, GroupInv, Deciding, Speaking
<1> QED BY <1>1, <1>2, <1>3, <1>4, <1>5, <1>6 DEF GroupInv

LEMMA PressStep == ASSUME GroupInv, Press PROVE GroupInv'
<1>1. session.epoch + 1 \in 0..MaxEpoch
  BY GroupBounds DEF Press, GroupInv, GroupTyped, GroupType, RoundInv, MaxEpoch
<1>2. /\ session' \in GroupType /\ session'.epoch = session.epoch + 1 /\ session'.active = 0
      /\ session'.turns = session.turns /\ session'.history = session.history
      /\ session'.presses = session.presses + 1 /\ session'.closed = session.closed
      /\ session'.held /\ session'.st = "recording"
  <2>1. session \in GroupType /\ session' = Pressed(session)
    BY DEF Press, GroupInv, GroupTyped
  <2> DEFINE e == session.epoch + 1
             p == session.presses + 1
  <2>2. e \in Nat /\ p \in Nat
    BY <2>1 DEF GroupType
  <2>3. session' = [session EXCEPT !.epoch = e, !.held = TRUE, !.active = 0, !.presses = p,
                                   !.st = "recording"]
    BY <2>1 DEF Pressed, GroupType
  <2> HIDE DEF e, p
  <2>5. session \in GroupType
    BY <2>1
  <2>4. /\ session' \in GroupType /\ session'.epoch = e /\ session'.active = 0
        /\ session'.turns = session.turns /\ session'.history = session.history
        /\ session'.presses = p /\ session'.closed = session.closed /\ session'.held
        /\ session'.st = "recording"
    BY <2>2, <2>3, <2>5, SessionStsAre DEF GroupType
  <2> QED BY <2>4 DEF e, p
<1>3. NewEpoch
  <2>1. DispatchStop(session.epoch + 1) /\ GroupTyped
    BY DEF Press, GroupInv
  <2>2. /\ stops' \in [0..MaxEpoch -> [Members -> StopStates]]
        /\ \A f \in 0..MaxEpoch, m \in Members :
              stops'[f][m] = IF f = session.epoch + 1 THEN "asked" ELSE stops[f][m]
        /\ outbound' \in [urgent : Seq(FrameType), reply : Seq(FrameType)]
        /\ outbound'.reply = outbound.reply
        /\ outbound'.urgent = outbound.urgent \o StopFrames(session.epoch + 1)
    BY <1>1, <2>1, DispatchStep
  <2>3. \A e \in 0..MaxEpoch, m \in Members : e > session.epoch + 1 => stops[e][m] = "none"
    BY DEF GroupInv, BarrierInv, GroupTyped, GroupType
  <2>4. \A m \in Members :
          /\ stops'[session.epoch + 1][m] = "asked"
          /\ \A e \in 0..MaxEpoch : e > session.epoch + 1 => stops'[e][m] = "none"
    BY <1>1, <2>2, <2>3, SMTT(30)
  <2> QED BY <1>2, <2>2, <2>4 DEF NewEpoch, Press
<1>4. RoundInv'
  <2>1. ~session.closed /\ session.presses < MaxPresses /\ round' = NoRound
    BY DEF Press
  <2>2. /\ session.presses \in Nat /\ session.epoch \in Nat /\ session.turns \in Nat
        /\ MaxPresses \in Nat
    BY GroupBounds DEF GroupInv, GroupTyped, GroupType
  <2>3. session.epoch <= 2 * session.presses
    <3>1. session.epoch <= 2 * session.presses + (IF session.closed THEN 1 ELSE 0)
      BY DEF GroupInv, RoundInv
    <3> QED BY <2>1, <2>2, <3>1
  <2>4. /\ session'.presses <= MaxPresses /\ session'.epoch <= 2 * session'.presses - 1
        /\ ~session'.closed /\ session'.active <= session'.turns
    BY <1>2, <2>1, <2>2, <2>3
  <2>5. round'.pc = "none" /\ round'.pc \notin Speaking /\ round'.pc \notin Waiting
    BY <2>1, NoRoundTyped DEF Speaking, Waiting
  <2> QED BY <1>2, <2>2, <2>4, <2>5 DEF RoundInv
<1> QED BY <1>1, <1>3, <1>4, NewEpochStep

LEMMA FailStep ==
    ASSUME GroupInv, NEW andStop \in BOOLEAN, NEW mishaps \in Nat, round.pc # "none",
           FailRound(andStop, mishaps), receipts' \in SUBSET receipts,
           UNCHANGED <<inbox, playing, heard>>
    PROVE  GroupInv'
<1>1. session.epoch + 1 \in 0..MaxEpoch
  BY GroupBounds, SMTT(30) DEF GroupInv, GroupTyped, GroupType, RoundInv, MaxEpoch
<1>2. /\ session' \in GroupType /\ session'.epoch = session.epoch + 1 /\ session'.active = 0
      /\ session'.turns = session.turns /\ session'.history = session.history
      /\ session'.presses = session.presses /\ session'.closed = session.closed
      /\ session'.held = session.held /\ ~session.held /\ session'.st = "failed"
  <2>1. /\ session \in GroupType /\ ~session.held
        /\ session' = [session EXCEPT !.st = "failed", !.epoch = @ + 1, !.active = 0,
                                      !.mishaps = mishaps]
    BY DEF FailRound, GroupInv, GroupTyped, RoundInv
  <2> DEFINE e == session.epoch + 1
  <2>2. e \in Nat /\ session' = [session EXCEPT !.st = "failed", !.epoch = e, !.active = 0,
                                               !.mishaps = mishaps]
    BY <2>1 DEF GroupType
  <2> HIDE DEF e
  <2>3. /\ session' \in GroupType /\ session'.epoch = e /\ session'.active = 0
        /\ session'.turns = session.turns /\ session'.history = session.history
        /\ session'.presses = session.presses /\ session'.closed = session.closed
        /\ session'.held = session.held /\ session'.st = "failed"
    <3>1. session \in GroupType
      BY <2>1
    <3> QED BY <2>2, <3>1, SessionStsAre DEF GroupType
  <2> QED BY <2>1, <2>3 DEF e
<1>3. NewEpoch
  <2>3. \A e \in 0..MaxEpoch, m \in Members : e > session.epoch => stops[e][m] = "none"
    BY DEF GroupInv, BarrierInv
  <2>1. CASE andStop
    <3>1. DispatchStop(session.epoch + 1) /\ GroupTyped
      BY <2>1 DEF FailRound, GroupInv
    <3>2. /\ stops' \in [0..MaxEpoch -> [Members -> StopStates]]
          /\ \A f \in 0..MaxEpoch, m \in Members :
                stops'[f][m] = IF f = session.epoch + 1 THEN "asked" ELSE stops[f][m]
          /\ outbound' \in [urgent : Seq(FrameType), reply : Seq(FrameType)]
          /\ outbound'.reply = outbound.reply
          /\ outbound'.urgent = outbound.urgent \o StopFrames(session.epoch + 1)
      BY <1>1, <3>1, DispatchStep
    <3>3. \A m \in Members :
            /\ stops'[session.epoch + 1][m] = "asked"
            /\ \A e \in 0..MaxEpoch : e > session.epoch + 1 => stops'[e][m] = "none"
      <4>1. session.epoch \in Nat /\ session.epoch + 1 > session.epoch
        BY DEF GroupInv, GroupTyped, GroupType
      <4>2. \A e \in 0..MaxEpoch :
              e > session.epoch + 1 => e > session.epoch /\ e # session.epoch + 1
        BY <4>1
      <4> HIDE DEF MaxEpoch
      <4> QED BY <1>1, <2>3, <3>2, <4>2
    <3> QED BY <1>2, <3>2, <3>3 DEF NewEpoch, FailRound
  <2>2. CASE ~andStop
    <3>1. \A m \in Members :
            /\ stops[session.epoch + 1][m] = "none"
            /\ \A e \in 0..MaxEpoch : e > session.epoch + 1 => stops[e][m] = "none"
      BY <1>1, <2>3 DEF GroupInv, GroupTyped, GroupType
    <3> QED BY <1>2, <2>2, <3>1 DEF NewEpoch, FailRound, GroupInv, GroupTyped
  <2> QED BY <2>1, <2>2
<1>4. RoundInv'
  <2>1. round' = NoRound
    BY DEF FailRound
  <2> QED BY <1>2, <2>1, NoRoundTyped, GroupBounds, SMTT(60)
          DEF GroupInv, GroupTyped, GroupType, RoundInv, Speaking, Waiting
<1> QED BY <1>1, <1>3, <1>4, NewEpochStep

LEMMA CloseStep ==
    ASSUME GroupInv, NEW disconnected \in BOOLEAN, CloseGroup(disconnected) PROVE GroupInv'
<1> DEFINE e == session.epoch + 1
           failures == IF disconnected THEN Members ELSE session.failures
<1>1. e \in 0..MaxEpoch
  BY GroupBounds, SMTT(30) DEF CloseGroup, GroupInv, GroupTyped, GroupType, RoundInv, MaxEpoch
<1>2. /\ session' \in GroupType /\ session'.epoch = e /\ session'.active = 0
      /\ session'.turns = session.turns /\ session'.history = session.history
      /\ session'.presses = session.presses /\ session'.closed /\ ~session'.held
      /\ session'.st = "closed"
  <2>1. failures \in SUBSET Members
    BY DEF GroupInv, GroupTyped, GroupType
  <2>2. session' = [session EXCEPT !.closed = TRUE, !.held = FALSE, !.epoch = e,
                       !.st = "closed", !.active = 0, !.connected = ~disconnected,
                       !.failures = failures]
    BY DEF CloseGroup, ClosedSession, GroupInv, GroupTyped, GroupType
  <2>4. e \in Nat
    BY <1>1
  <2> HIDE DEF failures, e
  <2>3. session \in GroupType
    BY DEF GroupInv, GroupTyped
  <2> QED BY <2>1, <2>2, <2>3, <2>4, SessionStsAre DEF GroupType
<1>3. NewEpoch
  <2>1. \A f \in 0..MaxEpoch, m \in Members : f > session.epoch => stops[f][m] = "none"
    BY DEF GroupInv, BarrierInv
  <2>2. stops' = [f \in 0..MaxEpoch |->
           IF f = e THEN [m \in Members |-> IF disconnected THEN "failed" ELSE "asked"]
           ELSE [m \in Members |-> IF stops[f][m] = "asked" THEN "cancelled" ELSE stops[f][m]]]
    BY DEF CloseGroup, GroupInv, GroupTyped
  <2>3. stops' \in [0..MaxEpoch -> [Members -> StopStates]]
    BY <2>2 DEF GroupInv, GroupTyped, StopStates
  <2>4. \A m \in Members :
          /\ stops'[e][m] \in {"none", "asked", "failed"}
          /\ \A f \in 0..MaxEpoch : f > e => stops'[f][m] = "none"
    BY <1>1, <2>1, <2>2 DEF GroupInv, GroupTyped, GroupType
  <2>5. /\ outbound' \in [urgent : Seq(FrameType), reply : Seq(FrameType)]
        /\ outbound'.reply \in {outbound.reply, <<>>}
        /\ outbound'.urgent \in {outbound.urgent, <<>>, outbound.urgent \o StopFrames(e)}
    <3>1. StopFrames(e) \in Seq(FrameType)
      BY <1>1, StopFramesTyped
    <3>2. outbound.urgent \o StopFrames(e) \in Seq(FrameType)
      BY <3>1 DEF GroupInv, GroupTyped
    <3>3. CASE disconnected
      BY <3>3 DEF CloseGroup
    <3>4. CASE ~disconnected
      <4>1. outbound' = [outbound EXCEPT !.urgent = @ \o StopFrames(e)]
        BY <3>4 DEF CloseGroup
      <4> QED BY <3>2, <4>1 DEF GroupInv, GroupTyped
    <3> QED BY <3>3, <3>4
  <2>6. round' = NoRound /\ receipts' \in SUBSET receipts /\ UNCHANGED <<inbox, playing, heard>>
    BY DEF CloseGroup
  <2> QED BY <1>2, <2>3, <2>4, <2>5, <2>6 DEF NewEpoch
<1>4. RoundInv'
  <2>1. round' = NoRound /\ ~session.closed
    BY DEF CloseGroup
  <2> QED BY <1>2, <2>1, NoRoundTyped, GroupBounds
          DEF GroupInv, GroupTyped, GroupType, RoundInv, Speaking, Waiting
<1> QED BY <1>1, <1>3, <1>4, NewEpochStep

(***************************************************************************)
(* Steps within an epoch that the devices do not see yet.                  *)
(***************************************************************************)
Calm ==
    /\ session'.epoch = session.epoch
    /\ outbound'.urgent = outbound.urgent
    /\ receipts' \in SUBSET receipts
    /\ UNCHANGED <<inbox, playing, heard>>
    /\ \A e \in 0..MaxEpoch, m \in Members :
          stops'[e][m] \in {"asked", "none"} => stops'[e][m] = stops[e][m]
    /\ \A e \in 0..MaxEpoch, m \in Members : stops[e][m] = "none" => stops'[e][m] = "none"

\* The turns of the queue and its receipts stay known.
LEMMA CalmFrames ==
    ASSUME GroupInv, Calm, session'.turns \in Nat, session'.turns >= session.turns,
           outbound'.reply = outbound.reply
             \/ \E f \in FrameType :
                   /\ outbound'.reply = Append(outbound.reply, f)
                   /\ f.type \in {"start", "end"} /\ f.turn \in 1..session'.turns
    PROVE  FrameInv'
<1>0. session.turns \in Nat /\ outbound.reply \in Seq(FrameType)
  BY DEF GroupInv, GroupTyped, GroupType
<1>1. \A i \in DOMAIN outbound.reply :
         /\ outbound.reply[i].type \in {"start", "end"}
         /\ outbound.reply[i].turn \in 1..session'.turns
  BY <1>0 DEF GroupInv, FrameInv
<1>2. \A i \in DOMAIN outbound'.reply :
         /\ outbound'.reply[i].type \in {"start", "end"}
         /\ outbound'.reply[i].turn \in 1..session'.turns
  <2>1. CASE outbound'.reply = outbound.reply
    BY <1>1, <2>1
  <2>2. ASSUME NEW f \in FrameType, outbound'.reply = Append(outbound.reply, f),
               f.type \in {"start", "end"}, f.turn \in 1..session'.turns
        PROVE  \A i \in DOMAIN outbound'.reply :
                 /\ outbound'.reply[i].type \in {"start", "end"}
                 /\ outbound'.reply[i].turn \in 1..session'.turns
    BY <1>0, <1>1, <2>2, AppendedFrame
  <2> QED BY <2>1, <2>2
<1>3. \A m \in Members : \A i \in DOMAIN inbox[m] : inbox[m][i].turn <= session'.turns
  <2>1. \A m \in Members : inbox[m] \in Seq(FrameType)
    BY DEF GroupInv, GroupTyped
  <2>2. \A m \in Members : \A i \in DOMAIN inbox[m] :
           inbox[m][i].turn \in Nat /\ inbox[m][i].turn <= session.turns
    BY <2>1, FramesTyped DEF GroupInv, FrameInv
  <2> QED BY <1>0, <2>2
<1>4. \A r \in receipts : r.turn <= session'.turns
  <2>1. \A r \in receipts : r.turn \in Nat /\ r.turn <= session.turns
    BY DEF GroupInv, GroupTyped, ReceiptType, FrameInv
  <2> QED BY <1>0, <2>1
<1> QED BY <1>2, <1>3, <1>4 DEF Calm, GroupInv, FrameInv

\* Silence is kept: nothing has reached a device.
LEMMA CalmVoice ==
    ASSUME GroupInv, Calm,
           session'.active = 0 => \A m \in Members : Stopped(m)' => Mute(m),
           round'.pc \in Speaking => \A m \in Members : m = round'.speaker \/ Mute(m)
    PROVE  VoiceInv'
<1>1. \A m \in Members : Mute(m)' = Mute(m)
  BY DEF Calm, Mute
<1>2. session.epoch \in 0..MaxEpoch
  BY GroupBounds DEF GroupInv, GroupTyped, RoundInv, GroupType, MaxEpoch
<1>3. \A m \in Members : StopsNow(m)' = "asked" => StopsNow(m) = "asked"
  BY <1>2 DEF Calm, StopsNow
<1>4. \A m \in Members : StopsLast(inbox[m])' = StopsLast(inbox[m])
  BY DEF Calm, StopsLast
<1>5. /\ \A m, n \in Members : Mute(m) \/ Mute(n) \/ m = n
      /\ \A m \in Members : StopsNow(m) = "asked" => StopsLast(inbox[m])
  BY DEF GroupInv, VoiceInv
<1> QED BY <1>1, <1>3, <1>4, <1>5 DEF VoiceInv

\* The history and the round's place in it are as before.
LEMMA CalmSaid ==
    ASSUME GroupInv, Calm, session'.history = session.history,
           round'.pc \in Deciding \union Speaking =>
             /\ round.pc \in Deciding \union Speaking
             /\ round'.epoch = round.epoch /\ round'.left = round.left
    PROVE  SaidInv'
<1>1. HistoryGood(session.history, heard)'
  BY DEF Calm, GroupInv, SaidInv
<1>2. \A r \in receipts' : r.kind = "reply" /\ r.ok => r.turn \in heard'
  BY DEF Calm, GroupInv, SaidInv
<1> QED BY <1>1, <1>2 DEF SaidInv, GroupInv

LEMMA EpochInRange == ASSUME GroupInv PROVE session.epoch \in 0..MaxEpoch
BY GroupBounds DEF GroupInv, GroupTyped, RoundInv, GroupType, MaxEpoch

\* Transcribed and PrimaryGivesWay: the round moves on, nothing else.
LEMMA RoundMovesStep ==
    ASSUME GroupInv, (\E text \in BOOLEAN : Transcribed(text)) \/ PrimaryGivesWay
    PROVE  GroupInv'
<1>1. /\ UNCHANGED <<session, stops, outbound, inbox, playing, receipts, heard>>
      /\ round' \in RoundType
      /\ round'.epoch = round.epoch /\ round'.waits = round.waits
      /\ round'.left = round.left /\ round'.speaker = round.speaker
      /\ \/ round.pc = "transcribe" /\ round'.pc = "stops"
         \/ round.pc = "primary" /\ round'.pc = "fallback"
  BY DEF Transcribed, PrimaryGivesWay, GroupInv, GroupTyped, RoundType, RoundPcs
<1>2. Calm
  BY <1>1 DEF Calm, GroupInv, GroupTyped
<1>3. GroupTyped'
  BY <1>1 DEF GroupInv, GroupTyped
<1>4. RoundInv'
  BY <1>1 DEF GroupInv, RoundInv, Speaking, Waiting
<1>5. FrameInv'
  BY <1>1 DEF GroupInv, FrameInv
<1>6. BarrierInv'
  BY <1>1 DEF GroupInv, BarrierInv, StopsNow, Waiting, Deciding, Speaking
<1>7. VoiceInv'
  <2>1. \A m \in Members : Stopped(m)' = Stopped(m)
    BY <1>1 DEF Stopped, StopsNow
  <2> QED BY <1>1, <1>2, <2>1, CalmVoice DEF GroupInv, VoiceInv, Speaking
<1>8. ReplyInv'
  BY <1>1 DEF ReplyInv, Speaking
<1>9. SaidInv'
  BY <1>1, <1>2, CalmSaid DEF Deciding, Speaking
<1> QED BY <1>3, <1>4, <1>5, <1>6, <1>7, <1>8, <1>9 DEF GroupInv

\* A round that ends in silence, and the answer to prepare().
LEMMA IdleStep ==
    ASSUME GroupInv, round' \in RoundType, round'.pc = "none", round.pc \notin Speaking,
           session' \in GroupType, session'.st # "opening",
           session'.epoch = session.epoch, session'.active = session.active,
           session'.turns = session.turns, session'.presses = session.presses,
           session'.history = session.history, session'.failures = session.failures,
           session'.held = session.held,
           \/ session'.closed = session.closed
           \/ session'.closed /\ ~session.held,
           UNCHANGED <<stops, outbound, inbox, playing, receipts, heard>>
    PROVE  GroupInv'
<1>1. Calm
  BY DEF Calm, GroupInv, GroupTyped
<1>2. GroupTyped'
  BY DEF GroupInv, GroupTyped
<1>3. RoundInv'
  <2>1. session.epoch \in Nat /\ session.presses \in Nat
    BY DEF GroupInv, GroupTyped, GroupType
  <2> QED BY <2>1 DEF GroupInv, RoundInv, Speaking, Waiting
<1>4. FrameInv'
  BY DEF GroupInv, FrameInv
<1>5. BarrierInv'
  BY DEF GroupInv, BarrierInv, StopsNow, Waiting, Deciding, Speaking
<1>6. VoiceInv'
  <2>1. \A m \in Members : Stopped(m)' = Stopped(m)
    BY DEF Stopped, StopsNow
  <2> QED BY <1>1, <2>1, CalmVoice DEF GroupInv, VoiceInv, Speaking
<1>7. ReplyInv'
  BY DEF ReplyInv, Speaking
<1>8. SaidInv'
  BY <1>1, CalmSaid DEF Deciding, Speaking
<1> QED BY <1>2, <1>3, <1>4, <1>5, <1>6, <1>7, <1>8 DEF GroupInv

LEMMA FinishStep ==
    ASSUME GroupInv, Finish, round.pc \in {"stops"} \union Deciding,
           UNCHANGED <<stops, outbound, inbox, playing, receipts, heard>>
    PROVE  GroupInv'
<1>1. session \in GroupType /\ session' = [session EXCEPT !.st = "waiting"]
  BY DEF GroupInv, GroupTyped, Finish
<1>2. /\ session' \in GroupType /\ session'.st # "opening"
      /\ session'.epoch = session.epoch /\ session'.active = session.active
      /\ session'.turns = session.turns /\ session'.presses = session.presses
      /\ session'.history = session.history /\ session'.failures = session.failures
      /\ session'.held = session.held /\ session'.closed = session.closed
  BY <1>1, SessionStsAre DEF GroupType
<1>3. round' \in RoundType /\ round'.pc = "none" /\ round.pc \notin Speaking
  BY NoRoundTyped DEF Finish, Deciding, Speaking
<1> QED BY <1>2, <1>3, IdleStep

LEMMA PrepareStep ==
    ASSUME GroupInv, NEW authorized \in SUBSET Members, Prepare(authorized) PROVE GroupInv'
<1>0. /\ session \in GroupType /\ ~session.held
      /\ round' \in RoundType /\ round'.pc = "none" /\ round.pc \notin Speaking
  BY DEF GroupInv, GroupTyped, RoundInv, Prepare, Speaking
<1>1. CASE authorized = Members
  <2>1. session' = [session EXCEPT !.st = "waiting"]
    BY <1>1 DEF Prepare
  <2>2. /\ session' \in GroupType /\ session'.st # "opening"
        /\ session'.epoch = session.epoch /\ session'.active = session.active
        /\ session'.turns = session.turns /\ session'.presses = session.presses
        /\ session'.history = session.history /\ session'.failures = session.failures
        /\ session'.held = session.held /\ session'.closed = session.closed
    BY <1>0, <2>1, SessionStsAre DEF GroupType
  <2> QED BY <1>0, <2>2, IdleStep DEF Prepare
<1>2. CASE authorized # Members
  <2>1. session' = [session EXCEPT !.st = "closed", !.closed = TRUE, !.connected = FALSE]
    BY <1>2 DEF Prepare
  <2>2. /\ session' \in GroupType /\ session'.st # "opening"
        /\ session'.epoch = session.epoch /\ session'.active = session.active
        /\ session'.turns = session.turns /\ session'.presses = session.presses
        /\ session'.history = session.history /\ session'.failures = session.failures
        /\ session'.held = session.held /\ session'.closed
    BY <1>0, <2>1, SessionStsAre DEF GroupType
  <2> QED BY <1>0, <2>2, IdleStep DEF Prepare
<1> QED BY <1>1, <1>2

LEMMA ReleaseStep == ASSUME GroupInv, Release PROVE GroupInv'
<1>0. /\ session \in GroupType /\ session.held /\ ~session.closed /\ round.pc = "none"
      /\ session' = [session EXCEPT !.held = FALSE, !.st = "transcribing"]
      /\ UNCHANGED <<stops, outbound, inbox, playing, receipts, heard>>
  BY DEF Release, GroupInv, GroupTyped, RoundInv
<1>1. /\ session' \in GroupType /\ ~session'.held /\ session'.st = "transcribing"
      /\ session'.epoch = session.epoch /\ session'.active = session.active
      /\ session'.turns = session.turns /\ session'.presses = session.presses
      /\ session'.history = session.history /\ session'.failures = session.failures
      /\ session'.closed = session.closed
  BY <1>0, SessionStsAre DEF GroupType
<1> DEFINE waits == {e \in DOMAIN stops : \E m \in Members : stops[e][m] = "asked"}
<1>2. waits \in SUBSET (0..MaxEpoch)
  BY DEF GroupInv, GroupTyped
<1>3. round' = [NoRound EXCEPT !.pc = "transcribe", !.epoch = session.epoch,
                               !.left = ReplyBudget, !.waits = waits]
  BY DEF Release, Released
<1>4. \A m \in Members : StopsNow(m) = "asked" => session.epoch \in waits
  BY EpochInRange DEF StopsNow, GroupInv, GroupTyped
<1> HIDE DEF waits
<1>5. /\ round' \in RoundType /\ round'.pc = "transcribe" /\ round'.epoch = session.epoch
      /\ round'.left = ReplyBudget /\ round'.waits = waits
  <2>1. session.epoch \in Nat /\ ReplyBudget \in Nat /\ "transcribe" \in RoundPcs
    BY <1>0, GroupBounds DEF GroupType, RoundPcs
  <2> QED BY <1>2, <1>3, <2>1, NoRoundTyped DEF RoundType
<1>6. GroupTyped'
  BY <1>0, <1>1, <1>5 DEF GroupInv, GroupTyped
<1>7. RoundInv'
  BY <1>0, <1>1, <1>5, GroupBounds DEF GroupInv, RoundInv, Speaking, Waiting
<1>8. FrameInv'
  BY <1>0, <1>1 DEF GroupInv, FrameInv
<1>9. BarrierInv'
  BY <1>0, <1>1, <1>4, <1>5 DEF GroupInv, BarrierInv, StopsNow, Waiting, Deciding, Speaking
<1>10. Calm
  BY <1>0, <1>1 DEF Calm, GroupInv, GroupTyped
<1>11. VoiceInv'
  <2>1. \A m \in Members : Stopped(m)' = Stopped(m)
    BY <1>0, <1>1 DEF Stopped, StopsNow
  <2> QED BY <1>1, <1>5, <1>10, <2>1, CalmVoice DEF GroupInv, VoiceInv, Speaking
<1>12. ReplyInv' /\ SaidInv'
  BY <1>1, <1>5, <1>10, CalmSaid DEF ReplyInv, Speaking, Deciding
<1> QED BY <1>6, <1>7, <1>8, <1>9, <1>11, <1>12 DEF GroupInv

\* Past the barrier: every member has confirmed silence, so all are silent.
LEMMA BarrierHolds ==
    ASSUME GroupInv, round.pc = "stops", session.failures = {},
           \A e \in round.waits : \A m \in Members : stops[e][m] # "asked"
    PROVE  \A m \in Members : StopsNow(m) = "ok" /\ Mute(m)
<1>1. \A m \in Members : StopsNow(m) \in {"asked", "ok", "failed"} /\ StopsNow(m) # "failed"
  BY DEF GroupInv, BarrierInv
<1>2. \A m \in Members : StopsNow(m) # "asked"
  BY DEF GroupInv, BarrierInv, Waiting, StopsNow
<1>3. session.active = 0
  BY DEF GroupInv, RoundInv, Speaking, Waiting
<1> QED BY <1>1, <1>2, <1>3 DEF GroupInv, VoiceInv, Stopped

(***************************************************************************)
(* The history: a request begins a round, a reply continues it.            *)
(***************************************************************************)
LEMMA AppendedSaid ==
    ASSUME NEW h \in Seq(SaidType), NEW said \in SaidType
    PROVE  /\ Append(h, said) \in Seq(SaidType) /\ Len(h) \in Nat
           /\ Len(Append(h, said)) = Len(h) + 1
           /\ Append(h, said)[Len(h) + 1] = said
           /\ \A i \in DOMAIN h : i \in 1..Len(h) /\ Append(h, said)[i] = h[i]
           /\ \A i \in 1..Len(h) : i \in DOMAIN h
           /\ \A i \in DOMAIN Append(h, said) : i \in DOMAIN h \/ i = Len(h) + 1
           /\ Len(h) + 1 \in DOMAIN Append(h, said)
           /\ \A i \in DOMAIN h : i \in DOMAIN Append(h, said)
OBVIOUS

LEMMA HistoryGrows ==
    ASSUME NEW h \in Seq(SaidType), NEW said \in SaidType, NEW played,
           HistoryGood(h, played),
           said.by = 0 \/ (said.turn \in played /\ AfterRequest(Append(h, said), Len(h) + 1))
    PROVE  HistoryGood(Append(h, said), played)
<1> DEFINE new == Append(h, said)
<1>0. /\ new[Len(h) + 1] = said /\ Len(h) \in Nat
      /\ \A i \in DOMAIN h : i \in 1..Len(h) /\ new[i] = h[i]
      /\ \A i \in 1..Len(h) : i \in DOMAIN h
      /\ \A i \in DOMAIN new : i \in DOMAIN h \/ i = Len(h) + 1
  BY AppendedSaid
<1> HIDE DEF new
<1> SUFFICES ASSUME NEW i \in DOMAIN new, new[i].by # 0
             PROVE  new[i].turn \in played /\ AfterRequest(new, i)
  BY DEF HistoryGood, new
<1>1. CASE i = Len(h) + 1
  BY <1>0, <1>1 DEF new
<1>2. CASE i \in DOMAIN h
  <2>1. i \in 1..Len(h) /\ new[i] = h[i] /\ h[i].turn \in played /\ AfterRequest(h, i)
    BY <1>0, <1>2 DEF HistoryGood
  <2>2. PICK j \in 1..(i - 1) :
           /\ h[j].by = 0 /\ h[j].epoch = h[i].epoch
           /\ \A k \in (j + 1)..i : h[k].by # 0
           /\ i - j <= ReplyBudget
    BY <2>1 DEF AfterRequest
  <2>3. \A k \in 1..i : k \in 1..Len(h)
    BY <1>0, <2>1
  <2>4. \A k \in 1..i : new[k] = h[k]
    BY <1>0, <2>3
  <2>5. j \in 1..i /\ \A k \in (j + 1)..i : k \in 1..i
    BY <1>0, <2>1
  <2>6. new[j].by = 0 /\ new[j].epoch = new[i].epoch /\ \A k \in (j + 1)..i : new[k].by # 0
    BY <2>1, <2>2, <2>4, <2>5
  <2>7. AfterRequest(new, i)
    BY <2>2, <2>6 DEF AfterRequest
  <2> QED BY <2>1, <2>7
<1> QED BY <1>0, <1>1, <1>2

LEMMA RoundBegins ==
    ASSUME NEW h \in Seq(SaidType), NEW said \in SaidType, said.by = 0
    PROVE  InRound(Append(h, said), said.epoch, ReplyBudget)
<1> DEFINE new == Append(h, said)
<1>0. /\ new[Len(h) + 1] = said /\ Len(h) \in Nat /\ Len(new) = Len(h) + 1
      /\ Len(h) + 1 \in DOMAIN new
  BY AppendedSaid
<1> HIDE DEF new
<1>1. /\ \A k \in (Len(h) + 1 + 1)..Len(new) : new[k].by # 0
      /\ Len(new) - (Len(h) + 1) = ReplyBudget - ReplyBudget
  BY <1>0, GroupBounds
<1>2. InRound(new, said.epoch, ReplyBudget)
  BY <1>0, <1>1 DEF InRound
<1> QED BY <1>2 DEF new

LEMMA RoundGoesOn ==
    ASSUME NEW h \in Seq(SaidType), NEW said \in SaidType, said.by # 0,
           NEW left \in Nat, left >= 1, InRound(h, said.epoch, left)
    PROVE  /\ AfterRequest(Append(h, said), Len(h) + 1)
           /\ InRound(Append(h, said), said.epoch, left - 1)
<1> DEFINE new == Append(h, said)
           n == Len(h) + 1
<1>0. /\ new[n] = said /\ Len(h) \in Nat /\ Len(new) = n
      /\ \A i \in DOMAIN h : i \in 1..Len(h) /\ new[i] = h[i]
      /\ \A i \in 1..Len(h) : i \in DOMAIN h
      /\ \A i \in DOMAIN h : i \in DOMAIN new
  BY AppendedSaid
<1>1. PICK j \in DOMAIN h :
         /\ h[j].by = 0 /\ h[j].epoch = said.epoch
         /\ \A k \in (j + 1)..Len(h) : h[k].by # 0
         /\ Len(h) - j = ReplyBudget - left
  BY DEF InRound
<1>2. j \in 1..Len(h) /\ new[j] = h[j] /\ j \in DOMAIN new
  BY <1>0
<1> HIDE DEF new
<1>3. j \in 1..(n - 1) /\ n - j = ReplyBudget - (left - 1) /\ n - j <= ReplyBudget
  <2>1. Len(h) \in Int /\ ReplyBudget \in Int /\ j \in 1..Len(h)
    BY <1>0, <1>2, GroupBounds
  <2>2. Len(h) - j = ReplyBudget - left
    BY <1>1
  <2> QED BY <2>1, <2>2
<1>4. \A k \in (j + 1)..n : k = n \/ (k \in (j + 1)..Len(h) /\ k \in 1..Len(h))
  BY <1>0, <1>2
<1>5. \A k \in (j + 1)..n : new[k].by # 0
  BY <1>0, <1>1, <1>4
<1>6. AfterRequest(new, n)
  BY <1>0, <1>1, <1>2, <1>3, <1>5 DEF AfterRequest
<1>7. InRound(new, said.epoch, left - 1)
  BY <1>0, <1>1, <1>2, <1>3, <1>5 DEF InRound
<1> QED BY <1>6, <1>7 DEF new

LEMMA RequestStep ==
    ASSUME GroupInv, round.pc = "stops", session.failures = {},
           \A e \in round.waits : \A m \in Members : stops[e][m] # "asked",
           session' = [session EXCEPT !.st = "deciding", !.history =
                Append(@, [by |-> 0, turn |-> 0, epoch |-> round.epoch])],
           round' = [round EXCEPT !.pc = "primary"], round.left = ReplyBudget,
           UNCHANGED <<stops, outbound, inbox, playing, receipts, heard>>
    PROVE  GroupInv'
<1> DEFINE said == [by |-> 0, turn |-> 0, epoch |-> round.epoch]
           old == session.history
           new == Append(old, said)
<1>0. session \in GroupType /\ round \in RoundType
  BY DEF GroupInv, GroupTyped
<1>1. old \in Seq(SaidType) /\ said \in SaidType
  BY <1>0 DEF GroupType, SaidType, RoundType
<1>2. said.by = 0 /\ said.epoch = round.epoch
  OBVIOUS
<1>3. session' = [session EXCEPT !.st = "deciding", !.history = new]
  OBVIOUS
<1> HIDE DEF said, new
<1>4. new \in Seq(SaidType)
  BY <1>1, AppendedSaid DEF new
<1>5. /\ session' \in GroupType /\ session'.st = "deciding" /\ session'.history = new
      /\ session'.epoch = session.epoch /\ session'.active = session.active
      /\ session'.turns = session.turns /\ session'.presses = session.presses
      /\ session'.failures = session.failures
      /\ session'.closed = session.closed /\ session'.held = session.held
  BY <1>0, <1>3, <1>4, SessionStsAre DEF GroupType
<1>6. /\ round' \in RoundType /\ round'.pc = "primary" /\ round'.epoch = round.epoch
      /\ round'.left = round.left /\ round'.waits = round.waits
  BY <1>0 DEF RoundType, RoundPcs
<1>7. GroupTyped'
  BY <1>5, <1>6 DEF GroupInv, GroupTyped
<1>8. RoundInv'
  BY <1>5, <1>6 DEF GroupInv, RoundInv, Speaking, Waiting
<1>9. FrameInv'
  BY <1>5 DEF GroupInv, FrameInv
<1>10. \A m \in Members : StopsNow(m) = "ok" /\ Mute(m)
  BY BarrierHolds
<1>11. BarrierInv'
  BY <1>5, <1>6, <1>10 DEF GroupInv, BarrierInv, StopsNow, Waiting, Deciding, Speaking
<1>12. Calm
  BY <1>5 DEF Calm, GroupInv, GroupTyped
<1>13. VoiceInv'
  BY <1>6, <1>10, <1>12, CalmVoice
<1>14. ReplyInv'
  BY <1>6 DEF ReplyInv, Speaking
<1>15. SaidInv'
  <2>1. HistoryGood(new, heard)
    BY <1>1, <1>2, HistoryGrows DEF GroupInv, SaidInv, new
  <2>2. InRound(new, round.epoch, ReplyBudget)
    BY <1>1, <1>2, RoundBegins DEF new
  <2> QED BY <1>5, <1>6, <2>1, <2>2 DEF SaidInv, GroupInv
<1> QED BY <1>7, <1>8, <1>9, <1>11, <1>13, <1>14, <1>15 DEF GroupInv

LEMMA SilenceStep == ASSUME GroupInv, SilenceKnown PROVE GroupInv'
<1>0. /\ round.pc = "stops" /\ session.mishaps \in Nat
      /\ UNCHANGED <<inbox, playing, receipts, heard>>
      /\ \A e \in round.waits : \A m \in Members : stops[e][m] # "asked"
  BY DEF SilenceKnown, GroupInv, GroupTyped, GroupType
<1>1. CASE FailRound(FALSE, session.mishaps)
  BY <1>0, <1>1, FailStep
<1>2. CASE Finish /\ UNCHANGED <<stops, outbound>>
  BY <1>0, <1>2, FinishStep
<1>3. CASE /\ session.failures = {} /\ round.text
           /\ session' = [session EXCEPT !.st = "deciding", !.history =
                 Append(@, [by |-> 0, turn |-> 0, epoch |-> round.epoch])]
           /\ round' = [round EXCEPT !.pc = "primary"]
           /\ UNCHANGED <<stops, outbound>>
  <2>1. round.left = ReplyBudget
    BY <1>0 DEF GroupInv, RoundInv, Waiting
  <2> QED BY <1>0, <1>3, <2>1, RequestStep
<1> QED BY <1>1, <1>2, <1>3 DEF SilenceKnown

LEMMA DecideSilenceStep == ASSUME GroupInv, DecideSilence PROVE GroupInv'
BY FinishStep DEF DecideSilence, Deciding

LEMMA RoundErrorStep ==
    ASSUME GroupInv, TranscriptTimeout \/ DecisionFails \/ ReplyFails PROVE GroupInv'
<1>1. /\ round.pc # "none" /\ session.mishaps + 1 \in Nat
      /\ FailRound(TRUE, session.mishaps + 1) /\ UNCHANGED <<inbox, playing, receipts, heard>>
  <2>1. session.mishaps + 1 \in Nat
    BY DEF GroupInv, GroupTyped, GroupType
  <2>2. round.pc # "none"
    BY DEF TranscriptTimeout, DecisionFails, ReplyFails, RoundError
  <2>3. FailRound(TRUE, session.mishaps + 1) /\ UNCHANGED <<inbox, playing, receipts, heard>>
    BY DEF TranscriptTimeout, DecisionFails, ReplyFails, RoundError
  <2> QED BY <2>1, <2>2, <2>3
<1> DEFINE n == session.mishaps + 1
<1>2. n \in Nat /\ FailRound(TRUE, n)
  BY <1>1
<1> HIDE DEF n
<1> QED BY <1>1, <1>2, FailStep

\* A reply is scheduled: only from here on may one device become loud.
LEMMA DecideReplyStep ==
    ASSUME GroupInv, NEW m \in Members, NEW clarify \in BOOLEAN, DecideReply(m, clarify)
    PROVE  GroupInv'
<1> DEFINE turn == session.turns + 1
           f == Reply("start", m, round.epoch, turn)
           q == outbound.reply
<1>0. /\ session \in GroupType /\ round \in RoundType /\ q \in Seq(FrameType)
      /\ outbound \in [urgent : Seq(FrameType), reply : Seq(FrameType)]
      /\ round.pc \in Deciding
  BY DEF GroupInv, GroupTyped, DecideReply, Deciding
<1>1. /\ session' = [session EXCEPT !.st = "responding", !.active = turn, !.turns = turn]
      /\ outbound' = [outbound EXCEPT !.reply = Append(q, f)]
      /\ round' = [round EXCEPT !.pc = "reply", !.speaker = m, !.clarify = clarify]
      /\ UNCHANGED <<stops, inbox, playing, receipts, heard>>
  BY DEF DecideReply
<1>2. turn \in Nat /\ turn >= session.turns /\ turn > session.turns /\ turn \in 1..turn
  BY <1>0 DEF GroupType
<1>3. f \in FrameType /\ f.type = "start" /\ f.turn = turn /\ f.to = m
  BY <1>0, <1>2 DEF FrameType, Reply, RoundType
<1> HIDE DEF turn, f
<1>4. /\ session' \in GroupType /\ session'.st = "responding" /\ session'.active = turn
      /\ session'.epoch = session.epoch /\ session'.history = session.history
      /\ session'.turns = turn /\ session'.presses = session.presses
      /\ session'.failures = session.failures
      /\ session'.closed = session.closed /\ session'.held = session.held
  BY <1>0, <1>1, <1>2, SessionStsAre DEF GroupType
<1>5. /\ round' \in RoundType /\ round'.pc = "reply" /\ round'.epoch = round.epoch
      /\ round'.left = round.left /\ round'.waits = round.waits /\ round'.speaker = m
  <2>1. m \in 0..NumMembers /\ "reply" \in RoundPcs
    BY GroupBounds DEF Members, RoundPcs
  <2> QED BY <1>0, <1>1, <2>1 DEF RoundType
<1>6. /\ outbound' \in [urgent : Seq(FrameType), reply : Seq(FrameType)]
      /\ outbound'.reply = Append(q, f) /\ outbound'.urgent = outbound.urgent
  <2>1. Append(q, f) \in Seq(FrameType)
    BY <1>0, <1>3, AppendedFrame
  <2> QED BY <1>0, <1>1, <2>1
<1>7. GroupTyped'
  BY <1>1, <1>4, <1>5, <1>6 DEF GroupInv, GroupTyped
<1>8. RoundInv'
  <2>1. m # 0 /\ turn # 0
    BY <1>0, <1>2, GroupBounds DEF Members, GroupType, turn
  <2> QED BY <1>0, <1>2, <1>4, <1>5, <2>1 DEF GroupInv, RoundInv, Speaking, Waiting, Deciding
<1>9. Calm
  BY <1>1, <1>4, <1>6 DEF Calm, GroupInv, GroupTyped
<1>10. FrameInv'
  BY <1>2, <1>3, <1>4, <1>6, <1>9, CalmFrames
<1>11. BarrierInv'
  BY <1>0, <1>1, <1>4, <1>5 DEF GroupInv, BarrierInv, StopsNow, Waiting, Deciding, Speaking
<1>12. \A n \in Members : Mute(n)
  BY <1>0 DEF GroupInv, RoundInv, BarrierInv, VoiceInv, Stopped, Deciding, Speaking
<1>13. VoiceInv'
  BY <1>9, <1>12, CalmVoice
<1>14. ReplyInv'
  <2>1. \A i \in DOMAIN q : q[i].turn # turn
    BY <1>0, <1>2 DEF GroupInv, FrameInv, GroupType
  <2>2. \A i \in DOMAIN Append(q, f) :
           \/ i \in DOMAIN q /\ Append(q, f)[i] = q[i]
           \/ Append(q, f)[i] = f /\ \A j \in DOMAIN q : j < i
    BY <1>0, <1>3, AppendedFrame
  <2>3. \A i \in DOMAIN outbound'.reply :
           /\ outbound'.reply[i].turn = turn => outbound'.reply[i].to = m
           /\ outbound'.reply[i].turn = turn => outbound'.reply[i].type = "start"
    BY <1>3, <1>6, <2>1, <2>2
  <2>4. \A i \in DOMAIN inbox[m] : inbox[m][i].turn # turn
    <3>1. inbox[m] \in Seq(FrameType)
      BY DEF GroupInv, GroupTyped
    <3> QED BY <1>0, <1>2, <3>1, FramesTyped DEF GroupInv, FrameInv, GroupType
  <2>5. ReplyOk(m, round.epoch, turn) \notin receipts
    BY <1>0, <1>2 DEF GroupInv, FrameInv, ReplyOk, GroupType
  <2> QED BY <1>1, <1>4, <1>5, <2>3, <2>4, <2>5 DEF ReplyInv, IsFrame
<1>15. SaidInv'
  BY <1>0, <1>4, <1>5, <1>9, CalmSaid
<1> QED BY <1>7, <1>8, <1>10, <1>11, <1>13, <1>14, <1>15 DEF GroupInv

\* The end of the reply is queued behind its start.
LEMMA ReplyGeneratedStep == ASSUME GroupInv, ReplyGenerated PROVE GroupInv'
<1> DEFINE f == Reply("end", round.speaker, round.epoch, session.active)
           q == outbound.reply
<1>0. /\ session \in GroupType /\ round \in RoundType /\ q \in Seq(FrameType)
      /\ outbound \in [urgent : Seq(FrameType), reply : Seq(FrameType)]
      /\ round.pc = "reply" /\ round.speaker \in Members
  BY GroupBounds DEF GroupInv, GroupTyped, ReplyGenerated, RoundInv, Speaking, RoundType, Members
<1>1. /\ outbound' = [outbound EXCEPT !.reply = Append(q, f)]
      /\ round' = [round EXCEPT !.pc = "present"]
      /\ UNCHANGED <<session, stops, inbox, playing, receipts, heard>>
  BY DEF ReplyGenerated
<1>2. /\ f \in FrameType /\ f.type = "end" /\ f.turn = session.active /\ f.to = round.speaker
      /\ session.active \in 1..session.turns /\ session.turns \in Nat
  BY <1>0 DEF FrameType, Reply, RoundType, GroupType, GroupInv, RoundInv, Speaking
<1> HIDE DEF f
<1>5. /\ round' \in RoundType /\ round'.pc = "present" /\ round'.epoch = round.epoch
      /\ round'.left = round.left /\ round'.waits = round.waits
      /\ round'.speaker = round.speaker
  BY <1>0, <1>1 DEF RoundType, RoundPcs
<1>6. /\ outbound' \in [urgent : Seq(FrameType), reply : Seq(FrameType)]
      /\ outbound'.reply = Append(q, f) /\ outbound'.urgent = outbound.urgent
  <2>1. Append(q, f) \in Seq(FrameType)
    BY <1>0, <1>2, AppendedFrame
  <2> QED BY <1>0, <1>1, <2>1
<1>7. GroupTyped'
  BY <1>1, <1>5, <1>6 DEF GroupInv, GroupTyped
<1>8. RoundInv'
  BY <1>0, <1>1, <1>5 DEF GroupInv, RoundInv, Speaking, Waiting
<1>9. Calm
  BY <1>1, <1>6 DEF Calm, GroupInv, GroupTyped
<1>10. FrameInv'
  BY <1>1, <1>2, <1>6, <1>9, CalmFrames
<1>11. BarrierInv'
  BY <1>0, <1>1, <1>5 DEF GroupInv, BarrierInv, StopsNow, Waiting, Deciding, Speaking
<1>12. VoiceInv'
  BY <1>0, <1>1, <1>2, <1>5, <1>9, CalmVoice DEF GroupInv, VoiceInv, Speaking
<1>13. ReplyInv'
  <2>0. /\ \A i \in DOMAIN q : q[i].turn = session.active => q[i].to = round.speaker
        /\ \A i, j \in DOMAIN q :
              i < j /\ IsFrame(q[i], "end") => ~IsFrame(q[j], "start")
        /\ \A i \in DOMAIN inbox[round.speaker] : IsFrame(inbox[round.speaker][i], "end") =>
              /\ NotQueued("start")
              /\ \A j \in DOMAIN inbox[round.speaker] :
                    i < j => inbox[round.speaker][j].type # "start"
        /\ ReplyOk(round.speaker, round.epoch, session.active) \in receipts =>
              NotQueued("start") /\ Mute(round.speaker)
    BY <1>0 DEF GroupInv, ReplyInv, Speaking
  <2>1. \A i \in DOMAIN Append(q, f) :
           \/ i \in DOMAIN q /\ Append(q, f)[i] = q[i]
           \/ Append(q, f)[i] = f /\ \A j \in DOMAIN q : j < i
    BY <1>0, <1>2, AppendedFrame
  <2>2. \A i \in DOMAIN outbound'.reply :
           outbound'.reply[i].turn = session.active => outbound'.reply[i].to = round.speaker
    BY <1>2, <1>6, <2>0, <2>1
  <2>3. ~IsFrame(f, "start")
    BY <1>2 DEF IsFrame
  <2>4. ASSUME NEW i \in DOMAIN outbound'.reply, NEW j \in DOMAIN outbound'.reply,
               i < j, IsFrame(outbound'.reply[i], "end")
        PROVE  ~IsFrame(outbound'.reply[j], "start")
    <3>1. CASE outbound'.reply[j] = f
      BY <2>3, <3>1
    <3>2. CASE j \in DOMAIN q /\ outbound'.reply[j] = q[j]
      <4>1. i \in DOMAIN q /\ outbound'.reply[i] = q[i]
        <5>1. ~(j < i)
          BY <1>0, <1>6, <2>4, <3>2
        <5> QED BY <1>6, <2>1, <3>2, <5>1
      <4> QED BY <2>0, <2>4, <3>2, <4>1
    <3> QED BY <1>6, <2>1, <3>1, <3>2
  <2>5. NotQueued("start") => NotQueued("start")'
    BY <1>1, <1>6, <2>1, <2>3 DEF NotQueued, IsFrame
  <2>7. Mute(round.speaker)' = Mute(round.speaker)
    BY <1>1, <1>5 DEF Mute
  <2> QED BY <1>1, <1>5, <2>0, <2>2, <2>4, <2>5, <2>7 DEF ReplyInv, IsFrame, Mute
<1>14. SaidInv'
  BY <1>0, <1>1, <1>5, <1>9, CalmSaid DEF Speaking
<1> QED BY <1>7, <1>8, <1>10, <1>11, <1>12, <1>13, <1>14 DEF GroupInv

\* What the session is after a reply that was played to the end.
LEMMA PlayedFields ==
    ASSUME session \in GroupType, round \in RoundType, NEW over \in BOOLEAN
    PROVE  LET y == Played(session, over)
               said == [by |-> round.speaker, turn |-> session.active, epoch |-> round.epoch]
           IN /\ y \in GroupType /\ y.st # "opening"
              /\ y.history = Append(session.history, said) /\ y.epoch = session.epoch
              /\ y.active = 0 /\ y.turns = session.turns /\ y.presses = session.presses
              /\ y.failures = session.failures /\ y.closed = session.closed
              /\ y.held = session.held
<1> DEFINE said == [by |-> round.speaker, turn |-> session.active, epoch |-> round.epoch]
           old == session.history
           new == Append(old, said)
           st == IF over THEN "waiting" ELSE "deciding"
<1>1. old \in Seq(SaidType) /\ said \in SaidType
  BY DEF GroupType, SaidType, RoundType
<1>2. PICK y : y = Played(session, over)
  OBVIOUS
<1>3. y = [session EXCEPT !.active = 0, !.st = st, !.history = new]
  BY <1>2 DEF Played
<1>4. st \in SessionSts /\ st # "opening"
  BY DEF SessionSts
<1> HIDE DEF said, new, st
<1>5. new \in Seq(SaidType)
  BY <1>1, AppendedSaid DEF new
<1>6. /\ y \in GroupType /\ y.st = st /\ y.history = new /\ y.epoch = session.epoch
      /\ y.active = 0 /\ y.turns = session.turns /\ y.presses = session.presses
      /\ y.failures = session.failures /\ y.closed = session.closed /\ y.held = session.held
  <2>1. PICK s, h : s = st /\ h = new
    OBVIOUS
  <2>2. y = [session EXCEPT !.active = 0, !.st = s, !.history = h]
    BY <1>3, <2>1
  <2>3. s \in SessionSts /\ h \in Seq(SaidType)
    BY <1>4, <1>5, <2>1
  <2>4. y \in GroupType
    BY <2>2, <2>3 DEF GroupType
  <2>5. /\ y.st = s /\ y.history = h /\ y.epoch = session.epoch
        /\ y.active = 0 /\ y.turns = session.turns /\ y.presses = session.presses
        /\ y.failures = session.failures /\ y.closed = session.closed
        /\ y.held = session.held
    BY <2>2 DEF GroupType
  <2> QED BY <2>1, <2>4, <2>5
<1> QED BY <1>2, <1>4, <1>6 DEF new, said

\* A reply that was played to the end: everybody is silent again.
LEMMA PlayedStep ==
    ASSUME GroupInv, round.pc \in Speaking, NEW over \in BOOLEAN,
           over = (round.clarify \/ round.left = 1),
           ReplyOk(round.speaker, round.epoch, session.active) \in receipts,
           receipts' \in SUBSET receipts, session' = Played(session, over),
           round' = IF over THEN NoRound
                    ELSE [round EXCEPT !.pc = "primary", !.left = @ - 1, !.speaker = 0],
           UNCHANGED <<stops, outbound, inbox, playing, heard>>
    PROVE  GroupInv'
<1> DEFINE said == [by |-> round.speaker, turn |-> session.active, epoch |-> round.epoch]
           old == session.history
           new == Append(old, said)
<1>0. session \in GroupType /\ round \in RoundType
  BY DEF GroupInv, GroupTyped
<1>1. old \in Seq(SaidType) /\ said \in SaidType
  BY <1>0 DEF GroupType, SaidType, RoundType
<1>2. said.by # 0 /\ said.epoch = round.epoch /\ said.turn = session.active
  BY DEF GroupInv, RoundInv
<1>6. /\ session' \in GroupType /\ session'.st # "opening" /\ session'.history = new
      /\ session'.epoch = session.epoch /\ session'.active = 0
      /\ session'.turns = session.turns /\ session'.presses = session.presses
      /\ session'.failures = session.failures
      /\ session'.closed = session.closed /\ session'.held = session.held
  BY <1>0, PlayedFields
<1> HIDE DEF said, new
<1>7. round.left \in Nat /\ round.left >= 1 /\ (~over => round.left # 1)
  BY <1>0 DEF RoundType, GroupInv, RoundInv, Speaking
<1>8. /\ round' \in RoundType /\ round'.pc \in {"none", "primary"}
      /\ round'.pc = "primary" =>
            /\ round'.epoch = round.epoch /\ round'.left = round.left - 1 /\ round'.left >= 1
  <2>1. CASE over
    BY <2>1, NoRoundTyped
  <2>2. CASE ~over
    <3> DEFINE left == round.left - 1
    <3>1. left \in Nat /\ left >= 1 /\ 0 \in 0..NumMembers /\ "primary" \in RoundPcs
      BY <1>7, <2>2, GroupBounds DEF RoundPcs
    <3>2. round' = [round EXCEPT !.pc = "primary", !.left = left, !.speaker = 0]
      BY <1>0, <2>2 DEF RoundType
    <3> HIDE DEF left
    <3>3. round' \in RoundType /\ round'.pc = "primary" /\ round'.epoch = round.epoch
          /\ round'.left = left
      BY <1>0, <3>1, <3>2 DEF RoundType
    <3> QED BY <3>1, <3>3 DEF left
  <2> QED BY <2>1, <2>2
<1>9. GroupTyped'
  BY <1>6, <1>8 DEF GroupInv, GroupTyped
<1>10. RoundInv'
  <2>1. session.turns \in Nat
    BY <1>0 DEF GroupType
  <2> QED BY <1>6, <1>8, <2>1 DEF GroupInv, RoundInv, Speaking, Waiting
<1>11. FrameInv'
  BY <1>6 DEF GroupInv, FrameInv
<1>12. BarrierInv'
  BY <1>6, <1>8 DEF GroupInv, BarrierInv, StopsNow, Waiting, Deciding, Speaking
<1>13. \A m \in Members : Mute(m)
  BY DEF GroupInv, VoiceInv, ReplyInv
<1>14. Calm
  BY <1>6 DEF Calm, GroupInv, GroupTyped
<1>15. VoiceInv'
  BY <1>13, <1>14, CalmVoice
<1>16. ReplyInv'
  BY <1>8 DEF ReplyInv, Speaking
<1>17. SaidInv'
  <2>1. session.active \in heard
    BY DEF GroupInv, SaidInv, ReplyOk
  <2>2. InRound(old, said.epoch, round.left)
    BY <1>2 DEF GroupInv, SaidInv
  <2>3. AfterRequest(new, Len(old) + 1) /\ InRound(new, said.epoch, round.left - 1)
    BY <1>1, <1>2, <1>7, <2>2, RoundGoesOn DEF new
  <2>4. HistoryGood(new, heard)
    BY <1>1, <1>2, <2>1, <2>3, HistoryGrows DEF GroupInv, SaidInv, new
  <2>5. round'.pc \in Deciding \union Speaking =>
           InRound(new, round'.epoch, round'.left)
    BY <1>2, <1>8, <2>3 DEF Deciding, Speaking
  <2> QED BY <1>6, <2>4, <2>5 DEF SaidInv, GroupInv
<1> QED BY <1>9, <1>10, <1>11, <1>12, <1>15, <1>16, <1>17 DEF GroupInv

LEMMA PlaybackStep ==
    ASSUME GroupInv, NEW t \in {session.active} \ {0}, NEW ok \in BOOLEAN,
           PlaybackReceipt(t, ok)
    PROVE  GroupInv'
<1> DEFINE receipt == [kind |-> "reply", from |-> round.speaker, epoch |-> round.epoch,
                       turn |-> t, ok |-> ok]
           over == round.clarify \/ round.left = 1
<1>1. /\ round.pc \in Speaking /\ round.pc # "none" /\ receipt \in receipts
      /\ receipts' = receipts \ {receipt} /\ UNCHANGED <<inbox, playing, heard>>
      /\ session.mishaps \in Nat /\ over \in BOOLEAN /\ t = session.active
  BY DEF PlaybackReceipt, Speaking, GroupInv, GroupTyped, GroupType
<1>2. CASE ~ok /\ FailRound(TRUE, session.mishaps)
  BY <1>1, <1>2, FailStep
<1>3. CASE /\ ok /\ session' = Played(session, over)
           /\ round' = IF over THEN NoRound
                       ELSE [round EXCEPT !.pc = "primary", !.left = @ - 1, !.speaker = 0]
           /\ UNCHANGED <<stops, outbound>>
  <2>1. ReplyOk(round.speaker, round.epoch, session.active) \in receipts
    BY <1>1, <1>3 DEF ReplyOk
  <2>2. receipts' \in SUBSET receipts /\ over = (round.clarify \/ round.left = 1)
    BY <1>1
  <2> HIDE DEF over, receipt
  <2> QED BY <1>1, <1>3, <2>1, <2>2, PlayedStep
<1> QED BY <1>2, <1>3 DEF PlaybackReceipt

\* A stop is settled: confirmed by its receipt, refused, or given up.
LEMMA SettledStep ==
    ASSUME GroupInv, NEW e \in 0..MaxEpoch, NEW m \in Members, NEW s \in {"ok", "failed"},
           stops[e][m] = "asked",
           stops' \in [0..MaxEpoch -> [Members -> StopStates]],
           \A f \in 0..MaxEpoch, n \in Members :
              stops'[f][n] = IF f = e /\ n = m THEN s ELSE stops[f][n],
           s = "ok" => StopOk(m, e) \in receipts,
           session' \in GroupType, session'.st = session.st,
           session'.epoch = session.epoch, session'.active = session.active,
           session'.turns = session.turns, session'.presses = session.presses,
           session'.history = session.history, session'.held = session.held,
           session'.closed = session.closed,
           e = session.epoch => \A n \in Members :
              n \in session'.failures <=> IF n = m THEN s = "failed" ELSE n \in session.failures,
           e # session.epoch => session'.failures = session.failures,
           receipts' \in SUBSET receipts,
           UNCHANGED <<round, outbound, inbox, playing, heard>>
    PROVE  GroupInv'
<1>0. session.epoch \in 0..MaxEpoch
  BY EpochInRange
<1>1. GroupTyped'
  BY DEF GroupInv, GroupTyped
<1>2. RoundInv'
  BY DEF GroupInv, RoundInv
<1>3. FrameInv'
  BY DEF GroupInv, FrameInv
<1>4. BarrierInv'
  <2>1. \A n \in Members : StopsNow(n)' = IF session.epoch = e /\ n = m THEN s ELSE StopsNow(n)
    BY <1>0 DEF StopsNow
  <2>2. \A f \in 0..MaxEpoch, n \in Members : f > session'.epoch => stops'[f][n] = "none"
    BY DEF GroupInv, BarrierInv
  <2>3. ASSUME session.held \/ round.pc # "none", NEW n \in Members
        PROVE  /\ StopsNow(n)' \in {"asked", "ok", "failed"}
               /\ StopsNow(n)' = "failed" => n \in session'.failures
    BY <2>1, <2>3 DEF GroupInv, BarrierInv
  <2>4. ASSUME round.pc \in Waiting, NEW n \in Members, StopsNow(n)' = "asked"
        PROVE  session.epoch \in round.waits
    BY <2>1, <2>4 DEF GroupInv, BarrierInv
  <2>5. ASSUME round.pc \in Deciding \union Speaking, NEW n \in Members
        PROVE  StopsNow(n)' = "ok"
    BY <2>1, <2>5 DEF GroupInv, BarrierInv, StopsNow
  <2> QED BY <2>2, <2>3, <2>4, <2>5 DEF BarrierInv
<1>5. Calm
  BY DEF Calm
<1>6. VoiceInv'
  <2>1. \A n \in Members : Stopped(n)' => Stopped(n)
    BY <1>0 DEF Stopped, StopsNow
  <2> QED BY <1>5, <2>1, CalmVoice DEF GroupInv, VoiceInv
<1>7. ReplyInv'
  <2>1. NotQueued("start")' = NotQueued("start")
    BY DEF NotQueued, IsFrame
  <2>2. Mute(round.speaker)' = Mute(round.speaker)
    BY DEF Mute
  <2> QED BY <2>1, <2>2 DEF GroupInv, ReplyInv, IsFrame
<1>8. SaidInv'
  BY <1>5, CalmSaid
<1> QED BY <1>1, <1>2, <1>3, <1>4, <1>6, <1>7, <1>8 DEF GroupInv

LEMMA FewerReceiptsStep ==
    ASSUME GroupInv, receipts' \in SUBSET receipts,
           UNCHANGED <<session, round, stops, outbound, inbox, playing, heard>>
    PROVE  GroupInv'
<1>1. Calm
  BY DEF Calm, GroupInv, GroupTyped
<1>2. GroupTyped' /\ RoundInv' /\ FrameInv'
  BY DEF GroupInv, GroupTyped, RoundInv, FrameInv
<1>3. BarrierInv'
  BY DEF GroupInv, BarrierInv, StopsNow
<1>4. VoiceInv'
  <2>1. \A n \in Members : Stopped(n)' => Stopped(n)
    BY DEF Stopped, StopsNow
  <2> QED BY <1>1, <2>1, CalmVoice DEF GroupInv, VoiceInv
<1>5. ReplyInv'
  <2>1. NotQueued("start")' = NotQueued("start")
    BY DEF NotQueued, IsFrame
  <2>2. Mute(round.speaker)' = Mute(round.speaker)
    BY DEF Mute
  <2> QED BY <2>1, <2>2 DEF GroupInv, ReplyInv, IsFrame
<1>6. SaidInv'
  BY <1>1, CalmSaid
<1> QED BY <1>2, <1>3, <1>4, <1>5, <1>6 DEF GroupInv

LEMMA NoteStopFields ==
    ASSUME NEW x \in GroupType, NEW e \in Nat, NEW m \in Members, NEW ok \in BOOLEAN
    PROVE  LET y == NoteStop(x, e, m, ok) IN
           /\ y \in GroupType /\ y.st = x.st /\ y.epoch = x.epoch /\ y.active = x.active
           /\ y.turns = x.turns /\ y.presses = x.presses /\ y.history = x.history
           /\ y.held = x.held /\ y.closed = x.closed /\ y.mishaps = x.mishaps
           /\ e = x.epoch => \A n \in Members :
                 n \in y.failures <=> IF n = m THEN ~ok ELSE n \in x.failures
           /\ e # x.epoch => y.failures = x.failures
<1> DEFINE failures == IF ok THEN x.failures \ {m} ELSE x.failures \union {m}
           y == NoteStop(x, e, m, ok)
<1>1. failures \in SUBSET Members
  BY DEF GroupType
<1>2. \A n \in Members : n \in failures <=> IF n = m THEN ~ok ELSE n \in x.failures
  OBVIOUS
<1>3. CASE e # x.epoch
  BY <1>3 DEF NoteStop
<1>4. CASE e = x.epoch
  <2>1. y = [x EXCEPT !.failures = failures]
    BY <1>4 DEF NoteStop
  <2> HIDE DEF failures, y
  <2>2. /\ y \in GroupType /\ y.st = x.st /\ y.epoch = x.epoch /\ y.active = x.active
        /\ y.turns = x.turns /\ y.presses = x.presses /\ y.history = x.history
        /\ y.held = x.held /\ y.closed = x.closed /\ y.mishaps = x.mishaps
        /\ y.failures = failures
    BY <1>1, <2>1 DEF GroupType
  <2> QED BY <1>2, <1>4, <2>2 DEF y
<1> QED BY <1>3, <1>4

LEMMA StopReceiptStep ==
    ASSUME GroupInv, NEW e \in 1..MaxEpoch, NEW m \in Members, NEW ok \in BOOLEAN,
           StopReceipt(e, m, ok)
    PROVE  GroupInv'
<1> DEFINE receipt == [kind |-> "stop", from |-> m, epoch |-> e, turn |-> 0, ok |-> ok]
           s == IF ok THEN "ok" ELSE "failed"
<1>0. session \in GroupType /\ e \in 0..MaxEpoch
  BY DEF GroupInv, GroupTyped
<1>1. /\ receipt \in receipts /\ receipts' \in SUBSET receipts
      /\ UNCHANGED <<round, outbound, inbox, playing, heard>>
  BY DEF StopReceipt
<1>2. CASE stops[e][m] = "asked"
  <2>1. stops' = [stops EXCEPT ![e][m] = s] /\ session' = NoteStop(session, e, m, ok)
    BY <1>2 DEF StopReceipt
  <2>2. s \in {"ok", "failed"} /\ s \in StopStates
    BY DEF StopStates
  <2>3. s = "ok" => StopOk(m, e) \in receipts
    BY <1>1 DEF StopOk
  <2>4. /\ session' \in GroupType /\ session'.st = session.st
        /\ session'.epoch = session.epoch /\ session'.active = session.active
        /\ session'.turns = session.turns /\ session'.presses = session.presses
        /\ session'.history = session.history /\ session'.held = session.held
        /\ session'.closed = session.closed
        /\ e = session.epoch => \A n \in Members :
              n \in session'.failures <=> IF n = m THEN s = "failed" ELSE n \in session.failures
        /\ e # session.epoch => session'.failures = session.failures
    <3>1. e \in Nat
      BY <1>0
    <3>2. s = "failed" <=> ~ok
      OBVIOUS
    <3> HIDE DEF s
    <3> QED BY <1>0, <2>1, <3>1, <3>2, NoteStopFields
  <2> HIDE DEF s
  <2>5. /\ stops' \in [0..MaxEpoch -> [Members -> StopStates]]
        /\ \A f \in 0..MaxEpoch, n \in Members :
              stops'[f][n] = IF f = e /\ n = m THEN s ELSE stops[f][n]
    BY <1>0, <2>1, <2>2 DEF GroupInv, GroupTyped
  <2> HIDE DEF receipt
  <2> QED BY <1>0, <1>1, <1>2, <2>2, <2>3, <2>4, <2>5, SettledStep
<1>3. CASE stops[e][m] # "asked"
  <2>1. UNCHANGED <<stops, session>>
    BY <1>3 DEF StopReceipt
  <2> QED BY <1>1, <2>1, FewerReceiptsStep
<1> QED BY <1>2, <1>3

LEMMA StopTimeoutStep ==
    ASSUME GroupInv, NEW e \in 1..MaxEpoch, NEW m \in Members, StopTimeout(e, m)
    PROVE  GroupInv'
<1>no. PICK no \in BOOLEAN : no = FALSE
  OBVIOUS
<1> DEFINE y == NoteStop(session, e, m, no)
           n1 == y.mishaps + 1
<1>0. session \in GroupType /\ e \in 0..MaxEpoch /\ e \in Nat
  BY DEF GroupInv, GroupTyped
<1>1. /\ stops[e][m] = "asked" /\ stops' = [stops EXCEPT ![e][m] = "failed"]
      /\ receipts' \in SUBSET receipts
      /\ UNCHANGED <<round, outbound, inbox, playing, heard>>
  BY DEF StopTimeout
<1>2. /\ y \in GroupType /\ y.st = session.st /\ y.epoch = session.epoch
      /\ y.active = session.active /\ y.turns = session.turns
      /\ y.presses = session.presses /\ y.history = session.history
      /\ y.held = session.held /\ y.closed = session.closed
      /\ e = session.epoch => \A n \in Members :
            n \in y.failures <=> IF n = m THEN TRUE ELSE n \in session.failures
      /\ e # session.epoch => y.failures = session.failures
  BY <1>0, <1>no, NoteStopFields
<1>3. session' = [y EXCEPT !.mishaps = n1]
  BY <1>2, <1>no DEF StopTimeout, GroupType
<1>4. n1 \in Nat
  <2>1. y \in GroupType
    BY <1>2
  <2> HIDE DEF y
  <2>2. y.mishaps \in Nat
    BY <2>1 DEF GroupType
  <2> QED BY <2>2
<1> HIDE DEF y, n1
<1>5. /\ session' \in GroupType /\ session'.st = y.st /\ session'.epoch = y.epoch
      /\ session'.active = y.active /\ session'.turns = y.turns
      /\ session'.presses = y.presses /\ session'.history = y.history
      /\ session'.held = y.held /\ session'.closed = y.closed
      /\ session'.failures = y.failures
  BY <1>2, <1>3, <1>4 DEF GroupType
<1>6. /\ stops' \in [0..MaxEpoch -> [Members -> StopStates]]
      /\ \A f \in 0..MaxEpoch, n \in Members :
            stops'[f][n] = IF f = e /\ n = m THEN "failed" ELSE stops[f][n]
  BY <1>0, <1>1 DEF GroupInv, GroupTyped, StopStates
<1>7. e = session.epoch => \A n \in Members :
         n \in session'.failures <=> IF n = m THEN "failed" = "failed" ELSE n \in session.failures
  BY <1>2, <1>5
<1>8. PICK s \in {"ok", "failed"} : s = "failed"
  OBVIOUS
<1> QED BY <1>0, <1>1, <1>2, <1>5, <1>6, <1>7, <1>8, SettledStep

(***************************************************************************)
(* The writer: a frame moves from a queue to the device it is for.         *)
(***************************************************************************)
LEMMA WrittenFrame ==
    ASSUME GroupTyped, NEW f \in FrameType,
           inbox' = [inbox EXCEPT ![f.to] = Append(@, f)]
    PROVE  /\ inbox' \in [Members -> Seq(FrameType)]
           /\ \A m \in Members : m # f.to => inbox'[m] = inbox[m]
           /\ \A m \in Members : \A i \in DOMAIN inbox'[m] :
                 \/ i \in DOMAIN inbox[m] /\ inbox'[m][i] = inbox[m][i]
                 \/ /\ m = f.to /\ inbox'[m][i] = f
                    /\ \A j \in DOMAIN inbox[m] : j < i
           /\ \A m \in Members : \A i \in DOMAIN inbox'[m] : i \in Nat
<1>1. f.to \in Members /\ inbox \in [Members -> Seq(FrameType)]
  BY DEF FrameType, GroupTyped
<1>2. PICK q : q = inbox[f.to]
  OBVIOUS
<1>3. q \in Seq(FrameType)
  BY <1>1, <1>2
<1>4. inbox'[f.to] = Append(q, f) /\ \A m \in Members : m # f.to => inbox'[m] = inbox[m]
  BY <1>1, <1>2
<1>5. Append(q, f) \in Seq(FrameType)
  BY <1>3, AppendedFrame
<1>6. inbox' \in [Members -> Seq(FrameType)]
  BY <1>1, <1>2, <1>5
<1>7. \A i \in DOMAIN Append(q, f) :
         \/ i \in DOMAIN q /\ Append(q, f)[i] = q[i]
         \/ Append(q, f)[i] = f /\ \A j \in DOMAIN q : j < i
  BY <1>3, AppendedFrame
<1>8. \A m \in Members : \A i \in DOMAIN inbox'[m] : i \in Nat
  BY <1>6
<1>9. ASSUME NEW m \in Members, NEW i \in DOMAIN inbox'[m]
      PROVE  \/ i \in DOMAIN inbox[m] /\ inbox'[m][i] = inbox[m][i]
             \/ /\ m = f.to /\ inbox'[m][i] = f
                /\ \A j \in DOMAIN inbox[m] : j < i
  <2>1. CASE m = f.to
    BY <1>2, <1>4, <1>7, <1>9, <2>1
  <2>2. CASE m # f.to
    BY <1>4, <1>9, <2>2
  <2> QED BY <2>1, <2>2
<1> QED BY <1>4, <1>6, <1>8, <1>9

\* A stop overtakes the replies and may stand behind anything.
LEMMA WriteUrgentStep == ASSUME GroupInv, WriteUrgent PROVE GroupInv'
<1> DEFINE u == outbound.urgent
<1>0. GroupTyped /\ u \in Seq(FrameType) /\ u # <<>>
  BY DEF GroupInv, GroupTyped, WriteUrgent
<1>1. UNCHANGED <<session, round, stops, playing, receipts, heard>>
  BY DEF WriteUrgent
<1>2. PICK f : f = Head(u)
  OBVIOUS
<1>3. f \in FrameType /\ f.type = "stop" /\ f.epoch <= session.epoch /\ f.turn = 0
  BY <1>0, <1>2, TakenFrame DEF GroupInv, FrameInv
<1>4. inbox' = [inbox EXCEPT ![f.to] = Append(@, f)]
  BY <1>2 DEF WriteUrgent
<1>5. /\ outbound' \in [urgent : Seq(FrameType), reply : Seq(FrameType)]
      /\ outbound'.reply = outbound.reply /\ outbound'.urgent = Tail(u)
  <2>1. Tail(u) \in Seq(FrameType)
    BY <1>0, TakenFrame
  <2> QED BY <1>0, <2>1 DEF WriteUrgent, GroupTyped
<1>6. /\ inbox' \in [Members -> Seq(FrameType)]
      /\ \A m \in Members : \A i \in DOMAIN inbox'[m] :
            \/ i \in DOMAIN inbox[m] /\ inbox'[m][i] = inbox[m][i]
            \/ /\ m = f.to /\ inbox'[m][i] = f
               /\ \A j \in DOMAIN inbox[m] : j < i
  BY <1>0, <1>3, <1>4, WrittenFrame
<1>7. GroupTyped'
  BY <1>0, <1>1, <1>5, <1>6 DEF GroupTyped
<1>8. RoundInv' /\ BarrierInv' /\ SaidInv'
  BY <1>1 DEF GroupInv, RoundInv, BarrierInv, SaidInv, StopsNow
<1>9. FrameInv'
  <2>1. \A i \in DOMAIN Tail(u) : i + 1 \in DOMAIN u /\ Tail(u)[i] = u[i + 1]
    BY <1>0, TakenFrame
  <2>2. \A i \in DOMAIN outbound'.urgent :
           /\ outbound'.urgent[i].type = "stop" /\ outbound'.urgent[i].epoch <= session.epoch
           /\ outbound'.urgent[i].turn = 0
    BY <1>5, <2>1 DEF GroupInv, FrameInv
  <2>3. session.turns \in Nat
    BY DEF GroupInv, GroupTyped, GroupType
  <2>4. \A m \in Members : \A i \in DOMAIN inbox'[m] :
           /\ inbox'[m][i].type = "stop" => inbox'[m][i].epoch <= session.epoch
           /\ inbox'[m][i].turn <= session.turns
    BY <1>3, <1>6, <2>3 DEF GroupInv, FrameInv
  <2> QED BY <1>1, <1>5, <2>2, <2>4 DEF GroupInv, FrameInv
<1>10. \A m \in Members : Mute(m) => Mute(m)'
  BY <1>1, <1>3, <1>6 DEF Mute, NoStart
<1>11. VoiceInv'
  <2>1. \A m \in Members : Stopped(m)' = Stopped(m) /\ StopsNow(m)' = StopsNow(m)
    BY <1>1 DEF Stopped, StopsNow
  <2>2. ASSUME NEW m \in Members, StopsLast(inbox[m])
        PROVE  StopsLast(inbox[m])'
    <3> SUFFICES ASSUME NEW i \in DOMAIN inbox'[m], NEW j \in DOMAIN inbox'[m], i < j,
                        inbox'[m][i].type = "stop", inbox'[m][i].epoch = session.epoch,
                        inbox'[m][j].type = "start"
                 PROVE  FALSE
      BY <1>1 DEF StopsLast
    <3>1. j \in DOMAIN inbox[m] /\ inbox'[m][j] = inbox[m][j]
      BY <1>3, <1>6
    <3>2. inbox'[m] \in Seq(FrameType)
      BY <1>6
    <3>3. i \in Nat /\ j \in Nat
      BY <3>2
    <3>4. i \in DOMAIN inbox[m] /\ inbox'[m][i] = inbox[m][i]
      BY <1>6, <3>1, <3>3
    <3> QED BY <2>2, <3>1, <3>4 DEF StopsLast
  <2>3. /\ \A m, n \in Members : Mute(m) \/ Mute(n) \/ m = n
        /\ session.active = 0 => \A m \in Members : Stopped(m) => Mute(m)
        /\ round.pc \in Speaking => \A m \in Members : m = round.speaker \/ Mute(m)
        /\ \A m \in Members : StopsNow(m) = "asked" => StopsLast(inbox[m])
    BY DEF GroupInv, VoiceInv
  <2>4. \A m, n \in Members : Mute(m)' \/ Mute(n)' \/ m = n
    BY <1>10, <2>3
  <2>5. session'.active = 0 => \A m \in Members : Stopped(m)' => Mute(m)'
    BY <1>1, <1>10, <2>1, <2>3
  <2>6. round'.pc \in Speaking => \A m \in Members : m = round'.speaker \/ Mute(m)'
    BY <1>1, <1>10, <2>3
  <2>7. \A m \in Members : StopsNow(m)' = "asked" => StopsLast(inbox[m])'
    BY <2>1, <2>2, <2>3
  <2> QED BY <2>4, <2>5, <2>6, <2>7 DEF VoiceInv
<1>12. ReplyInv'
  <2> SUFFICES ASSUME round.pc \in Speaking PROVE ReplyInv'
    BY <1>1 DEF ReplyInv
  <2>0. PICK sp : sp = round.speaker
    OBVIOUS
  <2>1. sp \in Members
    BY <2>0 DEF GroupInv, GroupTyped, RoundType, RoundInv, Members
  <2>2. /\ \A i \in DOMAIN outbound.reply :
              outbound.reply[i].turn = session.active => outbound.reply[i].to = sp
        /\ \A i, j \in DOMAIN outbound.reply :
              i < j /\ IsFrame(outbound.reply[i], "end") => ~IsFrame(outbound.reply[j], "start")
        /\ \A i \in DOMAIN inbox[sp] : IsFrame(inbox[sp][i], "end") =>
              /\ NotQueued("start")
              /\ \A j \in DOMAIN inbox[sp] : i < j => inbox[sp][j].type # "start"
        /\ ReplyOk(sp, round.epoch, session.active) \in receipts =>
              NotQueued("start") /\ Mute(sp)
    BY <2>0 DEF GroupInv, ReplyInv
  <2>3. NotQueued("start")' = NotQueued("start")
    BY <1>1, <1>5 DEF NotQueued, IsFrame
  <2>4. ASSUME NEW i \in DOMAIN inbox'[sp], IsFrame(inbox'[sp][i], "end")
        PROVE  /\ NotQueued("start")
               /\ \A j \in DOMAIN inbox'[sp] : i < j => inbox'[sp][j].type # "start"
    <3>1. i \in DOMAIN inbox[sp] /\ inbox'[sp][i] = inbox[sp][i]
      BY <1>3, <1>6, <2>1, <2>4 DEF IsFrame
    <3> QED BY <1>3, <1>6, <2>1, <2>2, <2>4, <3>1
  <2>5. Mute(sp) => Mute(sp)'
    BY <1>10, <2>1
  <2>6. Mute(round.speaker)' = Mute(sp)'
    BY <1>1, <2>0 DEF Mute
  <2> QED BY <1>1, <1>5, <2>0, <2>2, <2>3, <2>4, <2>5, <2>6 DEF ReplyInv, IsFrame
<1> QED BY <1>7, <1>8, <1>9, <1>11, <1>12 DEF GroupInv

\* A frame of a reply is written only for the one companion that speaks.
LEMMA WriteReplyStep == ASSUME GroupInv, WriteReply PROVE GroupInv'
<1> DEFINE q == outbound.reply
<1>0. GroupTyped /\ q \in Seq(FrameType) /\ q # <<>>
  BY DEF GroupInv, GroupTyped, WriteReply
<1>1. UNCHANGED <<session, round, stops, playing, receipts, heard>>
  BY DEF WriteReply
<1>2. PICK f : f = Head(q)
  OBVIOUS
<1>3. /\ f \in FrameType /\ f = q[1] /\ 1 \in DOMAIN q
      /\ f.type \in {"start", "end"} /\ f.turn \in 1..session.turns
  BY <1>0, <1>2, TakenFrame DEF GroupInv, FrameInv
<1>4. /\ outbound' \in [urgent : Seq(FrameType), reply : Seq(FrameType)]
      /\ outbound'.urgent = outbound.urgent /\ outbound'.reply = Tail(q)
  <2>1. Tail(q) \in Seq(FrameType)
    BY <1>0, TakenFrame
  <2> QED BY <1>0, <2>1 DEF WriteReply, GroupTyped
<1>5. \A i \in DOMAIN outbound'.reply :
         /\ i + 1 \in DOMAIN q /\ outbound'.reply[i] = q[i + 1] /\ 1 < i + 1 /\ i \in Nat
  BY <1>0, <1>4, TakenFrame
<1>6. /\ inbox' \in [Members -> Seq(FrameType)]
      /\ \A m \in Members : \A i \in DOMAIN inbox'[m] :
            \/ i \in DOMAIN inbox[m] /\ inbox'[m][i] = inbox[m][i]
            \/ /\ m = f.to /\ inbox'[m][i] = f
               /\ \A j \in DOMAIN inbox[m] : j < i
               /\ round.pc \in Speaking /\ f.turn = session.active /\ f.to = round.speaker
  <2>1. CASE PermitCurrent(f)
    <3>1. inbox' = [inbox EXCEPT ![f.to] = Append(@, f)]
      BY <1>2, <2>1 DEF WriteReply
    <3>2. f.turn = session.active /\ session.active # 0
      BY <1>3, <2>1 DEF PermitCurrent
    <3>3. round.pc \in Speaking
      BY <3>2 DEF GroupInv, RoundInv
    <3>4. f.to = round.speaker
      BY <1>3, <3>2, <3>3 DEF GroupInv, ReplyInv
    <3>5. /\ inbox' \in [Members -> Seq(FrameType)]
          /\ \A m \in Members : \A i \in DOMAIN inbox'[m] :
                \/ i \in DOMAIN inbox[m] /\ inbox'[m][i] = inbox[m][i]
                \/ m = f.to /\ inbox'[m][i] = f /\ \A j \in DOMAIN inbox[m] : j < i
      BY <1>0, <1>3, <3>1, WrittenFrame
    <3> QED BY <3>2, <3>3, <3>4, <3>5
  <2>2. CASE ~PermitCurrent(f)
    BY <1>0, <1>2, <2>2 DEF WriteReply, GroupTyped
  <2> QED BY <2>1, <2>2
<1>7. GroupTyped'
  BY <1>0, <1>1, <1>4, <1>6 DEF GroupTyped
<1>8. RoundInv' /\ BarrierInv' /\ SaidInv'
  BY <1>1 DEF GroupInv, RoundInv, BarrierInv, SaidInv, StopsNow
<1>9. FrameInv'
  <2>1. session.turns \in Nat /\ f.turn <= session.turns /\ f.type # "stop"
    BY <1>3 DEF GroupInv, GroupTyped, GroupType
  <2>2. \A m \in Members : \A i \in DOMAIN inbox'[m] :
           /\ inbox'[m][i].type = "stop" => inbox'[m][i].epoch <= session.epoch
           /\ inbox'[m][i].turn <= session.turns
    BY <1>6, <2>1 DEF GroupInv, FrameInv
  <2>3. \A i \in DOMAIN outbound'.reply :
           /\ outbound'.reply[i].type \in {"start", "end"}
           /\ outbound'.reply[i].turn \in 1..session.turns
    BY <1>5 DEF GroupInv, FrameInv
  <2> QED BY <1>1, <1>4, <2>2, <2>3 DEF GroupInv, FrameInv
<1>10. \A m \in Members :
          (m = round.speaker /\ round.pc \in Speaking) \/ (Mute(m) => Mute(m)')
  BY <1>1, <1>6 DEF Mute, NoStart
<1>11. VoiceInv'
  <2>1. \A m \in Members : Stopped(m)' = Stopped(m) /\ StopsNow(m)' = StopsNow(m)
    BY <1>1 DEF Stopped, StopsNow
  <2>2. ASSUME NEW m \in Members, StopsLast(inbox[m]), round.pc \notin Speaking
        PROVE  StopsLast(inbox[m])'
    <3>1. \A i \in DOMAIN inbox'[m] : i \in DOMAIN inbox[m] /\ inbox'[m][i] = inbox[m][i]
      BY <1>6, <2>2
    <3> QED BY <1>1, <2>2, <3>1 DEF StopsLast
  <2>3. /\ \A m, n \in Members : Mute(m) \/ Mute(n) \/ m = n
        /\ session.active = 0 => \A m \in Members : Stopped(m) => Mute(m)
        /\ round.pc \in Speaking => \A m \in Members : m = round.speaker \/ Mute(m)
        /\ \A m \in Members : StopsNow(m) = "asked" => StopsLast(inbox[m])
    BY DEF GroupInv, VoiceInv
  <2>4. \A m, n \in Members : Mute(m)' \/ Mute(n)' \/ m = n
    BY <1>10, <2>3
  <2>5. session'.active = 0 => \A m \in Members : Stopped(m)' => Mute(m)'
    <3>1. session.active = 0 => round.pc \notin Speaking
      BY DEF GroupInv, RoundInv
    <3> QED BY <1>1, <1>10, <2>1, <2>3, <3>1
  <2>6. round'.pc \in Speaking => \A m \in Members : m = round'.speaker \/ Mute(m)'
    BY <1>1, <1>10, <2>3
  <2>7. \A m \in Members : StopsNow(m)' = "asked" => StopsLast(inbox[m])'
    <3>1. round.pc \in Speaking => \A m \in Members : StopsNow(m) # "asked"
      BY DEF GroupInv, BarrierInv
    <3> QED BY <2>1, <2>2, <2>3, <3>1
  <2> QED BY <2>4, <2>5, <2>6, <2>7 DEF VoiceInv
<1>12. ReplyInv'
  <2> SUFFICES ASSUME round.pc \in Speaking PROVE ReplyInv'
    BY <1>1 DEF ReplyInv
  <2>0. PICK sp : sp = round.speaker
    OBVIOUS
  <2>1. sp \in Members
    BY <2>0 DEF GroupInv, GroupTyped, RoundType, RoundInv, Members
  <2>2. /\ \A i \in DOMAIN q : q[i].turn = session.active => q[i].to = sp
        /\ \A i, j \in DOMAIN q :
              i < j /\ IsFrame(q[i], "end") => ~IsFrame(q[j], "start")
        /\ \A i \in DOMAIN inbox[sp] : IsFrame(inbox[sp][i], "end") =>
              /\ NotQueued("start")
              /\ \A j \in DOMAIN inbox[sp] : i < j => inbox[sp][j].type # "start"
        /\ ReplyOk(sp, round.epoch, session.active) \in receipts =>
              NotQueued("start") /\ Mute(sp)
    BY <2>0 DEF GroupInv, ReplyInv
  <2>3. /\ NotQueued("start") => NotQueued("start")' /\ ~IsFrame(f, "start")
        /\ IsFrame(f, "end") => NotQueued("start")'
    <3>1. NotQueued("start")' = \A i \in DOMAIN outbound'.reply : ~IsFrame(q[i + 1], "start")
      BY <1>1, <1>5 DEF NotQueued, IsFrame
    <3> QED BY <1>3, <1>5, <2>2, <3>1 DEF NotQueued
  <2>4. /\ \A i \in DOMAIN outbound'.reply :
              outbound'.reply[i].turn = session.active => outbound'.reply[i].to = sp
        /\ \A i, j \in DOMAIN outbound'.reply :
              i < j /\ IsFrame(outbound'.reply[i], "end") =>
                 ~IsFrame(outbound'.reply[j], "start")
    BY <1>5, <2>2
  <2>5. ASSUME NEW i \in DOMAIN inbox'[sp], IsFrame(inbox'[sp][i], "end")
        PROVE  /\ NotQueued("start")'
               /\ \A j \in DOMAIN inbox'[sp] : i < j => inbox'[sp][j].type # "start"
    <3>1. CASE i \in DOMAIN inbox[sp] /\ inbox'[sp][i] = inbox[sp][i]
      <4>1. NotQueued("start") /\ \A j \in DOMAIN inbox[sp] : i < j => inbox[sp][j].type # "start"
        BY <2>2, <2>5, <3>1
      <4>2. f.turn = session.active => f.type # "start"
        BY <2>3, <4>1 DEF IsFrame
      <4> QED BY <1>6, <2>1, <2>3, <4>1, <4>2
    <3>2. CASE inbox'[sp][i] = f /\ \A j \in DOMAIN inbox[sp] : j < i
      <4>1. \A j \in DOMAIN inbox'[sp] : i < j => inbox'[sp][j] = f
        <5>1. inbox'[sp] \in Seq(FrameType)
          BY <1>6, <2>1
        <5>2. \A j \in DOMAIN inbox'[sp] : j \in Nat
          BY <5>1
        <5> QED BY <1>6, <2>1, <2>5, <3>2, <5>2
      <4> QED BY <2>3, <2>5, <3>2, <4>1 DEF IsFrame
    <3> QED BY <1>6, <2>1, <2>5, <3>1, <3>2
  <2>6. ReplyOk(sp, round.epoch, session.active) \in receipts =>
           NotQueued("start")' /\ Mute(sp)'
    <3>1. SUFFICES ASSUME NotQueued("start"), Mute(sp) PROVE Mute(sp)'
      BY <2>2, <2>3
    <3>2. f.turn = session.active => f.type # "start"
      BY <2>3, <3>1 DEF IsFrame
    <3> QED BY <1>1, <1>6, <2>1, <3>1, <3>2 DEF Mute, NoStart
  <2>7. Mute(round.speaker)' = Mute(sp)'
    BY <1>1, <2>0 DEF Mute
  <2> QED BY <1>1, <2>0, <2>4, <2>5, <2>6, <2>7 DEF ReplyInv, IsFrame
<1> QED BY <1>7, <1>8, <1>9, <1>11, <1>12 DEF GroupInv

(***************************************************************************)
(* A device handles the first frame on its way.                            *)
(***************************************************************************)
LEMMA MishapFields ==
    ASSUME session \in GroupType, NEW ok \in BOOLEAN,
           session' = [session EXCEPT !.mishaps = IF ok THEN @ ELSE @ + 1]
    PROVE  /\ session' \in GroupType /\ session'.epoch = session.epoch
           /\ session'.st = session.st /\ session'.held = session.held
           /\ session'.closed = session.closed /\ session'.presses = session.presses
           /\ session'.active = session.active /\ session'.turns = session.turns
           /\ session'.failures = session.failures /\ session'.history = session.history
<1> DEFINE n == IF ok THEN session.mishaps ELSE session.mishaps + 1
<1>1. n \in Nat
  BY DEF GroupType
<1>2. session' = [session EXCEPT !.mishaps = n]
  BY DEF GroupType
<1> HIDE DEF n
<1>3. PICK k : k = n
  OBVIOUS
<1>4. session' = [session EXCEPT !.mishaps = k] /\ k \in Nat
  BY <1>1, <1>2, <1>3
<1> QED BY <1>4 DEF GroupType

\* What a device's step leaves of the queues: every frame was there before,
\* in the same order.
LEMMA HandledFrame ==
    ASSUME GroupTyped, NEW m \in Members, inbox[m] # <<>>,
           inbox' = [inbox EXCEPT ![m] = Tail(@)]
    PROVE  /\ inbox' \in [Members -> Seq(FrameType)]
           /\ Head(inbox[m]) = inbox[m][1] /\ 1 \in DOMAIN inbox[m]
           /\ inbox[m][1] \in FrameType
           /\ \A n \in Members : n # m => inbox'[n] = inbox[n]
           /\ \A i \in DOMAIN inbox'[m] :
                 /\ i \in Nat /\ i + 1 \in DOMAIN inbox[m] /\ 1 < i + 1
                 /\ inbox'[m][i] = inbox[m][i + 1]
<1>1. inbox \in [Members -> Seq(FrameType)] /\ inbox[m] \in Seq(FrameType)
  BY DEF GroupTyped
<1>2. inbox'[m] = Tail(inbox[m]) /\ \A n \in Members : n # m => inbox'[n] = inbox[n]
  BY <1>1
<1>3. /\ Tail(inbox[m]) \in Seq(FrameType) /\ Head(inbox[m]) = inbox[m][1]
      /\ 1 \in DOMAIN inbox[m] /\ inbox[m][1] \in FrameType
      /\ \A i \in DOMAIN Tail(inbox[m]) :
            /\ i + 1 \in DOMAIN inbox[m] /\ Tail(inbox[m])[i] = inbox[m][i + 1]
            /\ 1 < i + 1 /\ i \in Nat
  BY <1>1, TakenFrame
<1>4. inbox' \in [Members -> Seq(FrameType)]
  BY <1>1, <1>3
<1> QED BY <1>2, <1>3, <1>4

LEMMA DeviceHandlesStep ==
    ASSUME GroupInv, NEW m \in Members, NEW ok \in BOOLEAN, DeviceHandles(m, ok)
    PROVE  GroupInv'
<1>0. GroupTyped /\ session \in GroupType /\ round \in RoundType
  BY DEF GroupInv, GroupTyped
<1>1. UNCHANGED <<round, stops, outbound>>
  BY DEF DeviceHandles
<1>2. PICK f : f = Head(inbox[m])
  OBVIOUS
<1>3. PICK a : a = [kind |-> IF f.type = "stop" THEN "stop" ELSE "reply",
                    from |-> m, epoch |-> f.epoch, turn |-> f.turn, ok |-> ok]
  OBVIOUS
<1>4. /\ session' \in GroupType /\ session'.epoch = session.epoch
      /\ session'.st = session.st /\ session'.held = session.held
      /\ session'.closed = session.closed /\ session'.presses = session.presses
      /\ session'.active = session.active /\ session'.turns = session.turns
      /\ session'.failures = session.failures /\ session'.history = session.history
  <2>1. session' = [session EXCEPT !.mishaps = IF ok THEN @ ELSE @ + 1]
    BY DEF DeviceHandles
  <2> QED BY <1>0, <2>1, MishapFields
<1>5. /\ inbox' \in [Members -> Seq(FrameType)]
      /\ f = inbox[m][1] /\ 1 \in DOMAIN inbox[m] /\ f \in FrameType
      /\ \A n \in Members : n # m => inbox'[n] = inbox[n]
      /\ \A i \in DOMAIN inbox'[m] :
            /\ i \in Nat /\ i + 1 \in DOMAIN inbox[m] /\ 1 < i + 1
            /\ inbox'[m][i] = inbox[m][i + 1]
  <2>1. inbox[m] # <<>> /\ inbox' = [inbox EXCEPT ![m] = Tail(@)]
    BY DEF DeviceHandles
  <2> QED BY <1>0, <1>2, <2>1, HandledFrame
<1>6. /\ f.type \in {"stop", "start", "end"} /\ f.epoch \in Nat /\ f.turn \in Nat
      /\ f.turn <= session.turns
      /\ f.type = "stop" => f.epoch <= session.epoch
  BY <1>5 DEF FrameType, GroupInv, FrameInv
<1>7. /\ playing' \in [Members -> Nat]
      /\ \A n \in Members : n # m => playing'[n] = playing[n]
      /\ f.type # "start" => playing'[m] \in {0, playing[m]}
      /\ f.type = "end" \/ (f.type = "stop" /\ ok) => playing'[m] = 0
  <2> DEFINE p == CASE f.type = "start" -> IF ok THEN f.turn ELSE 0
                    [] f.type = "stop" -> IF ok THEN 0 ELSE playing[m]
                    [] f.type = "end" -> 0
  <2>1. playing' = [playing EXCEPT ![m] = p] /\ playing \in [Members -> Nat]
    BY <1>0, <1>2 DEF DeviceHandles, GroupTyped
  <2>2. /\ p \in Nat
        /\ f.type # "start" => p \in {0, playing[m]}
        /\ f.type = "end" \/ (f.type = "stop" /\ ok) => p = 0
    BY <1>6, <2>1
  <2> HIDE DEF p
  <2> QED BY <2>1, <2>2
<1>8. /\ a.kind = (IF f.type = "stop" THEN "stop" ELSE "reply") /\ a.from = m
      /\ a.epoch = f.epoch /\ a.turn = f.turn /\ a.ok = ok /\ a \in ReceiptType
  <2>1. /\ a.kind = (IF f.type = "stop" THEN "stop" ELSE "reply") /\ a.from = m
        /\ a.epoch = f.epoch /\ a.turn = f.turn /\ a.ok = ok
    BY <1>3
  <2> QED BY <1>3, <1>6, <2>1 DEF ReceiptType
<1>9. /\ \A r \in receipts' : r \in receipts \/ (r = a /\ ~(f.type = "start" /\ ok))
      /\ receipts' \in SUBSET ReceiptType
  <2>1. receipts' = IF f.type = "start" /\ ok THEN receipts ELSE receipts \union {a}
    BY <1>2, <1>3 DEF DeviceHandles
  <2> QED BY <1>0, <1>8, <2>1 DEF GroupTyped
<1>10. /\ heard \subseteq heard' /\ heard' \in SUBSET Nat
       /\ f.type = "end" /\ ok => f.turn \in heard'
  BY <1>0, <1>2, <1>6 DEF DeviceHandles, GroupTyped
<1>11. GroupTyped'
  BY <1>0, <1>1, <1>4, <1>5, <1>7, <1>9, <1>10 DEF GroupTyped
<1>12. RoundInv'
  BY <1>1, <1>4 DEF GroupInv, RoundInv
<1>13. BarrierInv'
  BY <1>1, <1>4 DEF GroupInv, BarrierInv, StopsNow
<1>14. FrameInv'
  <2>1. \A n \in Members : \A i \in DOMAIN inbox'[n] :
           /\ inbox'[n][i].type = "stop" => inbox'[n][i].epoch <= session.epoch
           /\ inbox'[n][i].turn <= session.turns
    <3>1. \A n \in Members : \A i \in DOMAIN inbox[n] :
             /\ inbox[n][i].type = "stop" => inbox[n][i].epoch <= session.epoch
             /\ inbox[n][i].turn <= session.turns
      BY DEF GroupInv, FrameInv
    <3> SUFFICES ASSUME NEW n \in Members, NEW i \in DOMAIN inbox'[n]
                 PROVE  /\ inbox'[n][i].type = "stop" => inbox'[n][i].epoch <= session.epoch
                        /\ inbox'[n][i].turn <= session.turns
      OBVIOUS
    <3>2. CASE n # m
      BY <1>5, <3>1, <3>2
    <3>3. CASE n = m
      <4>1. i + 1 \in DOMAIN inbox[m] /\ inbox'[m][i] = inbox[m][i + 1]
        BY <1>5, <3>3
      <4> QED BY <3>1, <3>3, <4>1
    <3> QED BY <3>2, <3>3
  <2>2. \A r \in receipts' :
           /\ r.kind = "stop" => r.epoch <= session.epoch
           /\ r.turn <= session.turns
    BY <1>6, <1>8, <1>9 DEF GroupInv, FrameInv
  <2> QED BY <1>1, <1>4, <2>1, <2>2 DEF GroupInv, FrameInv
<1>15. \A n \in Members : Mute(n) => Mute(n)'
  BY <1>5, <1>7, SMTT(30) DEF Mute, NoStart
<1>16. \A n \in Members : StopsLast(inbox[n]) => StopsLast(inbox[n])'
  <2>1. SUFFICES ASSUME StopsLast(inbox[m]) PROVE StopsLast(inbox[m])'
    BY <1>4, <1>5 DEF StopsLast
  <2>2. \A i, j \in DOMAIN inbox'[m] : i < j => i + 1 < j + 1
    BY <1>5
  <2> QED BY <1>4, <1>5, <2>1, <2>2 DEF StopsLast
<1>17. VoiceInv'
  <2>1. \A n \in Members : StopsNow(n)' = StopsNow(n)
    BY <1>1, <1>4 DEF StopsNow
  <2>2. /\ \A n, k \in Members : Mute(n) \/ Mute(k) \/ n = k
        /\ session.active = 0 => \A n \in Members : Stopped(n) => Mute(n)
        /\ round.pc \in Speaking => \A n \in Members : n = round.speaker \/ Mute(n)
        /\ \A n \in Members : StopsNow(n) = "asked" => StopsLast(inbox[n])
    BY DEF GroupInv, VoiceInv
  <2>3. ASSUME NEW n \in Members, session.active = 0, Stopped(n)'
        PROVE  Mute(n)'
    <3>1. CASE Stopped(n)
      BY <1>15, <2>2, <2>3, <3>1
    <3>2. CASE ~Stopped(n)
      <4>1. /\ StopsNow(n) = "asked" /\ StopOk(n, session.epoch) = a
            /\ StopsLast(inbox[n])
        BY <1>4, <1>9, <2>1, <2>2, <2>3, <3>2 DEF Stopped
      <4>2. /\ a.kind = "stop" /\ a.from = n /\ a.epoch = session.epoch /\ a.ok
        BY <4>1 DEF StopOk
      <4>3. n = m /\ f.type = "stop" /\ f.epoch = session.epoch /\ ok
        BY <1>8, <4>2
      <4>4. playing'[n] = 0
        BY <1>7, <4>3
      <4>5. \A i \in DOMAIN inbox'[n] : inbox'[n][i].type # "start"
        BY <1>5, <4>1, <4>3 DEF StopsLast
      <4> QED BY <4>4, <4>5 DEF Mute, NoStart
    <3> QED BY <3>1, <3>2
  <2>4. \A n, k \in Members : Mute(n)' \/ Mute(k)' \/ n = k
    BY <1>15, <2>2
  <2>5. session'.active = 0 => \A n \in Members : Stopped(n)' => Mute(n)'
    BY <1>4, <2>3
  <2>6. round'.pc \in Speaking => \A n \in Members : n = round'.speaker \/ Mute(n)'
    BY <1>1, <1>15, <2>2
  <2>7. \A n \in Members : StopsNow(n)' = "asked" => StopsLast(inbox[n])'
    BY <1>16, <2>1, <2>2
  <2> QED BY <2>4, <2>5, <2>6, <2>7 DEF VoiceInv
<1>18. ReplyInv'
  <2> SUFFICES ASSUME round.pc \in Speaking PROVE ReplyInv'
    BY <1>1 DEF ReplyInv
  <2>0. PICK sp : sp = round.speaker
    OBVIOUS
  <2>1. sp \in Members
    BY <2>0 DEF GroupInv, GroupTyped, RoundType, RoundInv, Members
  <2>2. /\ \A i \in DOMAIN outbound.reply :
              outbound.reply[i].turn = session.active => outbound.reply[i].to = sp
        /\ \A i, j \in DOMAIN outbound.reply :
              i < j /\ IsFrame(outbound.reply[i], "end") => ~IsFrame(outbound.reply[j], "start")
        /\ \A i \in DOMAIN inbox[sp] : IsFrame(inbox[sp][i], "end") =>
              /\ NotQueued("start")
              /\ \A j \in DOMAIN inbox[sp] : i < j => inbox[sp][j].type # "start"
        /\ ReplyOk(sp, round.epoch, session.active) \in receipts =>
              NotQueued("start") /\ Mute(sp)
    BY <2>0 DEF GroupInv, ReplyInv
  <2>3. NotQueued("start")' = NotQueued("start")
    BY <1>1, <1>4 DEF NotQueued, IsFrame
  <2>4. ASSUME NEW i \in DOMAIN inbox'[sp], IsFrame(inbox'[sp][i], "end")
        PROVE  /\ NotQueued("start")
               /\ \A j \in DOMAIN inbox'[sp] : i < j => inbox'[sp][j].type # "start"
    <3>1. CASE sp # m
      BY <1>5, <2>1, <2>2, <2>4, <3>1
    <3>2. CASE sp = m
      <4>1. i \in Nat /\ i + 1 \in DOMAIN inbox[sp] /\ IsFrame(inbox[sp][i + 1], "end")
        BY <1>5, <2>4, <3>2
      <4>2. NotQueued("start")
            /\ \A j \in DOMAIN inbox[sp] : i + 1 < j => inbox[sp][j].type # "start"
        BY <2>2, <4>1
      <4> QED BY <1>5, <3>2, <4>1, <4>2
    <3> QED BY <3>1, <3>2
  <2>5. ReplyOk(sp, round.epoch, session.active) \in receipts' =>
           NotQueued("start") /\ Mute(sp)'
    <3>1. CASE ReplyOk(sp, round.epoch, session.active) \in receipts
      BY <1>15, <2>1, <2>2, <3>1
    <3>2. CASE /\ ReplyOk(sp, round.epoch, session.active) = a
               /\ ~(f.type = "start" /\ ok)
      <4>1. a.kind = "reply" /\ a.from = sp /\ a.turn = session.active /\ a.ok
        BY <3>2 DEF ReplyOk
      <4>2. sp = m /\ f.type = "end" /\ f.turn = session.active
        BY <1>6, <1>8, <3>2, <4>1
      <4>3. IsFrame(inbox[sp][1], "end") /\ 1 \in DOMAIN inbox[sp]
        BY <1>5, <4>2 DEF IsFrame
      <4>4. NotQueued("start") /\ \A j \in DOMAIN inbox[sp] : 1 < j => inbox[sp][j].type # "start"
        BY <2>2, <4>3
      <4>5. playing'[sp] = 0
        BY <1>7, <4>2
      <4>6. \A i \in DOMAIN inbox'[sp] : inbox'[sp][i].type # "start"
        BY <1>5, <4>2, <4>4
      <4> QED BY <4>4, <4>5, <4>6 DEF Mute, NoStart
    <3> QED BY <1>9, <3>1, <3>2
  <2>6. Mute(round.speaker)' = Mute(sp)'
    BY <1>1, <2>0 DEF Mute
  <2> QED BY <1>1, <1>4, <2>0, <2>2, <2>3, <2>4, <2>5, <2>6 DEF ReplyInv, IsFrame
<1>19. SaidInv'
  <2>1. \A r \in receipts' : r.kind = "reply" /\ r.ok => r.turn \in heard'
    <3>1. a.kind = "reply" /\ a.ok /\ ~(f.type = "start" /\ ok) => f.type = "end" /\ ok
      BY <1>6, <1>8
    <3> QED BY <1>8, <1>9, <1>10, <3>1 DEF GroupInv, SaidInv
  <2>2. HistoryGood(session.history, heard)'
    BY <1>4, <1>10 DEF GroupInv, SaidInv, HistoryGood
  <2> QED BY <1>1, <1>4, <2>1, <2>2 DEF GroupInv, SaidInv
<1> QED BY <1>11, <1>12, <1>13, <1>14, <1>17, <1>18, <1>19 DEF GroupInv

LEMMA GroupNextInv == GroupInv /\ [GroupNext]_groupVars => GroupInv'
<1> SUFFICES ASSUME GroupInv, [GroupNext]_groupVars PROVE GroupInv'
  OBVIOUS
<1>1. ASSUME NEW authorized \in SUBSET Members, Prepare(authorized) PROVE GroupInv'
  BY <1>1, PrepareStep
<1>2. CASE Press
  BY <1>2, PressStep
<1>3. CASE Release
  BY <1>3, ReleaseStep
<1>4. CASE (\E text \in BOOLEAN : Transcribed(text)) \/ PrimaryGivesWay
  BY <1>4, RoundMovesStep
<1>5. CASE SilenceKnown
  BY <1>5, SilenceStep
<1>6. CASE DecideSilence
  BY <1>6, DecideSilenceStep
<1>7. ASSUME NEW m \in Members, NEW clarify \in BOOLEAN, DecideReply(m, clarify) PROVE GroupInv'
  BY <1>7, DecideReplyStep
<1>8. CASE ReplyGenerated
  BY <1>8, ReplyGeneratedStep
<1>9. CASE TranscriptTimeout \/ DecisionFails \/ ReplyFails
  BY <1>9, RoundErrorStep DEF TranscriptTimeout, DecisionFails, ReplyFails
<1>10. ASSUME NEW t \in {session.active} \ {0}, NEW ok \in BOOLEAN, PlaybackReceipt(t, ok)
       PROVE  GroupInv'
  BY <1>10, PlaybackStep
<1>11. ASSUME NEW e \in 1..MaxEpoch, NEW m \in Members, NEW ok \in BOOLEAN,
              StopReceipt(e, m, ok)
       PROVE  GroupInv'
  BY <1>11, StopReceiptStep
<1>12. ASSUME NEW e \in 1..MaxEpoch, NEW m \in Members, StopTimeout(e, m) PROVE GroupInv'
  BY <1>12, StopTimeoutStep
<1>13. ASSUME NEW disconnected \in BOOLEAN, CloseGroup(disconnected) PROVE GroupInv'
  BY <1>13, CloseStep
<1>14. CASE WriteUrgent
  BY <1>14, WriteUrgentStep
<1>15. CASE WriteReply
  BY <1>15, WriteReplyStep
<1>16. ASSUME NEW m \in Members, NEW ok \in BOOLEAN, DeviceHandles(m, ok) PROVE GroupInv'
  BY <1>16, DeviceHandlesStep
<1>17. CASE UNCHANGED groupVars
  BY <1>17, FewerReceiptsStep DEF groupVars
<1> QED
  BY <1>1, <1>2, <1>3, <1>4, <1>5, <1>6, <1>7, <1>8, <1>9, <1>10, <1>11, <1>12, <1>13,
     <1>14, <1>15, <1>16, <1>17 DEF GroupNext

LEMMA GroupAlways == GroupSpec => []GroupInv
BY GroupInitInv, GroupNextInv, PTL DEF GroupSpec

\* However presses, stop timeouts, late receipts, failed rounds and refusals of
\* the devices interleave, no two companions of a group speak at the same time
\* (the silence barrier of CoordinationSession._run and the permit that
\* CoordinationStream.write_to looks at again): for every number of members,
\* every reply budget and every number of captures.
THEOREM NeverTwoVoices == GroupSpec => []OneVoice
<1>1. GroupInv => OneVoice
  BY DEF GroupInv, VoiceInv, OneVoice, Mute
<1> QED BY <1>1, GroupAlways, PTL

\* What the group remembers as said was played to the end by its device, behind
\* the request of its own round and within the reply budget (the history that
\* CoordinationSession._run appends to after a playback receipt).
THEOREM WhatWasSaidWasHeard == GroupSpec => []HistoryIsHeard
<1>1. GroupInv => HistoryIsHeard
  BY DEF GroupInv, SaidInv, HistoryGood, AfterRequest, HistoryIsHeard
<1> QED BY <1>1, GroupAlways, PTL

(***************************************************************************)
(* SmartHome.  The lock of a session makes its commands one after another: *)
(* who holds it came before who waits, and everyone earlier is done.  So a *)
(* context a handler read is that of the turn before, and a plan submitted *)
(* is the first.  A request that is on the wire or was answered stays so   *)
(* for good, which makes the cards of what never ran true.                 *)
(***************************************************************************)
\* A handler that holds the lock of its session, and what a turn may end with that
\* leaves the focus of the turn before it.
InLock == {"authorize", "snapshot", "primary", "fallback", "offer", "recheck", "execute"}
Quiet == {"refused", "unheard", "unavailable"}
Spoken == {"executed", "partial", "failed"}

\* Some result of the turn of r confirms every device of a plan.
Confirmed(r, plan) ==
    \E h \in hub :
       /\ Turn[h.for] = Turn[r] /\ DOMAIN h.res # {}
       /\ \A d \in DOMAIN h.res : h.res[d]
       /\ h.for = r => h.plan = plan
       /\ plan \subseteq Devices => DOMAIN h.res = plan

\* What cards, requests on the wire and results of the Hub have to do with each other.
CardGood(r) ==
    /\ req[r].st # "done" => req[r].card = None
    /\ req[r].st \notin {"execute", "done"} => req[r].plan = {} /\ wire[r] = "none"
    /\ req[r].card \in Cards \ Spoken => wire[r] = "none"
    /\ req[r].card = "executed" => Confirmed(r, req[r].plan)
HubGood(h) ==
    /\ h.for \in Requests /\ h.id = Turn[h.for] /\ h.plan = req[h.for].plan
    /\ wire[h.for] = "answered"
CardInv == (\A r \in Requests : CardGood(r)) /\ (\A h \in hub : HubGood(h))

\* The lock of session o: its holder, its waiters in the order of their arrival, and
\* what it remembers: nothing done since then, but for turns that ended quietly.
SessionGood(o) ==
    LET s == sessions[o] IN
    /\ s.holder # None => req[s.holder].obj = o /\ req[s.holder].st \in InLock
    /\ \A i \in 1..Len(s.queue) : /\ req[s.queue[i]].obj = o /\ req[s.queue[i]].st = "queued"
                                  /\ s.holder # None => s.holder < s.queue[i]
    /\ \A i, j \in 1..Len(s.queue) : i < j => s.queue[i] < s.queue[j]
    /\ s.life = "unused" => \A r \in Requests : req[r].obj # o
    /\ s.life = "ended" => s.ctx = Blank /\ s.history = 0
    /\ s.ctx.by # None => \A q \in Requests :
          req[q].obj = o /\ req[q].st = "done" /\ s.ctx.by < q => req[q].card \in Quiet

\* A request: it arrives in order, and holds or waits for the lock of its session.
HandlerGood(r) ==
    /\ req[r].st = "new" => req[r].obj = 0 /\ req[r].ctx = Blank
    /\ req[r].st \in InLock => req[r].obj \in Objects /\ sessions[req[r].obj].holder = r
    /\ req[r].st = "queued" =>
          /\ req[r].obj \in Objects /\ req[r].ctx = Blank
          /\ \E i \in 1..Len(sessions[req[r].obj].queue) : sessions[req[r].obj].queue[i] = r
    /\ req[r].st = "authorize" => req[r].ctx = Blank
    /\ ~req[r].stale
    /\ req[r].st \in {"recheck", "execute"} => sessions[req[r].obj].ctx = Blank
    /\ req[r].ctx.by # None => \A q \in Requests :
          req[q].obj = req[r].obj /\ req[r].ctx.by < q /\ q < r =>
             req[q].st = "done" /\ req[q].card \in Quiet

\* Of two requests of a session the first is done before the second gets the lock.
OrderGood(q, r) ==
    q < r =>
       /\ req[r].st # "new" => req[q].st # "new"
       /\ req[q].obj = req[r].obj /\ req[q].obj \in Objects /\ req[q].st # "done" =>
             req[r].st = "queued"

LockInv ==
    /\ \A o \in Objects : SessionGood(o)
    /\ \A r \in Requests : HandlerGood(r)
    /\ \A q, r \in Requests : OrderGood(q, r)

HomeInv == TypeOK /\ CardInv /\ LockInv

\* A plan is submitted by the current turn of an open session.
SubmitsWell == \A r \in Requests : Submits(r) => req[r].st = "recheck" /\ Current(r)

\* What every step keeps, and what it never does.
GoodStep == HomeInv' /\ SubmitsWell

LEMMA HomeNone ==
    /\ None \notin Requests /\ None \notin Cards /\ 0 \notin Objects
    /\ Requests \subseteq Nat /\ Objects \subseteq Nat
    /\ MaxSessions \in Nat /\ NumRequests \in Nat /\ HistoryLimit \in Nat
BY HomeAssumption, NoCardAssumption DEF Requests, Objects

LEMMA HomeRecords ==
    /\ Blank \in ContextType /\ Blank.by = None
    /\ Nothing \in UnderstandingType
    /\ Unused \in SessionType /\ Unused.holder = None /\ Unused.queue = <<>> /\ Unused.ctx = Blank
    /\ Unsent \in RequestType /\ Unsent.st = "new" /\ Unsent.obj = 0 /\ Unsent.ctx = Blank
    /\ ~Unsent.stale /\ Unsent.card = None /\ Unsent.plan = {}
<1>1. Blank \in ContextType /\ Blank.by = None
  BY DEF Blank, ContextType
<1>2. Nothing \in UnderstandingType
  BY DEF Nothing, UnderstandingType
<1>3. 0 \in 0 .. HistoryLimit /\ <<>> \in Seq(Requests)
  BY HomeNone
<1>4. Unused \in SessionType /\ Unused.holder = None /\ Unused.queue = <<>> /\ Unused.ctx = Blank
  BY <1>1, <1>3 DEF Unused, SessionType
<1>5. Unsent \in RequestType
  BY <1>1, <1>2 DEF Unsent, RequestType, Stages
<1>6. /\ Unsent.st = "new" /\ Unsent.obj = 0 /\ Unsent.ctx = Blank
      /\ ~Unsent.stale /\ Unsent.card = None /\ Unsent.plan = {}
  BY DEF Unsent
<1> QED BY <1>1, <1>2, <1>4, <1>5, <1>6

LEMMA HomeInitInv == Init => HomeInv
<1> SUFFICES ASSUME Init PROVE HomeInv
  OBVIOUS
<1>1. TypeOK
  <2>1. Entries(table) = {}
    BY DEF Init, Entries
  <2>2. Cardinality(Entries(table)) <= Capacity
    BY <2>1, FS_EmptySet, HomeAssumption
  <2>3. 0 \in 0 .. MaxEvents
    BY HomeAssumption
  <2> QED BY <2>2, <2>3, HomeRecords DEF Init, TypeOK
<1>2. CardInv
  BY HomeRecords, HomeNone DEF Init, CardInv, CardGood, HubGood, Spoken, Cards
<1>3. LockInv
  <2>1. \A o \in Objects : SessionGood(o)
    <3> SUFFICES ASSUME NEW o \in Objects PROVE SessionGood(o)
      OBVIOUS
    <3>1. sessions[o] = Unused /\ Unused.life = "unused" /\ Unused.history = 0
      BY DEF Init, Unused
    <3>2. \A r \in Requests : req[r].obj # o
      BY HomeRecords, HomeNone DEF Init
    <3>3. Len(Unused.queue) = 0
      BY HomeRecords
    <3> QED BY <3>1, <3>2, <3>3, HomeRecords DEF SessionGood
  <2>2. \A r \in Requests : HandlerGood(r)
    BY HomeRecords DEF Init, HandlerGood, InLock
  <2>3. \A q, r \in Requests : OrderGood(q, r)
    BY HomeRecords, HomeNone DEF Init, OrderGood
  <2> QED BY <2>1, <2>2, <2>3 DEF LockInv
<1> QED BY <1>1, <1>2, <1>3 DEF HomeInv

(***************************************************************************)
(* What LockInv says of one session, spelled out.                          *)
(***************************************************************************)
LEMMA SessionFacts ==
    ASSUME NEW p, NEW s, s = sessions[p]
    PROVE  SessionGood(p) <=>
             /\ s.holder # None => req[s.holder].obj = p /\ req[s.holder].st \in InLock
             /\ \A i \in 1..Len(s.queue) :
                   /\ req[s.queue[i]].obj = p /\ req[s.queue[i]].st = "queued"
                   /\ s.holder # None => s.holder < s.queue[i]
             /\ \A i, j \in 1..Len(s.queue) : i < j => s.queue[i] < s.queue[j]
             /\ s.life = "unused" => \A r \in Requests : req[r].obj # p
             /\ s.life = "ended" => s.ctx = Blank /\ s.history = 0
             /\ s.ctx.by # None => \A q \in Requests :
                   req[q].obj = p /\ req[q].st = "done" /\ s.ctx.by < q => req[q].card \in Quiet
  BY Zenon DEF SessionGood

(***************************************************************************)
(* A step of the handler of r, which holds the lock of its session o.      *)
(***************************************************************************)
LEMMA HolderFacts ==
    ASSUME HomeInv, NEW r \in Requests, req[r].st \in InLock
    PROVE  /\ req[r].obj \in Objects /\ sessions[req[r].obj].holder = r
           /\ req[r] \in RequestType /\ sessions[req[r].obj] \in SessionType
           /\ req \in [Requests -> RequestType] /\ sessions \in [Objects -> SessionType]
           /\ SessionGood(req[r].obj) /\ HandlerGood(r) /\ CardGood(r)
BY DEF HomeInv, TypeOK, LockInv, HandlerGood, CardInv

LEMMA HandlerStep ==
    ASSUME HomeInv, NEW r \in Requests, req[r].st \in InLock,
           NEW o, o = req[r].obj, NEW x \in RequestType, NEW s \in SessionType,
           req' = [req EXCEPT ![r] = x], sessions' = [sessions EXCEPT ![o] = s],
           x.obj = o, ~x.stale, s.queue = sessions[o].queue, s.life = sessions[o].life,
           \/ x.st \in InLock \ {"authorize"} /\ s.holder = r
           \/ x.st = "done" /\ s.holder = None /\ x.ctx = Blank,
           x.ctx \in {Blank, req[r].ctx, sessions[o].ctx},
           s.life = "ended" => s.ctx = Blank /\ s.history = 0,
           x.st \in {"recheck", "execute"} => s.ctx = Blank,
           s.ctx.by # None =>
              \/ s.ctx.by = r /\ x.st = "done"
              \/ s.ctx = sessions[o].ctx /\ (x.st = "done" => x.card \in Quiet)
    PROVE  LockInv'
<1>1. /\ o \in Objects /\ sessions[o].holder = r /\ req \in [Requests -> RequestType]
      /\ sessions \in [Objects -> SessionType] /\ SessionGood(o) /\ HandlerGood(r)
  BY HolderFacts
<1>2. /\ req'[r] = x /\ \A q \in Requests \ {r} : req'[q] = req[q]
      /\ sessions'[o] = s /\ \A p \in Objects \ {o} : sessions'[p] = sessions[p]
  BY <1>1
<1>3. /\ \A p \in Objects : SessionGood(p)
      /\ \A q \in Requests : HandlerGood(q)
      /\ \A p, q \in Requests : OrderGood(p, q)
  BY DEF HomeInv, LockInv
<1>4. r \in Nat /\ None # r /\ \A q \in Requests : q \in Nat
  BY HomeNone
<1>5. /\ x.st # "queued" /\ x.st # "new" /\ x.st # "authorize"
      /\ req[r].st \notin {"queued", "done", "new"}
  BY DEF InLock
\* Later requests of the session wait, earlier ones are done.
<1>6. \A q \in Requests : req[q].obj = o /\ r < q => req[q].st = "queued"
  BY <1>1, <1>3, <1>5 DEF OrderGood
<1>7. \A q \in Requests : req[q].obj = o /\ q < r => req[q].st = "done"
  BY <1>1, <1>3, <1>5 DEF OrderGood
<1>8. ASSUME NEW p \in Objects PROVE SessionGood(p)'
  <2>1. SessionGood(p)
    BY <1>3
  <2>2. CASE p # o
    <3>1. sessions'[p] = sessions[p]
      BY <1>2, <2>2
    <3>2. sessions[p].holder # r /\ \A i \in 1..Len(sessions[p].queue) : sessions[p].queue[i] # r
      BY <1>4, <2>1, <2>2 DEF SessionGood
    <3>3. sessions[p] \in SessionType
      BY <1>1
    <3>4. /\ sessions[p].holder # None => sessions[p].holder \in Requests \ {r}
          /\ \A i \in 1..Len(sessions[p].queue) : sessions[p].queue[i] \in Requests \ {r}
      BY <3>2, <3>3 DEF SessionType
    <3> QED BY <1>2, <2>1, <2>2, <3>1, <3>4 DEF SessionGood
  <2>3. CASE p = o
    <3>1. \A i \in 1..Len(s.queue) : s.queue[i] \in Requests \ {r}
      BY <1>1, <1>5 DEF SessionGood, SessionType
    <3>2. /\ \A i \in 1..Len(s.queue) : /\ req'[s.queue[i]].obj = o
                                        /\ req'[s.queue[i]].st = "queued"
                                        /\ s.holder # None => s.holder < s.queue[i]
          /\ \A i, j \in 1..Len(s.queue) : i < j => s.queue[i] < s.queue[j]
      <4>1. /\ \A i \in 1..Len(s.queue) : /\ req[s.queue[i]].obj = o
                                          /\ req[s.queue[i]].st = "queued"
                                          /\ r < s.queue[i]
            /\ \A i, j \in 1..Len(s.queue) : i < j => s.queue[i] < s.queue[j]
        <5>1. PICK w : w = sessions[o]
          OBVIOUS
        <5>2. w.holder = r /\ w.holder # None /\ s.queue = w.queue
          BY <1>1, <1>4, <5>1
        <5>3. /\ \A i \in 1..Len(w.queue) : /\ req[w.queue[i]].obj = o
                                            /\ req[w.queue[i]].st = "queued"
                                            /\ w.holder # None => w.holder < w.queue[i]
              /\ \A i, j \in 1..Len(w.queue) : i < j => w.queue[i] < w.queue[j]
          BY <1>1, <5>1, SessionFacts
        <5> QED BY <5>2, <5>3, Zenon
      <4>2. \A i \in 1..Len(s.queue) : req'[s.queue[i]] = req[s.queue[i]]
        BY <1>2, <3>1
      <4>3. s.holder # None => s.holder = r
        OBVIOUS
      <4> QED BY <4>1, <4>2, <4>3, Zenon
    <3>3. s.holder # None => req'[s.holder].obj = o /\ req'[s.holder].st \in InLock
      BY <1>2
    <3>4. s.life # "unused"
      BY <1>1 DEF SessionGood
    <3>5. s.ctx.by # None => \A q \in Requests :
             req'[q].obj = o /\ req'[q].st = "done" /\ s.ctx.by < q => req'[q].card \in Quiet
      <4> SUFFICES ASSUME s.ctx.by # None, NEW q \in Requests,
                          req'[q].obj = o, req'[q].st = "done", s.ctx.by < q
                   PROVE  req'[q].card \in Quiet
        OBVIOUS
      <4>1. CASE s.ctx.by = r /\ x.st = "done"
        BY <1>2, <1>4, <1>6, <4>1
      <4>2. CASE s.ctx = sessions[o].ctx /\ (x.st = "done" => x.card \in Quiet)
        BY <1>1, <1>2, <4>2 DEF SessionGood
      <4> QED BY <4>1, <4>2
    <3> QED BY <1>2, <2>3, <3>2, <3>3, <3>4, <3>5 DEF SessionGood
  <2> QED BY <2>2, <2>3
<1>9. ASSUME NEW q \in Requests PROVE HandlerGood(q)'
  <2>1. HandlerGood(q)
    BY <1>3
  <2>2. CASE q = r
    <3>1. x.ctx.by # None => \A p \in Requests :
             req'[p].obj = o /\ x.ctx.by < p /\ p < r =>
                req'[p].st = "done" /\ req'[p].card \in Quiet
      <4> SUFFICES ASSUME x.ctx.by # None, NEW p \in Requests,
                          req'[p].obj = o, x.ctx.by < p, p < r
                   PROVE  req'[p].st = "done" /\ req'[p].card \in Quiet
        OBVIOUS
      <4>1. req'[p] = req[p] /\ req[p].st = "done"
        BY <1>2, <1>4, <1>7
      <4>2. CASE x.ctx = req[r].ctx
        BY <1>1, <4>1, <4>2 DEF HandlerGood
      <4>3. CASE x.ctx = sessions[o].ctx
        BY <1>1, <4>1, <4>3 DEF SessionGood
      <4>4. x.ctx # Blank
        BY HomeRecords
      <4>5. x.ctx = Blank \/ x.ctx = req[r].ctx \/ x.ctx = sessions[o].ctx
        OBVIOUS
      <4> QED BY <4>2, <4>3, <4>4, <4>5
    <3>2. /\ x.st \in InLock => s.holder = r
          /\ x.st \in {"recheck", "execute"} => s.ctx = Blank
      BY DEF InLock
    <3> QED BY <1>1, <1>2, <1>5, <2>2, <3>1, <3>2 DEF HandlerGood
  <2>3. CASE q # r
    <3>1. req'[q] = req[q]
      BY <1>2, <2>3
    <3>2. req[q].obj = o => req[q].st \notin InLock
      BY <1>1, <2>1, <2>3 DEF HandlerGood
    <3>3. req[q].st \in InLock \cup {"queued"} => req[q].obj \in Objects
      BY <2>1 DEF HandlerGood
    <3>4. \A p \in Requests : req'[p].obj = req[p].obj
      BY <1>2
    <3>5. req[q].ctx.by # None => \A p \in Requests :
             req'[p].obj = req[q].obj /\ req[q].ctx.by < p /\ p < q =>
                req'[p].st = "done" /\ req'[p].card \in Quiet
      BY <1>2, <1>5, <2>1, <3>4 DEF HandlerGood
    <3>6. req[q].st \in {"recheck", "execute"} => req[q].st \in InLock
      BY DEF InLock
    <3> QED BY <1>2, <2>1, <3>1, <3>2, <3>3, <3>5, <3>6 DEF HandlerGood
  <2> QED BY <2>2, <2>3
<1>10. ASSUME NEW p \in Requests, NEW q \in Requests PROVE OrderGood(p, q)'
  <2>1. OrderGood(p, q)
    BY <1>3
  <2>2. \A k \in Requests : req'[k].obj = req[k].obj /\ (req'[k].st = "new" <=> req[k].st = "new")
    BY <1>2, <1>5
  <2>3. p < q /\ req[p].obj = req[q].obj /\ req[p].obj \in Objects /\ req'[p].st # "done" =>
           req'[q].st = "queued"
    <3>1. CASE q = r
      BY <1>2, <1>4, <1>5, <1>7, <3>1
    <3>2. CASE q # r
      BY <1>2, <1>5, <2>1, <3>2 DEF OrderGood
    <3> QED BY <3>1, <3>2
  <2> QED BY <2>1, <2>2, <2>3 DEF OrderGood
<1> QED BY <1>8, <1>9, <1>10 DEF LockInv
\* Nothing but r's request, its place on the wire and its session change.
LEMMA CardStep ==
    ASSUME HomeInv, NEW r \in Requests, NEW x \in RequestType,
           req' = [req EXCEPT ![r] = x], hub' = hub,
           \A q \in Requests \ {r} : wire'[q] = wire[q],
           \/ wire'[r] = wire[r] /\ x.plan = req[r].plan
           \/ wire[r] # "answered",
           x.st # "done" => x.card = None,
           x.st \notin {"execute", "done"} => x.plan = {} /\ wire'[r] = "none",
           x.card \in Cards \ Spoken => wire'[r] = "none",
           x.card = "executed" => Confirmed(r, x.plan)
    PROVE  CardInv'
<1>1. req'[r] = x /\ \A q \in Requests \ {r} : req'[q] = req[q]
  BY DEF HomeInv, TypeOK
<1>2. ASSUME NEW q \in Requests PROVE CardGood(q)'
  <2>1. CardGood(q)
    BY DEF HomeInv, CardInv
  <2>2. CASE q # r
    BY <1>1, <2>1, <2>2 DEF CardGood, Confirmed
  <2>3. CASE q = r
    BY <1>1, <2>3 DEF CardGood, Confirmed
  <2> QED BY <2>2, <2>3
<1>3. ASSUME NEW h \in hub PROVE HubGood(h)'
  <2>1. HubGood(h)
    BY DEF HomeInv, CardInv
  <2>2. CASE h.for = r
    BY <1>1, <2>1, <2>2 DEF HubGood
  <2>3. CASE h.for # r
    BY <1>1, <2>1, <2>3 DEF HubGood
  <2> QED BY <2>2, <2>3
<1> QED BY <1>2, <1>3 DEF CardInv

LEMMA TypeStep ==
    ASSUME HomeInv, NEW r \in Requests, req[r].st \in InLock, NEW x \in RequestType,
           NEW s \in SessionType,
           req' = [req EXCEPT ![r] = x], sessions' = [sessions EXCEPT ![req[r].obj] = s],
           \E w \in {"none", "sent"} : wire' = wire \/ wire' = [wire EXCEPT ![r] = w],
           UNCHANGED <<fallback, closed, home, events, table, hub>>
    PROVE  TypeOK'
<1>1. req' \in [Requests -> RequestType] /\ sessions' \in [Objects -> SessionType]
  BY HolderFacts
<1>2. Entries(table)' = Entries(table)
  BY DEF Entries
<1>3. wire' \in [Requests -> {"none", "sent", "late", "answered", "declined"}]
  BY DEF HomeInv, TypeOK
<1> QED BY <1>1, <1>2, <1>3 DEF HomeInv, TypeOK

\* The handler goes on.
LEMMA GoesStep ==
    ASSUME HomeInv, NEW r \in Requests, req[r].st \in InLock, NEW x \in RequestType,
           NEW s \in SessionType,
           req' = [req EXCEPT ![r] = x], sessions' = [sessions EXCEPT ![req[r].obj] = s],
           x.obj = req[r].obj, ~x.stale, x.card = None,
           s.queue = sessions[req[r].obj].queue, s.life = sessions[req[r].obj].life,
           s.holder = sessions[req[r].obj].holder,
           s.life = "ended" => s.ctx = Blank /\ s.history = 0,
           s.ctx = sessions[req[r].obj].ctx \/ s.ctx = Blank,
           x.ctx \in {Blank, req[r].ctx, sessions[req[r].obj].ctx},
           x.st \in {"recheck", "execute"} => s.ctx = Blank,
           \/ x.st \in InLock \ {"authorize", "execute"} /\ req[r].st # "execute"
              /\ x.plan = req[r].plan /\ wire' = wire
           \/ x.st = "execute" /\ req[r].st = "recheck" /\ Current(r)
              /\ wire' = [wire EXCEPT ![r] = "sent"],
           UNCHANGED <<fallback, closed, home, events, table, hub>>
    PROVE  GoodStep
<1>1. CardGood(r) /\ HandlerGood(r) /\ sessions[req[r].obj].holder = r
  BY HolderFacts
<1>2. x.st \in InLock \ {"authorize"} /\ x.st # "done"
  BY DEF InLock
<1>3. LockInv'
  <2>1. s.ctx.by # None => s.ctx = sessions[req[r].obj].ctx
    BY HomeRecords
  <2>2. PICK o : o = req[r].obj
    OBVIOUS
  <2> QED BY <1>1, <1>2, <2>1, <2>2, HandlerStep
<1>4. wire \in [Requests -> {"none", "sent", "late", "answered", "declined"}]
  BY DEF HomeInv, TypeOK
<1>5. req[r].st \notin {"execute", "done"} /\ req[r].plan = {} /\ wire[r] = "none"
  BY <1>1 DEF InLock, CardGood
<1>6. CardInv'
  <2>1. \A q \in Requests \ {r} : wire'[q] = wire[q]
    BY <1>4
  <2>2. x.st \notin {"execute", "done"} => x.plan = {} /\ wire'[r] = "none"
    BY <1>5
  <2>3. x.card \notin Cards /\ x.card # "executed"
    BY HomeNone DEF Cards
  <2>4. wire[r] # "answered"
    BY <1>5
  <2> QED BY <1>2, <2>1, <2>2, <2>3, <2>4, CardStep
<1>7. TypeOK'
  BY TypeStep
<1>8. SubmitsWell
  BY <1>4 DEF SubmitsWell, Submits
<1> QED BY <1>3, <1>6, <1>7, <1>8 DEF GoodStep, HomeInv

\* The handler returns and releases the lock.
LEMMA ReturnStep ==
    ASSUME HomeInv, NEW r \in Requests, req[r].st \in InLock, NEW card \in Cards,
           NEW s \in SessionType, Return(r, card, s),
           s.queue = sessions[req[r].obj].queue, s.life = sessions[req[r].obj].life,
           s.life = "ended" => s.ctx = Blank /\ s.history = 0,
           s.ctx.by # None =>
              \/ s.ctx.by = r
              \/ s.ctx = sessions[req[r].obj].ctx /\ card \in Quiet,
           \/ wire' = wire
           \/ wire[r] # "answered" /\ wire' = [wire EXCEPT ![r] = "none"],
           card \in Cards \ Spoken => wire'[r] = "none",
           card = "executed" => Confirmed(r, req[r].plan),
           UNCHANGED <<fallback, closed, home, events, table, hub>>
    PROVE  GoodStep
<1>1. CardGood(r) /\ req[r] \in RequestType /\ req \in [Requests -> RequestType]
  BY HolderFacts
<1>2. PICK x : x = [req[r] EXCEPT !.st = "done", !.card = card, !.cand = {}, !.ans = Nothing,
                                  !.ctx = Blank, !.stale = FALSE]
  OBVIOUS
<1>3. x \in RequestType
  BY <1>1, <1>2, HomeRecords DEF RequestType, Stages
<1>4. /\ x.st = "done" /\ x.card = card /\ x.ctx = Blank /\ ~x.stale
      /\ x.obj = req[r].obj /\ x.plan = req[r].plan
  BY <1>1, <1>2 DEF RequestType
<1>5. req' = [req EXCEPT ![r] = x]
  BY <1>1, <1>2 DEF Return
<1>6. PICK y : y = [s EXCEPT !.holder = None]
  OBVIOUS
<1>7. y \in SessionType
  BY <1>6 DEF SessionType
<1>8. /\ y.holder = None /\ y.queue = s.queue /\ y.life = s.life /\ y.ctx = s.ctx
      /\ y.history = s.history
  BY <1>6 DEF SessionType
<1>9. sessions' = [sessions EXCEPT ![req[r].obj] = y]
  BY <1>6 DEF Return
<1>10. wire \in [Requests -> {"none", "sent", "late", "answered", "declined"}]
  BY DEF HomeInv, TypeOK
<1>11. LockInv'
  <2>1. PICK o : o = req[r].obj
    OBVIOUS
  <2>2. x.ctx \in {Blank, req[r].ctx, sessions[o].ctx}
    BY <1>4
  <2>3. y.ctx.by # None =>
              \/ y.ctx.by = r /\ x.st = "done"
              \/ y.ctx = sessions[o].ctx /\ (x.st = "done" => x.card \in Quiet)
    BY <1>4, <1>8, <2>1
  <2>4. y.life = "ended" => y.ctx = Blank /\ y.history = 0
    BY <1>8
  <2>5. x.st \in {"recheck", "execute"} => y.ctx = Blank
    BY <1>4
  <2> QED BY <1>3, <1>4, <1>5, <1>7, <1>8, <1>9, <2>1, <2>2, <2>3, <2>4, <2>5, HandlerStep
<1>12. CardInv'
  <2>1. \A q \in Requests \ {r} : wire'[q] = wire[q]
    BY <1>10
  <2> QED BY <1>3, <1>4, <1>5, <2>1, CardStep
<1>13. TypeOK'
  BY <1>3, <1>5, <1>7, <1>9, TypeStep
<1>14. SubmitsWell
  BY <1>10 DEF SubmitsWell, Submits
<1> QED BY <1>11, <1>12, <1>13, <1>14 DEF GoodStep, HomeInv

\* t is s with another context, at most.
SameLock(s, t) == t.queue = s.queue /\ t.life = s.life /\ t.holder = s.holder

LEMMA HomeShapes ==
    ASSUME NEW s \in SessionType
    PROVE  /\ Wiped(s) \in SessionType /\ SameLock(s, Wiped(s))
           /\ Wiped(s).ctx = Blank /\ Wiped(s).history = 0
           /\ Unfocused(s) \in SessionType /\ SameLock(s, Unfocused(s))
           /\ Unfocused(s).ctx = Blank /\ Unfocused(s).history = s.history
           /\ \A r \in Requests, focus \in SUBSET Refs, pending \in BOOLEAN :
                /\ Remembering(s, r, focus, pending) \in SessionType
                /\ SameLock(s, Remembering(s, r, focus, pending))
                /\ Remembering(s, r, focus, pending).ctx.by = r
<1>1. 0 \in 0 .. HistoryLimit
  BY HomeNone
<1>2. /\ Wiped(s) \in SessionType /\ SameLock(s, Wiped(s))
      /\ Wiped(s).ctx = Blank /\ Wiped(s).history = 0
  BY <1>1, HomeRecords DEF Wiped, SessionType, SameLock
<1>3. /\ Unfocused(s) \in SessionType /\ SameLock(s, Unfocused(s))
      /\ Unfocused(s).ctx = Blank /\ Unfocused(s).history = s.history
  BY HomeRecords DEF Unfocused, SessionType, SameLock
<1>4. ASSUME NEW r \in Requests, NEW focus \in SUBSET Refs, NEW pending \in BOOLEAN
      PROVE  /\ Remembering(s, r, focus, pending) \in SessionType
             /\ SameLock(s, Remembering(s, r, focus, pending))
             /\ Remembering(s, r, focus, pending).ctx.by = r
  <2>1. PICK c : c = [focus |-> focus, pending |-> pending, by |-> r]
    OBVIOUS
  <2>2. c \in ContextType /\ c.by = r
    BY <2>1 DEF ContextType
  <2> DEFINE n == IF s.history < HistoryLimit THEN s.history + 1 ELSE s.history
  <2>3. n \in 0 .. HistoryLimit
    BY HomeNone DEF SessionType
  <2>4. Remembering(s, r, focus, pending) = [s EXCEPT !.ctx = c, !.fresh = TRUE, !.history = n]
    BY <2>1 DEF Remembering, SessionType
  <2> HIDE DEF n
  <2> QED BY <2>2, <2>3, <2>4 DEF SessionType, SameLock
<1> QED BY <1>2, <1>3, <1>4

\* The wire of a handler that has not submitted, and the focus while it executes.
LEMMA HandlerWire ==
    ASSUME HomeInv, NEW r \in Requests, req[r].st \in InLock
    PROVE  /\ req[r].st # "execute" => wire[r] = "none"
           /\ req[r].st \in {"recheck", "execute"} => sessions[req[r].obj].ctx = Blank
           /\ sessions[req[r].obj].life = "ended" =>
                sessions[req[r].obj].ctx = Blank /\ sessions[req[r].obj].history = 0
<1>1. CardGood(r) /\ HandlerGood(r) /\ SessionGood(req[r].obj)
  BY HolderFacts
<1>2. req[r].st # "done"
  BY DEF InLock
<1> QED BY <1>1, <1>2 DEF CardGood, HandlerGood, SessionGood

LEMMA LeaveStep ==
    ASSUME HomeInv, NEW r \in Requests, req[r].st \in InLock, NEW card \in Cards, Leave(r, card),
           card \in Quiet \/ req[r].st \in {"recheck", "execute"},
           \/ wire' = wire
           \/ wire[r] # "answered" /\ wire' = [wire EXCEPT ![r] = "none"],
           card \in Cards \ Spoken => wire'[r] = "none",
           card = "executed" => Confirmed(r, req[r].plan),
           UNCHANGED <<fallback, closed, home, events, table, hub>>
    PROVE  GoodStep
<1>1. PICK s : s = sessions[req[r].obj]
  OBVIOUS
<1>2. s \in SessionType
  BY <1>1, HolderFacts
<1>3. s.ctx.by # None =>
         \/ s.ctx.by = r
         \/ s.ctx = sessions[req[r].obj].ctx /\ card \in Quiet
  BY <1>1, HandlerWire, HomeRecords
<1>4. s.life = "ended" => s.ctx = Blank /\ s.history = 0
  BY <1>1, HandlerWire
<1>5. /\ Return(r, card, s) /\ s.queue = sessions[req[r].obj].queue
      /\ s.life = sessions[req[r].obj].life
  BY <1>1 DEF Leave
<1> QED BY <1>2, <1>3, <1>4, <1>5, ReturnStep

LEMMA NoteStep ==
    ASSUME HomeInv, NEW r \in Requests, req[r].st \in InLock, NEW card \in Cards, Current(r),
           NEW focus \in SUBSET Refs, NEW pending \in BOOLEAN, Note(r, card, focus, pending),
           wire' = wire,
           card \in Cards \ Spoken => wire[r] = "none",
           card = "executed" => Confirmed(r, req[r].plan),
           UNCHANGED <<fallback, closed, home, events, table, hub>>
    PROVE  GoodStep
<1>1. PICK s : s = Remembering(sessions[req[r].obj], r, focus, pending)
  OBVIOUS
<1>2. s \in SessionType /\ SameLock(sessions[req[r].obj], s) /\ s.ctx.by = r
  BY <1>1, HolderFacts, HomeShapes, ZenonT(40)
<1>3. s.queue = sessions[req[r].obj].queue /\ s.life = sessions[req[r].obj].life /\ s.life = "open"
  BY <1>2 DEF SameLock, Current
<1>4. Return(r, card, s)
  BY <1>1 DEF Note
<1> QED BY <1>2, <1>3, <1>4, ReturnStep

LEMMA ForgetStep ==
    ASSUME HomeInv, NEW r \in Requests, req[r].st \in InLock, NEW card \in Cards,
           Forget(r, card), wire' = wire, req[r].st # "execute", card # "executed",
           UNCHANGED <<fallback, closed, home, events, table, hub>>
    PROVE  GoodStep
<1>1. PICK s : s = Unfocused(sessions[req[r].obj])
  OBVIOUS
<1>2. /\ s \in SessionType /\ SameLock(sessions[req[r].obj], s) /\ s.ctx = Blank
      /\ s.history = sessions[req[r].obj].history
  BY <1>1, HolderFacts, HomeShapes
<1>3. s.queue = sessions[req[r].obj].queue /\ s.life = sessions[req[r].obj].life
  BY <1>2 DEF SameLock
<1>4. s.ctx.by = None
  BY <1>2, HomeRecords
<1>5. (s.life = "ended" => s.ctx = Blank /\ s.history = 0) /\ wire'[r] = "none"
  BY <1>2, <1>3, HandlerWire
<1>6. Return(r, card, s)
  BY <1>1 DEF Forget
<1> QED BY <1>2, <1>3, <1>4, <1>5, <1>6, ReturnStep

\* A quiet card, with or without clear() of the context.
LEMMA QuietStep ==
    ASSUME HomeInv, NEW r \in Requests, req[r].st \in InLock, NEW card \in Quiet,
           NEW s, s = sessions[req[r].obj] \/ s = Wiped(sessions[req[r].obj]),
           Return(r, card, s), wire' = wire, req[r].st # "execute",
           UNCHANGED <<fallback, closed, home, events, table, hub>>
    PROVE  GoodStep
<1>1. card \in Cards /\ card # "executed"
  BY DEF Quiet, Cards
<1>2. wire'[r] = "none"
  BY HandlerWire
<1>3. CASE s = sessions[req[r].obj]
  BY <1>1, <1>2, <1>3, LeaveStep DEF Leave
<1>4. CASE s = Wiped(sessions[req[r].obj])
  <2>1. s \in SessionType /\ SameLock(sessions[req[r].obj], s) /\ s.ctx = Blank /\ s.history = 0
    BY <1>4, HolderFacts, HomeShapes
  <2>2. s.queue = sessions[req[r].obj].queue /\ s.life = sessions[req[r].obj].life
    BY <2>1 DEF SameLock
  <2>3. s.ctx.by = None
    BY <2>1, HomeRecords
  <2> QED BY <1>1, <1>2, <2>1, <2>2, <2>3, ReturnStep
<1> QED BY <1>3, <1>4

LEMMA GiveUpStep ==
    ASSUME HomeInv, NEW r \in Requests, req[r].st \in InLock \ {"execute"}, GiveUp(r),
           UNCHANGED outside
    PROVE  GoodStep
<1>1. PICK s : s = IF Current(r) THEN Wiped(sessions[req[r].obj]) ELSE sessions[req[r].obj]
  OBVIOUS
<1>2. "unavailable" \in Quiet
  BY DEF Quiet
<1>3. Return(r, "unavailable", s)
  BY <1>1 DEF GiveUp
<1>4. wire' = wire /\ UNCHANGED <<fallback, closed, home, events, table, hub>>
  BY DEF outside
<1>5. s = sessions[req[r].obj] \/ s = Wiped(sessions[req[r].obj])
  BY <1>1
<1> QED BY <1>2, <1>3, <1>4, <1>5, QuietStep

(***************************************************************************)
(* The steps of a handler, one by one.                                     *)
(***************************************************************************)
LEMMA AuthorizedStep ==
    ASSUME HomeInv, NEW r \in Requests, Authorized(r) \/ Denied(r)
    PROVE  GoodStep
<1>1. req[r].st = "authorize" /\ req[r].st \in InLock
  BY DEF Authorized, Denied, InLock
<1>2. wire' = wire /\ UNCHANGED <<fallback, closed, home, events, table, hub>>
  BY DEF Authorized, Denied, outside
<1>3. {"unavailable", "unheard", "refused"} \subseteq Quiet
  BY DEF Quiet
<1>4. CASE Leave(r, "unavailable") \/ Leave(r, "refused")
  BY <1>1, <1>2, <1>3, <1>4, QuietStep DEF Leave
<1>5. PICK s : s = sessions[req[r].obj]
  OBVIOUS
<1>6. CASE Return(r, "unheard", IF s.fresh THEN s ELSE Wiped(s))
  <2>1. PICK t : t = IF s.fresh THEN s ELSE Wiped(s)
    OBVIOUS
  <2> QED BY <1>1, <1>2, <1>3, <1>5, <1>6, <2>1, QuietStep
<1>7. /\ req[r] \in RequestType /\ req \in [Requests -> RequestType] /\ s \in SessionType
      /\ sessions \in [Objects -> SessionType] /\ req[r].obj \in Objects
      /\ CardGood(r) /\ HandlerGood(r)
  BY <1>1, <1>5, HolderFacts
<1>8. req[r].card = None /\ ~req[r].stale
  BY <1>1, <1>7 DEF CardGood, HandlerGood
<1>9. s.life = "ended" => s.ctx = Blank /\ s.history = 0
  BY <1>1, <1>5, HandlerWire
<1>10. "snapshot" \in InLock \ {"authorize", "execute"} /\ "snapshot" \notin {"recheck", "execute"}
  BY DEF InLock
<1>11. CASE req' = [req EXCEPT ![r].st = "snapshot", ![r].ctx = s.ctx] /\ UNCHANGED sessions
  <2>1. PICK x : x = [req[r] EXCEPT !.st = "snapshot", !.ctx = s.ctx]
    OBVIOUS
  <2>2. x \in RequestType
    BY <1>7, <2>1 DEF RequestType, Stages, SessionType
  <2>3. /\ x.st = "snapshot" /\ x.ctx = s.ctx /\ x.obj = req[r].obj /\ x.stale = req[r].stale
        /\ x.card = req[r].card /\ x.plan = req[r].plan
    BY <1>7, <2>1 DEF RequestType
  <2>4. req' = [req EXCEPT ![r] = x] /\ sessions' = [sessions EXCEPT ![req[r].obj] = s]
    BY <1>5, <1>7, <1>11, <2>1
  <2>5. x.ctx \in {Blank, req[r].ctx, sessions[req[r].obj].ctx}
    BY <1>5, <2>3
  <2> QED BY <1>1, <1>2, <1>5, <1>7, <1>8, <1>9, <1>10, <2>2, <2>3, <2>4, <2>5, GoesStep
<1>12. CASE Goes(r, "snapshot") /\ sessions' = [sessions EXCEPT ![req[r].obj] = Wiped(s)]
  <2>1. PICK x : x = [req[r] EXCEPT !.st = "snapshot"]
    OBVIOUS
  <2>2. x \in RequestType
    BY <1>7, <2>1 DEF RequestType, Stages
  <2>3. /\ x.st = "snapshot" /\ x.ctx = req[r].ctx /\ x.obj = req[r].obj /\ x.stale = req[r].stale
        /\ x.card = req[r].card /\ x.plan = req[r].plan
    BY <1>7, <2>1 DEF RequestType
  <2>4. PICK t : t = Wiped(s)
    OBVIOUS
  <2>5. req' = [req EXCEPT ![r] = x] /\ sessions' = [sessions EXCEPT ![req[r].obj] = t]
    BY <1>7, <1>12, <2>1, <2>4 DEF Goes
  <2>6. t \in SessionType /\ SameLock(s, t) /\ t.ctx = Blank /\ t.history = 0
    BY <1>7, <2>4, HomeShapes
  <2>7. t.queue = s.queue /\ t.life = s.life /\ t.holder = s.holder
    BY <2>6 DEF SameLock
  <2>8. x.ctx \in {Blank, req[r].ctx, sessions[req[r].obj].ctx}
    BY <2>3
  <2> QED BY <1>1, <1>2, <1>5, <1>7, <1>8, <1>10, <2>2, <2>3, <2>5, <2>6, <2>7, <2>8, GoesStep
<1> QED BY <1>4, <1>5, <1>6, <1>11, <1>12 DEF Authorized, Denied

\* The request changes, the session does not.
LEMMA AloneStep ==
    ASSUME HomeInv, NEW r \in Requests, req[r].st \in InLock \ {"execute"}, NEW x \in RequestType,
           req' = [req EXCEPT ![r] = x], UNCHANGED sessions,
           x.obj = req[r].obj, x.stale = req[r].stale, x.card = req[r].card, x.plan = req[r].plan,
           x.st \in {"primary", "fallback", "offer"},
           x.ctx \in {Blank, req[r].ctx},
           UNCHANGED outside
    PROVE  GoodStep
<1>1. wire' = wire /\ UNCHANGED <<fallback, closed, home, events, table, hub>>
  BY DEF outside
<1>2. PICK s : s = sessions[req[r].obj]
  OBVIOUS
<1>3. /\ s \in SessionType /\ sessions \in [Objects -> SessionType] /\ req[r].obj \in Objects
      /\ CardGood(r) /\ HandlerGood(r)
  BY <1>2, HolderFacts
<1>4. req[r].st # "done" /\ x.st \in InLock \ {"authorize", "execute"} /\ req[r].st # "execute"
      /\ x.st \notin {"recheck", "execute"}
  BY DEF InLock
<1>5. x.card = None /\ ~x.stale
  BY <1>3, <1>4 DEF CardGood, HandlerGood
<1>6. s.life = "ended" => s.ctx = Blank /\ s.history = 0
  BY <1>2, HandlerWire
<1>7. sessions' = [sessions EXCEPT ![req[r].obj] = s]
  BY <1>2, <1>3
<1>8. x.ctx \in {Blank, req[r].ctx, sessions[req[r].obj].ctx}
  OBVIOUS
<1> QED BY <1>1, <1>2, <1>3, <1>4, <1>5, <1>6, <1>7, <1>8, GoesStep

LEMMA SnapshotStep ==
    ASSUME HomeInv, NEW r \in Requests, Snapshot(r) \/ SnapshotFails(r)
    PROVE  GoodStep
<1>1. req[r].st = "snapshot" /\ req[r].st \in InLock \ {"execute"} /\ UNCHANGED outside
  BY DEF Snapshot, SnapshotFails, InLock
<1>2. wire' = wire /\ UNCHANGED <<fallback, closed, home, events, table, hub>>
  BY <1>1 DEF outside
<1>3. CASE Leave(r, "unavailable")
  BY <1>1, <1>2, <1>3, QuietStep DEF Leave, Quiet
<1>4. CASE SnapshotFails(r)
  BY <1>1, <1>4, GiveUpStep DEF SnapshotFails
<1>5. CASE Snapshot(r) /\ ~Leave(r, "unavailable")
  <2>1. req[r] \in RequestType /\ req \in [Requests -> RequestType] /\ home \subseteq Refs
    BY <1>1, HolderFacts DEF HomeInv, TypeOK
  <2>2. PICK c : c = IF Expired(r) THEN Blank ELSE req[r].ctx
    OBVIOUS
  <2>3. c \in {Blank, req[r].ctx} /\ c \in ContextType
    BY <2>1, <2>2, HomeRecords DEF RequestType
  <2>4. PICK x : x = [req[r] EXCEPT !.st = "primary", !.cand = home, !.ctx = c]
    OBVIOUS
  <2>5. x \in RequestType
    BY <2>1, <2>3, <2>4 DEF RequestType, Stages
  <2>6. /\ x.st = "primary" /\ x.ctx = c /\ x.obj = req[r].obj /\ x.stale = req[r].stale
        /\ x.card = req[r].card /\ x.plan = req[r].plan
    BY <2>1, <2>4 DEF RequestType
  <2>7. req' = [req EXCEPT ![r] = x] /\ UNCHANGED sessions
    BY <1>5, <2>1, <2>2, <2>4 DEF Snapshot
  <2> QED BY <1>1, <2>3, <2>5, <2>6, <2>7, AloneStep
<1> QED BY <1>3, <1>4, <1>5

LEMMA EscalateStep ==
    ASSUME HomeInv, NEW r \in Requests, Escalate(r)
    PROVE  GoodStep
<1>1. req[r].st \in InLock \ {"execute"} /\ UNCHANGED <<outside, sessions>>
  BY DEF Escalate, InLock
<1>2. req[r] \in RequestType /\ req \in [Requests -> RequestType]
  BY <1>1, HolderFacts
<1>3. PICK c : c = IF Expired(r) THEN Blank ELSE req[r].ctx
  OBVIOUS
<1>4. c \in {Blank, req[r].ctx} /\ c \in ContextType
  BY <1>2, <1>3, HomeRecords DEF RequestType
<1>5. PICK x : x = [req[r] EXCEPT !.st = "fallback", !.ctx = c]
  OBVIOUS
<1>6. x \in RequestType
  BY <1>2, <1>4, <1>5 DEF RequestType, Stages
<1>7. /\ x.st = "fallback" /\ x.ctx = c /\ x.obj = req[r].obj /\ x.stale = req[r].stale
      /\ x.card = req[r].card /\ x.plan = req[r].plan
  BY <1>2, <1>5 DEF RequestType
<1>8. req' = [req EXCEPT ![r] = x]
  BY <1>2, <1>3, <1>5 DEF Escalate
<1> QED BY <1>1, <1>4, <1>6, <1>7, <1>8, AloneStep

\* An answer that came before the context had expired, or that is about no device.
LEMMA UnderstoodStep ==
    ASSUME HomeInv, NEW r \in Requests, req[r].st \in {"primary", "fallback"},
           NEW u \in UnderstandingType, Understood(r, u),
           u.kind \in {"control", "query"} => ~Expired(r),
           UNCHANGED outside
    PROVE  GoodStep
<1>1. req[r].st \in InLock \ {"execute"} /\ req[r].st # "execute"
  BY DEF InLock
<1>2. wire' = wire /\ UNCHANGED <<fallback, closed, home, events, table, hub>>
  BY DEF outside
<1>3. /\ req[r] \in RequestType /\ req \in [Requests -> RequestType]
      /\ sessions[req[r].obj] \in SessionType /\ sessions \in [Objects -> SessionType]
      /\ req[r].obj \in Objects /\ CardGood(r)
  BY <1>1, HolderFacts
<1>4. wire[r] = "none" /\ req[r].card = None
  BY <1>1, <1>3, HandlerWire DEF CardGood, InLock
<1>5. u.targets \in SUBSET Refs /\ {} \in SUBSET Refs
  BY DEF UnderstandingType
<1>6. CASE Leave(r, "unavailable")
  BY <1>1, <1>2, <1>6, QuietStep DEF Leave, Quiet
<1>7. CASE Current(r) /\ (Note(r, "answered", {}, FALSE) \/ Note(r, "unrelated", {}, FALSE)
                          \/ Note(r, "clarification", u.targets, TRUE))
  BY <1>1, <1>2, <1>4, <1>5, <1>7, NoteStep DEF Cards
<1>8. CASE Dropped(r, "failed") \/ Dropped(r, "not_found")
  BY <1>1, <1>2, <1>8, ForgetStep DEF Dropped, Cards
<1>9. CASE req' = [req EXCEPT ![r].st = "offer", ![r].ans = u] /\ UNCHANGED sessions
  <2>1. PICK x : x = [req[r] EXCEPT !.st = "offer", !.ans = u]
    OBVIOUS
  <2>2. x \in RequestType
    BY <1>3, <2>1 DEF RequestType, Stages
  <2>3. /\ x.st = "offer" /\ x.ctx = req[r].ctx /\ x.obj = req[r].obj /\ x.stale = req[r].stale
        /\ x.card = req[r].card /\ x.plan = req[r].plan
    BY <1>3, <2>1 DEF RequestType
  <2>4. req' = [req EXCEPT ![r] = x]
    BY <1>3, <1>9, <2>1
  <2> QED BY <1>1, <1>9, <2>2, <2>3, <2>4, AloneStep
<1>10. CASE /\ u.kind \in {"control", "query"}
            /\ req' = [req EXCEPT ![r].st = "recheck", ![r].ans = u, ![r].stale = Expired(r)]
            /\ sessions' = [sessions EXCEPT ![req[r].obj] = Unfocused(@)]
  <2>1. PICK x : x = [req[r] EXCEPT !.st = "recheck", !.ans = u, !.stale = FALSE]
    OBVIOUS
  <2>2. x \in RequestType
    BY <1>3, <2>1 DEF RequestType, Stages
  <2>3. /\ x.st = "recheck" /\ x.ctx = req[r].ctx /\ x.obj = req[r].obj /\ ~x.stale
        /\ x.card = req[r].card /\ x.plan = req[r].plan
    BY <1>3, <2>1 DEF RequestType
  <2>4. Expired(r) = FALSE
    BY <1>10 DEF Expired
  <2>5. req' = [req EXCEPT ![r] = x]
    BY <1>3, <1>10, <2>1, <2>4
  <2>6. PICK t : t = Unfocused(sessions[req[r].obj])
    OBVIOUS
  <2>7. /\ t \in SessionType /\ SameLock(sessions[req[r].obj], t) /\ t.ctx = Blank
        /\ t.history = sessions[req[r].obj].history
    BY <1>3, <2>6, HomeShapes
  <2>8. /\ t.queue = sessions[req[r].obj].queue /\ t.life = sessions[req[r].obj].life
        /\ t.holder = sessions[req[r].obj].holder
    BY <2>7 DEF SameLock
  <2>9. t.life = "ended" => t.ctx = Blank /\ t.history = 0
    BY <1>1, <2>7, <2>8, HandlerWire
  <2>10. sessions' = [sessions EXCEPT ![req[r].obj] = t]
    BY <1>3, <1>10, <2>6
  <2>11. /\ x.st \in InLock \ {"authorize", "execute"}
         /\ x.ctx \in {Blank, req[r].ctx, sessions[req[r].obj].ctx}
    BY <2>3 DEF InLock
  <2> QED BY <1>1, <1>2, <1>4, <2>2, <2>3, <2>5, <2>7, <2>8, <2>9, <2>10, <2>11, GoesStep
<1> QED BY <1>6, <1>7, <1>8, <1>9, <1>10 DEF Understood

LEMMA HomeAnswerStep ==
    ASSUME HomeInv, NEW r \in Requests,
           \/ PrimaryAbstains(r) \/ PrimaryFails(r) \/ FallbackFails(r)
           \/ \E u \in Understandings[r] : PrimaryDecides(r, u)
           \/ \E u \in Understandings[r] \union {Nothing} : FallbackAnswers(r, u)
    PROVE  GoodStep
<1>1. UNCHANGED outside /\ req[r].st \in {"primary", "fallback"}
  BY DEF PrimaryAbstains, PrimaryFails, FallbackFails, PrimaryDecides, FallbackAnswers
<1>2. req[r].st \in InLock \ {"execute"}
  BY <1>1 DEF InLock
<1>3. Understandings[r] \union {Nothing} \subseteq UnderstandingType
  BY HomeAssumption, HomeRecords
<1>4. CASE GiveUp(r)
  BY <1>1, <1>2, <1>4, GiveUpStep
<1>5. Nothing.kind \notin {"control", "query"}
  BY DEF Nothing
<1>6. CASE PrimaryAbstains(r)
  BY <1>1, <1>3, <1>5, <1>6, UnderstoodStep DEF PrimaryAbstains
<1>7. CASE \E u \in Understandings[r] : PrimaryDecides(r, u)
  BY <1>1, <1>3, <1>7, UnderstoodStep DEF PrimaryDecides
<1>8. ASSUME NEW u \in UnderstandingType, FallbackAnswers(r, u), ~GiveUp(r)
      PROVE  GoodStep
  <2>1. PICK v : v = Referred(r, u)
    OBVIOUS
  <2>2. PICK w : w = Timely(r, v)
    OBVIOUS
  <2>3. /\ v.targets \subseteq req[r].cand /\ Understood(r, w)
    BY <1>8, <2>1, <2>2 DEF FallbackAnswers, Valid
  <2>4. req[r] \in RequestType
    BY <1>2, HolderFacts
  <2>5. Clarify({}, None) \in UnderstandingType /\ Clarify({}, None).kind = "clarify"
    BY DEF Clarify, UnderstandingType
  <2>6. Clarify(req[r].ctx.focus, u.action) \in UnderstandingType
    BY <2>4 DEF Clarify, UnderstandingType, RequestType, ContextType
  <2>7. v \in UnderstandingType
    BY <2>1, <2>5, <2>6 DEF Referred
  <2>8. w \in UnderstandingType /\ (w.kind \in {"control", "query"} => ~Expired(r))
    BY <2>2, <2>5, <2>7 DEF Timely
  <2> QED BY <1>1, <2>3, <2>8, UnderstoodStep
<1> QED BY <1>3, <1>4, <1>6, <1>7, <1>8 DEF PrimaryFails, FallbackFails
LEMMA OfferStep ==
    ASSUME HomeInv, NEW r \in Requests, Offer(r)
    PROVE  GoodStep
<1>1. req[r].st = "offer" /\ req[r].st \in InLock \ {"execute"} /\ UNCHANGED outside
  BY DEF Offer, InLock
<1>2. wire' = wire /\ UNCHANGED <<fallback, closed, home, events, table, hub>>
  BY <1>1 DEF outside
<1>3. wire[r] = "none" /\ req[r].ans \in UnderstandingType
  BY <1>1, HandlerWire, HolderFacts DEF RequestType
<1>4. PICK u : u = req[r].ans
  OBVIOUS
<1>5. PICK able : able = Able(u.targets, u.action)
  OBVIOUS
<1>6. u.targets \in SUBSET Refs /\ able \in SUBSET Refs
  BY <1>3, <1>4, <1>5 DEF UnderstandingType, Able, Refs
<1>7. CASE Leave(r, "unavailable")
  BY <1>1, <1>2, <1>7, QuietStep DEF Leave, Quiet
<1>8. CASE /\ Current(r)
           /\ Note(r, "ambiguous", able, TRUE) \/ Note(r, "clarification", u.targets, TRUE)
  BY <1>1, <1>2, <1>3, <1>6, <1>8, NoteStep DEF Cards
<1> QED BY <1>4, <1>5, <1>7, <1>8 DEF Offer

LEMMA DirectoryStep ==
    ASSUME HomeInv, NEW r \in Requests, DirectoryFails(r)
    PROVE  GoodStep
<1>1. req[r].st \in InLock \ {"execute"} /\ UNCHANGED outside /\ Leave(r, "unavailable")
  BY DEF DirectoryFails, InLock
<1>2. wire' = wire /\ UNCHANGED <<fallback, closed, home, events, table, hub>>
  BY <1>1 DEF outside
<1> QED BY <1>1, <1>2, QuietStep DEF Leave, Quiet

LEMMA SubmitStep ==
    ASSUME HomeInv, NEW r \in Requests, req[r].st = "recheck", Current(r),
           NEW plan \in SUBSET Refs, Submit(r, plan),
           UNCHANGED <<fallback, closed, home, events, table, hub>>
    PROVE  GoodStep
<1>1. req[r].st \in InLock
  BY DEF InLock
<1>2. PICK s : s = sessions[req[r].obj]
  OBVIOUS
<1>3. /\ req[r] \in RequestType /\ req \in [Requests -> RequestType]
      /\ s \in SessionType /\ sessions \in [Objects -> SessionType]
      /\ req[r].obj \in Objects /\ CardGood(r) /\ HandlerGood(r)
  BY <1>1, <1>2, HolderFacts
<1>4. PICK x : x = [req[r] EXCEPT !.st = "execute", !.plan = plan, !.cand = {}, !.ans = Nothing]
  OBVIOUS
<1>5. x \in RequestType
  BY <1>3, <1>4, HomeRecords DEF RequestType, Stages
<1>6. /\ x.st = "execute" /\ x.ctx = req[r].ctx /\ x.obj = req[r].obj /\ x.stale = req[r].stale
      /\ x.card = req[r].card
  BY <1>3, <1>4 DEF RequestType
<1>7. /\ req' = [req EXCEPT ![r] = x] /\ sessions' = [sessions EXCEPT ![req[r].obj] = s]
      /\ wire' = [wire EXCEPT ![r] = "sent"]
  BY <1>2, <1>3, <1>4 DEF Submit
<1>8. req[r].card = None /\ ~req[r].stale /\ s.ctx = Blank
  BY <1>2, <1>3 DEF CardGood, HandlerGood
<1>9. s.life = "ended" => s.ctx = Blank /\ s.history = 0
  BY <1>1, <1>2, HandlerWire
<1>10. x.ctx \in {Blank, req[r].ctx, sessions[req[r].obj].ctx}
  BY <1>6
<1> QED BY <1>1, <1>2, <1>3, <1>5, <1>6, <1>7, <1>8, <1>9, <1>10, GoesStep

LEMMA PlanStep ==
    ASSUME HomeInv, NEW r \in Requests, req[r].st = "recheck", Current(r),
           NEW targets \in SUBSET Refs, NEW a, Plan(r, targets, a),
           UNCHANGED <<fallback, closed, home, events, table, hub>>
    PROVE  GoodStep
<1>1. req[r].st \in InLock /\ wire[r] = "none"
  BY HandlerWire DEF InLock
<1>2. PICK able : able = Able(targets, a)
  OBVIOUS
<1>3. able \in SUBSET Refs
  BY <1>2 DEF Able, Refs
<1>4. CASE Leave(r, "failed") /\ Silent
  <2>1. "failed" \in Cards /\ "failed" # "executed" /\ "failed" \in Spoken
    BY DEF Cards, Spoken
  <2> QED BY <1>1, <1>4, <2>1, LeaveStep DEF Silent
<1>5. CASE Note(r, "clarification", targets, TRUE) /\ Silent
  BY <1>1, <1>5, NoteStep DEF Silent, Cards
<1>6. CASE Submit(r, targets) \/ Submit(r, able)
  BY <1>3, <1>6, SubmitStep
<1> QED BY <1>2, <1>4, <1>5, <1>6 DEF Plan

LEMMA RecheckStep ==
    ASSUME HomeInv, NEW r \in Requests, Recheck(r)
    PROVE  GoodStep
<1>1. /\ req[r].st = "recheck" /\ req[r].st \in InLock
      /\ UNCHANGED <<fallback, closed, home, events, table, hub>>
  BY DEF Recheck, InLock
<1>2. wire[r] = "none" /\ req[r].ans \in UnderstandingType
  BY <1>1, HandlerWire, HolderFacts DEF RequestType
<1>3. PICK u : u = req[r].ans
  OBVIOUS
<1>4. PICK able : able = Able(u.targets, u.action)
  OBVIOUS
<1>5. u.targets \in SUBSET Refs /\ able \in SUBSET Refs
  BY <1>2, <1>3, <1>4 DEF UnderstandingType, Able, Refs
<1>6. CASE (Leave(r, "not_found") \/ Leave(r, "unavailable") \/ Leave(r, "failed")) /\ Silent
  <2>1. PICK card \in {"not_found", "unavailable", "failed"} : Leave(r, card)
    BY <1>6
  <2>2. card \in Cards /\ card # "executed"
    BY <2>1 DEF Cards
  <2> QED BY <1>1, <1>2, <1>6, <2>1, <2>2, LeaveStep DEF Silent
<1>7. CASE /\ Current(r) /\ Silent
           /\ Note(r, "answered", u.targets, FALSE) \/ Note(r, "ambiguous", able, TRUE)
  BY <1>1, <1>2, <1>5, <1>7, NoteStep DEF Silent, Cards
<1>8. CASE Current(r) /\ (Plan(r, u.targets, u.action) \/ Plan(r, able, u.action))
  BY <1>1, <1>5, <1>8, PlanStep
<1> QED BY <1>3, <1>4, <1>6, <1>7, <1>8 DEF Recheck, Acts

\* An answer whose summary is "executed" confirms every device of the plan.
LEMMA ExecutedIsConfirmed ==
    ASSUME HomeInv, NEW r \in Requests, NEW h \in Answers(r),
           Completion(req[r].plan, h.res) = "executed"
    PROVE  Confirmed(r, req[r].plan)
<1>1. h \in hub /\ h.id = Turn[r] /\ HubGood(h)
  BY DEF Answers, RequestId, HomeInv, CardInv
<1>2. Turn[h.for] = Turn[r] /\ (h.for = r => h.plan = req[r].plan)
  BY <1>1 DEF HubGood
<1>3. PICK plan : plan = req[r].plan
  OBVIOUS
<1>4. PICK res : res = h.res
  OBVIOUS
<1>5. PICK of : of = IF plan \subseteq Devices THEN plan ELSE DOMAIN res
  OBVIOUS
<1>6. PICK done : done = {d \in of \intersect DOMAIN res : res[d]}
  OBVIOUS
<1>7. done # {} /\ Aligned(plan, res) /\ done = of
  BY <1>3, <1>4, <1>5, <1>6 DEF Completion
<1>8. plan \subseteq Devices => DOMAIN res = plan
  BY <1>5, <1>7, HomeAssumption DEF Aligned
<1>9. of = DOMAIN res
  BY <1>5, <1>8
<1>10. DOMAIN res # {} /\ \A d \in DOMAIN res : res[d]
  BY <1>6, <1>7, <1>9
<1> QED BY <1>1, <1>2, <1>3, <1>4, <1>8, <1>10 DEF Confirmed

LEMMA OutcomeStep ==
    ASSUME HomeInv, NEW r \in Requests,
           Receive(r) \/ Declined(r) \/ NotConnected(r) \/ NoReply(r)
    PROVE  GoodStep
<1>1. req[r].st = "execute" /\ req[r].st \in InLock
  BY DEF Receive, Declined, NotConnected, NoReply, InLock
<1>2. UNCHANGED <<fallback, closed, home, events, table, hub>>
  BY DEF Receive, Declined, NotConnected, NoReply, outside
<1>3. "failed" \in Cards /\ "failed" \in Spoken
  BY DEF Cards, Spoken
<1>4. CASE Declined(r) \/ NoReply(r)
  BY <1>1, <1>2, <1>3, <1>4, LeaveStep DEF Declined, NoReply, Unconfirmed, outside
<1>5. CASE NotConnected(r)
  <2>1. wire \in [Requests -> {"none", "sent", "late", "answered", "declined"}]
    BY DEF HomeInv, TypeOK
  <2>2. wire' = [wire EXCEPT ![r] = "none"] /\ wire[r] # "answered" /\ wire'[r] = "none"
    BY <1>5, <2>1 DEF NotConnected, ToHub
  <2>3. "unavailable" \in Cards /\ "unavailable" # "executed" /\ Leave(r, "unavailable")
    BY <1>5 DEF Cards, NotConnected
  <2> QED BY <1>1, <1>2, <2>2, <2>3, LeaveStep
<1>6. CASE Receive(r)
  <2>1. wire' = wire
    BY <1>6 DEF Receive, outside
  <2>2. PICK h \in Answers(r) :
           LET card == Completion(req[r].plan, h.res) IN
           \/ Remembers(r, card) /\ Note(r, card, req[r].plan, FALSE)
           \/ ~Remembers(r, card) /\ Leave(r, card)
    BY <1>6 DEF Receive
  <2>3. PICK card : card = Completion(req[r].plan, h.res)
    OBVIOUS
  <2>4. card \in Cards /\ card \in Spoken
    BY <2>3 DEF Completion, Cards, Spoken
  <2>5. card = "executed" => Confirmed(r, req[r].plan)
    BY <2>2, <2>3, ExecutedIsConfirmed
  <2>6. req[r].plan \in SUBSET Refs
    BY <1>1, HolderFacts DEF RequestType
  <2>7. CASE Remembers(r, card) /\ Note(r, card, req[r].plan, FALSE)
    <3>1. Current(r)
      BY <2>7 DEF Remembers
    <3>2. card \notin Cards \ Spoken
      BY <2>4
    <3> QED BY <1>1, <1>2, <2>1, <2>4, <2>5, <2>6, <2>7, <3>1, <3>2, NoteStep
  <2>8. CASE Leave(r, card)
    <3>1. card \notin Cards \ Spoken
      BY <2>4
    <3> QED BY <1>1, <1>2, <2>1, <2>4, <2>5, <2>8, <3>1, LeaveStep
  <2> QED BY <2>2, <2>3, <2>7, <2>8
<1> QED BY <1>4, <1>5, <1>6

LEMMA AdvanceStep ==
    ASSUME HomeInv, NEW r \in Requests, Advance(r)
    PROVE  GoodStep
BY AuthorizedStep, SnapshotStep, EscalateStep, HomeAnswerStep, OfferStep, RecheckStep,
   DirectoryStep, OutcomeStep DEF Advance

(***************************************************************************)
(* Steps that are not a handler's.                                         *)
(***************************************************************************)
\* What may happen to a session that no request takes or leaves.
Drift(s, t) ==
    /\ t.queue = s.queue /\ t.holder = s.holder
    /\ t.life = "unused" => s.life = "unused"
    /\ t.life = "ended" => t.ctx = Blank /\ t.history = 0
    /\ t.ctx = s.ctx \/ t.ctx = Blank

LEMMA DriftStep ==
    ASSUME HomeInv, req' = req, sessions' \in [Objects -> SessionType],
           \A o \in Objects : Drift(sessions[o], sessions'[o])
    PROVE  LockInv'
<1>1. /\ \A o \in Objects : SessionGood(o) /\ Drift(sessions[o], sessions'[o])
      /\ \A q \in Requests : HandlerGood(q)
      /\ \A p, q \in Requests : OrderGood(p, q)
  BY DEF HomeInv, LockInv
<1>2. ASSUME NEW o \in Objects PROVE SessionGood(o)'
  <2>1. SessionGood(o) /\ Drift(sessions[o], sessions'[o])
    BY <1>1
  <2>2. sessions'[o].ctx.by # None => sessions'[o].ctx = sessions[o].ctx
    BY <2>1, HomeRecords DEF Drift
  <2> QED BY <2>1, <2>2 DEF SessionGood, Drift
<1>3. ASSUME NEW q \in Requests PROVE HandlerGood(q)'
  <2>1. HandlerGood(q)
    BY <1>1
  <2>2. req[q].st \in InLock \union {"queued"} => req[q].obj \in Objects
    BY <2>1 DEF HandlerGood
  <2>3. req[q].st \in {"recheck", "execute"} => req[q].st \in InLock
    BY DEF InLock
  <2>4. req[q].st \in InLock \union {"queued"} =>
           Drift(sessions[req[q].obj], sessions'[req[q].obj])
    BY <1>1, <2>2
  <2> QED BY <2>1, <2>2, <2>3, <2>4 DEF HandlerGood, Drift
<1>4. ASSUME NEW p \in Requests, NEW q \in Requests PROVE OrderGood(p, q)'
  BY <1>1 DEF OrderGood
<1> QED BY <1>2, <1>3, <1>4 DEF LockInv

\* A step of the surroundings: cards, plans and the wire stay as they are.
LEMMA SurroundingStep ==
    ASSUME HomeInv, UNCHANGED <<fallback, req, wire, hub>>,
           closed' \in BOOLEAN, home' \subseteq Refs, events' \in 0..MaxEvents,
           table' \in [Keys -> Objects \union {0}], Cardinality(Entries(table')) <= Capacity,
           sessions' \in [Objects -> SessionType],
           \A o \in Objects : Drift(sessions[o], sessions'[o])
    PROVE  GoodStep
<1>1. LockInv'
  BY DriftStep
<1>2. CardInv'
  BY DEF HomeInv, CardInv, CardGood, HubGood, Confirmed
<1>3. TypeOK'
  BY DEF HomeInv, TypeOK, Entries
<1>4. SubmitsWell
  BY DEF SubmitsWell, Submits
<1> QED BY <1>1, <1>2, <1>3, <1>4 DEF GoodStep, HomeInv

\* One session changes.
LEMMA OneSessionStep ==
    ASSUME HomeInv, NEW o \in Objects, NEW t \in SessionType, Drift(sessions[o], t),
           sessions' = [sessions EXCEPT ![o] = t], Happens,
           UNCHANGED <<fallback, closed, home, table, req, wire, hub>>
    PROVE  GoodStep
<1>1. /\ sessions \in [Objects -> SessionType] /\ closed \in BOOLEAN /\ home \subseteq Refs
      /\ table \in [Keys -> Objects \union {0}] /\ Cardinality(Entries(table)) <= Capacity
      /\ events \in 0 .. MaxEvents
  BY DEF HomeInv, TypeOK
<1>2. \A p \in Objects : SessionGood(p)
  BY DEF HomeInv, LockInv
<1>3. \A p \in Objects : Drift(sessions[p], sessions'[p])
  BY <1>1, <1>2 DEF Drift, SessionGood
<1>4. events' \in 0 .. MaxEvents
  BY <1>1, HomeAssumption DEF Happens
<1>5. Cardinality(Entries(table')) <= Capacity
  BY <1>1 DEF Entries
<1> QED BY <1>1, <1>3, <1>4, <1>5, SurroundingStep

LEMMA EventStep ==
    ASSUME HomeInv, NEW o \in Objects, EndSession(o) \/ ContextExpires(o) \/ SessionCools(o)
    PROVE  GoodStep
<1>1. PICK s : s = sessions[o]
  OBVIOUS
<1>2. s \in SessionType /\ sessions \in [Objects -> SessionType]
  BY <1>1 DEF HomeInv, TypeOK
<1>3. s.life = "ended" => s.ctx = Blank /\ s.history = 0
  BY <1>1 DEF HomeInv, LockInv, SessionGood
<1>4. Happens /\ UNCHANGED <<fallback, closed, home, table, req, wire, hub>>
  BY DEF EndSession, ContextExpires, SessionCools
<1>5. CASE EndSession(o)
  <2>1. PICK w : w = Wiped(s)
    OBVIOUS
  <2>2. w \in SessionType /\ SameLock(s, w) /\ w.ctx = Blank /\ w.history = 0
    BY <1>2, <2>1, HomeShapes
  <2>3. PICK t : t = [w EXCEPT !.life = "ended", !.cold = FALSE]
    OBVIOUS
  <2>4. t \in SessionType
    BY <2>2, <2>3 DEF SessionType
  <2>5. /\ t.queue = w.queue /\ t.holder = w.holder /\ t.life = "ended"
      /\ t.ctx = w.ctx /\ t.history = w.history
    BY <2>2, <2>3 DEF SessionType
  <2>6. Drift(s, t)
    BY <2>2, <2>5 DEF Drift, SameLock
  <2>7. sessions' = [sessions EXCEPT ![o] = t]
    BY <1>1, <1>2, <1>5, <2>1, <2>3 DEF EndSession, Ending
  <2> QED BY <1>1, <1>4, <2>4, <2>6, <2>7, OneSessionStep
<1>6. CASE ContextExpires(o)
  <2>1. PICK t : t = [s EXCEPT !.fresh = FALSE]
    OBVIOUS
  <2>2. t \in SessionType
    BY <1>2, <2>1 DEF SessionType
  <2>3. /\ t.queue = s.queue /\ t.holder = s.holder /\ t.life = s.life
      /\ t.ctx = s.ctx /\ t.history = s.history
    BY <1>2, <2>1 DEF SessionType
  <2>4. Drift(s, t)
    BY <1>3, <2>3 DEF Drift
  <2>5. sessions' = [sessions EXCEPT ![o] = t]
    BY <1>1, <1>2, <1>6, <2>1 DEF ContextExpires
  <2> QED BY <1>1, <1>4, <2>2, <2>4, <2>5, OneSessionStep
<1>7. CASE SessionCools(o)
  <2>1. PICK t : t = [s EXCEPT !.cold = TRUE]
    OBVIOUS
  <2>2. t \in SessionType
    BY <1>2, <2>1 DEF SessionType
  <2>3. /\ t.queue = s.queue /\ t.holder = s.holder /\ t.life = s.life
      /\ t.ctx = s.ctx /\ t.history = s.history
    BY <1>2, <2>1 DEF SessionType
  <2>4. Drift(s, t)
    BY <1>3, <2>3 DEF Drift
  <2>5. sessions' = [sessions EXCEPT ![o] = t]
    BY <1>1, <1>2, <1>7, <2>1 DEF SessionCools
  <2> QED BY <1>1, <1>4, <2>2, <2>4, <2>5, OneSessionStep
<1> QED BY <1>5, <1>6, <1>7

LEMMA HomeCloseStep ==
    ASSUME HomeInv, Close
    PROVE  GoodStep
<1>1. /\ sessions \in [Objects -> SessionType] /\ home \subseteq Refs /\ events \in 0 .. MaxEvents
      /\ \A o \in Objects : SessionGood(o)
  BY DEF HomeInv, TypeOK, LockInv
<1>2. ASSUME NEW o \in Objects
      PROVE  sessions'[o] \in SessionType /\ Drift(sessions[o], sessions'[o])
  <2>1. CASE o \in Entries(table)
    <3>1. PICK w : w = Wiped(sessions[o])
      OBVIOUS
    <3>2. w \in SessionType /\ SameLock(sessions[o], w) /\ w.ctx = Blank /\ w.history = 0
      BY <1>1, <3>1, HomeShapes
    <3>3. PICK t : t = [w EXCEPT !.life = "ended"]
      OBVIOUS
    <3>4. t \in SessionType
      BY <3>2, <3>3 DEF SessionType
    <3>5. /\ t.queue = w.queue /\ t.holder = w.holder /\ t.life = "ended"
      /\ t.ctx = w.ctx /\ t.history = w.history
      BY <3>2, <3>3 DEF SessionType
    <3>6. sessions'[o] = t
      BY <2>1, <3>1, <3>3 DEF Close
    <3> QED BY <3>2, <3>4, <3>5, <3>6 DEF Drift, SameLock
  <2>2. CASE o \notin Entries(table)
    <3>1. sessions'[o] = sessions[o]
      BY <2>2 DEF Close
    <3> QED BY <1>1, <3>1 DEF Drift, SessionGood
  <2> QED BY <2>1, <2>2
<1>3. sessions' \in [Objects -> SessionType]
  <2>1. sessions' = [o \in Objects |-> sessions'[o]]
    BY DEF Close
  <2> QED BY <1>2, <2>1
<1>4. Entries(table') = {} /\ table' \in [Keys -> Objects \union {0}]
  BY DEF Close, Entries
<1>5. Cardinality(Entries(table')) <= Capacity
  BY <1>4, FS_EmptySet, HomeAssumption
<1>6. events' \in 0 .. MaxEvents
  BY <1>1, HomeAssumption DEF Close, Happens
<1>7. closed' \in BOOLEAN /\ home' \subseteq Refs /\ UNCHANGED <<fallback, req, wire, hub>>
  BY <1>1 DEF Close
<1> QED BY <1>2, <1>3, <1>4, <1>5, <1>6, <1>7, SurroundingStep

LEMMA HomeChangesStep ==
    ASSUME HomeInv, NEW x \in Movable, HomeChanges(x)
    PROVE  GoodStep
<1>1. /\ sessions \in [Objects -> SessionType] /\ closed \in BOOLEAN /\ home \subseteq Refs
      /\ table \in [Keys -> Objects \union {0}] /\ Cardinality(Entries(table)) <= Capacity
      /\ events \in 0 .. MaxEvents /\ \A o \in Objects : SessionGood(o)
  BY DEF HomeInv, TypeOK, LockInv
<1>2. \A o \in Objects : Drift(sessions[o], sessions'[o])
  BY <1>1 DEF HomeChanges, Drift, SessionGood
<1>3. events' \in 0 .. MaxEvents
  BY <1>1, HomeAssumption DEF HomeChanges, Happens
<1>4. home' \subseteq Refs
  BY <1>1, HomeAssumption DEF HomeChanges
<1>5. UNCHANGED <<fallback, closed, table, sessions, req, wire, hub>>
  BY DEF HomeChanges
<1>6. Cardinality(Entries(table')) <= Capacity
  BY <1>1, <1>5 DEF Entries
<1> QED BY <1>1, <1>2, <1>3, <1>4, <1>5, <1>6, SurroundingStep

\* The Hub and the wire.
LEMMA RuntimeStep ==
    ASSUME HomeInv, NEW r \in Requests, Runtime(r)
    PROVE  GoodStep
<1>1. UNCHANGED <<fallback, closed, home, events, table, sessions, req>>
  BY DEF Runtime, HubRuns, HubRepeats, DeadlinePasses, HubDeclines
<1>2. PICK w \in {"answered", "late", "declined"} : wire' = [wire EXCEPT ![r] = w]
  BY DEF Runtime, HubRuns, HubRepeats, DeadlinePasses, HubDeclines, ToHub
<1>3. wire \in [Requests -> {"none", "sent", "late", "answered", "declined"}]
  BY DEF HomeInv, TypeOK
<1>4. wire'[r] = w /\ \A q \in Requests \ {r} : wire'[q] = wire[q]
  BY <1>2, <1>3
<1>5. wire[r] \in {"sent", "late"}
  BY DEF Runtime, HubRuns, HubRepeats, DeadlinePasses, HubDeclines
<1>6. LockInv'
  BY <1>1 DEF HomeInv, LockInv, SessionGood, HandlerGood, OrderGood
<1>7. SubmitsWell
  BY <1>2, <1>3 DEF SubmitsWell, Submits
<1>8. (\A q \in Requests : CardGood(q)) /\ (\A h \in hub : HubGood(h))
  BY DEF HomeInv, CardInv
<1>9. hub \subseteq hub' /\ \A h \in hub' \ hub : /\ h.for = r /\ h.id = Turn[r] /\ w = "answered"
                                                  /\ h.plan = req[r].plan
  <2>1. CASE HubRuns(r)
    <3>1. w = "answered"
      BY <1>3, <1>4, <2>1 DEF HubRuns, ToHub
    <3>2. PICK res : hub' = hub \union
                    {[id |-> RequestId(r), for |-> r, plan |-> req[r].plan, res |-> res]}
      BY <2>1 DEF HubRuns
    <3> QED BY <3>1, <3>2 DEF RequestId
  <2>2. CASE ~HubRuns(r)
    BY <2>2 DEF Runtime, HubRepeats, DeadlinePasses, HubDeclines
  <2> QED BY <2>1, <2>2
<1>10. ASSUME NEW q \in Requests PROVE CardGood(q)'
  <2>1. CardGood(q)
    BY <1>8
  <2>2. Confirmed(q, req[q].plan) => Confirmed(q, req[q].plan)'
    BY <1>1, <1>9 DEF Confirmed
  <2> QED BY <1>1, <1>4, <1>5, <2>1, <2>2 DEF CardGood
<1>11. ASSUME NEW h \in hub' PROVE HubGood(h)'
  <2>1. CASE h \in hub
    <3>1. HubGood(h)
      BY <1>8, <2>1
    <3>2. h.for # r
      BY <1>5, <3>1 DEF HubGood
    <3> QED BY <1>1, <1>4, <3>1, <3>2 DEF HubGood
  <2>2. CASE h \notin hub
    BY <1>1, <1>4, <1>9, <2>2 DEF HubGood
  <2> QED BY <2>1, <2>2
<1>12. CardInv'
  BY <1>10, <1>11 DEF CardInv
<1>13. TypeOK'
  <2>1. wire' \in [Requests -> {"none", "sent", "late", "answered", "declined"}]
    BY <1>2, <1>3
  <2>2. req \in [Requests -> RequestType] /\ req[r].plan \subseteq Refs
    BY DEF HomeInv, TypeOK, RequestType
  <2>3. \A h \in hub' : h.for \in Requests /\ h.plan \subseteq Refs
    BY <1>9, <2>2 DEF HomeInv, TypeOK
  <2> QED BY <1>1, <2>1, <2>3 DEF HomeInv, TypeOK, Entries
<1> QED BY <1>6, <1>7, <1>12, <1>13 DEF GoodStep, HomeInv

(***************************************************************************)
(* Arrivals: the sweep of the table, and the request that comes.           *)
(***************************************************************************)
LEMMA SweepFacts ==
    ASSUME HomeInv
    PROVE  /\ Kept \in [Keys -> Objects \union {0}]
           /\ Entries(Kept) \subseteq Entries(table)
           /\ IsFiniteSet(Entries(Kept)) /\ Cardinality(Entries(Kept)) <= Capacity
           /\ Retired \in [Objects -> SessionType]
           /\ \A o \in Objects : /\ Drift(sessions[o], Retired[o])
                                 /\ Retired[o].life = "unused" => sessions[o].life = "unused"
                                 /\ o \notin Swept => Retired[o] = sessions[o]
<1>1. /\ table \in [Keys -> Objects \union {0}] /\ Cardinality(Entries(table)) <= Capacity
      /\ sessions \in [Objects -> SessionType]
  BY DEF HomeInv, TypeOK
<1>2. Kept \in [Keys -> Objects \union {0}]
  BY <1>1 DEF Kept
<1>3. Entries(Kept) \subseteq Entries(table)
  BY <1>1 DEF Kept, Entries
<1>4. IsFiniteSet(Entries(table))
  <2>1. IsFiniteSet(Objects)
    BY HomeNone, FS_Interval DEF Objects
  <2>2. Entries(table) \subseteq Objects
    BY <1>1 DEF Entries
  <2> QED BY <2>1, <2>2, FS_Subset
<1>5. IsFiniteSet(Entries(Kept)) /\ Cardinality(Entries(Kept)) <= Cardinality(Entries(table))
  BY <1>3, <1>4, FS_Subset
<1>6. Cardinality(Entries(Kept)) <= Capacity
  <2>1. /\ Cardinality(Entries(Kept)) \in Nat /\ Cardinality(Entries(table)) \in Nat
        /\ Capacity \in Nat
    BY <1>4, <1>5, FS_CardinalityType, HomeAssumption
  <2> QED BY <1>1, <1>5, <2>1
<1>7. ASSUME NEW o \in Objects
      PROVE  /\ Retired[o] \in SessionType /\ Drift(sessions[o], Retired[o])
             /\ Retired[o].life = "unused" => sessions[o].life = "unused"
             /\ o \notin Swept => Retired[o] = sessions[o]
  <2>1. sessions[o] \in SessionType /\ SessionGood(o)
    BY <1>1 DEF HomeInv, LockInv
  <2>2. CASE o \in Swept
    <3>1. PICK t : t = [sessions[o] EXCEPT !.life = "evicted"]
      OBVIOUS
    <3>2. t \in SessionType
      BY <2>1, <3>1 DEF SessionType
    <3>3. /\ t.queue = sessions[o].queue /\ t.holder = sessions[o].holder /\ t.life = "evicted"
          /\ t.ctx = sessions[o].ctx
      BY <2>1, <3>1 DEF SessionType
    <3>4. Retired[o] = t
      BY <2>2, <3>1 DEF Retired
    <3> QED BY <2>2, <3>2, <3>3, <3>4 DEF Drift
  <2>3. CASE o \notin Swept
    BY <2>1, <2>3 DEF Retired, Drift, SessionGood
  <2> QED BY <2>2, <2>3
<1>8. Retired \in [Objects -> SessionType]
  <2>1. Retired = [o \in Objects |-> Retired[o]]
    BY DEF Retired
  <2> QED BY <1>7, <2>1
<1> QED BY <1>2, <1>3, <1>5, <1>6, <1>7, <1>8

\* What the session of an arriving request becomes: taken, or waited for.
Taken(s, t, r) ==
    /\ s.holder = None /\ s.queue = <<>>
    /\ t.holder = r /\ t.queue = s.queue /\ t.life = "open"
    /\ t.ctx = s.ctx \/ t.ctx = Blank
Awaited(s, t, r) ==
    /\ t.holder = s.holder /\ t.queue = Append(s.queue, r) /\ t.life = s.life
    /\ s.life = "open" /\ t.ctx = s.ctx

LEMMA ArrivalStep ==
    ASSUME HomeInv, NEW r \in Requests, IsNext(r), NEW o \in Objects \union {0},
           NEW x \in RequestType, req' = [req EXCEPT ![r] = x],
           x.obj = o, x.ctx = req[r].ctx, x.stale = req[r].stale,
           sessions' \in [Objects -> SessionType],
           \A p \in Objects \ {o} : Drift(sessions[p], sessions'[p]),
           \/ o = 0 /\ x.st = "done"
           \/ o # 0 /\ x.st = "authorize" /\ Taken(sessions[o], sessions'[o], r)
           \/ o # 0 /\ x.st = "queued" /\ Awaited(sessions[o], sessions'[o], r)
    PROVE  LockInv'
<1>1. /\ req \in [Requests -> RequestType] /\ sessions \in [Objects -> SessionType]
      /\ \A p \in Objects : SessionGood(p)
      /\ \A q \in Requests : HandlerGood(q)
      /\ \A p, q \in Requests : OrderGood(p, q)
  BY DEF HomeInv, TypeOK, LockInv
<1>2. req'[r] = x /\ \A q \in Requests \ {r} : req'[q] = req[q]
  BY <1>1
<1>3. r \in Nat /\ None # r /\ 0 \notin Objects /\ \A q \in Requests : q \in Nat /\ q # None
  BY HomeNone
<1>4. req[r].st = "new" /\ \A q \in Requests : q < r => req[q].st # "new"
  BY <1>3 DEF IsNext, Requests
<1>5. req[r].obj = 0 /\ req[r].ctx = Blank /\ ~req[r].stale
  BY <1>1, <1>4 DEF HandlerGood
<1>6. \A q \in Requests : r < q => req[q].st = "new" /\ req[q].obj = 0 /\ req[q].ctx = Blank
  BY <1>1, <1>4 DEF OrderGood, HandlerGood
<1>7. /\ "new" \notin InLock /\ "queued" \notin InLock /\ "done" \notin InLock
      /\ "authorize" \in InLock /\ "recheck" \in InLock /\ "execute" \in InLock
  BY DEF InLock
\* Who is in the lock or waits for it came before.
<1>8. \A p \in Objects : /\ sessions[p].holder # None => sessions[p].holder \in Requests \ {r}
                                                         /\ sessions[p].holder < r
                         /\ \A i \in 1..Len(sessions[p].queue) :
                              sessions[p].queue[i] \in Requests \ {r} /\ sessions[p].queue[i] < r
  <2> SUFFICES ASSUME NEW p \in Objects
               PROVE  /\ sessions[p].holder # None => sessions[p].holder \in Requests \ {r}
                                                      /\ sessions[p].holder < r
                      /\ \A i \in 1..Len(sessions[p].queue) :
                            sessions[p].queue[i] \in Requests \ {r} /\ sessions[p].queue[i] < r
    OBVIOUS
  <2>1. sessions[p] \in SessionType /\ SessionGood(p)
    BY <1>1
  <2>2. \A q \in Requests : req[q].st # "new" => q # r /\ q < r
    BY <1>3, <1>4, <1>6
  <2>3. sessions[p].holder # None =>
           sessions[p].holder \in Requests /\ req[sessions[p].holder].st # "new"
    BY <1>7, <2>1 DEF SessionGood, SessionType
  <2>4. \A i \in 1..Len(sessions[p].queue) :
           sessions[p].queue[i] \in Requests /\ req[sessions[p].queue[i]].st # "new"
    BY <2>1 DEF SessionGood, SessionType
  <2> QED BY <2>2, <2>3, <2>4
<1>9. ASSUME NEW p \in Objects PROVE SessionGood(p)'
  <2>1. SessionGood(p) /\ sessions[p] \in SessionType /\ sessions'[p] \in SessionType
    BY <1>1
  <2>2. CASE p # o
    <3>1. Drift(sessions[p], sessions'[p])
      BY <2>2
    <3>2. sessions'[p].ctx.by # None => sessions'[p].ctx = sessions[p].ctx
      BY <3>1, HomeRecords DEF Drift
    <3>3. /\ sessions'[p].holder # None => sessions'[p].holder \in Requests \ {r}
          /\ \A i \in 1..Len(sessions'[p].queue) : sessions'[p].queue[i] \in Requests \ {r}
      BY <1>8, <3>1 DEF Drift
    <3>4. \A q \in Requests : req'[q].obj = p => q # r
      BY <1>2, <2>2
    <3> QED BY <1>2, <2>1, <3>1, <3>2, <3>3, <3>4 DEF SessionGood, Drift
  <2>3. CASE p = o /\ Taken(sessions[o], sessions'[o], r)
    <3>1. Len(sessions'[p].queue) = 0
      BY <2>3 DEF Taken
    <3>2. x.st = "authorize"
      BY <2>3, <1>3, <2>1 DEF Taken, Awaited, SessionType
    <3>3. sessions'[p].ctx.by # None => sessions'[p].ctx = sessions[p].ctx
      BY <2>3, HomeRecords DEF Taken
    <3> QED BY <1>2, <1>7, <2>1, <2>3, <3>1, <3>2, <3>3 DEF SessionGood, Taken
  <2>4. CASE p = o /\ x.st = "queued" /\ Awaited(sessions[o], sessions'[o], r)
    <3>1. PICK n : n = Len(sessions[p].queue)
      OBVIOUS
    <3>2. /\ n \in Nat /\ Len(sessions'[p].queue) = n + 1 /\ sessions'[p].queue[n + 1] = r
          /\ \A i \in 1..n : sessions'[p].queue[i] = sessions[p].queue[i]
      BY <2>1, <2>4, <3>1 DEF Awaited, SessionType
    <3>3. \A i \in 1..n : /\ req'[sessions'[p].queue[i]].obj = p
                          /\ req'[sessions'[p].queue[i]].st = "queued"
                          /\ sessions[p].holder # None => sessions[p].holder < sessions'[p].queue[i]
      BY <1>2, <1>8, <2>1, <3>1, <3>2 DEF SessionGood
    <3>4. \A i \in 1..(n + 1) : i \in 1..n \/ i = n + 1
      BY <3>2
    <3>5. \A i \in 1..(n + 1) : /\ req'[sessions'[p].queue[i]].obj = p
                                /\ req'[sessions'[p].queue[i]].st = "queued"
                                /\ sessions'[p].holder # None =>
                                     sessions'[p].holder < sessions'[p].queue[i]
      BY <1>2, <1>8, <2>4, <3>2, <3>3, <3>4 DEF Awaited
    <3>6. \A i, j \in 1..(n + 1) : i < j => sessions'[p].queue[i] < sessions'[p].queue[j]
      <4> SUFFICES ASSUME NEW i \in 1..(n + 1), NEW j \in 1..(n + 1), i < j
                   PROVE  sessions'[p].queue[i] < sessions'[p].queue[j]
        OBVIOUS
      <4>1. i \in 1..n /\ (j \in 1..n \/ j = n + 1)
        BY <3>2
      <4>2. CASE j \in 1..n
        BY <2>1, <3>1, <3>2, <4>1, <4>2 DEF SessionGood
      <4>3. CASE j = n + 1
        BY <1>8, <3>1, <3>2, <4>1, <4>3
      <4> QED BY <4>1, <4>2, <4>3
    <3>7. sessions'[p].holder # None =>
             req'[sessions'[p].holder].obj = p /\ req'[sessions'[p].holder].st \in InLock
      BY <1>2, <1>8, <2>1, <2>4 DEF SessionGood, Awaited
    <3>8. sessions'[p].life = "open" /\ sessions'[p].ctx = sessions[p].ctx
      BY <2>4 DEF Awaited
    <3>9. sessions'[p].ctx.by # None => \A q \in Requests :
             req'[q].obj = p /\ req'[q].st = "done" /\ sessions'[p].ctx.by < q =>
                req'[q].card \in Quiet
      BY <1>2, <2>1, <2>4, <3>8 DEF SessionGood
    <3> QED BY <3>2, <3>5, <3>6, <3>7, <3>8, <3>9 DEF SessionGood
  <2> QED BY <1>3, <2>2, <2>3, <2>4
<1>10. ASSUME NEW q \in Requests PROVE HandlerGood(q)'
  <2>1. HandlerGood(q)
    BY <1>1
  <2>2. CASE q = r
    <3>1. x.ctx = Blank /\ x.ctx.by = None /\ ~x.stale
      BY <1>5, HomeRecords
    <3>2. x.st = "authorize" => sessions'[o].holder = r
      BY DEF Taken
    <3>3. x.st = "queued" => \E i \in 1..Len(sessions'[o].queue) : sessions'[o].queue[i] = r
      <4> SUFFICES ASSUME x.st = "queued"
                   PROVE  \E i \in 1..Len(sessions'[o].queue) : sessions'[o].queue[i] = r
        OBVIOUS
      <4>1. o \in Objects /\ Awaited(sessions[o], sessions'[o], r)
        OBVIOUS
      <4>2. sessions[o].queue \in Seq(Requests)
        BY <1>1, <4>1 DEF SessionType
      <4>3. /\ Len(sessions'[o].queue) = Len(sessions[o].queue) + 1
            /\ sessions'[o].queue[Len(sessions[o].queue) + 1] = r
            /\ Len(sessions[o].queue) \in Nat
        BY <4>1, <4>2 DEF Awaited
      <4> QED BY <4>3
    <3>4. x.st \in {"done", "authorize", "queued"} /\ (x.st # "done" => o \in Objects)
      OBVIOUS
    <3> QED BY <1>2, <1>7, <2>2, <3>1, <3>2, <3>3, <3>4 DEF HandlerGood
  <2>3. CASE q # r
    <3>1. req'[q] = req[q]
      BY <1>2, <2>3
    <3>2. req[q].st \in InLock \union {"queued"} => req[q].obj \in Objects
      BY <2>1 DEF HandlerGood
    <3>3. req[q].st \in InLock => /\ sessions'[req[q].obj].holder = q
                                  /\ sessions[req[q].obj].ctx = Blank =>
                                       sessions'[req[q].obj].ctx = Blank
      BY <1>3, <2>1, <3>2 DEF HandlerGood, Drift, Taken, Awaited
    <3>4. req[q].st = "queued" =>
             \E i \in 1..Len(sessions'[req[q].obj].queue) : sessions'[req[q].obj].queue[i] = q
      <4> SUFFICES ASSUME req[q].st = "queued"
                   PROVE  \E i \in 1..Len(sessions'[req[q].obj].queue) :
                             sessions'[req[q].obj].queue[i] = q
        OBVIOUS
      <4>1. PICK p : p = req[q].obj
        OBVIOUS
      <4>2. p \in Objects /\ sessions[p].queue \in Seq(Requests)
        BY <1>1, <3>2, <4>1 DEF SessionType
      <4>3. PICK i \in 1..Len(sessions[p].queue) : sessions[p].queue[i] = q
        BY <2>1, <4>1 DEF HandlerGood
      <4>4. CASE p = o /\ Awaited(sessions[o], sessions'[o], r)
        <5>1. i \in 1..Len(sessions'[p].queue) /\ sessions'[p].queue[i] = q
          BY <4>2, <4>3, <4>4 DEF Awaited
        <5> QED BY <4>1, <5>1
      <4>5. CASE p = o /\ Taken(sessions[o], sessions'[o], r)
        BY <4>2, <4>3, <4>5 DEF Taken
      <4>6. CASE p # o
        BY <4>1, <4>2, <4>3, <4>6 DEF Drift
      <4> QED BY <1>3, <4>2, <4>4, <4>5, <4>6
    <3>5. req[q].ctx.by # None => \A p \in Requests :
             req'[p].obj = req[q].obj /\ req[q].ctx.by < p /\ p < q =>
                req'[p].st = "done" /\ req'[p].card \in Quiet
      <4> SUFFICES ASSUME req[q].ctx.by # None, NEW p \in Requests,
                          req'[p].obj = req[q].obj, req[q].ctx.by < p, p < q
                   PROVE  req'[p].st = "done" /\ req'[p].card \in Quiet
        OBVIOUS
      <4>1. p # r
        BY <1>6, HomeRecords
      <4> QED BY <1>2, <2>1, <4>1 DEF HandlerGood
    <3> QED BY <1>7, <2>1, <3>1, <3>2, <3>3, <3>4, <3>5 DEF HandlerGood
  <2> QED BY <2>2, <2>3
<1>11. ASSUME NEW p \in Requests, NEW q \in Requests PROVE OrderGood(p, q)'
  <2>1. OrderGood(p, q)
    BY <1>1
  <2>2. CASE q = r /\ p < q
    <3>1. req'[p] = req[p] /\ req[p].st # "new"
      BY <1>2, <1>3, <1>4, <2>2
    <3>2. ASSUME req[p].obj = o, o \in Objects, req[p].st # "done", x.st # "queued" PROVE FALSE
      <4>1. Taken(sessions[o], sessions'[o], r)
        BY <1>3, <3>2
      <4>2. HandlerGood(p) /\ req[p] \in RequestType
        BY <1>1
      <4>3. req[p].st \in InLock \union {"queued"}
        BY <3>1, <3>2, <4>2 DEF RequestType, Stages, InLock
      <4> QED BY <1>3, <3>2, <4>1, <4>2, <4>3 DEF HandlerGood, Taken
    <3> QED BY <1>2, <2>2, <3>1, <3>2 DEF OrderGood
  <2>3. CASE q # r /\ p < q
    <3>1. p = r => req[q].st = "new" /\ req[q].obj = 0
      BY <1>6, <2>3
    <3> QED BY <1>2, <1>3, <2>1, <2>3, <3>1 DEF OrderGood
  <2> QED BY <2>2, <2>3 DEF OrderGood
<1> QED BY <1>9, <1>10, <1>11 DEF LockInv

\* What an arrival, or a waiter that gives up, does to the cards.
LEMMA WaitingCards ==
    ASSUME HomeInv, NEW r \in Requests, req[r].st \in {"new", "queued"}, NEW x \in RequestType,
           req' = [req EXCEPT ![r] = x], x.plan = req[r].plan,
           \/ x.st = "done" /\ x.card = "refused"
           \/ x.st \in {"authorize", "queued"} /\ x.card = req[r].card,
           UNCHANGED <<wire, hub>>
    PROVE  CardInv'
<1>1. CardGood(r)
  BY DEF HomeInv, CardInv
<1>2. wire[r] = "none" /\ req[r].plan = {} /\ req[r].card = None
  BY <1>1 DEF CardGood
<1>3. None \notin Cards /\ None # "executed"
  BY HomeNone DEF Cards
<1> QED BY <1>2, <1>3, CardStep

LEMMA ArrivalType ==
    ASSUME HomeInv, NEW r \in Requests, NEW x \in RequestType, req' = [req EXCEPT ![r] = x],
           sessions' \in [Objects -> SessionType], table' \in [Keys -> Objects \union {0}],
           Cardinality(Entries(table')) <= Capacity,
           UNCHANGED <<fallback, closed, home, events, wire, hub>>
    PROVE  TypeOK' /\ SubmitsWell
<1>1. req' \in [Requests -> RequestType]
  BY DEF HomeInv, TypeOK
<1>2. SubmitsWell
  BY DEF SubmitsWell, Submits
<1> QED BY <1>1, <1>2 DEF HomeInv, TypeOK, Entries

\* An unused object has no lock to give away.
LEMMA UnusedIsFree ==
    ASSUME HomeInv, NEW o \in Objects, sessions[o].life = "unused"
    PROVE  sessions[o].holder = None /\ sessions[o].queue = <<>>
<1>1. sessions[o] \in SessionType /\ SessionGood(o)
  BY DEF HomeInv, TypeOK, LockInv
<1>2. \A q \in Requests : req[q].obj # o
  BY <1>1 DEF SessionGood
<1>3. sessions[o].holder = None
  BY <1>1, <1>2 DEF SessionGood, SessionType
<1>4. sessions[o].queue \in Seq(Requests) /\ \A i \in 1..Len(sessions[o].queue) : FALSE
  BY <1>1, <1>2 DEF SessionGood, SessionType
<1>5. sessions[o].queue = <<>>
  BY <1>4
<1> QED BY <1>3, <1>5

LEMMA OpenStep ==
    ASSUME HomeInv, NEW r \in Requests, NEW sc \in Scopes[r], Open(r, sc)
    PROVE  GoodStep
<1>1. IsNext(r) /\ HasRoom /\ UNCHANGED <<fallback, closed, home, events, wire, hub>>
  BY DEF Open
<1>2. PICK n \in Objects :
         /\ sessions[n].life = "unused"
         /\ sessions' = [Retired EXCEPT ![n] =
                           Taking([Unused EXCEPT !.scope = sc, !.life = "open"], r)]
         /\ table' = [Kept EXCEPT ![sc.key] = n]
         /\ req' = [req EXCEPT ![r].st = "authorize", ![r].obj = n]
  BY DEF Open
<1>3. /\ Kept \in [Keys -> Objects \union {0}] /\ Retired \in [Objects -> SessionType]
      /\ IsFiniteSet(Entries(Kept)) /\ \A o \in Objects : Drift(sessions[o], Retired[o])
  BY SweepFacts
<1>4. sc.key \in Keys
  BY DEF Keys
<1>5. PICK t : t = Taking([Unused EXCEPT !.scope = sc, !.life = "open"], r)
  OBVIOUS
<1>6. sc \in [key : Keys, companion : {c.companion : c \in UNION {Scopes[q] : q \in Requests}}]
  <2>1. sc = [key |-> sc.key, companion |-> sc.companion]
    BY HomeAssumption
  <2>2. sc.companion \in {c.companion : c \in UNION {Scopes[q] : q \in Requests}}
    OBVIOUS
  <2> QED BY <1>4, <2>1, <2>2
<1>7. t \in SessionType
  <2>1. 0 \in 0 .. HistoryLimit /\ <<>> \in Seq(Requests)
    BY HomeNone
  <2>2. t = [scope |-> sc, life |-> "open", cold |-> FALSE, ctx |-> Blank, fresh |-> FALSE,
             history |-> 0, rev |-> r, holder |-> r, queue |-> <<>>]
    BY <1>5 DEF Taking, Unused
  <2> QED BY <1>6, <2>1, <2>2, HomeRecords DEF SessionType
<1>8. t.holder = r /\ t.queue = <<>> /\ t.life = "open" /\ t.ctx = Blank
  BY <1>5 DEF Taking, Unused
<1>9. Taken(sessions[n], t, r)
  BY <1>2, <1>8, UnusedIsFree DEF Taken
<1>10. /\ sessions' \in [Objects -> SessionType] /\ sessions'[n] = t
       /\ \A p \in Objects \ {n} : Drift(sessions[p], sessions'[p])
  BY <1>2, <1>3, <1>5, <1>7
<1>11. req \in [Requests -> RequestType] /\ req[r].st = "new" /\ CardGood(r)
  BY <1>1 DEF HomeInv, TypeOK, CardInv, IsNext
<1>12. req[r].card = None
  BY <1>11 DEF CardGood
<1>13. PICK x : x = [req[r] EXCEPT !.st = "authorize", !.obj = n, !.card = None]
  OBVIOUS
<1>14. /\ x \in RequestType /\ x.st = "authorize" /\ x.obj = n /\ x.card = None
       /\ x.ctx = req[r].ctx /\ x.stale = req[r].stale /\ x.plan = req[r].plan
  BY <1>11, <1>13 DEF RequestType, Stages, Cards
<1>15. req' = [req EXCEPT ![r] = x]
  BY <1>2, <1>11, <1>12, <1>13 DEF RequestType
<1>16. n # 0
  BY HomeNone
<1>17. LockInv'
  BY <1>1, <1>9, <1>10, <1>14, <1>15, <1>16, ArrivalStep
<1>18. CardInv'
  BY <1>1, <1>11, <1>12, <1>14, <1>15, WaitingCards
<1>19. table' \in [Keys -> Objects \union {0}] /\ Cardinality(Entries(table')) <= Capacity
  <2>1. /\ table' \in [Keys -> Objects \union {0}]
        /\ Entries(table') \subseteq Entries(Kept) \union {n}
    BY <1>2, <1>3, <1>4 DEF Entries
  <2> DEFINE more == Entries(Kept) \union {n}
  <2>2. IsFiniteSet(more) /\ Cardinality(Entries(Kept)) \in Nat
        /\ (Cardinality(more) = Cardinality(Entries(Kept))
            \/ Cardinality(more) = Cardinality(Entries(Kept)) + 1)
    BY <1>3, FS_AddElement, FS_CardinalityType
  <2>3. /\ IsFiniteSet(Entries(Kept) \union {n})
        /\ Cardinality(Entries(Kept) \union {n}) <= Cardinality(Entries(Kept)) + 1
        /\ Cardinality(Entries(Kept)) \in Nat /\ Cardinality(Entries(Kept) \union {n}) \in Nat
    BY <2>2
  <2>4. Cardinality(Entries(table')) <= Cardinality(Entries(Kept) \union {n})
        /\ Cardinality(Entries(table')) \in Nat
    BY <2>1, <2>3, FS_Subset, FS_CardinalityType
  <2>5. Cardinality(Entries(Kept)) < Capacity /\ Capacity \in Nat
    BY <1>1, HomeAssumption DEF HasRoom
  <2> QED BY <2>1, <2>3, <2>4, <2>5
<1>20. TypeOK' /\ SubmitsWell
  BY <1>1, <1>10, <1>14, <1>15, <1>19, ArrivalType
<1> QED BY <1>17, <1>18, <1>20 DEF GoodStep, HomeInv

LEMMA JoinStep ==
    ASSUME HomeInv, NEW r \in Requests, NEW sc \in Scopes[r], Join(r, sc)
    PROVE  GoodStep
<1>1. IsNext(r) /\ UNCHANGED <<fallback, closed, home, events, wire, hub>> /\ table' = Kept
  BY DEF Join
<1>2. PICK o : o = Kept[sc.key]
  OBVIOUS
<1>3. sc.key \in Keys
  BY DEF Keys
<1>4. /\ Kept \in [Keys -> Objects \union {0}] /\ Retired \in [Objects -> SessionType]
      /\ Cardinality(Entries(Kept)) <= Capacity /\ \A p \in Objects : Drift(sessions[p], Retired[p])
  BY SweepFacts
<1>5. o \in Objects /\ o # 0 /\ sessions[o].life = "open"
  BY <1>2, <1>3, <1>4 DEF Join
<1>6. sessions[o] \in SessionType
  BY <1>5 DEF HomeInv, TypeOK
<1>7. PICK s : s = [sessions[o] EXCEPT !.cold = FALSE]
  OBVIOUS
<1>8. /\ s \in SessionType /\ s.queue = sessions[o].queue /\ s.holder = sessions[o].holder
      /\ s.life = "open" /\ s.ctx = sessions[o].ctx
  BY <1>5, <1>6, <1>7 DEF SessionType
<1>9. req \in [Requests -> RequestType] /\ req[r].st = "new" /\ CardGood(r)
  BY <1>1 DEF HomeInv, TypeOK, CardInv, IsNext
<1>10. req[r].card = None
  BY <1>9 DEF CardGood
<1>11. Cardinality(Entries(table')) <= Capacity /\ table' \in [Keys -> Objects \union {0}]
  BY <1>1, <1>4
<1>12. CASE /\ LockIsFree(s) /\ sessions' = [Retired EXCEPT ![o] = Taking(s, r)]
            /\ req' = [req EXCEPT ![r].st = "authorize", ![r].obj = o]
  <2>1. PICK t : t = Taking(s, r)
    OBVIOUS
  <2>2. t \in SessionType /\ t.holder = r /\ t.queue = s.queue /\ t.life = s.life /\ t.ctx = s.ctx
    BY <1>8, <2>1 DEF Taking, SessionType
  <2>3. Taken(sessions[o], t, r)
    BY <1>8, <1>12, <2>2 DEF Taken, LockIsFree
  <2>4. /\ sessions' \in [Objects -> SessionType] /\ sessions'[o] = t
        /\ \A p \in Objects \ {o} : Drift(sessions[p], sessions'[p])
    BY <1>4, <1>5, <1>12, <2>1, <2>2
  <2>5. PICK x : x = [req[r] EXCEPT !.st = "authorize", !.obj = o, !.card = None]
    OBVIOUS
  <2>6. /\ x \in RequestType /\ x.st = "authorize" /\ x.obj = o /\ x.card = None
        /\ x.ctx = req[r].ctx /\ x.stale = req[r].stale /\ x.plan = req[r].plan
    BY <1>5, <1>9, <2>5 DEF RequestType, Stages, Cards
  <2>7. req' = [req EXCEPT ![r] = x]
    BY <1>9, <1>10, <1>12, <2>5 DEF RequestType
  <2>8. LockInv'
    BY <1>1, <1>5, <2>3, <2>4, <2>6, <2>7, ArrivalStep
  <2>9. CardInv'
    BY <1>1, <1>9, <1>10, <2>6, <2>7, WaitingCards
  <2>10. TypeOK' /\ SubmitsWell
    BY <1>1, <1>11, <2>4, <2>6, <2>7, ArrivalType
  <2> QED BY <2>8, <2>9, <2>10 DEF GoodStep, HomeInv
<1>13. CASE /\ sessions' = [Retired EXCEPT ![o] = [s EXCEPT !.queue = Append(@, r)]]
            /\ req' = [req EXCEPT ![r].st = "queued", ![r].obj = o]
  <2>1. PICK t : t = [s EXCEPT !.queue = Append(s.queue, r)]
    OBVIOUS
  <2>2. Append(s.queue, r) \in Seq(Requests)
    BY <1>8 DEF SessionType
  <2>3. /\ t \in SessionType /\ t.holder = s.holder /\ t.queue = Append(s.queue, r)
        /\ t.life = s.life /\ t.ctx = s.ctx
    BY <1>8, <2>1, <2>2 DEF SessionType
  <2>4. Awaited(sessions[o], t, r)
    BY <1>5, <1>8, <2>3 DEF Awaited
  <2>5. /\ sessions' \in [Objects -> SessionType] /\ sessions'[o] = t
        /\ \A p \in Objects \ {o} : Drift(sessions[p], sessions'[p])
    BY <1>4, <1>5, <1>13, <2>1, <2>3
  <2>6. PICK x : x = [req[r] EXCEPT !.st = "queued", !.obj = o, !.card = None]
    OBVIOUS
  <2>7. /\ x \in RequestType /\ x.st = "queued" /\ x.obj = o /\ x.card = None
        /\ x.ctx = req[r].ctx /\ x.stale = req[r].stale /\ x.plan = req[r].plan
    BY <1>5, <1>9, <2>6 DEF RequestType, Stages, Cards
  <2>8. req' = [req EXCEPT ![r] = x]
    BY <1>9, <1>10, <1>13, <2>6 DEF RequestType
  <2>9. LockInv'
    BY <1>1, <1>5, <2>4, <2>5, <2>7, <2>8, ArrivalStep
  <2>10. CardInv'
    BY <1>1, <1>9, <1>10, <2>7, <2>8, WaitingCards
  <2>11. TypeOK' /\ SubmitsWell
    BY <1>1, <1>11, <2>5, <2>7, <2>8, ArrivalType
  <2> QED BY <2>9, <2>10, <2>11 DEF GoodStep, HomeInv
<1> QED BY <1>2, <1>7, <1>12, <1>13 DEF Join

LEMMA RefuseStep ==
    ASSUME HomeInv, NEW r \in Requests, NEW sc \in Scopes[r], Refuse(r, sc)
    PROVE  GoodStep
<1>1. /\ IsNext(r) /\ UNCHANGED <<fallback, closed, home, events, wire, hub>> /\ table' = Kept
      /\ req' = [req EXCEPT ![r].st = "done", ![r].card = "refused"]
  BY DEF Refuse
<1>2. sc.key \in Keys
  BY DEF Keys
<1>3. /\ Kept \in [Keys -> Objects \union {0}] /\ Retired \in [Objects -> SessionType]
      /\ Cardinality(Entries(Kept)) <= Capacity /\ \A p \in Objects : Drift(sessions[p], Retired[p])
  BY SweepFacts
<1>4. sessions' \in [Objects -> SessionType] /\ \A p \in Objects : Drift(sessions[p], sessions'[p])
  <2>1. CASE sessions' = Retired
    BY <1>3, <2>1
  <2>2. ASSUME NEW o \in Objects, sessions' = [Retired EXCEPT ![o].cold = FALSE]
        PROVE  /\ sessions' \in [Objects -> SessionType]
               /\ \A p \in Objects : Drift(sessions[p], sessions'[p])
    <3>1. PICK t : t = [Retired[o] EXCEPT !.cold = FALSE]
      OBVIOUS
    <3>2. /\ t \in SessionType /\ t.queue = Retired[o].queue /\ t.holder = Retired[o].holder
          /\ t.life = Retired[o].life /\ t.ctx = Retired[o].ctx /\ t.history = Retired[o].history
      BY <1>3, <3>1 DEF SessionType
    <3>3. sessions' = [Retired EXCEPT ![o] = t]
      BY <1>3, <2>2, <3>1
    <3>4. Drift(sessions[o], t)
      BY <1>3, <3>2 DEF Drift
    <3> QED BY <1>3, <3>2, <3>3, <3>4
  <2> QED BY <1>2, <1>3, <2>1, <2>2 DEF Refuse
<1>5. req \in [Requests -> RequestType] /\ req[r].st = "new" /\ HandlerGood(r)
  BY <1>1 DEF HomeInv, TypeOK, LockInv, IsNext
<1>6. req[r].obj = 0
  BY <1>5 DEF HandlerGood
<1>7. PICK x : x = [req[r] EXCEPT !.st = "done", !.obj = 0, !.card = "refused"]
  OBVIOUS
<1>8. /\ x \in RequestType /\ x.st = "done" /\ x.obj = 0 /\ x.card = "refused"
      /\ x.ctx = req[r].ctx /\ x.stale = req[r].stale /\ x.plan = req[r].plan
  BY <1>5, <1>7 DEF RequestType, Stages, Cards
<1>9. req' = [req EXCEPT ![r] = x]
  BY <1>1, <1>5, <1>6, <1>7 DEF RequestType
<1>10. LockInv'
  <2>1. PICK o : o = 0
    OBVIOUS
  <2> QED BY <1>1, <1>4, <1>8, <1>9, <2>1, ArrivalStep, ZenonT(40)
<1>11. CardInv'
  BY <1>1, <1>5, <1>8, <1>9, WaitingCards
<1>12. TypeOK' /\ SubmitsWell
  BY <1>1, <1>3, <1>4, <1>8, <1>9, ArrivalType
<1> QED BY <1>10, <1>11, <1>12 DEF GoodStep, HomeInv

(***************************************************************************)
(* The first waiter.                                                       *)
(***************************************************************************)
LEMMA WakeLock ==
    ASSUME HomeInv, NEW o \in Objects, sessions[o].holder = None, sessions[o].queue # <<>>,
           NEW r, r = Head(sessions[o].queue), NEW x \in RequestType, NEW t \in SessionType,
           req' = [req EXCEPT ![r] = x], sessions' = [sessions EXCEPT ![o] = t],
           x.obj = req[r].obj, x.ctx = req[r].ctx, x.stale = req[r].stale,
           t.queue = Tail(sessions[o].queue), t.life = sessions[o].life,
           t.ctx = sessions[o].ctx, t.history = sessions[o].history,
           \/ x.st = "authorize" /\ t.holder = r
           \/ x.st = "done" /\ x.card = "refused" /\ t.holder = None
    PROVE  LockInv'
<1>1. /\ req \in [Requests -> RequestType] /\ sessions \in [Objects -> SessionType]
      /\ \A p \in Objects : SessionGood(p)
      /\ \A q \in Requests : HandlerGood(q)
      /\ \A p, q \in Requests : OrderGood(p, q)
  BY DEF HomeInv, TypeOK, LockInv
<1>2. PICK queue : queue = sessions[o].queue
  OBVIOUS
<1>3. PICK n : n = Len(queue)
  OBVIOUS
<1>4. queue \in Seq(Requests) /\ n \in Nat \ {0}
  BY <1>1, <1>2, <1>3 DEF SessionType
<1>5. /\ r = queue[1] /\ r \in Requests /\ Len(t.queue) = n - 1
      /\ \A i \in 1..(n - 1) : t.queue[i] = queue[i + 1]
  BY <1>2, <1>3, <1>4
<1>6. /\ req[r].obj = o /\ req[r].st = "queued"
      /\ \A i \in 1..n : /\ req[queue[i]].obj = o /\ req[queue[i]].st = "queued"
                         /\ queue[i] \in Requests
      /\ \A i, j \in 1..n : i < j => queue[i] < queue[j]
  BY <1>1, <1>2, <1>3, <1>4, <1>5 DEF SessionGood
<1>7. req'[r] = x /\ \A q \in Requests \ {r} : req'[q] = req[q]
  BY <1>1, <1>5
<1>8. sessions'[o] = t /\ \A p \in Objects \ {o} : sessions'[p] = sessions[p]
  BY <1>1
<1>9. r \in Nat /\ None # r /\ \A q \in Requests : q \in Nat
  BY <1>5, HomeNone
<1>10. /\ "new" \notin InLock /\ "queued" \notin InLock /\ "done" \notin InLock
       /\ "authorize" \in InLock /\ "recheck" \in InLock /\ "execute" \in InLock
       /\ "refused" \in Quiet
  BY DEF InLock, Quiet
\* The waiters that are left came later.
<1>11. \A i \in 1..(n - 1) : /\ t.queue[i] \in Requests \ {r} /\ r < t.queue[i]
                             /\ req'[t.queue[i]].obj = o /\ req'[t.queue[i]].st = "queued"
  <2> SUFFICES ASSUME NEW i \in 1..(n - 1)
               PROVE  /\ t.queue[i] \in Requests \ {r} /\ r < t.queue[i]
                      /\ req'[t.queue[i]].obj = o /\ req'[t.queue[i]].st = "queued"
    OBVIOUS
  <2>1. i + 1 \in 1..n /\ 1 \in 1..n /\ 1 < i + 1
    BY <1>4
  <2>2. queue[1] < queue[i + 1] /\ queue[i + 1] \in Requests
    BY <1>6, <2>1
  <2>3. t.queue[i] \in Requests \ {r} /\ r < t.queue[i]
    BY <1>5, <1>9, <2>2
  <2>4. req[t.queue[i]].obj = o /\ req[t.queue[i]].st = "queued"
    BY <1>5, <1>6, <2>1
  <2> QED BY <1>7, <2>3, <2>4
\* Who came earlier is done.
<1>12. \A q \in Requests : req[q].obj = o /\ q < r => req[q].st = "done"
  <2> SUFFICES ASSUME NEW q \in Requests, req[q].obj = o, q < r, req[q].st # "done" PROVE FALSE
    OBVIOUS
  <2>1. HandlerGood(q) /\ req[q] \in RequestType /\ OrderGood(q, r)
    BY <1>1, <1>5
  <2>2. req[q].st \in InLock \union {"queued"}
    BY <1>6, <2>1 DEF RequestType, Stages, InLock, OrderGood
  <2>3. req[q].st = "queued"
    BY <1>9, <2>1, <2>2, HomeNone DEF HandlerGood
  <2>4. PICK i \in 1..n : queue[i] = q
    BY <1>2, <1>3, <2>1, <2>3 DEF HandlerGood
  <2>5. i # 1
    BY <1>5, <1>9, <2>4
  <2>6. 1 \in 1..n /\ 1 < i
    BY <1>4, <2>4, <2>5
  <2> QED BY <1>5, <1>6, <1>9, <2>4, <2>6
<1>13. ASSUME NEW p \in Objects PROVE SessionGood(p)'
  <2>1. SessionGood(p) /\ sessions[p] \in SessionType
    BY <1>1
  <2>2. CASE p # o
    <3>1. sessions[p].holder # None => sessions[p].holder \in Requests \ {r}
      BY <1>6, <2>1, <2>2 DEF SessionGood, SessionType
    <3>2. \A i \in 1..Len(sessions[p].queue) : sessions[p].queue[i] \in Requests \ {r}
      BY <1>6, <2>1, <2>2, SMTT(30) DEF SessionGood, SessionType
    <3> QED BY <1>6, <1>7, <1>8, <2>1, <2>2, <3>1, <3>2 DEF SessionGood
  <2>3. CASE p = o
    <3>1. \A i \in 1..Len(t.queue) : /\ req'[t.queue[i]].obj = o
                                     /\ req'[t.queue[i]].st = "queued"
                                     /\ t.holder # None => t.holder < t.queue[i]
      BY <1>5, <1>11
    <3>2. \A i, j \in 1..Len(t.queue) : i < j => t.queue[i] < t.queue[j]
      <4> SUFFICES ASSUME NEW i \in 1..(n - 1), NEW j \in 1..(n - 1), i < j
                   PROVE  t.queue[i] < t.queue[j]
        BY <1>5
      <4>1. i + 1 \in 1..n /\ j + 1 \in 1..n /\ i + 1 < j + 1
        BY <1>4
      <4> QED BY <1>5, <1>6, <4>1
    <3>3. t.holder # None => req'[t.holder].obj = o /\ req'[t.holder].st \in InLock
      BY <1>6, <1>7, <1>9, <1>10
    <3>4. t.life # "unused"
      BY <1>5, <1>6, <2>1, <2>3 DEF SessionGood
    <3>5. t.life = "ended" => t.ctx = Blank /\ t.history = 0
      BY <2>1, <2>3 DEF SessionGood
    <3>6. t.ctx.by # None => \A q \in Requests :
             req'[q].obj = o /\ req'[q].st = "done" /\ t.ctx.by < q => req'[q].card \in Quiet
      BY <1>7, <1>10, <2>1, <2>3 DEF SessionGood
    <3>7. PICK s : s = sessions'[p]
      OBVIOUS
    <3>8. s = t
      BY <1>8, <2>3, <3>7
    <3>9. /\ s.holder # None => req'[s.holder].obj = p /\ req'[s.holder].st \in InLock
          /\ \A i \in 1..Len(s.queue) : /\ req'[s.queue[i]].obj = p
                                        /\ req'[s.queue[i]].st = "queued"
                                        /\ s.holder # None => s.holder < s.queue[i]
          /\ \A i, j \in 1..Len(s.queue) : i < j => s.queue[i] < s.queue[j]
      BY <2>3, <3>1, <3>2, <3>3, <3>8, Zenon
    <3>10. /\ s.life # "unused"
           /\ s.life = "ended" => s.ctx = Blank /\ s.history = 0
           /\ s.ctx.by # None => \A q \in Requests :
                req'[q].obj = p /\ req'[q].st = "done" /\ s.ctx.by < q => req'[q].card \in Quiet
      BY <2>3, <3>4, <3>5, <3>6, <3>8, Zenon
    <3> QED BY <3>7, <3>9, <3>10 DEF SessionGood
  <2> QED BY <2>2, <2>3
<1>14. ASSUME NEW q \in Requests PROVE HandlerGood(q)'
  <2>1. HandlerGood(q)
    BY <1>1
  <2>2. CASE q = r
    <3>1. req[r].ctx = Blank /\ ~req[r].stale
      BY <1>6, <2>1, <2>2 DEF HandlerGood
    <3>2. PICK h : h = req'[q]
      OBVIOUS
    <3>3. /\ h = x /\ h.obj = o /\ h.ctx = Blank /\ ~h.stale
          /\ h.st \in {"authorize", "done"} /\ Blank.by = None
      BY <1>6, <1>7, <2>2, <3>1, <3>2, HomeRecords
    <3>4. h.st \in InLock => sessions'[o].holder = q
      BY <1>8, <1>10, <2>2, <3>3
    <3>5. o \in Objects
      OBVIOUS
    <3> QED BY <1>10, <3>2, <3>3, <3>4, <3>5 DEF HandlerGood
  <2>3. CASE q # r
    <3>1. req'[q] = req[q]
      BY <1>7, <2>3
    <3>2. req[q].st \in InLock \union {"queued"} => req[q].obj \in Objects
      BY <2>1 DEF HandlerGood
    <3>3. req[q].st \in InLock => req[q].obj # o
      BY <1>9, <2>1, HomeNone DEF HandlerGood
    <3>4. req[q].st = "queued" =>
             \E i \in 1..Len(sessions'[req[q].obj].queue) : sessions'[req[q].obj].queue[i] = q
      <4> SUFFICES ASSUME req[q].st = "queued"
                   PROVE  \E i \in 1..Len(sessions'[req[q].obj].queue) :
                             sessions'[req[q].obj].queue[i] = q
        OBVIOUS
      <4>1. CASE req[q].obj # o
        BY <1>8, <2>1, <3>2, <4>1 DEF HandlerGood
      <4>2. CASE req[q].obj = o
        <5>1. PICK i \in 1..n : queue[i] = q
          BY <1>2, <1>3, <2>1, <4>2 DEF HandlerGood
        <5>2. i # 1
          BY <1>5, <2>3, <5>1
        <5>3. i - 1 \in 1..(n - 1) /\ (i - 1) + 1 = i
          BY <1>4, <5>1, <5>2
        <5>4. t.queue[i - 1] = q
          BY <1>5, <5>1, <5>3
        <5> QED BY <1>5, <1>8, <4>2, <5>3, <5>4
      <4> QED BY <4>1, <4>2
    <3>5. req[q].ctx.by # None => \A p \in Requests :
             req'[p].obj = req[q].obj /\ req[q].ctx.by < p /\ p < q =>
                req'[p].st = "done" /\ req'[p].card \in Quiet
      <4> SUFFICES ASSUME req[q].ctx.by # None, NEW p \in Requests,
                          req'[p].obj = req[q].obj, req[q].ctx.by < p, p < q
                   PROVE  req'[p].st = "done" /\ req'[p].card \in Quiet
        OBVIOUS
      <4>1. req[p].obj = req[q].obj
        BY <1>7
      <4>2. req[p].st = "done" /\ req[p].card \in Quiet
        BY <2>1, <4>1 DEF HandlerGood
      <4> QED BY <1>6, <1>7, <4>2
    <3>6. PICK h : h = req'[q]
      OBVIOUS
    <3>7. PICK w : w = sessions'[h.obj]
      OBVIOUS
    <3>8. h = req[q] /\ (h.obj \in Objects \ {o} => w = sessions[h.obj])
      BY <1>8, <3>1, <3>6, <3>7
    <3>9. /\ h.st = "new" => h.obj = 0 /\ h.ctx = Blank
          /\ h.st \in InLock => h.obj \in Objects /\ sessions[h.obj].holder = q
          /\ h.st = "queued" => h.obj \in Objects /\ h.ctx = Blank
          /\ h.st = "authorize" => h.ctx = Blank
          /\ ~h.stale
          /\ h.st \in {"recheck", "execute"} => sessions[h.obj].ctx = Blank
      BY <2>1, <3>8 DEF HandlerGood
    <3>10. /\ h.st \in InLock => w.holder = q
           /\ h.st \in {"recheck", "execute"} => w.ctx = Blank
      BY <1>10, <3>3, <3>8, <3>9
    <3>11. h.st = "queued" => \E i \in 1..Len(w.queue) : w.queue[i] = q
      BY <3>4, <3>7, <3>8
    <3>12. h.ctx.by # None => \A p \in Requests :
              req'[p].obj = h.obj /\ h.ctx.by < p /\ p < q =>
                 req'[p].st = "done" /\ req'[p].card \in Quiet
      BY <3>5, <3>8
    <3> QED BY <3>6, <3>7, <3>9, <3>10, <3>11, <3>12 DEF HandlerGood
  <2> QED BY <2>2, <2>3
<1>15. ASSUME NEW p \in Requests, NEW q \in Requests PROVE OrderGood(p, q)'
  <2>1. OrderGood(p, q)
    BY <1>1
  <2>2. \A k \in Requests : req'[k].obj = req[k].obj /\ (req'[k].st = "new" <=> req[k].st = "new")
    BY <1>6, <1>7
  <2>3. p < q /\ req[p].obj = req[q].obj /\ req[p].obj \in Objects /\ req'[p].st # "done" =>
           req'[q].st = "queued"
    <3>1. CASE q = r
      BY <1>6, <1>7, <1>9, <1>12, <3>1
    <3>2. CASE q # r
      BY <1>6, <1>7, <2>1, <3>2 DEF OrderGood
    <3> QED BY <3>1, <3>2
  <2> QED BY <2>1, <2>2, <2>3 DEF OrderGood
<1> QED BY <1>13, <1>14, <1>15 DEF LockInv

LEMMA WakeStep ==
    ASSUME HomeInv, NEW o \in Objects, Wake(o)
    PROVE  GoodStep
<1>1. sessions[o].holder = None /\ sessions[o].queue # <<>> /\ UNCHANGED outside
  BY DEF Wake
<1>2. /\ req \in [Requests -> RequestType] /\ sessions \in [Objects -> SessionType]
      /\ table \in [Keys -> Objects \union {0}] /\ Cardinality(Entries(table)) <= Capacity
      /\ SessionGood(o)
  BY DEF HomeInv, TypeOK, LockInv
<1>3. sessions[o].queue \in Seq(Requests)
  BY <1>2 DEF SessionType
<1>4. /\ Head(sessions[o].queue) \in Requests /\ Tail(sessions[o].queue) \in Seq(Requests)
      /\ Head(sessions[o].queue) = sessions[o].queue[1] /\ 1 \in 1..Len(sessions[o].queue)
  BY <1>1, <1>3
<1>5. PICK r \in Requests : r = Head(sessions[o].queue)
  BY <1>4
<1>6. req[r].st = "queued" /\ CardGood(r)
  BY <1>2, <1>4, <1>5 DEF SessionGood, HomeInv, CardInv
<1>7. PICK rest \in Seq(Requests) : rest = Tail(sessions[o].queue)
  BY <1>4
<1>8. PICK s \in SessionType : s = sessions[o]
  BY <1>2
<1>9. PICK left : left = [s EXCEPT !.queue = rest]
  OBVIOUS
<1>10. left \in SessionType
  BY <1>7, <1>9 DEF SessionType
<1>11. /\ left.queue = rest /\ left.holder = s.holder /\ left.life = s.life /\ left.ctx = s.ctx
       /\ left.history = s.history
  BY <1>9 DEF SessionType
<1>12. /\ left.queue = Tail(sessions[o].queue) /\ left.holder = None
       /\ left.life = sessions[o].life /\ left.ctx = sessions[o].ctx
       /\ left.history = sessions[o].history
  BY <1>1, <1>7, <1>8, <1>11
<1>13. PICK y \in RequestType : y = req[r]
  BY <1>2
<1>14. wire' = wire /\ hub' = hub /\ UNCHANGED <<fallback, closed, home, events, table>>
  BY <1>1 DEF outside
<1>15. table' \in [Keys -> Objects \union {0}] /\ Cardinality(Entries(table')) <= Capacity
  BY <1>2, <1>14 DEF Entries
<1>16. CASE sessions' = [sessions EXCEPT ![o] = Taking(left, r)] /\ Goes(r, "authorize")
  <2>1. PICK t : t = Taking(left, r)
    OBVIOUS
  <2>2. /\ t \in SessionType /\ t.queue = left.queue /\ t.holder = r /\ t.life = left.life
        /\ t.ctx = left.ctx /\ t.history = left.history
    BY <1>5, <1>10, <1>12, <2>1 DEF Taking, SessionType
  <2>3. PICK x : x = [y EXCEPT !.st = "authorize"]
    OBVIOUS
  <2>4. /\ x \in RequestType /\ x.st = "authorize" /\ x.obj = req[r].obj /\ x.card = req[r].card
        /\ x.ctx = req[r].ctx /\ x.stale = req[r].stale /\ x.plan = req[r].plan
    BY <1>13, <2>3 DEF RequestType, Stages
  <2>5. req' = [req EXCEPT ![r] = x] /\ sessions' = [sessions EXCEPT ![o] = t]
    BY <1>2, <1>13, <1>16, <2>1, <2>3 DEF Goes
  <2>6. sessions' \in [Objects -> SessionType]
    BY <1>2, <2>2, <2>5
  <2>7. LockInv'
    BY <1>1, <1>5, <1>10, <1>12, <2>2, <2>4, <2>5, WakeLock
  <2>8. CardInv'
    BY <1>5, <1>6, <1>14, <2>4, <2>5, WaitingCards
  <2>9. TypeOK' /\ SubmitsWell
    BY <1>5, <1>14, <1>15, <2>4, <2>5, <2>6, ArrivalType
  <2> QED BY <2>7, <2>8, <2>9 DEF GoodStep, HomeInv
<1>17. CASE /\ sessions' = [sessions EXCEPT ![o] = left]
            /\ req' = [req EXCEPT ![r].st = "done", ![r].card = "refused"]
  <2>1. PICK x : x = [y EXCEPT !.st = "done", !.card = "refused"]
    OBVIOUS
  <2>2. /\ x \in RequestType /\ x.st = "done" /\ x.obj = req[r].obj /\ x.card = "refused"
        /\ x.ctx = req[r].ctx /\ x.stale = req[r].stale /\ x.plan = req[r].plan
    BY <1>13, <2>1 DEF RequestType, Stages, Cards
  <2>3. req' = [req EXCEPT ![r] = x]
    BY <1>2, <1>13, <1>17, <2>1
  <2>4. /\ sessions' \in [Objects -> SessionType]
        /\ sessions' = [sessions EXCEPT ![o] = left]
    BY <1>2, <1>10, <1>17
  <2>5. LockInv'
    BY <1>1, <1>5, <1>10, <1>12, <2>2, <2>3, <2>4, WakeLock
  <2>6. CardInv'
    BY <1>5, <1>6, <1>14, <2>2, <2>3, WaitingCards
  <2>7. TypeOK' /\ SubmitsWell
    BY <1>5, <1>14, <1>15, <2>2, <2>3, <2>4, ArrivalType
  <2> QED BY <2>5, <2>6, <2>7 DEF GoodStep, HomeInv
<1> QED BY <1>5, <1>7, <1>8, <1>9, <1>16, <1>17 DEF Wake

LEMMA HomeNextInv == HomeInv /\ [Next]_vars => GoodStep
<1> SUFFICES ASSUME HomeInv, [Next]_vars PROVE GoodStep
  OBVIOUS
<1>1. CASE UNCHANGED vars
  <2>1. LockInv'
    BY <1>1 DEF vars, HomeInv, LockInv, SessionGood, HandlerGood, OrderGood
  <2>2. CardInv'
    BY <1>1 DEF vars, HomeInv, CardInv, CardGood, HubGood, Confirmed
  <2>3. TypeOK'
    BY <1>1 DEF vars, HomeInv, TypeOK, Entries
  <2>4. SubmitsWell
    BY <1>1 DEF vars, SubmitsWell, Submits
  <2> QED BY <2>1, <2>2, <2>3, <2>4 DEF GoodStep, HomeInv
<1>2. ASSUME NEW r \in Requests, Arrive(r) PROVE GoodStep
  BY <1>2, OpenStep, JoinStep, RefuseStep DEF Arrive
<1>3. ASSUME NEW r \in Requests, Advance(r) PROVE GoodStep
  BY <1>3, AdvanceStep
<1>4. ASSUME NEW r \in Requests, Runtime(r) PROVE GoodStep
  BY <1>4, RuntimeStep
<1>5. ASSUME NEW o \in Objects, Wake(o) \/ EndSession(o) \/ ContextExpires(o) \/ SessionCools(o)
      PROVE  GoodStep
  BY <1>5, WakeStep, EventStep
<1>6. ASSUME NEW y \in Movable, HomeChanges(y) PROVE GoodStep
  BY <1>6, HomeChangesStep
<1>7. CASE Close
  BY <1>7, HomeCloseStep
<1> QED BY <1>1, <1>2, <1>3, <1>4, <1>5, <1>6, <1>7 DEF Next

LEMMA HomeAlways == Spec => []HomeInv
<1>1. HomeInv /\ [Next]_vars => HomeInv'
  BY HomeNextInv DEF GoodStep
<1> QED BY <1>1, HomeInitInv, PTL DEF Spec

\* Every step of SmartHomeApplication, its sessions and the Hub stays within the types, and the
\* table of HomeSessions within its capacity.
THEOREM HomeWellTyped == Spec => []TypeOK
<1>1. HomeInv => TypeOK
  BY DEF HomeInv
<1> QED BY <1>1, HomeAlways, PTL

\* summarize and the outcomes of HomeActuator.execute: a card that does not speak of an execution
\* means that the Hub ran nothing for this command, and "executed" that every device of its plan
\* was confirmed.
THEOREM CardTellsTheTruth == Spec => []TruthfulCard
<1>1. HomeInv => TruthfulCard
  <2> SUFFICES ASSUME HomeInv PROVE TruthfulCard
    OBVIOUS
  <2>1. (\A r \in Requests : CardGood(r)) /\ (\A h \in hub : HubGood(h))
    BY DEF HomeInv, CardInv
  <2>2. ASSUME NEW r \in Requests, req[r].card \in Cards \ {"executed", "partial", "failed"},
               NEW h \in hub
        PROVE  h.for # r
    BY <2>1, <2>2 DEF CardGood, HubGood, Spoken
  <2>3. ASSUME NEW r \in Requests, req[r].card = "executed" PROVE Confirmed(r, req[r].plan)
    BY <2>1, <2>3 DEF CardGood
  <2> QED BY <2>2, <2>3 DEF TruthfulCard, Confirmed
<1> QED BY <1>1, HomeAlways, PTL

\* HomeContext: a command acts only with a reference that was live when the model answered and
\* comes from the turn before it, and an ended session keeps nothing of what was said.
THEOREM FocusIsOfTheTurnBefore == Spec => []FocusIsPrevious
<1>1. HomeInv => FocusIsPrevious
  <2> SUFFICES ASSUME HomeInv PROVE FocusIsPrevious
    OBVIOUS
  <2>1. ASSUME NEW r \in Requests, req[r].st = "execute", HasContext(r)
        PROVE  /\ ~req[r].stale
               /\ \A q \in Requests :
                    (/\ req[q].obj = req[r].obj /\ req[q].st = "done"
                     /\ req[r].ctx.by < q /\ q < r)
                    => req[q].card \in {"refused", "unheard", "unavailable"}
    <3>1. HandlerGood(r)
      BY DEF HomeInv, LockInv
    <3> QED BY <2>1, <3>1 DEF HandlerGood, HasContext, Quiet
  <2>2. \A o \in Objects : sessions[o].life = "ended" =>
           sessions[o].ctx = Blank /\ sessions[o].history = 0
    BY DEF HomeInv, LockInv, SessionGood
  <2> QED BY <2>1, <2>2 DEF FocusIsPrevious
<1> QED BY <1>1, HomeAlways, PTL

\* handle() under the lock of HomeSession: a plan is submitted only from inside the lock and while
\* the session is open, and no later command of the session has submitted one before it.
THEOREM CommandsAreInOrder == Spec => InOrder
<1>1. ASSUME HomeInv, [Next]_vars, NEW r \in Requests, Submits(r)
      PROVE  LET s == sessions[req[r].obj]
                 later == {q \in Requests : r < q /\ req[q].obj = req[r].obj}
             IN /\ s.life = "open" /\ s.holder = r
                /\ \A q \in later : req[q].plan = {}
  <2>1. req[r].st = "recheck" /\ Current(r)
    BY <1>1, HomeNextInv DEF GoodStep, SubmitsWell
  <2>2. req[r].st \in InLock /\ req[r].st # "done"
    BY <2>1 DEF InLock
  <2>3. req[r].obj \in Objects /\ sessions[req[r].obj].holder = r
    BY <1>1, <2>2, HolderFacts
  <2>4. sessions[req[r].obj].life = "open"
    BY <2>1 DEF Current
  <2>5. ASSUME NEW q \in Requests, r < q, req[q].obj = req[r].obj PROVE req[q].plan = {}
    <3>1. OrderGood(r, q) /\ CardGood(q)
      BY <1>1 DEF HomeInv, LockInv, CardInv
    <3>2. req[q].st = "queued"
      BY <2>2, <2>3, <2>5, <3>1 DEF OrderGood
    <3> QED BY <3>1, <3>2 DEF CardGood
  <2> QED BY <2>3, <2>4, <2>5
<1>2. HomeInv /\ [Next]_vars =>
        [\A r \in Requests : Submits(r) =>
           LET s == sessions[req[r].obj]
               later == {q \in Requests : r < q /\ req[q].obj = req[r].obj}
           IN /\ s.life = "open" /\ s.holder = r
              /\ \A q \in later : req[q].plan = {}]_vars
  BY <1>1
<1> QED BY <1>2, HomeAlways, PTL DEF Spec, InOrder
=============================================================================
