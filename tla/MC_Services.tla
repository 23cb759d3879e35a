---------------------------- MODULE MC_Services ----------------------------
(***************************************************************************)
(* Small instances of the parts that work behind the turns: the memory and *)
(* the audit outbox, the memory service client, the live turn board, the   *)
(* admission of streams and the life of the process.  They share no state, *)
(* so a behaviour runs one of them (`service`) and leaves the others in    *)
(* one initial state; the state spaces add up instead of multiplying.      *)
(***************************************************************************)
EXTENDS MemoryOutbox, MemoryClient, AuditOutbox, LiveTurns, RuntimeAccess, Lifecycle, TLC

CONSTANTS a1, a2, b1

VARIABLE service

\* Turns a1 and a2 of one Realm and b1 of another, of two owners.
MCSubject == [t \in Turns |-> IF t = b1 THEN "realm_b" ELSE "realm_a"]
OwnerPerTurn == [t \in Turns |-> IF t = a1 THEN "owner_1" ELSE "owner_2"]

\* The third stream repeats the turn of the first.
MCTurnIdOf == [r \in BoardRuns |-> IF r = 2 THEN "t2" ELSE "t1"]

Symmetric == Permutations(Streams)

ServicesInit ==
    /\ service \in {"outbox", "memory", "audit", "board", "access", "process"}
    /\ Init
    /\ MemoryInit
    /\ service # "memory" => /\ route.reachable
                             /\ route.url = CHOOSE u \in Urls : TRUE
    /\ AuditInit
    /\ BoardInit
    /\ AccessInit
    /\ LifeInit
    /\ service # "process" => deploy = CHOOSE d \in Deployments : TRUE

ServicesNext ==
    /\ UNCHANGED service
    /\ \/ /\ service = "outbox" /\ Next
          /\ UNCHANGED <<memoryVars, auditVars, boardVars, accessVars, lifeVars>>
       \/ /\ service = "memory" /\ MemoryNext
          /\ UNCHANGED <<vars, auditVars, boardVars, accessVars, lifeVars>>
       \/ /\ service = "audit" /\ AuditNext
          /\ UNCHANGED <<vars, memoryVars, boardVars, accessVars, lifeVars>>
       \/ /\ service = "board" /\ BoardNext
          /\ UNCHANGED <<vars, memoryVars, auditVars, accessVars, lifeVars>>
       \/ /\ service = "access" /\ AccessNext
          /\ UNCHANGED <<vars, memoryVars, auditVars, boardVars, lifeVars>>
       \/ /\ service = "process" /\ LifeNext
          /\ UNCHANGED <<vars, memoryVars, auditVars, boardVars, accessVars>>

ServicesSpec ==
    /\ ServicesInit
    /\ [][ServicesNext]_<<service, vars, memoryVars, auditVars, boardVars, accessVars, lifeVars>>
=============================================================================
