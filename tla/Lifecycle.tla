----------------------------- MODULE Lifecycle -----------------------------
(***************************************************************************)
(* One process from start to exit: build_application opens what the parts  *)
(* need and starts the background loops, _run serves until a signal, drains*)
(* the servers and then stops the loops and closes the resources one after *)
(* the other.  Every stage of either may raise, which ends the process.    *)
(*                                                                         *)
(* `opened` holds the resources that can be used, `live` the activities    *)
(* that use them: RPCs, HTTP and admin requests, the work that turns leave *)
(* behind, and the loops the process owns.                                 *)
(***************************************************************************)
EXTENDS Naturals, FiniteSets

CONSTANT Deployments    \* the settings a process may be started with

VARIABLES
    deploy,     \* settings and command line of this process
    stage,      \* the stage start-up or shutdown is at
    opened,     \* resources that are open
    live,       \* activities under way
    late        \* a drain of the shutdown ran into its timeout

lifeVars == <<deploy, stage, opened, live, late>>

DeploymentType ==
    [bodyControl : BOOLEAN,     \* body_control.enabled
     standalone : BOOLEAN,      \* runtime.standalone: no NATS, no memory service
     discovery : BOOLEAN,       \* memory.discovery_url: a route refresher
     mementos : BOOLEAN,        \* long_task.transport is mementos_http
     httpOnly : BOOLEAN,        \* --http-only
     realModel : BOOLEAN,       \* the default model loads
     needsModel : BOOLEAN,      \* participation.llm_fallback_enabled
     hub : BOOLEAN]             \* a smart-home token is configured

ASSUME DeploymentsAssumption == Deployments \subseteq DeploymentType

(***************************************************************************)
(* What each activity uses.  A turn engine is built from the container the *)
(* first time a Companion is spoken to, and keeps what it finds there.     *)
(***************************************************************************)
EngineNeeds ==
    {"personas", "memory", "llm", "tools", "bus", "store", "history", "background"}

Uses(activity) ==
    CASE activity = "rpc" -> EngineNeeds \union {"authority", "registry"}
      [] activity = "request" -> EngineNeeds \union {"authority", "registry", "participation"}
      [] activity = "turnWork" -> {"personas", "memory", "bus", "store", "authority"}
      [] activity = "refresher" -> {"routes"}
      [] activity = "worker" -> {"store", "llm", "personas", "authority", "bus"}
      [] activity = "auditDispatch" -> {"store"}
      [] activity = "memoryDispatch" -> {"store", "bus"}

\* The loops that shutdown itself ends; what clients asked for it can only wait for.
Owned == {"refresher", "worker", "auditDispatch", "memoryDispatch"}

LifeInit ==
    /\ deploy \in Deployments
    /\ stage = "configure"
    /\ opened = {}
    /\ live = {}
    /\ late = FALSE

Go(from, to) == stage = from /\ stage' = to /\ UNCHANGED deploy

Opens(resources) == opened' = opened \union resources
Closes(resource) == opened' = opened \ {resource}

(***************************************************************************)
(* Start-up.                                                               *)
(***************************************************************************)
Booting ==
    {"configure", "store", "authority", "bus", "personas", "dispatchers", "router",
     "worker", "tools", "verifier", "registry", "transport", "serve"}

\* build_application: body control is refused outright; no Channel offers it.
Configure ==
    /\ ~deploy.bodyControl
    /\ Go("configure", "store")
    /\ UNCHANGED <<opened, live, late>>

OpenStore ==
    /\ Go("store", "authority")
    /\ Opens({"store"})
    /\ UNCHANGED <<live, late>>

\* The data store of the standalone profile, or a client of System Data.
OpenAuthority ==
    /\ Go("authority", "bus")
    /\ Opens({"authority"})
    /\ UNCHANGED <<live, late>>

\* In-process bus and no memory, or NATS and the memory service.  A failed
\* warm-up of the readers is tolerated, a failed connection to NATS is not.
ConnectBus ==
    /\ Go("bus", "personas")
    /\ Opens({"bus", "memory"} \union (IF deploy.standalone THEN {} ELSE {"routes"}))
    /\ live' = live \union (IF deploy.discovery /\ ~deploy.standalone THEN {"refresher"} ELSE {})
    /\ UNCHANGED late

StartPersonas ==
    /\ Go("personas", "dispatchers")
    /\ Opens({"personas"})
    /\ UNCHANGED <<live, late>>

\* History, fan-out and the task runner; the outbox dispatchers run at once.
StartDispatchers ==
    /\ Go("dispatchers", "router")
    /\ Opens({"history", "background"})
    /\ live' = live \union (IF deploy.standalone THEN {} ELSE {"auditDispatch", "memoryDispatch"})
    /\ UNCHANGED late

\* _build_llm_router: offline, or when the default model did not load, the
\* router speaks through the fake provider.
RealRouter == deploy.realModel /\ ~deploy.standalone

\* The router; a failed warm-up is tolerated.
OpenRouter ==
    /\ Go("router", "worker")
    /\ Opens({"llm"})
    /\ UNCHANGED <<live, late>>

StartWorker ==
    /\ Go("worker", "tools")
    /\ live' = live \union (IF deploy.mementos /\ ~deploy.standalone THEN {"worker"} ELSE {})
    /\ UNCHANGED <<opened, late>>

RegisterTools ==
    /\ Go("tools", "verifier")
    /\ Opens({"tools"})
    /\ UNCHANGED <<live, late>>

\* The token verifier, with a configured or a persisted secret.
BuildVerifier ==
    /\ Go("verifier", "registry")
    /\ Opens({"verifier"})
    /\ UNCHANGED <<live, late>>

BuildRegistry ==
    /\ Go("registry", "transport")
    /\ Opens({"registry"})
    /\ UNCHANGED <<live, late>>

\* The servicer and both apps, the admin app with its participation client; a
\* participation fallback needs a real model.
BuildTransport ==
    /\ deploy.needsModel => RealRouter
    /\ Go("transport", "serve")
    /\ Opens({"apps", "participation"} \union (IF deploy.hub THEN {"home"} ELSE {}))
    /\ UNCHANGED <<live, late>>

\* _run: listen on gRPC, unless only HTTP is served, and start both servers.
Serve ==
    /\ Go("serve", "serving")
    /\ Opens(IF deploy.httpOnly THEN {"http"} ELSE {"http", "grpc"})
    /\ UNCHANGED <<live, late>>

\* A stage raises: asyncio.run cancels what was started and the process ends
\* with the error; nothing is closed in order.
BootFails ==
    /\ stage \in Booting
    /\ stage' = "failed"
    /\ live' = {}
    /\ UNCHANGED <<deploy, opened, late>>

(***************************************************************************)
(* What runs.                                                              *)
(***************************************************************************)
RunningStages ==
    {"serving", "stopGrpc", "drainServers", "stopRefresher", "stopWorker", "drainTurns",
     "stopDispatchers", "closeMemory", "closeRouter", "closeAuthority", "closeStore",
     "closeHome"}

\* A server accepts work until it is told to stop.
ClientCalls(activity) ==
    /\ stage = "serving"
    /\ activity = "rpc" => "grpc" \in opened
    /\ live' = live \union {activity}
    /\ UNCHANGED <<deploy, stage, opened, late>>

\* A turn yields DONE and leaves its persistence and fan-out to the runner.
LeaveWork(activity) ==
    /\ stage \in RunningStages
    /\ activity \in live
    /\ live' = live \union {"turnWork"}
    /\ UNCHANGED <<deploy, stage, opened, late>>

Finish(activity) ==
    /\ stage \in RunningStages
    /\ activity \in live
    /\ live' = live \ {activity}
    /\ UNCHANGED <<deploy, stage, opened, late>>

(***************************************************************************)
(* Shutdown.                                                               *)
(***************************************************************************)
\* SIGTERM or SIGINT sets the event; both HTTP servers are told to exit.
Signal ==
    /\ Go("serving", "stopGrpc")
    /\ Closes("http")
    /\ UNCHANGED <<live, late>>

\* Mutant: the server's stop is not awaited.
MutStopGrpc ==
    /\ Go("stopGrpc", "drainServers")
    /\ Closes("grpc")
    /\ UNCHANGED <<live, late>>

\* stop(grace): no new RPC; those under way end, or are cancelled when the
\* grace period is over, still leaving the work of their finally blocks.
StopGrpc ==
    /\ Go("stopGrpc", "drainServers")
    /\ Closes("grpc")
    /\ \/ "rpc" \notin live /\ UNCHANGED live
       \/ "rpc" \in live /\ live' \in {live \ {"rpc"}, (live \ {"rpc"}) \union {"turnWork"}}
    /\ UNCHANGED late

\* wait_for(serve task): the requests end and the lifespan of the admin app
\* closes its client; or the wait is given up, the handlers run on, and the
\* client is closed only if they are those of the other server.
DrainServers ==
    /\ Go("drainServers", "stopRefresher")
    /\ late' = ("request" \in live)
    /\ \/ Closes("participation")
       \/ "request" \in live /\ UNCHANGED opened
    /\ UNCHANGED live

StopRefresher ==
    /\ Go("stopRefresher", "stopWorker")
    /\ live' = live \ {"refresher"}
    /\ UNCHANGED <<opened, late>>

StopWorker ==
    /\ Go("stopWorker", "drainTurns")
    /\ live' = live \ {"worker"}
    /\ UNCHANGED <<opened, late>>

\* background_tasks.drain: the work turns left is done, or the wait ends.
DrainTurns ==
    /\ Go("drainTurns", "stopDispatchers")
    /\ late' = (late \/ "turnWork" \in live)
    /\ UNCHANGED <<opened, live>>

StopDispatchers ==
    /\ Go("stopDispatchers", "closeMemory")
    /\ live' = live \ {"auditDispatch", "memoryDispatch"}
    /\ UNCHANGED <<opened, late>>

\* The persona service has nothing to stop; then the memory port is closed.
CloseMemory ==
    /\ Go("closeMemory", "closeRouter")
    /\ Closes("memory")
    /\ UNCHANGED <<live, late>>

CloseRouter ==
    /\ Go("closeRouter", "closeAuthority")
    /\ Closes("llm")
    /\ UNCHANGED <<live, late>>

CloseAuthority ==
    /\ Go("closeAuthority", "closeStore")
    /\ Closes("authority")
    /\ UNCHANGED <<live, late>>

CloseStore ==
    /\ Go("closeStore", "closeHome")
    /\ Closes("store")
    /\ UNCHANGED <<live, late>>

\* What the shutdown awaits raises: only the timeout of a drain and the
\* CancelledError of a dispatcher are caught.  What follows is skipped, and
\* asyncio.run cancels what is left.
ShutdownFails ==
    /\ stage \in RunningStages \ {"serving"}
    /\ stage' = "failed"
    /\ live' = {}
    /\ UNCHANGED <<deploy, opened, late>>

\* The smart-home application last; then the loop ends and cancels the rest.
CloseHome ==
    /\ Go("closeHome", "exited")
    /\ Closes("home")
    /\ live' = {}
    /\ UNCHANGED late

BootStep ==
    \/ Configure
    \/ OpenStore
    \/ OpenAuthority
    \/ ConnectBus
    \/ StartPersonas
    \/ StartDispatchers
    \/ OpenRouter
    \/ StartWorker
    \/ RegisterTools
    \/ BuildVerifier
    \/ BuildRegistry
    \/ BuildTransport
    \/ Serve
    \/ BootFails

StopStep ==
    \/ Signal
    \/ StopGrpc
    \/ DrainServers
    \/ StopRefresher
    \/ StopWorker
    \/ DrainTurns
    \/ StopDispatchers
    \/ CloseMemory
    \/ CloseRouter
    \/ CloseAuthority
    \/ CloseStore
    \/ CloseHome
    \/ ShutdownFails

LifeNext ==
    \/ BootStep
    \/ \E activity \in {"rpc", "request"} : ClientCalls(activity) \/ LeaveWork(activity)
    \/ \E activity \in {"rpc", "request", "turnWork"} : Finish(activity)
    \/ StopStep

LifeSpec == LifeInit /\ [][LifeNext]_lifeVars

(***************************************************************************)
(* Nothing that runs has lost what it uses.  The loops the process owns    *)
(* find everything open from the moment they are started to the moment     *)
(* they are stopped, in every profile, whatever stage raises.              *)
(* RPCs, requests and the work of turns do too, unless a drain of the      *)
(* shutdown timed out and left them running.                               *)
(***************************************************************************)
NothingUsesWhatIsClosed ==
    \A activity \in live :
        activity \in Owned \/ ~late => Uses(activity) \subseteq opened
=============================================================================
