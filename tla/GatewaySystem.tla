--------------------------- MODULE GatewaySystem ---------------------------
(***************************************************************************)
(* The whole control side of the gateway process: main() with its servers  *)
(* (GatewayProcess) on top of the loader that reads the directory file by  *)
(* file (ConfigLoader) and the admin API that runs it again (AdminServer). *)
(*                                                                         *)
(* GatewayProcess lets main() and a reload read the configuration in one   *)
(* step.  Here they take as many steps as the code does, and P!Spec says   *)
(* that this makes no difference to the rest of the process.               *)
(***************************************************************************)
EXTENDS AdminServer

CONSTANTS NotBuilt, Unreadable, Generated   \* see GatewayProcess

VARIABLES main, next, jwksCaches, plane, admin, gateway   \* see GatewayProcess

processVars == <<main, next, jwksCaches, plane, admin, gateway>>
systemVars == <<vars, processVars>>

-----------------------------------------------------------------------------
(* GatewayProcess sees of a ConfigStore what PolicyEngine uses.            *)
View(s) == [policies |-> s.policies,
            routers  |-> [k \in DOMAIN s.routers |-> s.routers[k].policies]]

Views == [policies : Seq({PolicyConfig(t) : t \in OfKind("Policy")}),
          routers  : Seq({RouterConfig(t).policies : t \in OfKind("Router")})]

(* A directory that cannot be listed is told apart from one that can.      *)
ASSUME UnreadableAssumption == Unreadable \notin Views

(* What it takes for the content of the directory is what the latest load  *)
(* made of it.                                                             *)
Settled(l) == pc[l] \in {"returned", "threw"}

Result(l) == IF pc[l] = "threw" THEN Unreadable ELSE View(store[l])

dirBar ==
  IF began # << >> /\ Settled(began[Len(began)]) THEN Result(began[Len(began)])
  ELSE IF Settled(Startup) THEN Result(Startup)
  ELSE View(EmptyStore)

storeBar == IF main = "load" \/ pc[Startup] # "returned" THEN NotBuilt ELSE View(store[Startup])

currentBar == IF current = << >> THEN NotBuilt ELSE View(current[1])

P == INSTANCE GatewayProcess
       WITH dir <- dirBar, store <- storeBar, current <- currentBar, Stores <- Views

-----------------------------------------------------------------------------
SystemInit ==
  /\ Init
  /\ main = "load" /\ next = 1
  /\ jwksCaches = P!NoCaches /\ plane = NotBuilt
  /\ admin = "none" /\ gateway = "none"

(* main(): loadFromDirectory, step by step, then its result.               *)
MainReads ==
  /\ main = "load"
  /\ StartupLoad
  /\ UNCHANGED processVars

MainLoads ==
  /\ UNCHANGED vars
  /\ Settled(Startup)
  /\ P!LoadConfig \/ P!LoadFails

MainFetches ==
  /\ UNCHANGED vars
  /\ P!SkipPolicy \/ P!FetchJwks \/ P!FetchFails \/ P!BuildFails

MainBuilds ==
  /\ main = "fetch"
  /\ Publish
  /\ P!BuildServers

(* Stopping the admin server joins its worker, which finishes the reload   *)
(* it is busy with.                                                        *)
MainStops ==
  /\ UNCHANGED vars
  /\ \A r \in Requests : handler[r] # "loading"
  /\ P!StopAdmin

ThreadsRun ==
  /\ UNCHANGED vars
  /\ \/ P!StartAdmin \/ P!StartGateway \/ P!JoinGateway \/ P!JoinAdmin
     \/ P!AdminStarts \/ P!GatewayStarts \/ P!Signal

(* The admin API is served while its server listens.                       *)
AdminServes ==
  /\ P!Running
  /\ admin = "listening"
  /\ \E r \in Requests : OnRequest(r) \/ HandlerStep(r)
  /\ UNCHANGED processVars

DirectoryEdited ==
  /\ Deployed
  /\ UNCHANGED processVars

SystemNext ==
  \/ MainReads \/ MainLoads \/ MainFetches \/ MainBuilds \/ MainStops
  \/ ThreadsRun \/ AdminServes \/ DirectoryEdited

SystemSpec == SystemInit /\ [][SystemNext]_systemVars

-----------------------------------------------------------------------------
(* Properties                                                              *)

(* Reading the directory file by file while it is edited, at startup and   *)
(* in every reload, implements GatewayProcess, where it is one step.       *)
ImplementsProcess == P!Spec

(* The files that held a policy of the name of document t during startup.  *)
Namesakes(t) ==
  {f \in Files : \E d \in held[Startup] :
     d[f] \in OfKind("Policy") /\ Name(d[f]) = Name(t)}

(* From the file to the filter: when a Router document and a Policy        *)
(* document with a jwt section that the router lists both lie in the       *)
(* directory while main() loads, then as soon as the data plane takes      *)
(* traffic the router's chain verifies tokens with that policy's           *)
(* JwtConfig, whatever else the directory holds, whatever is edited, and   *)
(* whatever is reloaded.  (No other policy has the same name.)             *)
ListedPolicyGuards ==
  gateway = "listening" =>
    \A f, g \in Files, router \in OfKind("Router"), policy \in OfKind("Policy") :
      (/\ Steady(Startup, f, router) /\ Steady(Startup, g, policy)
       /\ Namesakes(policy) = {g}
       /\ PolicyConfig(policy).jwt # Absent
       /\ \E k \in DOMAIN RouterConfig(router).policies :
            RouterConfig(router).policies[k] = Name(policy))
      => \A chain \in P!BuildChain(plane.store.policies, plane.caches,
                                   RouterConfig(router).policies) :
           \E i \in DOMAIN chain : /\ chain[i].kind = "JwtPolicy"
                                   /\ chain[i].cache.cfg = PolicyConfig(policy).jwt
=============================================================================
