--------------------------- MODULE GatewayProcess ---------------------------
(***************************************************************************)
(* The gateway process: main() loads the configuration, fetches a JWKS for *)
(* every JWT policy, builds the two servers, runs each on a thread of its  *)
(* own and waits for the data plane to end.  Meanwhile the admin server    *)
(* reloads the configuration on request.                                   *)
(*                                                                         *)
(* A configuration is a record [policies, routers]: the Policy resources   *)
(* (see PolicyEngine) and, for each Router, the sequence of policy names   *)
(* it lists.  The configuration directory holds one, and somebody may      *)
(* replace it at any time.                                                 *)
(***************************************************************************)
EXTENDS PolicyEngine

CONSTANTS
  Stores,     \* the configurations the directory may hold
  Unreadable, \* a directory that cannot be listed
  NotBuilt    \* a server or configuration that does not exist yet

ASSUME StoresAssumption ==
  \A s \in Stores : /\ Len(s.policies) \in Nat
                    /\ \A k \in 1 .. Len(s.routers) : Len(s.routers[k]) \in Nat

VARIABLES
  dir,         \* what ConfigLoader::loadFromDirectory would return now
  main,        \* where main() is
  store,       \* its local variable store
  next,        \* the policy its JWKS loop looks at
  jwksCaches,  \* its local variable jwksCaches
  current,     \* SharedConfig::current
  plane,       \* store_ and jwksCaches_ of the data plane's PolicyEngine
  admin,       \* the admin server's thread
  gateway      \* the data plane's thread

vars == <<dir, main, store, next, jwksCaches, current, plane, admin, gateway>>

NoCaches == [name \in {} |-> Absent]

Init ==
  /\ dir \in Stores \cup {Unreadable}
  /\ main = "load"
  /\ store = NotBuilt
  /\ next = 1
  /\ jwksCaches = NoCaches
  /\ current = NotBuilt
  /\ plane = NotBuilt
  /\ admin = "none"
  /\ gateway = "none"

-----------------------------------------------------------------------------
(* The configuration directory is edited.                                  *)
EditDir ==
  /\ dir' \in Stores \cup {Unreadable}
  /\ UNCHANGED <<main, store, next, jwksCaches, current, plane, admin, gateway>>

(* main(): load the configuration.  A directory that does not exist gives  *)
(* the empty one; one that cannot be listed throws, and nobody catches.    *)
LoadFails ==
  /\ main = "load"
  /\ dir = Unreadable
  /\ main' = "dead"
  /\ UNCHANGED <<dir, store, next, jwksCaches, current, plane, admin, gateway>>

LoadConfig ==
  /\ main = "load"
  /\ dir # Unreadable
  /\ main' = "fetch"
  /\ store' = dir
  /\ UNCHANGED <<dir, next, jwksCaches, current, plane, admin, gateway>>

(* main(): the loop over the policies.  One without jwt is passed over.    *)
Fetching == main = "fetch" /\ next <= Len(store.policies)

SkipPolicy ==
  /\ Fetching
  /\ store.policies[next].jwt = Absent
  /\ next' = next + 1
  /\ UNCHANGED <<dir, main, store, jwksCaches, current, plane, admin, gateway>>

(* JwksCache::fetch succeeds; the cache, with the JwtConfig it was fetched *)
(* for, is entered under the policy's name, replacing an earlier one.      *)
Enter_KeepsFirst(caches, policy) ==
  [name \in DOMAIN caches \cup {policy.name} |->
     IF name \in DOMAIN caches THEN caches[name] ELSE [cfg |-> policy.jwt]]

Enter(caches, policy) ==
  [name \in DOMAIN caches \cup {policy.name} |->
     IF name = policy.name THEN [cfg |-> policy.jwt] ELSE caches[name]]

FetchJwks ==
  /\ Fetching
  /\ store.policies[next].jwt # Absent
  /\ jwksCaches' = Enter(jwksCaches, store.policies[next])
  /\ next' = next + 1
  /\ UNCHANGED <<dir, main, store, current, plane, admin, gateway>>

(* JwksCache::fetch throws: LOG(FATAL).                                    *)
FetchFails_LogsOnly ==
  /\ Fetching
  /\ store.policies[next].jwt # Absent
  /\ next' = next + 1
  /\ UNCHANGED <<dir, main, store, jwksCaches, current, plane, admin, gateway>>

FetchFails ==
  /\ Fetching
  /\ store.policies[next].jwt # Absent
  /\ main' = "dead"
  /\ UNCHANGED <<dir, store, next, jwksCaches, current, plane, admin, gateway>>

(* main(): the shared configuration and both servers are constructed.  The *)
(* data plane is given the configuration itself, not the place where a     *)
(* reload puts a new one.                                                  *)
BuildServers ==
  /\ main = "fetch"
  /\ next > Len(store.policies)
  /\ main' = "startAdmin"
  /\ current' = store
  /\ plane' = [store |-> store, caches |-> jwksCaches]
  /\ UNCHANGED <<dir, store, next, jwksCaches, admin, gateway>>

(* A constructor throws (an address that does not parse): nobody catches.  *)
BuildFails ==
  /\ main = "fetch"
  /\ next > Len(store.policies)
  /\ main' = "dead"
  /\ UNCHANGED <<dir, store, next, jwksCaches, current, plane, admin, gateway>>

(* AdminServer::start and GatewayServer::start each create a thread.       *)
StartAdmin ==
  /\ main = "startAdmin"
  /\ main' = "startGateway"
  /\ admin' = "starting"
  /\ UNCHANGED <<dir, store, next, jwksCaches, current, plane, gateway>>

StartGateway ==
  /\ main = "startGateway"
  /\ main' = "join"
  /\ gateway' = "starting"
  /\ UNCHANGED <<dir, store, next, jwksCaches, current, plane, admin>>

(* The thread runs HTTPServer::start, which listens until the server is    *)
(* stopped, or fails at once, which is only logged.                        *)
Running == main \notin {"dead", "exited"}

AdminStarts ==
  /\ Running
  /\ admin = "starting"
  /\ admin' \in {"listening", "ended"}
  /\ UNCHANGED <<dir, main, store, next, jwksCaches, current, plane, gateway>>

GatewayStarts ==
  /\ Running
  /\ gateway = "starting"
  /\ gateway' \in {"listening", "ended"}
  /\ UNCHANGED <<dir, main, store, next, jwksCaches, current, plane, admin>>

(* SIGINT or SIGTERM stops the data plane.                                 *)
Signal ==
  /\ Running
  /\ gateway = "listening"
  /\ gateway' = "ended"
  /\ UNCHANGED <<dir, main, store, next, jwksCaches, current, plane, admin>>

(* AdminHandler::onEOM for POST /config/reload, in the admin server's only *)
(* worker thread: what the directory holds becomes SharedConfig::current.  *)
(* When the directory cannot be listed the answer is 500 and nothing       *)
(* changes.                                                                *)
Reload_Unchecked ==
  /\ Running
  /\ admin = "listening"
  /\ current' = dir
  /\ UNCHANGED <<dir, main, store, next, jwksCaches, plane, admin, gateway>>

Reload ==
  /\ Running
  /\ admin = "listening"
  /\ dir # Unreadable
  /\ current' = dir
  /\ UNCHANGED <<dir, main, store, next, jwksCaches, plane, admin, gateway>>

(* main(): gateway.join(), admin.stop(), admin.join(), return.             *)
JoinGateway ==
  /\ main = "join"
  /\ gateway = "ended"
  /\ main' = "stopAdmin"
  /\ UNCHANGED <<dir, store, next, jwksCaches, current, plane, admin, gateway>>

StopAdmin_Forgotten ==
  /\ main = "stopAdmin"
  /\ main' = "joinAdmin"
  /\ UNCHANGED <<dir, store, next, jwksCaches, current, plane, admin, gateway>>

(* HTTPServer::stop, which is called whatever became of the server: one    *)
(* that listens ends.  One that failed to start, or whose thread has not   *)
(* got round to start it, does not listen: stop may abort the process, or  *)
(* find nothing to do; then a server that is still starting ends, or goes  *)
(* on and listens, and nobody stops it any more.                           *)
StopAdmin ==
  /\ main = "stopAdmin"
  /\ \/ main' = "joinAdmin" /\ admin' = "ended"
     \/ main' = "joinAdmin" /\ admin = "starting" /\ UNCHANGED admin
     \/ main' = "dead" /\ admin # "listening" /\ UNCHANGED admin
  /\ UNCHANGED <<dir, store, next, jwksCaches, current, plane, gateway>>

JoinAdmin ==
  /\ main = "joinAdmin"
  /\ admin = "ended"
  /\ main' = "exited"
  /\ UNCHANGED <<dir, store, next, jwksCaches, current, plane, admin, gateway>>

MainStep ==
  \/ LoadConfig \/ LoadFails
  \/ SkipPolicy \/ FetchJwks \/ FetchFails
  \/ BuildServers \/ BuildFails
  \/ StartAdmin \/ StartGateway
  \/ JoinGateway \/ StopAdmin \/ JoinAdmin

Next ==
  \/ MainStep
  \/ EditDir
  \/ AdminStarts \/ GatewayStarts
  \/ Signal
  \/ Reload

Spec == Init /\ [][Next]_vars

(* The threads run: main() goes on whenever it is not waiting, fetch and   *)
(* the two server threads included.                                        *)
FairSpec ==
  /\ Spec
  /\ WF_vars(MainStep)
  /\ WF_vars(AdminStarts)
  /\ WF_vars(GatewayStarts)

-----------------------------------------------------------------------------
(* Properties                                                              *)

Steps == {"load", "fetch", "startAdmin", "startGateway", "join", "stopAdmin",
          "joinAdmin", "exited", "dead"}

(* Every piece of state has a value of its type.                           *)
TypeOK ==
  /\ dir \in Stores \cup {Unreadable}
  /\ main \in Steps
  /\ store \in Stores \cup {NotBuilt}
  /\ next \in Nat
  /\ current \in Stores \cup {NotBuilt}
  /\ plane # NotBuilt => plane.store \in Stores
  /\ admin \in {"none", "starting", "listening", "ended"}
  /\ gateway \in {"none", "starting", "listening", "ended"}

(* While the data plane takes traffic, buildChain passes over no JWT       *)
(* policy for want of a cache, whatever was reloaded since: every one of   *)
(* its configuration has a cache (main() fetched it or died), so a router  *)
(* that lists it is guarded by it.                                         *)
EveryJwtPolicyAdds ==
  gateway = "listening" =>
    \A i \in 1 .. Len(plane.store.policies) :
      plane.store.policies[i].jwt # Absent => Adds(plane.caches, plane.store.policies[i])

(* The JWT policies a router lists, by their positions in its list.        *)
ListedJwt(policies, names) ==
  { k \in 1 .. Len(names) : /\ Known(policies, names[k])
                            /\ Lookup(policies, names[k]).jwt # Absent }

(* The chain's JwtPolicy filters are one for each listed policy.           *)
Guards(chain) == { i \in 1 .. Len(chain) : chain[i].kind = "JwtPolicy" }

GuardedBy(policies, caches, names, listed, chain) ==
  /\ \E f \in [Guards(chain) -> listed] :
       /\ \A i, j \in Guards(chain) : i # j => f[i] # f[j]
       /\ \A k \in listed : \E i \in Guards(chain) : f[i] = k
       /\ \A i \in Guards(chain) : chain[i].cache = caches[names[f[i]]]
       /\ \A i, j \in Guards(chain) : i < j =>
            Lookup(policies, names[f[i]]).order <= Lookup(policies, names[f[j]]).order
  /\ chain[1].kind = "HeaderFilter"
  /\ chain[Len(chain)].kind = "RateLimitFilter"

(* EveryJwtPolicyAdds seen from the chains: a request that takes a route   *)
(* has to pass a JwtPolicy filter for each JWT policy the router lists,    *)
(* with that policy's cache, and they come in the policies' order.         *)
ChainsGuarded ==
  gateway = "listening" =>
    \A names \in { plane.store.routers[k] : k \in 1 .. Len(plane.store.routers) } :
      \A chain \in BuildChain(plane.store.policies, plane.caches, names) :
        GuardedBy(plane.store.policies, plane.caches, names,
                  ListedJwt(plane.store.policies, names), chain)

(* A chain verifies a token against the JwtConfig of the very policy that  *)
(* the router lists: each policy has a JwksCache of its own.               *)
OwnCache ==
  gateway = "listening" =>
    \A i \in 1 .. Len(plane.store.policies) :
      LET p == plane.store.policies[i]
      IN  (p = Lookup(plane.store.policies, p.name) /\ p.jwt # Absent)
            => plane.caches[p.name].cfg = p.jwt

(* What a chain verifies tokens against, where OwnCache fails included:    *)
(* the JwtConfig of the last JWT policy of the name that was in the        *)
(* configuration when main() loaded it.                                    *)
LastOfNameCached ==
  gateway = "listening" =>
    LET policies == plane.store.policies
    IN  \A i \in 1 .. Len(policies) :
          (/\ policies[i].jwt # Absent
           /\ \A j \in 1 .. Len(policies) :
                i < j /\ policies[j].name = policies[i].name => policies[j].jwt = Absent)
          => plane.caches[policies[i].name].cfg = policies[i].jwt

(* When the data plane ends, whether it failed to start or was stopped,    *)
(* the process ends too: main() does not wait for an admin server that     *)
(* nobody stops.  This is said of an admin server that has started or      *)
(* failed to; of one that has not, see StopAdmin.                          *)
ShutsDown ==
  (main = "join" /\ gateway = "ended" /\ admin # "starting") ~> main \in {"exited", "dead"}

(* Starting comes to an end, although the loop over the policies waits for *)
(* a fetch for each and the server it asks may say nothing (jwks_cache.cpp *)
(* sets a timeout): the data plane takes traffic, or fails, or the process *)
(* dies.                                                                   *)
StartsUp == main = "load" ~> gateway \in {"listening", "ended"} \/ main = "dead"

(* A reload takes effect without a restart: while the data plane takes     *)
(* traffic, the configuration that POST /config/reload put in place        *)
(* becomes the one it routes by, unless another reload replaces it or the  *)
(* process stops first.                                                    *)
ReloadTakesEffect ==
  \A s \in Stores :
    (gateway = "listening" /\ current = s) ~>
      (gateway # "listening" \/ ~ Running \/ current # s \/ plane.store = s)
=============================================================================
