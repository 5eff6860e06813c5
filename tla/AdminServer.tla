---------------------------- MODULE AdminServer ----------------------------
(***************************************************************************)
(* The admin API over SharedConfig: main() loads the configuration once    *)
(* and publishes it; from then on AdminHandler answers GET /healthz and    *)
(* POST /config/reload.  A reload reads the directory file by file (see    *)
(* ConfigLoader) inside onEOM, that is, on the event loop of the admin     *)
(* server's only worker, and then swaps SharedConfig::current.             *)
(*                                                                         *)
(* Every member of Loads except Startup is an admin request, and names     *)
(* the load it runs if it is a reload.                                     *)
(***************************************************************************)
EXTENDS ConfigLoader, FiniteSets

CONSTANT Startup   \* the load in main()

ASSUME StartupAssumption == Startup \in Loads /\ IsFiniteSet(Loads)

VARIABLES
  handler,   \* the AdminHandler of each request: "none", "open" (it has its
             \* headers), "loading" (in onEOM), "answered", "deleted"
  target,    \* the method and path it was asked for
  reply,     \* the status it was answered with, or "none"
  current,   \* SharedConfig::current: <<store>>, or << >> while it is null
  began      \* history: the reloads in the order in which they began

adminVars == <<handler, target, reply, current, began>>
vars == <<loaderVars, adminVars>>

Requests == Loads \ {Startup}

Init ==
  /\ LoaderInit
  /\ handler = [r \in Requests |-> "none"]
  /\ target = [r \in Requests |-> "other"]
  /\ reply = [r \in Requests |-> "none"]
  /\ current = << >>
  /\ began = << >>

-----------------------------------------------------------------------------
(* main() loads and publishes before it starts the admin server.           *)

StartupLoad ==
  /\ LoadStep(Startup)
  /\ UNCHANGED adminVars

Publish ==
  /\ pc[Startup] = "returned"
  /\ current = << >>
  /\ current' = <<store[Startup]>>
  /\ UNCHANGED <<loaderVars, handler, target, reply, began>>

-----------------------------------------------------------------------------
(* The event loops.  HTTPServerOptions::threads is 1: while onEOM loads,   *)
(* no other callback of any handler runs.                                  *)

Workers_Two == 2

Workers == 1

FreeWorker ==
  /\ current # << >>
  /\ Cardinality({r \in Requests : handler[r] = "loading"}) < Workers

(* AdminHandlerFactory::onRequest and AdminHandler::onRequest              *)
OnRequest(r) ==
  /\ FreeWorker
  /\ handler[r] = "none"
  /\ handler' = [handler EXCEPT ![r] = "open"]
  /\ \E t \in {"healthz", "reload", "other"} : target' = [target EXCEPT ![r] = t]
  /\ UNCHANGED <<loaderVars, reply, current, began>>

Answer(r, status) ==
  /\ reply' = [reply EXCEPT ![r] = status]
  /\ handler' = [handler EXCEPT ![r] = "answered"]

(* AdminHandler::onEOM, when there is nothing to load                      *)
OnEOM(r) ==
  /\ FreeWorker
  /\ handler[r] = "open"
  /\ \/ target[r] = "healthz" /\ Answer(r, "200")
     \/ target[r] = "other" /\ Answer(r, "404")
  /\ UNCHANGED <<loaderVars, target, current, began>>

(* AdminHandler::onEOM for a reload: loadFromDirectory is called without   *)
(* the lock,                                                               *)
ReloadBegins(r) ==
  /\ FreeWorker
  /\ handler[r] = "open"
  /\ target[r] = "reload"
  /\ handler' = [handler EXCEPT ![r] = "loading"]
  /\ began' = Append(began, r)
  /\ UNCHANGED <<loaderVars, target, reply, current>>

ReloadReads(r) ==
  /\ handler[r] = "loading"
  /\ LoadStep(r)
  /\ UNCHANGED adminVars

(* and what it returns is swapped in under the lock and confirmed,         *)
ReloadSwaps(r) ==
  /\ handler[r] = "loading"
  /\ pc[r] = "returned"
  /\ current' = <<store[r]>>
  /\ Answer(r, "200")
  /\ UNCHANGED <<loaderVars, target, began>>

(* or an exception is answered with a 500.                                 *)
ReloadFails_Uncaught(r) ==
  /\ handler[r] = "loading"
  /\ pc[r] = "threw"
  /\ UNCHANGED <<loaderVars, adminVars>>

ReloadFails_HalfLoaded(r) ==
  /\ handler[r] = "loading"
  /\ pc[r] = "threw"
  /\ current' = <<store[r]>>
  /\ Answer(r, "500")
  /\ UNCHANGED <<loaderVars, target, began>>

ReloadFails(r) ==
  /\ handler[r] = "loading"
  /\ pc[r] = "threw"
  /\ Answer(r, "500")
  /\ UNCHANGED <<loaderVars, target, current, began>>

OnUpgrade_Accepts(r) ==
  /\ FreeWorker
  /\ handler[r] = "open"
  /\ Answer(r, "101")
  /\ UNCHANGED <<loaderVars, target, current, began>>

OnUpgrade(r) ==
  /\ FreeWorker
  /\ handler[r] = "open"
  /\ Answer(r, "400")
  /\ UNCHANGED <<loaderVars, target, current, began>>

(* requestComplete and onError delete the handler.                         *)
RequestComplete(r) ==
  /\ FreeWorker
  /\ handler[r] = "answered"
  /\ handler' = [handler EXCEPT ![r] = "deleted"]
  /\ UNCHANGED <<loaderVars, target, reply, current, began>>

OnError(r) ==
  /\ FreeWorker
  /\ handler[r] \in {"open", "answered"}
  /\ handler' = [handler EXCEPT ![r] = "deleted"]
  /\ UNCHANGED <<loaderVars, target, reply, current, began>>

HandlerStep(r) ==
  \/ OnEOM(r) \/ OnUpgrade(r) \/ RequestComplete(r) \/ OnError(r)
  \/ ReloadBegins(r) \/ ReloadReads(r) \/ ReloadSwaps(r) \/ ReloadFails(r)

Deployed ==
  /\ \/ \E f \in Files, t \in Texts \cup {NoFile} : Edit(f, t)
     \/ \E s \in {"there", "missing", "unreadable"} : Mount(s)
  /\ UNCHANGED adminVars

Next ==
  \/ StartupLoad \/ Publish \/ Deployed
  \/ \E r \in Requests : OnRequest(r) \/ HandlerStep(r)

Spec == Init /\ [][Next]_vars

(* main() and the event loop run.  A client that sends no end of message   *)
(* runs into the server's timeout, which is an onError; a response that is *)
(* sent is completed or fails.                                             *)
FairSpec ==
  /\ Spec
  /\ WF_vars(StartupLoad \/ Publish)
  /\ \A r \in Requests : WF_vars(HandlerStep(r))

-----------------------------------------------------------------------------
(* Properties                                                              *)

(* Every piece of state has a value of its type.                           *)
TypeOK ==
  /\ LoaderTypeOK
  /\ handler \in [Requests -> {"none", "open", "loading", "answered", "deleted"}]
  /\ target \in [Requests -> {"healthz", "reload", "other"}]
  /\ reply \in [Requests -> {"none", "200", "400", "404", "500"}]
  /\ Len(began) <= Cardinality(Requests)

Confirmed(r) == target[r] = "reload" /\ reply[r] = "200"

(* Reloads take effect in the order in which they were begun: the current  *)
(* configuration is what the latest confirmed reload read, and is never    *)
(* put back to what an earlier one, which took longer, read before.        *)
LastReloadWins ==
  \A i \in DOMAIN began :
    (Confirmed(began[i]) /\ \A j \in (i + 1) .. Len(began) : ~ Confirmed(began[j]))
      => current = <<store[began[i]]>>

(* SharedConfig::current is always what a load returned from end to end: a *)
(* reload that fails half-way leaves the configuration it found.           *)
CurrentIsComplete ==
  current # << >> => \E l \in Loads : pc[l] = "returned" /\ current = <<store[l]>>

(* What a confirmed reload puts into SharedConfig::current: every          *)
(* well-formed document that lay in the directory all the time since the   *)
(* reload began, until the next reload.  It says nothing of the data       *)
(* plane, which never reads current: see ReloadTakesEffect of              *)
(* GatewayProcess.                                                         *)
ReloadApplies ==
  \A i \in DOMAIN began :
    LET r == began[i]
    IN  (Confirmed(r) /\ \A j \in (i + 1) .. Len(began) : ~ Confirmed(began[j])) =>
          \A f \in Files, t \in Texts : Steady(r, f, t) => Loaded(t, current[1])

(* Every admin request comes to an end, a health check that arrives while  *)
(* a reload occupies the worker included.                                  *)
EveryRequestEnds == \A r \in Requests : handler[r] = "open" ~> handler[r] = "deleted"

(* A reload that has begun is answered.                                    *)
EveryReloadAnswered ==
  \A r \in Requests : handler[r] = "loading" ~> reply[r] \in {"200", "500"}
=============================================================================
