------------------------- MODULE GatewaySystemProofs -------------------------
(***************************************************************************)
(* Theorems about GatewaySystem: reading the directory file by file, in    *)
(* main() and in every reload, implements GatewayProcess, so what holds of *)
(* GatewayProcess holds of the system; and a policy document guards every  *)
(* router that lists it.                                                   *)
(***************************************************************************)
EXTENDS GatewaySystem, AdminServerProofs

-----------------------------------------------------------------------------
(* The system implements GatewayProcess.                                   *)

(* Every step of the system is one of AdminServer as far as it is          *)
(* concerned, or none.                                                     *)
LEMMA SystemIsAdmin == SystemSpec => Spec
<1>1. SystemInit => Init
  BY ZenonT(40) DEF SystemInit
<1>2. [SystemNext]_systemVars => [Next]_vars
  BY ZenonT(40) DEF SystemNext, systemVars, Next, MainReads, MainLoads, MainFetches, MainBuilds,
               MainStops, ThreadsRun, AdminServes, DirectoryEdited
<1> QED
  BY <1>1, <1>2, PTL DEF SystemSpec, Spec

(* The lists of names of a list of routers are a list,                     *)
LEMMA NamesOfRouters ==
  ASSUME NEW R, NEW N, NEW q \in Seq(R), \A r \in R : r.policies \in N
  PROVE  [k \in DOMAIN q |-> q[k].policies] \in Seq(N)
OBVIOUS

(* the places of a list are the numbers up to its length,                  *)
LEMMA PlacesOfList ==
  ASSUME NEW S, NEW q \in Seq(S)
  PROVE  Len(q) \in Nat /\ DOMAIN q = 1 .. Len(q)
OBVIOUS

(* an element of a list with one more is one of the list or the new one,   *)
LEMMA AppendedElement ==
  ASSUME NEW S, NEW q \in Seq(S), NEW x, NEW i \in DOMAIN Append(q, x)
  PROVE  (i \in DOMAIN q /\ Append(q, x)[i] = q[i]) \/ Append(q, x)[i] = x
OBVIOUS

(* and the list of one is what current holds after a reload.               *)
LEMMA ListOfOne ==
  ASSUME NEW x
  PROVE  <<x>> # << >> /\ <<x>>[1] = x
OBVIOUS

(* What GatewayProcess sees is made of two lists.                          *)
LEMMA PairOfLists ==
  ASSUME NEW A, NEW B, NEW p \in A, NEW n \in B
  PROVE  [policies |-> p, routers |-> n] \in [policies : A, routers : B]
OBVIOUS

(* The place of a policy in a chain is within the chain.                   *)
LEMMA PlaceInChain ==
  ASSUME NEW m \in Nat, NEW k \in 1 .. m
  PROVE  k + 1 \in 1 .. (m + 2)
OBVIOUS

(* GatewayProcess sees a configuration in every store.                     *)
LEMMA ViewTyped == \A s \in Stores : View(s) \in Views
<1> SUFFICES ASSUME NEW s \in Stores PROVE View(s) \in Views
  BY ZenonT(40)
<1> DEFINE R == {RouterConfig(t) : t \in OfKind("Router")}
           N == {RouterConfig(t).policies : t \in OfKind("Router")}
           names == [k \in DOMAIN s.routers |-> s.routers[k].policies]
<1>1. s.routers \in Seq(R) /\ s.policies \in Seq({PolicyConfig(t) : t \in OfKind("Policy")})
  BY ZenonT(40) DEF Stores
<1>2. \A r \in R : r.policies \in N
  BY ZenonT(40)
<1> HIDE DEF R, N
<1>3. names \in Seq(N)
  BY <1>1, <1>2, NamesOfRouters, ZenonT(40)
<1> HIDE DEF names
<1>4. View(s) = [policies |-> s.policies, routers |-> names]
  BY ZenonT(40) DEF View, names
<1> QED
  BY <1>1, <1>3, <1>4, PairOfLists, ZenonT(40) DEF Views, N

(* So the directory that GatewayProcess sees is one that it may see.       *)
LEMMA DirTyped == AdminInv => dirBar \in Views \cup {Unreadable}
<1> SUFFICES ASSUME AdminInv PROVE dirBar \in Views \cup {Unreadable}
  BY ZenonT(40)
<1>1. \A l \in Loads : Result(l) \in Views \cup {Unreadable}
  <2>1. \A l \in Loads : store[l] \in Stores
    BY ZenonT(40) DEF AdminInv, LoaderInv, LoaderTypes
  <2> QED
    BY <2>1, ViewTyped, ZenonT(40) DEF Result
<1>2. began # << >> => began[Len(began)] \in Loads
  <2>1. began \in Seq(Requests)
    BY ZenonT(40) DEF AdminInv, Order
  <2>2. began # << >> => began[Len(began)] \in Requests
    BY ONLY <2>1
  <2> QED
    BY <2>2, ZenonT(40) DEF Requests
<1>3. View(EmptyStore) \in Views
  BY EmptyStoreIsStore, ViewTyped, ZenonT(40)
<1> QED
  BY <1>1, <1>2, <1>3, StartupAssumption, ZenonT(40) DEF dirBar

(* In the next state too.                                                  *)
LEMMA DirTypedNext == AdminInv' => (dirBar \in Views \cup {Unreadable})'
  BY DirTyped, PTL

(* The process starts as GatewayProcess does.                              *)
LEMMA ProcessStarts == SystemInit => P!Init
<1> SUFFICES ASSUME SystemInit PROVE P!Init
  BY ZenonT(40)
<1>1. began = << >> /\ current = << >> /\ pc[Startup] = "idle"
  BY StartupAssumption, ZenonT(40) DEF SystemInit, Init, LoaderInit
<1>2. dirBar = View(EmptyStore)
  BY <1>1, ZenonT(40) DEF dirBar, Settled
<1>3. dirBar \in Views
  BY <1>2, EmptyStoreIsStore, ViewTyped, ZenonT(40)
<1>4. storeBar = NotBuilt /\ currentBar = NotBuilt
  BY <1>1, ZenonT(40) DEF storeBar, currentBar, SystemInit
<1> QED
  BY <1>3, <1>4, ZenonT(40) DEF P!Init, SystemInit

(* What a step leaves alone of the loads and the configuration,            *)
(* GatewayProcess sees unchanged.                                          *)
LEMMA BarsUnchanged ==
  ASSUME pc' = pc, store' = store, began' = began, main' = main
  PROVE  dirBar' = dirBar /\ storeBar' = storeBar
BY ZenonT(40) DEF dirBar, storeBar, Settled, Result, View, EmptyStore

(* A step of a load, or the beginning of a reload, is at most a new        *)
(* content of the directory to GatewayProcess.                             *)
LEMMA SeenAsEdit ==
  ASSUME AdminInv', UNCHANGED processVars, storeBar' = storeBar, current' = current
  PROVE  P!EditDir
<1>1. dirBar' \in Views \cup {Unreadable}
  BY DirTypedNext, ZenonT(40)
<1>2. currentBar' = currentBar
  BY ZenonT(40) DEF currentBar, View
<1> QED
  BY <1>1, <1>2, ZenonT(40) DEF P!EditDir, processVars

(* The step of the admin server's worker.                                  *)
LEMMA WorkerStep ==
  ASSUME AdminInv, AdminInv', UNCHANGED processVars, P!Running, admin = "listening",
         NEW r \in Requests, OnRequest(r) \/ HandlerStep(r)
  PROVE  [P!Next]_(P!vars)
<1>0. r \in Loads /\ Startup \in Loads /\ r # Startup /\ main' = main
  BY StartupAssumption, ZenonT(40) DEF Requests, processVars
<1>1. CASE UNCHANGED <<loaderVars, current, began>>
  <2>1. pc' = pc /\ store' = store /\ began' = began /\ current' = current
    BY <1>1, ZenonT(40) DEF loaderVars
  <2>2. dirBar' = dirBar /\ storeBar' = storeBar
    BY <1>0, <2>1, BarsUnchanged, ZenonT(40)
  <2>3. currentBar' = currentBar
    BY <2>1, ZenonT(40) DEF currentBar, View
  <2> QED
    BY <2>2, <2>3, ZenonT(40) DEF P!vars, processVars
<1>2. CASE ReloadBegins(r)
  <2>1. pc' = pc /\ store' = store /\ current' = current
    BY <1>2, ZenonT(40) DEF ReloadBegins, loaderVars
  <2>2. storeBar' = storeBar
    BY <1>0, <2>1, ZenonT(40) DEF storeBar, View
  <2> QED
    BY <2>1, <2>2, SeenAsEdit, ZenonT(40) DEF P!Next
<1>3. CASE ReloadReads(r)
  <2>1. current' = current /\ LoadStep(r)
    BY <1>3, ZenonT(40) DEF ReloadReads, adminVars
  <2>2. pc'[Startup] = pc[Startup] /\ store'[Startup] = store[Startup]
    <3>1. /\ pc \in [Loads -> {"idle", "reading", "returned", "threw", "patched"}]
          /\ store \in [Loads -> Stores]
      BY ZenonT(40) DEF AdminInv, LoaderInv, LoaderTypes
    <3> QED
      BY <1>0, <2>1, <3>1, ZenonT(40) DEF LoadStep, Proceed, Begin, ReadFile, Return, Throw
  <2>3. storeBar' = storeBar
    BY <1>0, <2>2, ZenonT(40) DEF storeBar, View
  <2> QED
    BY <2>1, <2>3, SeenAsEdit, ZenonT(40) DEF P!Next
<1>4. CASE ReloadSwaps(r)
  <2>1. /\ pc' = pc /\ store' = store /\ began' = began /\ current' = <<store[r]>>
        /\ handler[r] = "loading" /\ pc[r] = "returned"
    BY <1>4, ZenonT(40) DEF ReloadSwaps, loaderVars
  <2>2. dirBar' = dirBar /\ storeBar' = storeBar
    BY <1>0, <2>1, BarsUnchanged, ZenonT(40)
  <2>3. began # << >> /\ r = began[Len(began)]
    <3>1. Len(began) > 0 /\ r = began[Len(began)]
      BY <2>1, ZenonT(40) DEF AdminInv, Order
    <3>2. Len(began) > 0 => began # << >>
      OBVIOUS
    <3> QED
      BY <3>1, <3>2, ZenonT(40)
  <2>4. dirBar = View(store[r])
    BY <2>1, <2>3, ZenonT(40) DEF dirBar, Settled, Result
  <2>5. dirBar # Unreadable
    <3>1. store[r] \in Stores
      BY <1>0, ZenonT(40) DEF AdminInv, LoaderInv, LoaderTypes
    <3> QED
      BY <2>4, <3>1, ViewTyped, UnreadableAssumption, ZenonT(40)
  <2>6. currentBar' = View(store[r])
    <3>1. <<store[r]>> # << >> /\ <<store[r]>>[1] = store[r]
      BY ListOfOne, ZenonT(40)
    <3>2. current' # << >> /\ current'[1] = store[r]
      BY <2>1, <3>1, ZenonT(40)
    <3> QED
      BY <3>2, ZenonT(40) DEF currentBar, View
  <2>7. P!Reload
    BY <2>2, <2>4, <2>5, <2>6, ZenonT(40) DEF P!Reload, processVars
  <2> QED
    BY <2>7, ZenonT(40) DEF P!Next
<1> QED
  BY <1>1, <1>2, <1>3, <1>4, ZenonT(40)
     DEF OnRequest, HandlerStep, OnEOM, OnUpgrade, RequestComplete, OnError, ReloadFails

(* Every step of the system is a step of GatewayProcess, or none.          *)
LEMMA SystemStep ==
  AdminInv /\ AdminInv' /\ [SystemNext]_systemVars => [P!Next]_(P!vars)
<1> SUFFICES ASSUME AdminInv, AdminInv', [SystemNext]_systemVars PROVE [P!Next]_(P!vars)
  OBVIOUS
<1>1. CASE MainReads
  <2>1. UNCHANGED processVars /\ current' = current /\ main = "load" /\ main' = main
    BY <1>1, ZenonT(40) DEF MainReads, StartupLoad, adminVars, processVars
  <2>2. storeBar' = storeBar
    BY <2>1, ZenonT(40) DEF storeBar
  <2> QED
    BY <2>1, <2>2, SeenAsEdit, ZenonT(40) DEF P!Next
<1>2. CASE MainLoads
  BY <1>2, ZenonT(40) DEF MainLoads, P!Next, P!MainStep
<1>3. CASE MainFetches
  BY <1>3, ZenonT(40) DEF MainFetches, P!Next, P!MainStep
<1>4. CASE MainBuilds
  BY <1>4, ZenonT(40) DEF MainBuilds, P!Next, P!MainStep
<1>5. CASE MainStops
  BY <1>5, ZenonT(40) DEF MainStops, P!Next, P!MainStep
<1>6. CASE ThreadsRun
  BY <1>6, ZenonT(40) DEF ThreadsRun, P!Next, P!MainStep
<1>7. CASE AdminServes
  <2>1. PICK r \in Requests : OnRequest(r) \/ HandlerStep(r)
    BY <1>7, ZenonT(40) DEF AdminServes
  <2>2. P!Running /\ admin = "listening" /\ UNCHANGED processVars
    BY <1>7, ZenonT(40) DEF AdminServes
  <2> QED
    BY <2>1, <2>2, WorkerStep, ZenonT(40)
<1>8. CASE DirectoryEdited \/ UNCHANGED systemVars
  <2>1. /\ pc' = pc /\ store' = store /\ began' = began /\ current' = current
        /\ UNCHANGED processVars
    BY <1>8, ZenonT(40) DEF DirectoryEdited, Deployed, Edit, Mount, adminVars, systemVars, vars, loaderVars
  <2>2. main' = main
    BY <2>1, ZenonT(40) DEF processVars
  <2>3. dirBar' = dirBar /\ storeBar' = storeBar
    BY <2>1, <2>2, BarsUnchanged, ZenonT(40)
  <2>4. currentBar' = currentBar
    BY <2>1, ZenonT(40) DEF currentBar, View
  <2> QED
    BY <2>1, <2>3, <2>4, ZenonT(40) DEF P!vars, processVars
<1> QED
  BY <1>1, <1>2, <1>3, <1>4, <1>5, <1>6, <1>7, <1>8, ZenonT(40) DEF SystemNext

(* The gateway, which reads its directory file by file at startup and in   *)
(* every reload while others edit it, implements GatewayProcess, where     *)
(* main() and AdminHandler::onEOM each take the configuration in one step, *)
(* whatever the directory holds and however many reloads there are.        *)
THEOREM SystemImplementsProcess == SystemSpec => ImplementsProcess
<1>1. SystemSpec => []AdminInv
  BY SystemIsAdmin, AdminInvariant, PTL
<1> QED
  BY <1>1, ProcessStarts, SystemStep, PTL DEF SystemSpec, ImplementsProcess, P!Spec

-----------------------------------------------------------------------------
(* Where the policies of a store come from                                 *)

(* Reading an entry adds no policy but the one it holds.                   *)
LEMMA ReadAdds ==
  ASSUME NEW s \in Stores, NEW x \in Texts \cup {NoFile}, NEW y, Holds(Read(x, s).policies, y)
  PROVE  Holds(s.policies, y) \/ (x \in OfKind("Policy") /\ y = PolicyConfig(x))
<1>1. CASE x = NoFile \/ Throws(x)
  BY <1>1, ZenonT(40) DEF Read
<1>2. CASE ~ (x = NoFile \/ Throws(x)) /\ Kind(x) = "Policy"
  <2> DEFINE q == Append(s.policies, PolicyConfig(x))
  <2>1. Read(x, s) = [s EXCEPT !.policies = q]
    BY <1>2, ZenonT(40) DEF Read, Dispatch
  <2>2. Read(x, s).policies = q
    BY <2>1, ZenonT(40) DEF Stores
  <2>3. PICK i \in DOMAIN q : q[i] = y
    BY <2>2, Zenon DEF Holds
  <2>4. x \in OfKind("Policy") /\ s.policies \in Seq({PolicyConfig(t) : t \in OfKind("Policy")})
    BY <1>2, ZenonT(40) DEF OfKind, Stores
  <2>5. (i \in DOMAIN s.policies /\ q[i] = s.policies[i]) \/ q[i] = PolicyConfig(x)
    BY <2>3, <2>4, AppendedElement, ZenonT(40)
  <2> QED
    BY <2>3, <2>4, <2>5, ZenonT(40) DEF Holds
<1>3. CASE ~ (x = NoFile \/ Throws(x)) /\ Kind(x) # "Policy"
  <2>1. Read(x, s) = Dispatch(x, s)
    BY <1>3, ZenonT(40) DEF Read
  <2>2. Dispatch(x, s).policies = s.policies
    BY <1>3, ZenonT(40) DEF Dispatch, Stores
  <2> QED
    BY <2>1, <2>2, ZenonT(40)
<1> QED
  BY <1>1, <1>2, <1>3, ZenonT(40)

(* Every policy of a store was in a file while the load was reading.       *)
Sources(l) ==
  \A y : Holds(store[l].policies, y) =>
    \E d \in held[l], f \in Files : d[f] \in OfKind("Policy") /\ y = PolicyConfig(d[f])

SourceInv ==
  \A l \in Loads : Sources(l) /\ (pc[l] = "idle" => store[l] = EmptyStore)

(* An empty store has no policy.                                           *)
LEMMA EmptyHolds == \A y : ~ Holds(EmptyStore.policies, y)
  BY DEF EmptyStore, Holds

(* So it is at first.                                                      *)
LEMMA SourceInvInit == Init => SourceInv
<1> SUFFICES ASSUME Init, NEW l \in Loads PROVE Sources(l) /\ store[l] = EmptyStore
  BY ZenonT(40) DEF SourceInv
<1>1. store[l] = EmptyStore
  BY ZenonT(40) DEF Init, LoaderInit
<1> QED
  BY <1>1, EmptyHolds, ZenonT(40) DEF Sources

(* While the store stays and nothing of the history is forgotten, so do    *)
(* its sources.                                                            *)
LEMMA SourcesStay ==
  ASSUME NEW l, Sources(l), store'[l] = store[l], held[l] \subseteq held'[l]
  PROVE  Sources(l)'
  BY ZenonT(40) DEF Sources

(* Every step of a load keeps it,                                          *)
LEMMA LoadStepSources ==
  ASSUME LoaderInv, SourceInv, NEW k \in Loads, LoadStep(k)
  PROVE  SourceInv'
<1>1. /\ pc \in [Loads -> {"idle", "reading", "returned", "threw", "patched"}]
      /\ store \in [Loads -> Stores] /\ held \in [Loads -> SUBSET Contents]
      /\ entries \in [Loads -> SUBSET Files]
  BY ZenonT(40) DEF LoaderInv, LoaderTypes
<1>2. CASE Begin(k)
  <2>1. /\ pc[k] = "idle" /\ store' = store
        /\ pc'[k] # "idle" /\ \A l \in Loads : l # k => pc'[l] = pc[l] /\ held'[l] = held[l]
    BY <1>1, <1>2, ZenonT(40) DEF Begin
  <2>2. store'[k] = EmptyStore
    BY <2>1, ZenonT(40) DEF SourceInv
  <2>3. Sources(k)'
    BY <2>2, EmptyHolds, ZenonT(40) DEF Sources
  <2>4. ASSUME NEW l \in Loads, l # k PROVE Sources(l)' /\ (pc'[l] = "idle" => store'[l] = EmptyStore)
    BY <2>1, <2>4, SourcesStay, ZenonT(40) DEF SourceInv
  <2> QED
    BY <2>1, <2>3, <2>4, ZenonT(40) DEF SourceInv
<1>3. CASE Return(k) \/ Throw(k)
  <2>1. /\ store' = store /\ held' = held
        /\ \A l \in Loads : pc'[l] = "idle" => pc[l] = "idle"
    BY <1>1, <1>3, ZenonT(40) DEF Return, Throw
  <2> QED
    BY <2>1, SourcesStay, ZenonT(40) DEF SourceInv
<1>4. CASE ReadFile(k)
  <2>1. PICK f \in entries[k], d \in Visible(dirState, dir) : store' = [store EXCEPT ![k] = Read(d[f], @)]
    BY <1>4, ZenonT(40) DEF ReadFile
  <2>2. pc[k] = "reading" /\ pc' = pc /\ held' = held
    BY <1>4, ZenonT(40) DEF ReadFile
  <2>3. store'[k] = Read(d[f], store[k]) /\ \A l \in Loads : l # k => store'[l] = store[l]
    BY <1>1, <2>1, ZenonT(40)
  <2>4. d \in held[k] /\ f \in Files
    BY <1>1, <2>1, <2>2, ZenonT(40) DEF LoaderInv
  <2>5. d[f] \in Texts \cup {NoFile} /\ store[k] \in Stores
    <3>1. d \in Contents /\ f \in Files /\ store[k] \in Stores
      BY <1>1, <2>4, ZenonT(40)
    <3> QED
      BY <3>1, ZenonT(40) DEF Contents
  <2>6. ASSUME NEW y, Holds(store'[k].policies, y)
        PROVE  \E e \in held'[k], h \in Files : e[h] \in OfKind("Policy") /\ y = PolicyConfig(e[h])
    <3>1. Holds(store[k].policies, y) \/ (d[f] \in OfKind("Policy") /\ y = PolicyConfig(d[f]))
      BY <2>3, <2>5, <2>6, ReadAdds, ZenonT(40)
    <3>2. Sources(k)
      BY ZenonT(40) DEF SourceInv
    <3> QED
      BY <2>2, <2>4, <3>1, <3>2, ZenonT(40) DEF Sources
  <2>7. Sources(k)'
    BY <2>6, ZenonT(40) DEF Sources
  <2>8. ASSUME NEW l \in Loads, l # k PROVE Sources(l)' /\ (pc'[l] = "idle" => store'[l] = EmptyStore)
    <3>1. store'[l] = store[l] /\ held'[l] = held[l] /\ pc'[l] = pc[l]
      BY <2>2, <2>3, <2>8, ZenonT(40)
    <3> QED
      BY <3>1, SourcesStay, ZenonT(40) DEF SourceInv
  <2> QED
    BY <2>2, <2>7, <2>8, ZenonT(40) DEF SourceInv
<1> QED
  BY <1>2, <1>3, <1>4, ZenonT(40) DEF LoadStep, Proceed

(* Of the admin server's steps the others touch no store.                  *)
LEMMA StoresTouched ==
  ASSUME [Next]_vars
  PROVE  \/ \E k \in Loads : LoadStep(k)
         \/ pc' = pc /\ store' = store /\ held' = held
         \/ \E f \in Files, t \in Texts \cup {NoFile} : Edit(f, t)
         \/ \E s \in {"there", "missing", "unreadable"} : Mount(s)
<1>1. CASE StartupLoad
  BY <1>1, StartupAssumption, ZenonT(40) DEF StartupLoad
<1>2. CASE Publish \/ UNCHANGED vars
  BY <1>2, ZenonT(40) DEF Publish, vars, loaderVars
<1>3. CASE Deployed
  BY <1>3, ZenonT(40) DEF Deployed
<1>4. ASSUME NEW r \in Requests, OnRequest(r) \/ HandlerStep(r)
      PROVE  (\E k \in Loads : LoadStep(k)) \/ (pc' = pc /\ store' = store /\ held' = held)
  <2>1. CASE ReloadReads(r)
    BY <2>1, ZenonT(40) DEF ReloadReads, Requests
  <2>2. CASE ~ ReloadReads(r)
    BY <1>4, <2>2, ZenonT(40)
       DEF OnRequest, HandlerStep, OnEOM, OnUpgrade, RequestComplete, OnError, ReloadBegins,
           ReloadSwaps, ReloadFails, loaderVars
  <2> QED
    BY <2>1, <2>2, ZenonT(40)
<1> QED
  BY <1>1, <1>2, <1>3, <1>4, ZenonT(40) DEF Next

(* and so do all steps of the admin server.                                *)
LEMMA SourceInvNext == AdminInv /\ SourceInv /\ [Next]_vars => SourceInv'
<1> SUFFICES ASSUME AdminInv, SourceInv, [Next]_vars PROVE SourceInv'
  OBVIOUS
<1>0. LoaderInv /\ held \in [Loads -> SUBSET Contents]
  BY Zenon DEF AdminInv, LoaderInv, LoaderTypes
<1>1. ASSUME pc' = pc, store' = store, \A l \in Loads : held[l] \subseteq held'[l] PROVE SourceInv'
  BY <1>1, SourcesStay, ZenonT(40) DEF SourceInv
<1>2. ASSUME NEW k \in Loads, LoadStep(k) PROVE SourceInv'
  BY <1>0, <1>2, LoadStepSources, ZenonT(40)
<1>3. ASSUME NEW f, NEW t, Edit(f, t) PROVE SourceInv'
  <2>1. /\ pc' = pc /\ store' = store
        /\ held' = [l \in Loads |-> IF pc[l] = "reading" THEN held[l] \cup {dir'} ELSE held[l]]
    BY <1>3, ZenonT(40) DEF Edit
  <2>2. \A l \in Loads : held[l] \subseteq held'[l]
    BY <2>1, ZenonT(40)
  <2> QED
    BY <1>1, <2>1, <2>2, ZenonT(40)
<1>4. ASSUME NEW s, Mount(s) PROVE SourceInv'
  <2>1. /\ pc' = pc /\ store' = store
        /\ held' = [l \in Loads |-> IF pc[l] = "reading" THEN held[l] \cup Visible(s, dir)
                                                        ELSE held[l]]
    BY <1>4, ZenonT(40) DEF Mount
  <2>2. \A l \in Loads : held[l] \subseteq held'[l]
    BY <2>1, ZenonT(40)
  <2> QED
    BY <1>1, <2>1, <2>2, ZenonT(40)
<1>5. ASSUME pc' = pc, store' = store, held' = held PROVE SourceInv'
  BY <1>1, <1>5, ZenonT(40)
<1> QED
  BY <1>2, <1>3, <1>4, <1>5, StoresTouched, ZenonT(40)

-----------------------------------------------------------------------------
(* What the data plane is built from                                       *)

Built == {"startAdmin", "startGateway", "join", "stopAdmin", "joinAdmin", "exited"}

Linked ==
  /\ main \in {"load", "fetch"} => gateway = "none"
  /\ (main \in Built \/ gateway # "none") =>
       pc[Startup] = "returned" /\ plane.store = View(store[Startup])

(* What main() loaded is never loaded again.                               *)
LEMMA StartupStays ==
  ASSUME LoaderInv, [Next]_vars, pc[Startup] = "returned"
  PROVE  pc'[Startup] = "returned" /\ store'[Startup] = store[Startup]
<1>1. /\ pc \in [Loads -> {"idle", "reading", "returned", "threw", "patched"}]
      /\ store \in [Loads -> Stores] /\ Startup \in Loads
  BY StartupAssumption, ZenonT(40) DEF LoaderInv, LoaderTypes
<1>2. ASSUME NEW k \in Loads, LoadStep(k)
      PROVE  pc'[Startup] = pc[Startup] /\ store'[Startup] = store[Startup]
  <2>1. pc[k] # "returned"
    BY <1>2, ZenonT(40) DEF LoadStep, Proceed, Begin, ReadFile, Return, Throw
  <2>2. k # Startup
    BY <2>1, ZenonT(40)
  <2> QED
    BY <1>1, <1>2, <2>2, ZenonT(40) DEF LoadStep, Proceed, Begin, ReadFile, Return, Throw
<1>3. ASSUME pc' = pc, store' = store
      PROVE  pc'[Startup] = pc[Startup] /\ store'[Startup] = store[Startup]
  BY <1>3, ZenonT(40)
<1>4. \A f, t : Edit(f, t) => pc' = pc /\ store' = store
  BY ZenonT(40) DEF Edit
<1>5. \A s : Mount(s) => pc' = pc /\ store' = store
  BY ZenonT(40) DEF Mount
<1> QED
  BY <1>2, <1>3, <1>4, <1>5, StoresTouched, ZenonT(40)

(* At first there is no data plane.                                        *)
LEMMA LinkedInit == SystemInit => Linked
  BY ZenonT(40) DEF SystemInit, Linked, Built

(* The data plane is built from what main() loaded and is given nothing    *)
(* else afterwards.                                                        *)
LEMMA LinkedNext == AdminInv /\ Linked /\ [SystemNext]_systemVars => Linked'
<1> SUFFICES ASSUME AdminInv, Linked, [SystemNext]_systemVars PROVE Linked'
  OBVIOUS
<1>0. LoaderInv /\ [Next]_vars
  BY ZenonT(40) DEF AdminInv, SystemNext, systemVars, Next, MainReads, MainLoads, MainFetches,
               MainBuilds, MainStops, ThreadsRun, AdminServes, DirectoryEdited
<1>1. ASSUME plane' = plane, main \in Built \/ gateway # "none"
      PROVE  pc'[Startup] = "returned" /\ plane'.store = View(store[Startup])'
  <2>1. pc[Startup] = "returned" /\ plane.store = View(store[Startup])
    BY <1>1, ZenonT(40) DEF Linked
  <2>2. pc'[Startup] = "returned" /\ store'[Startup] = store[Startup]
    BY <1>0, <2>1, StartupStays, ZenonT(40)
  <2> QED
    BY <1>1, <2>1, <2>2, ZenonT(40) DEF View
<1>2. ASSUME plane' = plane,
             main' \in Built \/ gateway' # "none" => main \in Built \/ gateway # "none",
             main' \in {"load", "fetch"} => gateway' = "none"
      PROVE  Linked'
  BY <1>1, <1>2, ZenonT(40) DEF Linked
<1>3. ASSUME UNCHANGED processVars PROVE Linked'
  BY <1>2, <1>3, ZenonT(40) DEF Linked, processVars
<1>4. CASE MainReads \/ AdminServes \/ DirectoryEdited \/ UNCHANGED systemVars
  BY <1>3, <1>4, ZenonT(40) DEF MainReads, AdminServes, DirectoryEdited, systemVars
<1>5. CASE MainLoads
  <2>1. plane' = plane /\ gateway' = gateway /\ main = "load" /\ main' \in {"fetch", "dead"}
    BY <1>5, ZenonT(40) DEF MainLoads, P!LoadConfig, P!LoadFails
  <2> QED
    BY <1>2, <2>1, ZenonT(40) DEF Linked, Built
<1>6. CASE MainFetches
  <2>1. plane' = plane /\ gateway' = gateway /\ main = "fetch" /\ main' \in {"fetch", "dead"}
    BY <1>6, ZenonT(40) DEF MainFetches, P!SkipPolicy, P!FetchJwks, P!FetchFails, P!BuildFails, P!Fetching
  <2> QED
    BY <1>2, <2>1, ZenonT(40) DEF Linked, Built
<1>7. CASE MainBuilds
  <2>1. /\ main = "fetch" /\ main' = "startAdmin" /\ pc[Startup] = "returned"
        /\ plane' = [store |-> storeBar, caches |-> jwksCaches]
    BY <1>7, ZenonT(40) DEF MainBuilds, Publish, P!BuildServers
  <2>2. pc'[Startup] = "returned" /\ store'[Startup] = store[Startup]
    BY <1>0, <2>1, StartupStays, ZenonT(40)
  <2>3. storeBar = View(store[Startup])
    BY <2>1, ZenonT(40) DEF storeBar
  <2>4. plane'.store = View(store[Startup])
    BY <2>1, <2>3, ZenonT(40)
  <2>5. plane'.store = View(store[Startup])'
    BY <2>2, <2>4, ZenonT(40) DEF View
  <2> QED
    BY <2>1, <2>2, <2>5, ZenonT(40) DEF Linked
<1>8. CASE MainStops
  <2>1. plane' = plane /\ gateway' = gateway /\ main = "stopAdmin" /\ main' \in {"joinAdmin", "dead"}
    BY <1>8, ZenonT(40) DEF MainStops, P!StopAdmin
  <2> QED
    BY <1>2, <2>1, ZenonT(40) DEF Linked, Built
<1>9. CASE ThreadsRun
  <2>1. CASE P!StartAdmin \/ P!StartGateway \/ P!JoinGateway \/ P!JoinAdmin
    <3>1. plane' = plane /\ main \in Built /\ main' \notin {"load", "fetch"}
      BY <2>1, ZenonT(40) DEF P!StartAdmin, P!StartGateway, P!JoinGateway, P!JoinAdmin, Built
    <3> QED
      BY <1>2, <3>1, ZenonT(40)
  <2>2. CASE P!AdminStarts \/ P!GatewayStarts \/ P!Signal
    <3>1. plane' = plane /\ main' = main /\ (gateway' = gateway \/ gateway # "none")
      BY <2>2, ZenonT(40) DEF P!AdminStarts, P!GatewayStarts, P!Signal
    <3> QED
      BY <1>2, <3>1, ZenonT(40) DEF Linked
  <2> QED
    BY <1>9, <2>1, <2>2, ZenonT(40) DEF ThreadsRun
<1> QED
  BY <1>4, <1>5, <1>6, <1>7, <1>8, <1>9, ZenonT(40) DEF SystemNext

-----------------------------------------------------------------------------
(* From the file to the filter                                             *)

(* The policy that lay in the directory is in the store that main() got,   *)
(* and every policy of its name there is that one.                         *)
LEMMA OnlyOne ==
  ASSUME AdminInv, SourceInv, pc[Startup] = "returned",
         NEW g \in Files, NEW policy \in OfKind("Policy"),
         Steady(Startup, g, policy), Namesakes(policy) = {g}
  PROVE  /\ \E i \in 1 .. Len(store[Startup].policies) :
              store[Startup].policies[i].name = Name(policy)
         /\ \A i \in 1 .. Len(store[Startup].policies) :
              store[Startup].policies[i].name = Name(policy)
                => store[Startup].policies[i] = PolicyConfig(policy)
<1> DEFINE policies == store[Startup].policies
<1>1. Startup \in Loads /\ store[Startup] \in Stores
  BY StartupAssumption, ZenonT(40) DEF AdminInv, LoaderInv, LoaderTypes
<1>2. DOMAIN policies = 1 .. Len(policies)
  <2>1. policies \in Seq({PolicyConfig(t) : t \in OfKind("Policy")})
    BY <1>1, ZenonT(40) DEF Stores
  <2> QED
    BY ONLY <2>1
<1>3. \A t : PolicyConfig(t).name = Name(t)
  BY DEF PolicyConfig
<1>4. Holds(policies, PolicyConfig(policy))
  <2>1. NoFileLost
    BY LoaderInvNoFileLost, ZenonT(40) DEF AdminInv
  <2>2. policy \in Texts /\ Kind(policy) = "Policy"
    BY ZenonT(40) DEF OfKind
  <2>3. Loaded(policy, store[Startup])
    BY <1>1, <2>1, <2>2, ZenonT(40) DEF NoFileLost
  <2> QED
    BY <2>2, <2>3, LoadedIs, ZenonT(40)
<1>5. ASSUME NEW i \in DOMAIN policies, policies[i].name = Name(policy)
      PROVE  policies[i] = PolicyConfig(policy)
  <2>1. Sources(Startup) /\ Holds(policies, policies[i])
    BY <1>1, ZenonT(40) DEF SourceInv, Holds
  <2>2. PICK d \in held[Startup], f \in Files :
          d[f] \in OfKind("Policy") /\ policies[i] = PolicyConfig(d[f])
    BY <2>1, ZenonT(30) DEF Sources
  <2>3. Name(d[f]) = Name(policy)
    BY <1>3, <1>5, <2>2, ZenonT(30)
  <2>4. f = g
    BY <2>2, <2>3, ZenonT(30) DEF Namesakes
  <2>5. d[g] = policy
    BY <2>2, ZenonT(30) DEF Steady
  <2> QED
    BY <2>2, <2>4, <2>5, ZenonT(30)
<1>6. PICK i \in DOMAIN policies : policies[i] = PolicyConfig(policy)
  BY <1>4, ZenonT(30) DEF Holds
<1> HIDE DEF policies
<1>7. /\ \E j \in 1 .. Len(policies) : policies[j].name = Name(policy)
      /\ \A j \in 1 .. Len(policies) :
           policies[j].name = Name(policy) => policies[j] = PolicyConfig(policy)
  BY <1>2, <1>3, <1>5, <1>6, ZenonT(30)
<1> QED
  BY <1>7, ZenonT(30) DEF policies

PP == INSTANCE GatewayProcessProofs
        WITH dir <- dirBar, store <- storeBar, current <- currentBar, Stores <- Views

(* The configurations GatewayProcess may see are as it assumes.            *)
LEMMA ViewsAssumption == PP!StoresAssumption
<1> SUFFICES ASSUME NEW s \in Views
             PROVE  /\ Len(s.policies) \in Nat
                    /\ \A k \in 1 .. Len(s.routers) : Len(s.routers[k]) \in Nat
  BY ZenonT(30) DEF PP!StoresAssumption
<1> DEFINE N == {RouterConfig(t).policies : t \in OfKind("Router")}
<1>1. \A n \in N : n \in Seq(STRING)
  BY LoaderAssumption, ZenonT(30)
<1>2. \A n \in N : Len(n) \in Nat
  BY <1>1, SMTT(30)
<1>3. s.routers \in Seq(N) /\ s.policies \in Seq({PolicyConfig(t) : t \in OfKind("Policy")})
  BY ZenonT(30) DEF Views
<1> HIDE DEF N
<1>4. Len(s.policies) \in Nat /\ \A k \in 1 .. Len(s.routers) : s.routers[k] \in N
  BY <1>3, SMTT(30)
<1> QED
  BY <1>2, <1>4, ZenonT(30)

(* GatewayProcess and its theorems speak of the same steps,                *)
LEMMA SameProcess == (P!Init => PP!Init) /\ ([P!Next]_(P!vars) => [PP!Next]_(PP!vars))
<1>1. P!Init => PP!Init
  BY ZenonT(30) DEF P!Init, PP!Init, P!NoCaches, PP!NoCaches
<1>2. P!vars = PP!vars /\ P!vars' = PP!vars'
  BY ZenonT(30) DEF P!vars, PP!vars
<1>3. P!MainStep => PP!MainStep
  BY ZenonT(30) DEF P!MainStep, PP!MainStep, P!LoadConfig, PP!LoadConfig, P!LoadFails, PP!LoadFails,
     P!SkipPolicy, PP!SkipPolicy, P!FetchJwks, PP!FetchJwks, P!FetchFails, PP!FetchFails,
     P!Fetching, PP!Fetching, P!Enter, PP!Enter, P!BuildServers, PP!BuildServers,
     P!BuildFails, PP!BuildFails, P!StartAdmin, PP!StartAdmin, P!StartGateway, PP!StartGateway,
     P!JoinGateway, PP!JoinGateway, P!StopAdmin, PP!StopAdmin, P!JoinAdmin, PP!JoinAdmin
<1>4. P!EditDir \/ P!AdminStarts \/ P!GatewayStarts \/ P!Signal \/ P!Reload
        => PP!EditDir \/ PP!AdminStarts \/ PP!GatewayStarts \/ PP!Signal \/ PP!Reload
  BY ZenonT(30) DEF P!EditDir, PP!EditDir, P!AdminStarts, PP!AdminStarts, P!GatewayStarts,
     PP!GatewayStarts, P!Signal, PP!Signal, P!Reload, PP!Reload, P!Running, PP!Running
<1>5. P!Next => PP!Next
  BY <1>3, <1>4, ZenonT(30) DEF P!Next, PP!Next
<1> QED
  BY <1>1, <1>2, <1>5, ZenonT(30)

(* and of the same chains.                                                 *)
LEMMA SameChains ==
  ASSUME NEW policies, NEW caches, NEW names
  PROVE  P!BuildChain(policies, caches, names) = PP!BuildChain(policies, caches, names)
<1>1. \A S : P!Cardinality(S) = PP!Cardinality(S)
  BY ZenonT(30) DEF P!Cardinality, PP!Cardinality
<1>2. \A I, k : P!Nth(I, k) = PP!Nth(I, k)
  <2>1. \A S, R, x : P!Rank(S, R, x) = PP!Rank(S, R, x)
    BY <1>1, ZenonT(30) DEF P!Rank, PP!Rank
  <2>2. \A S, R, k : P!Ranked(S, R, k) = PP!Ranked(S, R, k)
    BY <2>1, ZenonT(30) DEF P!Ranked, PP!Ranked
  <2> QED
    BY <2>2, ZenonT(30) DEF P!Nth, PP!Nth, P!Ascending, PP!Ascending
<1>3. \A s, I : P!Pick(s, I) = PP!Pick(s, I)
  BY <1>1, <1>2, ZenonT(30) DEF P!Pick, PP!Pick
<1>4. \A n : P!Known(policies, n) = PP!Known(policies, n) /\ P!Lookup(policies, n) = PP!Lookup(policies, n)
  BY ZenonT(30) DEF P!Lookup, PP!Lookup, P!Known, PP!Known
<1>5. \A p : P!Adds(caches, p) = PP!Adds(caches, p)
  BY ZenonT(30) DEF P!Adds, PP!Adds
<1>6. \A a : P!Sortings(a) = PP!Sortings(a)
  BY ZenonT(30) DEF P!Sortings, PP!Sortings, P!Bijection, PP!Bijection, P!Injection, PP!Injection,
     P!Surjection, PP!Surjection, P!IsInjective, PP!IsInjective
<1>7. P!Active(policies, names) = PP!Active(policies, names)
  BY <1>3, <1>4, ZenonT(30) DEF P!Active, PP!Active
<1>8. \A s : P!Wrap(s, caches) = PP!Wrap(s, caches)
  BY <1>3, <1>5, ZenonT(30) DEF P!Wrap, PP!Wrap
<1> QED
  BY <1>6, <1>7, <1>8, ZenonT(30) DEF P!BuildChain, PP!BuildChain

(* What is proved of GatewayProcess holds of the system.                   *)
LEMMA SystemProcess == SystemSpec => []PP!PInv
<1>1. PP!Init => PP!PInv
  BY ViewsAssumption, PP!ProcessInit, ZenonT(30)
<1>2. PP!PInv /\ [PP!Next]_(PP!vars) => PP!PInv'
  BY ViewsAssumption, PP!ProcessNext, ZenonT(30)
<1>3. SystemInit => PP!Init
  BY ProcessStarts, SameProcess, ZenonT(30)
<1>4. AdminInv /\ AdminInv' /\ [SystemNext]_systemVars => [PP!Next]_(PP!vars)
  BY SystemStep, SameProcess, ZenonT(30)
<1>5. SystemSpec => []AdminInv
  BY SystemIsAdmin, AdminInvariant, PTL
<1>6. SystemInit => PP!PInv
  BY ONLY <1>1, <1>3, ZenonT(40)
<1>7. AdminInv /\ AdminInv' /\ PP!PInv /\ [SystemNext]_systemVars => PP!PInv'
  BY ONLY <1>2, <1>4, ZenonT(40)
<1> QED
  BY ONLY <1>5, <1>6, <1>7, PTL DEF SystemSpec

(* A chain for a list of names that has the policy's verifies with its     *)
(* JwtConfig.                                                              *)
LEMMA PolicyInChain ==
  ASSUME AdminInv, SourceInv, Linked, PP!PInv, gateway = "listening",
         NEW g \in Files, NEW policy \in OfKind("Policy"),
         Steady(Startup, g, policy), Namesakes(policy) = {g}, PolicyConfig(policy).jwt # Absent,
         NEW names \in Seq(STRING), NEW n \in DOMAIN names, names[n] = Name(policy),
         NEW chain \in P!BuildChain(plane.store.policies, plane.caches, names)
  PROVE  \E i \in DOMAIN chain : /\ chain[i].kind = "JwtPolicy"
                                 /\ chain[i].cache.cfg = PolicyConfig(policy).jwt
<1> DEFINE policies == plane.store.policies
           caches == plane.caches
<1>1. policies = store[Startup].policies /\ pc[Startup] = "returned"
  <2>1. pc[Startup] = "returned" /\ plane.store = View(store[Startup])
    BY ZenonT(30) DEF Linked
  <2>2. View(store[Startup]).policies = store[Startup].policies
    BY ZenonT(40) DEF View
  <2> QED
    BY <2>1, <2>2, ZenonT(30)
<1>2. /\ \E i \in 1 .. Len(policies) : policies[i].name = Name(policy)
      /\ \A i \in 1 .. Len(policies) :
           policies[i].name = Name(policy) => policies[i] = PolicyConfig(policy)
  BY <1>1, OnlyOne, ZenonT(30)
<1>3. /\ plane.store \in Views
      /\ \A name \in DOMAIN caches :
           \E i \in 1 .. Len(policies) : /\ policies[i].name = name
                                         /\ caches[name].cfg = policies[i].jwt
      /\ \A i \in 1 .. Len(policies) :
           policies[i].jwt # Absent => PP!Adds(caches, policies[i])
  BY ZenonT(30) DEF PP!PInv, PP!Ready, PP!Origin
<1>4. Len(policies) \in Nat /\ Len(names) \in Nat /\ n \in 1 .. Len(names)
  <2>1. Len(names) \in Nat /\ n \in 1 .. Len(names)
    BY PlacesOfList, ZenonT(40)
  <2>2. Len(policies) \in Nat
    BY <1>3, ViewsAssumption, ZenonT(30) DEF PP!StoresAssumption
  <2> QED
    BY <2>1, <2>2, ZenonT(30)
<1>5. chain \in PP!BuildChain(policies, caches, names)
  BY SameChains, ZenonT(30)
<1> HIDE DEF policies, caches
<1>6. PP!Known(policies, Name(policy)) /\ PP!Lookup(policies, Name(policy)) = PolicyConfig(policy)
  <2>1. PP!Known(policies, Name(policy))
    BY <1>2, ZenonT(30) DEF PP!Known
  <2>2. \E i \in 1 .. Len(policies) : /\ PP!Lookup(policies, Name(policy)) = policies[i]
                                      /\ policies[i].name = Name(policy)
    BY ONLY <1>4, <2>1, ViewsAssumption, PP!LookupFinds, ZenonT(30)
  <2> QED
    BY <1>2, <2>1, <2>2, ZenonT(30)
<1>7. PP!Adds(caches, PolicyConfig(policy)) /\ caches[Name(policy)].cfg = PolicyConfig(policy).jwt
  <2>1. PICK i \in 1 .. Len(policies) : policies[i] = PolicyConfig(policy)
    BY <1>2, ZenonT(30)
  <2>2. PP!Adds(caches, PolicyConfig(policy))
    BY <1>3, <2>1, ZenonT(30)
  <2>3. PolicyConfig(policy).name = Name(policy)
    BY ZenonT(40) DEF PolicyConfig
  <2>4. Name(policy) \in DOMAIN caches
    BY <2>2, <2>3, ZenonT(30) DEF PP!Adds
  <2> QED
    BY <1>2, <1>3, <2>2, <2>4, ZenonT(30)
<1>8. n \in PP!Listed(policies, caches, names)
  BY <1>4, <1>6, <1>7, ZenonT(30) DEF PP!Listed
<1>9. PICK m \in Nat : \E place : PP!ChainFor(policies, caches, names, chain, m, place)
  BY ONLY <1>4, <1>5, ViewsAssumption, PP!ChainShape, ZenonT(30)
<1>10. PICK place : PP!ChainFor(policies, caches, names, chain, m, place)
  BY <1>9, ZenonT(30)
<1>11. PICK k \in 1 .. m : place[k] = n
  BY <1>8, <1>10, ZenonT(30) DEF PP!ChainFor
<1>12. /\ DOMAIN chain = 1 .. (m + 2) /\ chain[k + 1].kind = "JwtPolicy"
       /\ chain[k + 1].cache = caches[names[place[k]]]
  BY <1>10, ZenonT(30) DEF PP!ChainFor
<1>13. k + 1 \in 1 .. (m + 2)
  BY PlaceInChain, ZenonT(40)
<1>14. chain[k + 1].cache.cfg = PolicyConfig(policy).jwt
  BY <1>7, <1>11, <1>12, ZenonT(30)
<1> QED
  BY <1>12, <1>13, <1>14, ZenonT(30)

(* When a Policy document with a jwt section and a Router document that    *)
(* lists it lie in the directory while main() loads, every chain           *)
(* PolicyEngine::buildChain returns for the router verifies tokens with    *)
(* that policy's JwtConfig while the data plane takes traffic: for any     *)
(* directory, any edits and any number of reloads.                         *)
THEOREM FileGuardsRoute == SystemSpec => []ListedPolicyGuards
<1>1. SystemSpec => []AdminInv
  BY SystemIsAdmin, AdminInvariant, PTL
<1>2. SystemSpec => []SourceInv
  <2>1. SystemSpec => [][Next]_vars /\ Init
    BY SystemIsAdmin, PTL DEF Spec
  <2> QED
    BY <1>1, <2>1, SourceInvInit, SourceInvNext, PTL
<1>3. SystemSpec => []Linked
  BY <1>1, LinkedInit, LinkedNext, PTL DEF SystemSpec
<1>4. AdminInv /\ SourceInv /\ Linked /\ PP!PInv => ListedPolicyGuards
  <2> SUFFICES ASSUME AdminInv, SourceInv, Linked, PP!PInv, gateway = "listening",
                      NEW g \in Files, NEW router \in OfKind("Router"),
                      NEW policy \in OfKind("Policy"),
                      Steady(Startup, g, policy), Namesakes(policy) = {g},
                      PolicyConfig(policy).jwt # Absent,
                      NEW n \in DOMAIN RouterConfig(router).policies,
                      RouterConfig(router).policies[n] = Name(policy),
                      NEW chain \in P!BuildChain(plane.store.policies, plane.caches,
                                                 RouterConfig(router).policies)
               PROVE  \E i \in DOMAIN chain : /\ chain[i].kind = "JwtPolicy"
                                              /\ chain[i].cache.cfg = PolicyConfig(policy).jwt
    BY ZenonT(30) DEF ListedPolicyGuards
  <2>1. RouterConfig(router).policies \in Seq(STRING)
    BY LoaderAssumption, ZenonT(30)
  <2> QED
    BY <2>1, PolicyInChain, ZenonT(30)
<1> QED
  BY <1>1, <1>2, <1>3, <1>4, SystemProcess, PTL
=============================================================================
