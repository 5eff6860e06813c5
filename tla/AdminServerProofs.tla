-------------------------- MODULE AdminServerProofs --------------------------
(***************************************************************************)
(* Theorems about ConfigLoader and AdminServer, for any directory, any     *)
(* documents and any number of concurrent edits and admin requests.        *)
(***************************************************************************)
EXTENDS AdminServer, LoaderProperties, SubsequenceLemmas

-----------------------------------------------------------------------------
(* The store                                                               *)

Stores ==
  [gateway   : {Absent} \cup {GatewayConfig(t) : t \in OfKind("Gateway")},
   listeners : Seq({ListenerConfig(t) : t \in OfKind("Listener")}),
   routers   : Seq({RouterConfig(t) : t \in OfKind("Router")}),
   services  : Seq({ServiceConfig(t) : t \in OfKind("Service")}),
   policies  : Seq({PolicyConfig(t) : t \in OfKind("Policy")})]

(* x is an element of sequence q.                                          *)
Holds(q, x) == \E i \in DOMAIN q : q[i] = x

(* Append keeps what is in a sequence and adds its argument.               *)
LEMMA Appended ==
  ASSUME NEW S, NEW q \in Seq(S), NEW e \in S
  PROVE  /\ Append(q, e) \in Seq(S)
         /\ Holds(Append(q, e), e)
         /\ \A x : Holds(q, x) => Holds(Append(q, e), x)
<1>1. Append(q, e) \in Seq(S) /\ Len(Append(q, e)) = Len(q) + 1 /\ Len(q) \in Nat
  OBVIOUS
<1>2. Append(q, e)[Len(q) + 1] = e /\ Len(q) + 1 \in DOMAIN Append(q, e)
  BY <1>1
<1>3. ASSUME NEW i \in DOMAIN q PROVE i \in DOMAIN Append(q, e) /\ Append(q, e)[i] = q[i]
  BY <1>1
<1> QED
  BY <1>1, <1>2, <1>3, ZenonT(40) DEF Holds

(* Loaded, kind by kind.                                                   *)
LEMMA LoadedIs ==
  ASSUME NEW d, NEW z
  PROVE  /\ Kind(d) = "Listener" => (Loaded(d, z) <=> Holds(z.listeners, ListenerConfig(d)))
         /\ Kind(d) = "Router" => (Loaded(d, z) <=> Holds(z.routers, RouterConfig(d)))
         /\ Kind(d) = "Service" => (Loaded(d, z) <=> Holds(z.services, ServiceConfig(d)))
         /\ Kind(d) = "Gateway" => (Loaded(d, z) <=> z.gateway # Absent)
         /\ Kind(d) = "Policy" => (Loaded(d, z) <=> Holds(z.policies, PolicyConfig(d)))
         /\ Kind(d) \notin {"Listener", "Router", "Service", "Gateway", "Policy"} => Loaded(d, z)
BY Zenon DEF Loaded, Holds

(* A store that keeps all that another holds has loaded what that one has. *)
Extends(z, s) ==
  /\ \A x : Holds(s.listeners, x) => Holds(z.listeners, x)
  /\ \A x : Holds(s.routers, x) => Holds(z.routers, x)
  /\ \A x : Holds(s.services, x) => Holds(z.services, x)
  /\ \A x : Holds(s.policies, x) => Holds(z.policies, x)
  /\ s.gateway # Absent => z.gateway # Absent

(* So it has.                                                              *)
LEMMA ExtendsLoaded ==
  ASSUME NEW s, NEW z, Extends(z, s), NEW d, Loaded(d, s)
  PROVE  Loaded(d, z)
BY LoadedIs, ZenonT(40) DEF Extends

(* dispatchDocument loads the document it is given and loses none that was *)
(* loaded before.                                                          *)
LEMMA DispatchLoads ==
  ASSUME NEW s \in Stores, NEW t \in Texts, ~ Throws(t)
  PROVE  Dispatch(t, s) \in Stores /\ Loaded(t, Dispatch(t, s)) /\ Extends(Dispatch(t, s), s)
<1> DEFINE s2 == Dispatch(t, s)
<1>1. CASE Kind(t) = "Listener"
  <2> DEFINE q == Append(s.listeners, ListenerConfig(t))
  <2>0. ListenerConfig(t) \in {ListenerConfig(u) : u \in OfKind("Listener")}
    BY <1>1, ZenonT(40) DEF OfKind
  <2>1. s2 = [s EXCEPT !.listeners = q]
    BY <1>1, ZenonT(40) DEF Dispatch
  <2>2. /\ q \in Seq({ListenerConfig(u) : u \in OfKind("Listener")})
        /\ Holds(q, ListenerConfig(t))
        /\ \A x : Holds(s.listeners, x) => Holds(q, x)
    BY <2>0, Appended, ZenonT(40) DEF Stores
  <2> HIDE DEF q
  <2>3. s2 \in Stores /\ s2.listeners = q
    BY <2>1, <2>2, ZenonT(40) DEF Stores
  <2>4. /\ s2.gateway = s.gateway /\ s2.routers = s.routers
        /\ s2.services = s.services /\ s2.policies = s.policies
    BY <2>1, ZenonT(40) DEF Stores
  <2> HIDE DEF s2
  <2>5. Loaded(t, s2)
    BY <1>1, <2>2, <2>3, LoadedIs, ZenonT(40)
  <2>6. Extends(s2, s)
    BY <2>2, <2>3, <2>4, ZenonT(40) DEF Extends
  <2> QED
    BY <2>3, <2>5, <2>6, ZenonT(40) DEF s2
<1>2. CASE Kind(t) = "Router"
  <2> DEFINE q == Append(s.routers, RouterConfig(t))
  <2>0. RouterConfig(t) \in {RouterConfig(u) : u \in OfKind("Router")}
    BY <1>2, ZenonT(40) DEF OfKind
  <2>1. s2 = [s EXCEPT !.routers = q]
    BY <1>2, ZenonT(40) DEF Dispatch
  <2>2. /\ q \in Seq({RouterConfig(u) : u \in OfKind("Router")})
        /\ Holds(q, RouterConfig(t))
        /\ \A x : Holds(s.routers, x) => Holds(q, x)
    BY <2>0, Appended, ZenonT(40) DEF Stores
  <2> HIDE DEF q
  <2>3. s2 \in Stores /\ s2.routers = q
    BY <2>1, <2>2, ZenonT(40) DEF Stores
  <2>4. /\ s2.gateway = s.gateway /\ s2.listeners = s.listeners
        /\ s2.services = s.services /\ s2.policies = s.policies
    BY <2>1, ZenonT(40) DEF Stores
  <2> HIDE DEF s2
  <2>5. Loaded(t, s2)
    BY <1>2, <2>2, <2>3, LoadedIs, ZenonT(40)
  <2>6. Extends(s2, s)
    BY <2>2, <2>3, <2>4, ZenonT(40) DEF Extends
  <2> QED
    BY <2>3, <2>5, <2>6, ZenonT(40) DEF s2
<1>3. CASE Kind(t) = "Service"
  <2> DEFINE q == Append(s.services, ServiceConfig(t))
  <2>0. ServiceConfig(t) \in {ServiceConfig(u) : u \in OfKind("Service")}
    BY <1>3, ZenonT(40) DEF OfKind
  <2>1. s2 = [s EXCEPT !.services = q]
    BY <1>3, ZenonT(40) DEF Dispatch
  <2>2. /\ q \in Seq({ServiceConfig(u) : u \in OfKind("Service")})
        /\ Holds(q, ServiceConfig(t))
        /\ \A x : Holds(s.services, x) => Holds(q, x)
    BY <2>0, Appended, ZenonT(40) DEF Stores
  <2> HIDE DEF q
  <2>3. s2 \in Stores /\ s2.services = q
    BY <2>1, <2>2, ZenonT(40) DEF Stores
  <2>4. /\ s2.gateway = s.gateway /\ s2.listeners = s.listeners
        /\ s2.routers = s.routers /\ s2.policies = s.policies
    BY <2>1, ZenonT(40) DEF Stores
  <2> HIDE DEF s2
  <2>5. Loaded(t, s2)
    BY <1>3, <2>2, <2>3, LoadedIs, ZenonT(40)
  <2>6. Extends(s2, s)
    BY <2>2, <2>3, <2>4, ZenonT(40) DEF Extends
  <2> QED
    BY <2>3, <2>5, <2>6, ZenonT(40) DEF s2
<1>4. CASE Kind(t) = "Policy"
  <2> DEFINE q == Append(s.policies, PolicyConfig(t))
  <2>0. PolicyConfig(t) \in {PolicyConfig(u) : u \in OfKind("Policy")}
    BY <1>4, ZenonT(40) DEF OfKind
  <2>1. s2 = [s EXCEPT !.policies = q]
    BY <1>4, ZenonT(40) DEF Dispatch
  <2>2. /\ q \in Seq({PolicyConfig(u) : u \in OfKind("Policy")})
        /\ Holds(q, PolicyConfig(t))
        /\ \A x : Holds(s.policies, x) => Holds(q, x)
    BY <2>0, Appended, ZenonT(40) DEF Stores
  <2> HIDE DEF q
  <2>3. s2 \in Stores /\ s2.policies = q
    BY <2>1, <2>2, ZenonT(40) DEF Stores
  <2>4. /\ s2.gateway = s.gateway /\ s2.listeners = s.listeners
        /\ s2.routers = s.routers /\ s2.services = s.services
    BY <2>1, ZenonT(40) DEF Stores
  <2> HIDE DEF s2
  <2>5. Loaded(t, s2)
    BY <1>4, <2>2, <2>3, LoadedIs, ZenonT(40)
  <2>6. Extends(s2, s)
    BY <2>2, <2>3, <2>4, ZenonT(40) DEF Extends
  <2> QED
    BY <2>3, <2>5, <2>6, ZenonT(40) DEF s2
<1>5. CASE Kind(t) = "Gateway"
  <2> DEFINE g == GatewayConfig(t)
  <2>1. s2 = [s EXCEPT !.gateway = g]
    BY <1>5, ZenonT(40) DEF Dispatch
  <2>2. g # Absent /\ g \in {GatewayConfig(u) : u \in OfKind("Gateway")}
    <3>1. t \in OfKind("Gateway")
      BY <1>5, ZenonT(40) DEF OfKind
    <3> QED
      BY <3>1, LoaderAssumption, ZenonT(40)
  <2> HIDE DEF g
  <2>3. s2 \in Stores /\ s2.gateway = g
    BY <2>1, <2>2, ZenonT(40) DEF Stores
  <2>4. /\ s2.listeners = s.listeners /\ s2.routers = s.routers
        /\ s2.services = s.services /\ s2.policies = s.policies
    BY <2>1, ZenonT(40) DEF Stores
  <2> HIDE DEF s2
  <2>5. Loaded(t, s2)
    BY <1>5, <2>2, <2>3, LoadedIs, ZenonT(40)
  <2>6. Extends(s2, s)
    BY <2>2, <2>3, <2>4, ZenonT(40) DEF Extends
  <2> QED
    BY <2>3, <2>5, <2>6, ZenonT(40) DEF s2
<1>6. CASE Kind(t) \notin {"Listener", "Router", "Service", "Gateway", "Policy"}
  <2>1. s2 = s
    BY <1>6, ZenonT(40) DEF Dispatch
  <2>2. Extends(s, s)
    BY Zenon DEF Extends
  <2>3. Loaded(t, s2)
    BY <1>6, LoadedIs, ZenonT(40)
  <2> QED
    BY <2>1, <2>2, <2>3, ZenonT(40)
<1> QED
  BY <1>1, <1>2, <1>3, <1>4, <1>5, <1>6, ZenonT(40)

(* One entry of the directory: what it holds is loaded if it can be, and   *)
(* nothing is lost.                                                        *)
LEMMA ReadLoads ==
  ASSUME NEW s \in Stores, NEW x \in Texts \cup {NoFile}
  PROVE  /\ Read(x, s) \in Stores
         /\ Extends(Read(x, s), s)
         /\ (x \in Texts /\ ~ Throws(x)) => Loaded(x, Read(x, s))
<1>1. Extends(s, s)
  BY Zenon DEF Extends
<1>2. CASE x = NoFile \/ Throws(x)
  BY <1>1, <1>2, LoaderAssumption, ZenonT(40) DEF Read
<1>3. CASE ~ (x = NoFile \/ Throws(x))
  BY <1>3, DispatchLoads, ZenonT(40) DEF Read
<1> QED
  BY <1>2, <1>3, ZenonT(40)

(* A load starts with a store.                                             *)
LEMMA EmptyStoreIsStore == EmptyStore \in Stores
<1>1. \A S : << >> \in Seq(S)
  OBVIOUS
<1> QED
  BY <1>1, ZenonT(40) DEF EmptyStore, Stores

-----------------------------------------------------------------------------
(* The loader                                                              *)

Contents == [Files -> Texts \cup {NoFile}]

(* A steady document is loaded, or its entry is still to come.               *)
Covered(l) ==
  \A f \in Files, t \in Texts :
    Steady(l, f, t) => (pc[l] = "reading" /\ f \in entries[l]) \/ Loaded(t, store[l])

LoaderTypes ==
  /\ dir \in Contents
  /\ pc \in [Loads -> {"idle", "reading", "returned", "threw", "patched"}]
  /\ entries \in [Loads -> SUBSET Files]
  /\ store \in [Loads -> Stores]
  /\ held \in [Loads -> SUBSET Contents]

(* The inductive invariant of the loader.                                  *)
LoaderInv ==
  /\ LoaderTypes
  /\ \A l \in Loads : pc[l] = "reading" => Visible(dirState, dir) \subseteq held[l]
  /\ \A l \in Loads : pc[l] \in {"reading", "returned", "patched"} => Covered(l)

(* It holds at first.                                                      *)
LEMMA LoaderInvInit == LoaderInit => LoaderInv
BY EmptyStoreIsStore, ZenonT(40) DEF LoaderInit, LoaderInv, LoaderTypes, Contents

(* Opening a file finds something or nothing.                              *)
LEMMA VisibleSome ==
  ASSUME NEW s, NEW d
  PROVE  Visible(s, d) # {} /\ (s # "missing" => d \in Visible(s, d))
BY ZenonT(40) DEF Visible

(* What it finds is the content of some directory.                         *)
LEMMA VisibleContents ==
  ASSUME NEW s, NEW d \in Contents
  PROVE  Visible(s, d) \subseteq Contents
<1>1. Gone \in Contents
  BY ZenonT(40) DEF Gone, Contents
<1> QED
  BY <1>1, ZenonT(40) DEF Visible

(* An edit of the directory makes fewer files steady and no entry vanish.  *)
LEMMA EditKeeps ==
  ASSUME LoaderInv, NEW f0 \in Files, NEW t0 \in Texts \cup {NoFile}, Edit(f0, t0)
  PROVE  LoaderInv'
<1>1. /\ dir' = [dir EXCEPT ![f0] = t0]
      /\ pc' = pc /\ store' = store /\ dirState' = "there"
      /\ held' = [l \in Loads |-> IF pc[l] = "reading" THEN held[l] \cup {dir'} ELSE held[l]]
  BY Zenon DEF Edit
<1>2. PICK late : entries' = [l \in Loads |-> IF l \in late THEN entries[l] \cup {f0} ELSE entries[l]]
  BY Zenon DEF Edit
<1>3. dir' \in Contents
  BY <1>1, Zenon DEF LoaderInv, LoaderTypes, Contents
<1>4. LoaderTypes'
  <2>1. entries' \in [Loads -> SUBSET Files]
    BY <1>2, ZenonT(40) DEF LoaderInv, LoaderTypes
  <2>2. held' \in [Loads -> SUBSET Contents]
    BY <1>1, <1>3, ZenonT(40) DEF LoaderInv, LoaderTypes
  <2> QED
    BY <1>1, <1>3, <2>1, <2>2, ZenonT(40) DEF LoaderInv, LoaderTypes, Contents, Stores
<1>5. ASSUME NEW l \in Loads
      PROVE  /\ entries[l] \subseteq entries'[l]
             /\ pc[l] = "reading" => held'[l] = held[l] \cup {dir'} /\ Visible("there", dir') \subseteq held'[l]
             /\ pc[l] # "reading" => held'[l] = held[l]
  BY <1>1, <1>2, ZenonT(40) DEF LoaderInv, Visible
<1>6. ASSUME NEW l \in Loads, pc[l] \in {"reading", "returned", "patched"} PROVE Covered(l)'
  <2>1. Covered(l)
    BY <1>6, ZenonT(40) DEF LoaderInv
  <2>2. ASSUME NEW f \in Files, NEW t \in Texts, Steady(l, f, t)' PROVE Steady(l, f, t)
    <3>1. pc[l] = "reading" => Visible(dirState, dir) \subseteq held[l]
      BY Zenon DEF LoaderInv
    <3>2. held[l] # {}
      BY <1>5, <2>2, <3>1, VisibleSome, ZenonT(40) DEF Steady
    <3> QED
      BY <1>5, <2>2, <3>2, ZenonT(40) DEF Steady
  <2> QED
    BY <1>1, <1>5, <2>1, <2>2, ZenonT(40) DEF Covered
<1> QED
  BY <1>1, <1>4, <1>5, <1>6, ZenonT(40) DEF LoaderInv

(* So does a directory that disappears, comes back or is locked.           *)
LEMMA MountKeeps ==
  ASSUME LoaderInv, NEW s, Mount(s)
  PROVE  LoaderInv'
<1>1. /\ dirState' = s /\ dir' = dir /\ pc' = pc /\ entries' = entries /\ store' = store
      /\ held' = [l \in Loads |-> IF pc[l] = "reading" THEN held[l] \cup Visible(s, dir)
                                                      ELSE held[l]]
  BY Zenon DEF Mount
<1>2. Visible(s, dir) \subseteq Contents
  BY VisibleContents, Zenon DEF LoaderInv, LoaderTypes
<1>3. held' \in [Loads -> SUBSET Contents]
  BY <1>1, <1>2, ZenonT(40) DEF LoaderInv, LoaderTypes
<1>4. LoaderTypes'
  BY <1>1, <1>3, ZenonT(40) DEF LoaderInv, LoaderTypes, Contents, Stores
<1>5. ASSUME NEW l \in Loads
      PROVE  /\ pc[l] = "reading" => held'[l] = held[l] \cup Visible(s, dir)
             /\ pc[l] # "reading" => held'[l] = held[l]
  BY <1>1, ZenonT(40)
<1>6. ASSUME NEW l \in Loads, pc[l] \in {"reading", "returned", "patched"} PROVE Covered(l)'
  <2>1. Covered(l)
    BY <1>6, ZenonT(40) DEF LoaderInv
  <2>2. ASSUME NEW f \in Files, NEW t \in Texts, Steady(l, f, t)' PROVE Steady(l, f, t)
    <3>1. pc[l] = "reading" => Visible(dirState, dir) \subseteq held[l]
      BY Zenon DEF LoaderInv
    <3>2. held[l] # {}
      BY <1>5, <2>2, <3>1, VisibleSome, ZenonT(40) DEF Steady
    <3> QED
      BY <1>5, <2>2, <3>2, ZenonT(40) DEF Steady
  <2> QED
    BY <1>1, <2>1, <2>2, ZenonT(40) DEF Covered
<1> QED
  BY <1>1, <1>4, <1>5, <1>6, ZenonT(40) DEF LoaderInv

(* So does every step of a load: what is read is dispatched.               *)
LEMMA LoadStepKeeps ==
  ASSUME LoaderInv, NEW k \in Loads, LoadStep(k)
  PROVE  LoaderInv'
<1>t. LoaderTypes
  BY Zenon DEF LoaderInv
<1>1. CASE Begin(k)
  <2>1. /\ pc' = [pc EXCEPT ![k] = IF dirState = "missing" THEN "returned" ELSE "reading"]
        /\ entries' = [entries EXCEPT ![k] = IF dirState = "missing" THEN {} ELSE Present(dir)]
        /\ held' = [held EXCEPT ![k] = IF dirState = "missing" THEN {} ELSE Visible(dirState, dir)]
        /\ dirState' = dirState /\ dir' = dir /\ store' = store
    BY <1>1, Zenon DEF Begin
  <2>2. LoaderTypes'
    <3>1. Visible(dirState, dir) \subseteq Contents
      BY <1>t, VisibleContents, Zenon DEF LoaderTypes
    <3>2. held' \in [Loads -> SUBSET Contents]
      BY <1>t, <2>1, <3>1, ZenonT(40) DEF LoaderTypes
    <3> QED
      BY <1>t, <2>1, <3>2, ZenonT(40) DEF LoaderTypes, Contents, Present, Stores
  <2>3. ASSUME NEW l \in Loads, l # k
        PROVE  pc'[l] = pc[l] /\ entries'[l] = entries[l] /\ held'[l] = held[l]
    BY <1>t, <2>1, <2>3, ZenonT(40) DEF LoaderTypes
  <2>4. /\ pc'[k] = "reading" => /\ held'[k] = Visible(dirState, dir) /\ dir \in held'[k]
                                 /\ entries'[k] = Present(dir)
        /\ pc'[k] # "reading" => held'[k] = {}
    BY <1>t, <2>1, VisibleSome, ZenonT(40) DEF LoaderTypes
  <2>5. Covered(k)'
    <3>1. ASSUME NEW f \in Files, NEW t \in Texts, Steady(k, f, t)'
          PROVE  pc'[k] = "reading" /\ f \in entries'[k]
      BY <2>4, <3>1, LoaderAssumption, ZenonT(40) DEF Steady, Present
    <3> QED
      BY <3>1, ZenonT(40) DEF Covered
  <2>6. ASSUME NEW l \in Loads, l # k, Covered(l) PROVE Covered(l)'
    BY <2>1, <2>3, <2>6, ZenonT(40) DEF Covered, Steady
  <2> QED
    BY <2>1, <2>2, <2>3, <2>4, <2>5, <2>6, ZenonT(40) DEF LoaderInv
<1>2. CASE Throw(k)
  <2>1. /\ pc' = [pc EXCEPT ![k] = "threw"]
        /\ dirState' = dirState /\ dir' = dir /\ store' = store /\ entries' = entries
        /\ held' = held
    BY <1>2, Zenon DEF Throw
  <2>2. LoaderTypes'
    BY <1>t, <2>1, Zenon DEF LoaderTypes, Contents, Stores
  <2>3. pc'[k] = "threw" /\ \A l \in Loads : l # k => pc'[l] = pc[l]
    BY <1>t, <2>1, ZenonT(40) DEF LoaderTypes
  <2>4. ASSUME NEW l \in Loads, l # k, Covered(l) PROVE Covered(l)'
    BY <2>1, <2>3, <2>4, ZenonT(40) DEF Covered, Steady
  <2>5. pc'[k] \notin {"reading", "returned", "patched"}
    BY <2>3, Zenon
  <2> QED
    BY <2>1, <2>2, <2>3, <2>4, <2>5, ZenonT(40) DEF LoaderInv
<1>3. CASE ReadFile(k)
  <2>1. PICK f0 \in entries[k], d0 \in Visible(dirState, dir) :
          /\ entries' = [entries EXCEPT ![k] = @ \ {f0}]
          /\ store' = [store EXCEPT ![k] = Read(d0[f0], @)]
    BY <1>3, ZenonT(40) DEF ReadFile
  <2>2. /\ pc[k] = "reading" /\ pc' = pc /\ dirState' = dirState /\ dir' = dir
        /\ held' = held /\ d0 \in held[k]
    BY <1>3, <2>1, ZenonT(40) DEF ReadFile, LoaderInv
  <2>3. f0 \in Files /\ d0[f0] \in Texts \cup {NoFile} /\ store[k] \in Stores
    BY <1>t, <2>1, <2>2, ZenonT(40) DEF LoaderTypes, Contents
  <2>4. /\ Read(d0[f0], store[k]) \in Stores
        /\ Extends(Read(d0[f0], store[k]), store[k])
        /\ (d0[f0] \in Texts /\ ~ Throws(d0[f0])) => Loaded(d0[f0], Read(d0[f0], store[k]))
    BY <2>3, ReadLoads, Zenon
  <2>5. /\ store'[k] = Read(d0[f0], store[k]) /\ entries'[k] = entries[k] \ {f0}
        /\ \A l \in Loads : l # k => store'[l] = store[l] /\ entries'[l] = entries[l]
    BY <1>t, <2>1, Zenon DEF LoaderTypes
  <2>6. LoaderTypes'
    <3>1. store' \in [Loads -> Stores]
      BY <1>t, <2>1, <2>4, ZenonT(40) DEF LoaderTypes
    <3>2. entries' \in [Loads -> SUBSET Files]
      BY <1>t, <2>1, Zenon DEF LoaderTypes
    <3> QED
      BY <1>t, <2>2, <3>1, <3>2, ZenonT(40) DEF LoaderTypes, Contents, Stores
  <2>7. Covered(k)'
    <3>1. Covered(k)
      BY <2>2, Zenon DEF LoaderInv
    <3>2. ASSUME NEW f \in Files, NEW t \in Texts, Steady(k, f, t)'
          PROVE  f \in entries'[k] \/ Loaded(t, store'[k])
      <4>1. Steady(k, f, t) /\ d0[f] = t /\ ~ Throws(t)
        BY <2>2, <3>2, Zenon DEF Steady
      <4>2. CASE f = f0
        BY <2>4, <2>5, <4>1, <4>2, ZenonT(40)
      <4>3. CASE f # f0 /\ f \in entries[k]
        BY <2>5, <4>3, ZenonT(40)
      <4>4. CASE Loaded(t, store[k])
        BY <2>4, <2>5, <4>4, ExtendsLoaded, ZenonT(40)
      <4> QED
        BY <3>1, <4>1, <4>2, <4>3, <4>4, ZenonT(40) DEF Covered
    <3> QED
      BY <2>2, <3>2, Zenon DEF Covered
  <2>8. ASSUME NEW l \in Loads, l # k, Covered(l) PROVE Covered(l)'
    BY <2>2, <2>5, <2>8, ZenonT(40) DEF Covered, Steady
  <2> QED
    BY <2>2, <2>6, <2>7, <2>8, ZenonT(40) DEF LoaderInv
<1>4. CASE Return(k)
  <2>1. /\ pc[k] = "reading" /\ entries[k] = {}
        /\ pc' = [pc EXCEPT ![k] = "returned"]
        /\ dirState' = dirState /\ dir' = dir /\ store' = store /\ entries' = entries
        /\ held' = held
    BY <1>4, Zenon DEF Return
  <2>2. LoaderTypes'
    BY <1>t, <2>1, Zenon DEF LoaderTypes, Contents, Stores
  <2>3. pc'[k] = "returned" /\ \A l \in Loads : l # k => pc'[l] = pc[l]
    BY <1>t, <2>1, Zenon DEF LoaderTypes
  <2>4. ASSUME NEW l \in Loads, Covered(l) PROVE Covered(l)'
    BY <2>1, <2>3, <2>4, ZenonT(40) DEF Covered, Steady
  <2>5. Covered(k)
    BY <2>1, Zenon DEF LoaderInv
  <2> QED
    BY <2>1, <2>2, <2>3, <2>4, <2>5, ZenonT(40) DEF LoaderInv
<1> QED
  BY <1>1, <1>2, <1>3, <1>4, ZenonT(40) DEF LoadStep, Proceed

(* What the loader's invariant says depends on these variables only.       *)
LEMMA LoaderStutter ==
  ASSUME LoaderInv, UNCHANGED <<dirState, dir, pc, entries, store, held>>
  PROVE  LoaderInv'
<1>1. LoaderTypes'
  BY Zenon DEF LoaderInv, LoaderTypes, Contents, Stores
<1>2. ASSUME NEW l \in Loads, Covered(l) PROVE Covered(l)'
  BY <1>2, Zenon DEF Covered, Steady
<1> QED
  BY <1>1, <1>2, ZenonT(40) DEF LoaderInv

(* applyJsonDocument only adds.                                            *)
LEMMA ApplyKeeps ==
  ASSUME LoaderInv, NEW k \in Loads, NEW t0 \in Texts, ApplyJsonDocument(k, t0)
  PROVE  LoaderInv'
<1>t. LoaderTypes
  BY Zenon DEF LoaderInv
<1>1. /\ pc[k] = "returned" /\ ~ Throws(t0)
      /\ pc' = [pc EXCEPT ![k] = "patched"]
      /\ store' = [store EXCEPT ![k] = Dispatch(t0, @)]
      /\ dirState' = dirState /\ dir' = dir /\ entries' = entries /\ held' = held
  BY Zenon DEF ApplyJsonDocument
<1>2. Dispatch(t0, store[k]) \in Stores /\ Extends(Dispatch(t0, store[k]), store[k])
  BY <1>t, <1>1, DispatchLoads, Zenon DEF LoaderTypes
<1>3. /\ store'[k] = Dispatch(t0, store[k]) /\ pc'[k] = "patched"
      /\ \A l \in Loads : l # k => store'[l] = store[l] /\ pc'[l] = pc[l]
  BY <1>t, <1>1, Zenon DEF LoaderTypes
<1>4. LoaderTypes'
  <2>1. store' \in [Loads -> Stores]
    BY <1>t, <1>1, <1>2, ZenonT(40) DEF LoaderTypes
  <2>2. pc' \in [Loads -> {"idle", "reading", "returned", "threw", "patched"}]
    BY <1>t, <1>1, Zenon DEF LoaderTypes
  <2> QED
    BY <1>t, <1>1, <2>1, <2>2, Zenon DEF LoaderTypes, Contents, Stores
<1>5. Covered(k)'
  <2>1. Covered(k)
    BY <1>1, Zenon DEF LoaderInv
  <2>2. pc[k] # "reading"
    BY <1>1, Zenon
  <2>3. ASSUME NEW f \in Files, NEW t \in Texts, Steady(k, f, t)' PROVE Loaded(t, store'[k])
    <3>1. Loaded(t, store[k])
      BY <1>1, <2>1, <2>2, <2>3, ZenonT(40) DEF Covered, Steady
    <3> QED
      BY <1>2, <1>3, <3>1, ExtendsLoaded, ZenonT(40)
  <2> QED
    BY <2>3, Zenon DEF Covered
<1>6. ASSUME NEW l \in Loads, l # k, Covered(l) PROVE Covered(l)'
  BY <1>1, <1>3, <1>6, Zenon DEF Covered, Steady
<1>7. pc'[k] # "reading"
  BY <1>3, Zenon
<1> QED
  BY <1>1, <1>3, <1>4, <1>5, <1>6, <1>7, ZenonT(40) DEF LoaderInv

(* Every step keeps the loader's invariant.                                *)
LEMMA LoaderInvNext == LoaderInv /\ [LoaderNext]_loaderVars => LoaderInv'
<1> SUFFICES ASSUME LoaderInv, [LoaderNext]_loaderVars PROVE LoaderInv'
  BY Zenon
<1>1. ASSUME UNCHANGED loaderVars PROVE UNCHANGED <<dirState, dir, pc, entries, store, held>>
  BY <1>1, Zenon DEF loaderVars
<1> QED
  BY <1>1, LoaderStutter, EditKeeps, MountKeeps, LoadStepKeeps, ApplyKeeps, ZenonT(40) DEF LoaderNext

(* The invariant gives the property.                                       *)
LEMMA LoaderInvNoFileLost == LoaderInv => NoFileLost
<1> SUFFICES ASSUME LoaderInv, NEW l \in Loads, pc[l] \in {"returned", "patched"},
                    NEW f \in Files, NEW t \in Texts, Steady(l, f, t)
             PROVE  Loaded(t, store[l])
  BY Zenon DEF NoFileLost, Steady
<1>1. pc[l] \in {"reading", "returned", "patched"} /\ pc[l] # "reading"
  BY Zenon
<1> QED
  BY <1>1, Zenon DEF LoaderInv, Covered

(* loadFromDirectory loses no file: what lies in the directory, readable   *)
(* and well-formed, all the time it reads is in the store it returns,      *)
(* whatever happens to any number of other files.                          *)
THEOREM NoFileLostAlways == LoaderSpec => []NoFileLost
BY LoaderInvInit, LoaderInvNext, LoaderInvNoFileLost, PTL DEF LoaderSpec

-----------------------------------------------------------------------------
(* The admin server                                                        *)

(* At most one reload loads at a time, and it is the last that began.  It  *)
(* is not answered yet, and no answered reload loads again.                *)
Order ==
  /\ began \in Seq(Requests)
  /\ \A i \in 1 .. Len(began) :
       /\ target[began[i]] = "reload"
       /\ handler[began[i]] \in {"loading", "answered", "deleted"}
       /\ handler[began[i]] = "loading" => i = Len(began)
  /\ \A r \in Requests : handler[r] = "loading" =>
       Len(began) > 0 /\ r = began[Len(began)]

Replies ==
  /\ handler \in [Requests -> {"none", "open", "loading", "answered", "deleted"}]
  /\ target \in [Requests -> {"healthz", "reload", "other"}]
  /\ reply \in [Requests -> {"none", "200", "400", "404", "500"}]
  /\ \A r \in Requests : handler[r] \in {"none", "open", "loading"} => reply[r] = "none"
  /\ \A r \in Requests : Confirmed(r) => pc[r] = "returned"

(* Nothing is served before main() has published.                          *)
Published ==
  /\ current = << >> => began = << >>
  /\ current # << >> => pc[Startup] = "returned"

(* The inductive invariant of the admin server.                            *)
AdminInv ==
  /\ LoaderInv /\ Order /\ Replies /\ Published
  /\ LastReloadWins /\ CurrentIsComplete

(* A load that has returned stays as it is.                                *)
Frozen == \A l \in Loads : pc[l] = "returned" => pc'[l] = "returned" /\ store'[l] = store[l]

(* Only the loading call is touched by its steps.                          *)
LEMMA LoadStepFrozen ==
  ASSUME LoaderTypes, NEW k \in Loads, LoadStep(k)
  PROVE  Frozen
<1>1. pc[k] # "returned"
  BY Zenon DEF LoadStep, Proceed, Begin, ReadFile, Return, Throw
<1>2. ASSUME NEW l \in Loads, l # k PROVE pc'[l] = pc[l] /\ store'[l] = store[l]
  <2>1. CASE Begin(k)
    BY <1>2, <2>1, ZenonT(40) DEF Begin, LoaderTypes
  <2>2. CASE ReadFile(k)
    BY <1>2, <2>2, ZenonT(40) DEF ReadFile, LoaderTypes
  <2>3. CASE Return(k)
    BY <1>2, <2>3, Zenon DEF Return, LoaderTypes
  <2>4. CASE Throw(k)
    BY <1>2, <2>4, ZenonT(40) DEF Throw, LoaderTypes
  <2> QED
    BY <2>1, <2>2, <2>3, <2>4, ZenonT(40) DEF LoadStep, Proceed
<1> QED
  BY <1>1, <1>2, ZenonT(40) DEF Frozen

(* A free worker means that no reload is loading.                          *)
LEMMA NobodyLoads ==
  ASSUME FreeWorker
  PROVE  current # << >> /\ \A r \in Requests : handler[r] # "loading"
<1> DEFINE L == {r \in Requests : handler[r] = "loading"}
<1>1. IsFiniteSet(Requests)
  BY StartupAssumption, FS_Difference, ZenonT(40) DEF Requests
<1>2. IsFiniteSet(L)
  BY <1>1, FS_Subset, ZenonT(40)
<1>3. Cardinality(L) \in Nat /\ Cardinality(L) < 1
  BY <1>2, FS_CardinalityType, ZenonT(40) DEF FreeWorker, Workers
<1>4. Cardinality(L) = 0
  BY <1>3
<1>5. L = {}
  BY <1>2, <1>4, FS_EmptySet, ZenonT(40)
<1> QED
  BY <1>5, Zenon DEF FreeWorker

(* The invariant holds at first.                                           *)
LEMMA AdminInvInit == Init => AdminInv
<1> SUFFICES ASSUME Init PROVE AdminInv
  BY Zenon
<1>1. LoaderInv
  BY LoaderInvInit, Zenon DEF Init
<1>2. Order /\ Replies /\ Published /\ LastReloadWins /\ CurrentIsComplete
  BY DEF Init, Order, Replies, Published, LastReloadWins, CurrentIsComplete, Confirmed
<1> QED
  BY <1>1, <1>2, Zenon DEF AdminInv

(* Steps that leave the admin server alone keep it.                        *)
LEMMA QuietKeeps ==
  ASSUME AdminInv, LoaderInv', Frozen, UNCHANGED adminVars
  PROVE  AdminInv'
<1>1. UNCHANGED <<handler, target, reply, current, began>>
  BY Zenon DEF adminVars
<1>2. Order'
  BY <1>1, Zenon DEF AdminInv, Order, Requests
<1>3. \A r \in Requests : r \in Loads /\ Confirmed(r)' = Confirmed(r)
  BY <1>1, Zenon DEF Confirmed, Requests
<1>4. Replies'
  BY <1>1, <1>3, Zenon DEF AdminInv, Replies, Frozen, Requests
<1>5. Published'
  BY <1>1, StartupAssumption, Zenon DEF AdminInv, Published, Frozen
<1>6. LastReloadWins'
  <2> SUFFICES ASSUME NEW i \in DOMAIN began, Confirmed(began[i]),
                      \A j \in (i + 1) .. Len(began) : ~ Confirmed(began[j])
               PROVE  current = <<store'[began[i]]>>
    BY <1>1, Zenon DEF LastReloadWins, Confirmed
  <2>1. began[i] \in Requests
    BY DEF AdminInv, Order
  <2>2. store'[began[i]] = store[began[i]]
    BY <1>3, <2>1, ZenonT(40) DEF AdminInv, Replies, Frozen
  <2> QED
    BY <2>2, Zenon DEF AdminInv, LastReloadWins
<1>7. CurrentIsComplete'
  BY <1>1, Zenon DEF AdminInv, CurrentIsComplete, Frozen
<1> QED
  BY <1>2, <1>4, <1>5, <1>6, <1>7, ZenonT(40) DEF AdminInv

(* So do steps that move one handler and confirm nothing.                  *)
LEMMA MoveKeeps ==
  ASSUME AdminInv, UNCHANGED <<loaderVars, current, began>>,
         NEW r \in Requests,
         NEW h \in {"open", "answered", "deleted"},
         NEW v \in {"none", "200", "400", "404", "500"},
         NEW t \in {"healthz", "reload", "other"},
         handler' = [handler EXCEPT ![r] = h],
         reply' = [reply EXCEPT ![r] = v],
         target' = [target EXCEPT ![r] = t],
         h = "open" => handler[r] = "none" /\ v = "none",
         handler[r] # "none" => t = target[r],
         (t = "reload" /\ v = "200") <=> Confirmed(r)
  PROVE  AdminInv'
<1>1. /\ handler'[r] = h /\ reply'[r] = v /\ target'[r] = t
      /\ \A q \in Requests : q # r =>
           handler'[q] = handler[q] /\ reply'[q] = reply[q] /\ target'[q] = target[q]
  BY ZenonT(40) DEF AdminInv, Replies
<1>2. UNCHANGED <<dirState, dir, pc, entries, store, held, current, began>>
  BY Zenon DEF loaderVars
<1>3. LoaderInv'
  BY <1>2, LoaderStutter, Zenon DEF AdminInv
<1>4. \A q \in Requests : Confirmed(q)' = Confirmed(q)
  BY <1>1, ZenonT(40) DEF Confirmed
<1>5. Order'
  <2>0. began \in Seq(Requests) /\ began' = began
    BY <1>2, Zenon DEF AdminInv, Order
  <2>1. ASSUME NEW i \in 1 .. Len(began)
        PROVE  /\ target'[began[i]] = "reload"
               /\ handler'[began[i]] \in {"loading", "answered", "deleted"}
               /\ handler'[began[i]] = "loading" => i = Len(began)
    <3>1. /\ began[i] \in Requests
          /\ target[began[i]] = "reload"
          /\ handler[began[i]] \in {"loading", "answered", "deleted"}
          /\ handler[began[i]] = "loading" => i = Len(began)
      <4>1. began[i] \in Requests
        BY ONLY <2>0, i \in 1 .. Len(began)
      <4> QED
        BY <4>1, ZenonT(40) DEF AdminInv, Order
    <3>2. CASE began[i] = r
      BY <1>1, <3>1, <3>2, Zenon
    <3>3. CASE began[i] # r
      BY <1>1, <3>1, <3>3, ZenonT(40)
    <3> QED
      BY <3>2, <3>3, Zenon
  <2>2. ASSUME NEW q \in Requests, handler'[q] = "loading" PROVE handler[q] = "loading"
    <3>1. h # "loading"
      BY Zenon
    <3> QED
      BY <1>1, <2>2, <3>1, Zenon
  <2> QED
    BY <2>0, <2>1, <2>2, ZenonT(60) DEF AdminInv, Order, Requests
<1>6. Replies'
  <2>1. /\ handler' \in [Requests -> {"none", "open", "loading", "answered", "deleted"}]
        /\ target' \in [Requests -> {"healthz", "reload", "other"}]
        /\ reply' \in [Requests -> {"none", "200", "400", "404", "500"}]
    BY Zenon DEF AdminInv, Replies
  <2>2. ASSUME NEW q \in Requests, handler'[q] \in {"none", "open", "loading"}
        PROVE  reply'[q] = "none"
    BY <1>1, <2>2, ZenonT(60) DEF AdminInv, Replies
  <2>3. \A q \in Requests : Confirmed(q)' => pc'[q] = "returned"
    BY <1>2, <1>4, Zenon DEF AdminInv, Replies
  <2> QED
    BY <2>1, <2>2, <2>3, Zenon DEF Replies, Requests
<1>7. Published' /\ CurrentIsComplete'
  BY <1>2, Zenon DEF AdminInv, Published, CurrentIsComplete
<1>8. LastReloadWins'
  <2> SUFFICES ASSUME NEW i \in DOMAIN began, Confirmed(began[i])',
                      \A j \in (i + 1) .. Len(began) : ~ Confirmed(began[j])'
               PROVE  current = <<store[began[i]]>>
    BY <1>2, Zenon DEF LastReloadWins, Confirmed
  <2>1. \A j \in 1 .. Len(began) : began[j] \in Requests
    BY DEF AdminInv, Order
  <2>2. i \in 1 .. Len(began) /\ Len(began) \in Nat
    BY DEF AdminInv, Order
  <2>3. \A j \in (i + 1) .. Len(began) : j \in 1 .. Len(began)
    BY <2>2
  <2>4. Confirmed(began[i]) /\ \A j \in (i + 1) .. Len(began) : ~ Confirmed(began[j])
    BY <1>1, <1>2, <2>1, <2>2, <2>3 DEF Confirmed
  <2> QED
    BY <2>4, Zenon DEF AdminInv, LastReloadWins
<1> QED
  BY <1>3, <1>5, <1>6, <1>7, <1>8, ZenonT(40) DEF AdminInv

(* A reload that begins becomes the last one.                              *)
LEMMA BeginsKeeps ==
  ASSUME AdminInv, NEW r \in Requests, ReloadBegins(r)
  PROVE  AdminInv'
<1>1. /\ UNCHANGED <<dirState, dir, pc, entries, store, held, target, reply, current>>
      /\ handler[r] = "open" /\ target[r] = "reload"
      /\ handler' = [handler EXCEPT ![r] = "loading"]
      /\ began' = Append(began, r)
      /\ current # << >> /\ \A q \in Requests : handler[q] # "loading"
  BY NobodyLoads, Zenon DEF ReloadBegins, loaderVars
<1>2. handler'[r] = "loading" /\ \A q \in Requests : q # r => handler'[q] = handler[q]
  BY <1>1, Zenon DEF AdminInv, Replies
<1>3. LoaderInv'
  BY <1>1, LoaderStutter, Zenon DEF AdminInv
<1>4. /\ began \in Seq(Requests) /\ Len(began) \in Nat
      /\ began' \in Seq(Requests) /\ Len(began') = Len(began) + 1
      /\ began'[Len(began) + 1] = r
      /\ \A i \in 1 .. Len(began) : began'[i] = began[i] /\ began[i] \in Requests
  BY <1>1 DEF AdminInv, Order
<1>5. reply[r] = "none"
  BY <1>1, Zenon DEF AdminInv, Replies
<1>6. \A i \in 1 .. Len(began) : began[i] # r
  BY <1>1, Zenon DEF AdminInv, Order
<1>7. Order'
  <2>1. ASSUME NEW i \in 1 .. Len(began')
        PROVE  /\ target'[began'[i]] = "reload"
               /\ handler'[began'[i]] \in {"loading", "answered", "deleted"}
               /\ handler'[began'[i]] = "loading" => i = Len(began')
    <3>1. CASE i = Len(began) + 1
      BY <1>1, <1>2, <1>4, <3>1, Zenon
    <3>2. CASE i \in 1 .. Len(began)
      <4>1. /\ began'[i] = began[i] /\ began[i] \in Requests /\ began[i] # r
            /\ target[began[i]] = "reload"
            /\ handler[began[i]] \in {"loading", "answered", "deleted"}
            /\ handler[began[i]] # "loading"
        BY <1>1, <1>4, <1>6, <3>2, Zenon DEF AdminInv, Order
      <4> QED
        BY <1>1, <1>2, <4>1, Zenon
    <3> QED
      BY <1>4, <3>1, <3>2
  <2>2. ASSUME NEW q \in Requests, handler'[q] = "loading"
        PROVE  Len(began') > 0 /\ q = began'[Len(began')]
    <3>1. q = r
      BY <1>1, <1>2, <2>2, Zenon
    <3> QED
      BY <1>4, <3>1
  <2> QED
    BY <1>4, <2>1, <2>2, Zenon DEF Order, Requests
<1>8. Replies'
  <2>1. /\ handler' \in [Requests -> {"none", "open", "loading", "answered", "deleted"}]
        /\ target' \in [Requests -> {"healthz", "reload", "other"}]
        /\ reply' \in [Requests -> {"none", "200", "400", "404", "500"}]
    BY <1>1, Zenon DEF AdminInv, Replies
  <2>2. ASSUME NEW q \in Requests, handler'[q] \in {"none", "open", "loading"}
        PROVE  reply'[q] = "none"
    BY <1>1, <1>2, <1>5, <2>2, ZenonT(40) DEF AdminInv, Replies
  <2>3. \A q \in Requests : Confirmed(q)' => pc'[q] = "returned"
    BY <1>1, Zenon DEF AdminInv, Replies, Confirmed
  <2> QED
    BY <2>1, <2>2, <2>3, Zenon DEF Replies, Requests
<1>9. Published' /\ CurrentIsComplete'
  BY <1>1, Zenon DEF AdminInv, Published, CurrentIsComplete
<1>10. LastReloadWins'
  <2> SUFFICES ASSUME NEW i \in DOMAIN began', Confirmed(began'[i]),
                      \A j \in (i + 1) .. Len(began') : ~ Confirmed(began'[j])
               PROVE  current = <<store[began'[i]]>>
    BY <1>1, ZenonT(40) DEF LastReloadWins, Confirmed
  <2>1. ~ Confirmed(r)
    BY <1>5, Zenon DEF Confirmed
  <2>2. i \in 1 .. Len(began)
    <3>1. i \in 1 .. Len(began) + 1 /\ i # Len(began) + 1
      BY <1>4, <2>1
    <3> QED
      BY <1>4, <3>1
  <2>3. Confirmed(began[i])
    BY <1>4, <2>2, Zenon
  <2>4. ASSUME NEW j \in (i + 1) .. Len(began) PROVE ~ Confirmed(began[j])
    <3>1. j \in (i + 1) .. Len(began') /\ j \in 1 .. Len(began)
      BY <1>4, <2>2
    <3> QED
      BY <1>4, <3>1, Zenon
  <2>5. i \in DOMAIN began
    BY <1>4, <2>2
  <2> QED
    BY <1>4, <2>2, <2>3, <2>4, <2>5, Zenon DEF AdminInv, LastReloadWins
<1> QED
  BY <1>3, <1>7, <1>8, <1>9, <1>10, ZenonT(40) DEF AdminInv

(* What a reload swaps in is what the last one read.                       *)
LEMMA SwapsKeeps ==
  ASSUME AdminInv, NEW r \in Requests, ReloadSwaps(r)
  PROVE  AdminInv'
<1>1. /\ UNCHANGED <<dirState, dir, pc, entries, store, held, target, began>>
      /\ handler[r] = "loading" /\ pc[r] = "returned"
      /\ handler' = [handler EXCEPT ![r] = "answered"]
      /\ reply' = [reply EXCEPT ![r] = "200"]
      /\ current' = <<store[r]>>
  BY Zenon DEF ReloadSwaps, Answer, loaderVars
<1>2. /\ handler'[r] = "answered" /\ reply'[r] = "200"
      /\ \A q \in Requests : q # r => handler'[q] = handler[q] /\ reply'[q] = reply[q]
  BY <1>1, Zenon DEF AdminInv, Replies
<1>3. LoaderInv'
  BY <1>1, LoaderStutter, Zenon DEF AdminInv
<1>4. /\ began \in Seq(Requests) /\ Len(began) \in Nat /\ Len(began) > 0
      /\ r = began[Len(began)] /\ target[r] = "reload"
      /\ \A i \in 1 .. Len(began) : began[i] \in Requests
  BY <1>1 DEF AdminInv, Order
<1>5. Order'
  <2>1. ASSUME NEW i \in 1 .. Len(began)
        PROVE  /\ target'[began[i]] = "reload"
               /\ handler'[began[i]] \in {"loading", "answered", "deleted"}
               /\ handler'[began[i]] = "loading" => i = Len(began)
    BY <1>1, <1>2, <1>4, ZenonT(40) DEF AdminInv, Order
  <2>2. ASSUME NEW q \in Requests, handler'[q] = "loading"
        PROVE  Len(began) > 0 /\ q = began[Len(began)]
    BY <1>1, <1>2, <2>2 DEF AdminInv, Order
  <2> QED
    BY <1>1, <1>4, <2>1, <2>2, ZenonT(40) DEF Order, Requests
<1>6. Replies'
  <2>1. /\ handler' \in [Requests -> {"none", "open", "loading", "answered", "deleted"}]
        /\ target' \in [Requests -> {"healthz", "reload", "other"}]
        /\ reply' \in [Requests -> {"none", "200", "400", "404", "500"}]
    BY <1>1, Zenon DEF AdminInv, Replies
  <2>2. ASSUME NEW q \in Requests, handler'[q] \in {"none", "open", "loading"}
        PROVE  reply'[q] = "none"
    BY <1>2, <2>2, ZenonT(40) DEF AdminInv, Replies
  <2>3. ASSUME NEW q \in Requests, Confirmed(q)' PROVE pc'[q] = "returned"
    BY <1>1, <1>2, <2>3, ZenonT(40) DEF AdminInv, Replies, Confirmed
  <2> QED
    BY <2>1, <2>2, <2>3, ZenonT(40) DEF Replies, Requests
<1>7. current' # << >>
  BY <1>1, Zenon
<1>8. current # << >>
  BY <1>4 DEF AdminInv, Published
<1>9. Published'
  BY <1>1, <1>7, <1>8, Zenon DEF AdminInv, Published
<1>10. CurrentIsComplete'
  BY <1>1, Zenon DEF CurrentIsComplete, Requests
<1>11. LastReloadWins'
  <2> SUFFICES ASSUME NEW i \in DOMAIN began, Confirmed(began[i])',
                      \A j \in (i + 1) .. Len(began) : ~ Confirmed(began[j])'
               PROVE  current' = <<store'[began[i]]>>
    BY <1>1, Zenon DEF LastReloadWins, Confirmed
  <2>1. Confirmed(began[Len(began)])'
    BY <1>1, <1>2, <1>4, ZenonT(40) DEF Confirmed
  <2>2. i = Len(began)
    <3>1. i \in 1 .. Len(began)
      BY <1>4
    <3>2. Len(began) \notin (i + 1) .. Len(began)
      BY <1>1, <2>1, ZenonT(40) DEF Confirmed
    <3> QED
      BY <1>4, <3>1, <3>2
  <2> QED
    BY <1>1, <1>4, <2>2, Zenon
<1> QED
  BY <1>3, <1>5, <1>6, <1>9, <1>10, <1>11, ZenonT(40) DEF AdminInv

(* main() publishes before anything is served.                             *)
LEMMA PublishKeeps ==
  ASSUME AdminInv, Publish
  PROVE  AdminInv'
<1>1. /\ UNCHANGED <<dirState, dir, pc, entries, store, held, handler, target, reply, began>>
      /\ pc[Startup] = "returned" /\ current = << >> /\ current' = <<store[Startup]>>
  BY Zenon DEF Publish, loaderVars
<1>2. began = << >>
  BY <1>1, Zenon DEF AdminInv, Published
<1>3. LoaderInv'
  BY <1>1, LoaderStutter, Zenon DEF AdminInv
<1>4. Order' /\ Replies'
  BY <1>1, Zenon DEF AdminInv, Order, Replies, Requests, Confirmed
<1>5. Published' /\ CurrentIsComplete'
  BY <1>1, <1>2, StartupAssumption, ZenonT(40) DEF Published, CurrentIsComplete
<1>6. LastReloadWins'
  BY <1>1, <1>2 DEF LastReloadWins
<1> QED
  BY <1>3, <1>4, <1>5, <1>6, ZenonT(40) DEF AdminInv

(* The callbacks that confirm no reload.                                   *)
LEMMA CallbackKeeps ==
  ASSUME AdminInv, NEW r \in Requests,
         \/ OnRequest(r) \/ OnEOM(r) \/ ReloadFails(r)
         \/ OnUpgrade(r) \/ RequestComplete(r) \/ OnError(r)
  PROVE  AdminInv'
<1>1. UNCHANGED <<loaderVars, current, began>>
  BY Zenon DEF OnRequest, OnEOM, ReloadFails, OnUpgrade, RequestComplete, OnError
<1>2. /\ handler[r] \in {"none", "open", "loading", "answered", "deleted"}
      /\ reply[r] \in {"none", "200", "400", "404", "500"}
      /\ target[r] \in {"healthz", "reload", "other"}
      /\ reply = [reply EXCEPT ![r] = reply[r]]
      /\ target = [target EXCEPT ![r] = target[r]]
      /\ handler[r] \in {"none", "open", "loading"} => reply[r] = "none"
  BY Zenon DEF AdminInv, Replies
<1>3. CASE OnRequest(r)
  <2>1. PICK t \in {"healthz", "reload", "other"} : target' = [target EXCEPT ![r] = t]
    BY <1>3, Zenon DEF OnRequest
  <2>2. handler[r] = "none" /\ handler' = [handler EXCEPT ![r] = "open"] /\ reply' = reply
    BY <1>3, Zenon DEF OnRequest
  <2>3. reply[r] = "none" /\ ~ Confirmed(r)
    BY <1>2, <2>2, ZenonT(40) DEF Confirmed
  <2> QED
    BY <1>1, <1>2, <2>1, <2>2, <2>3, MoveKeeps, ZenonT(40)
<1>4. CASE OnEOM(r) \/ ReloadFails(r) \/ OnUpgrade(r)
  <2>1. PICK v \in {"200", "400", "404", "500"} :
          /\ reply' = [reply EXCEPT ![r] = v]
          /\ handler' = [handler EXCEPT ![r] = "answered"]
          /\ v = "200" => target[r] = "healthz"
    BY <1>4, Zenon DEF OnEOM, ReloadFails, OnUpgrade, Answer
  <2>2. target' = target /\ handler[r] \in {"open", "loading"}
    BY <1>4, Zenon DEF OnEOM, ReloadFails, OnUpgrade
  <2>3. ~ Confirmed(r)
    BY <1>2, <2>2, ZenonT(40) DEF Confirmed
  <2>4. ~ (target[r] = "reload" /\ v = "200")
    BY <2>1, Zenon
  <2> QED
    BY <1>1, <1>2, <2>1, <2>2, <2>3, <2>4, MoveKeeps, ZenonT(40)
<1>5. CASE RequestComplete(r) \/ OnError(r)
  <2>1. reply' = reply /\ target' = target /\ handler' = [handler EXCEPT ![r] = "deleted"]
    BY <1>5, Zenon DEF RequestComplete, OnError
  <2>2. (target[r] = "reload" /\ reply[r] = "200") <=> Confirmed(r)
    BY Zenon DEF Confirmed
  <2> QED
    BY <1>1, <1>2, <2>1, <2>2, MoveKeeps, ZenonT(40)
<1> QED
  BY <1>3, <1>4, <1>5, ZenonT(40)

(* Every step keeps the admin server's invariant.                          *)
LEMMA AdminInvNext == AdminInv /\ [Next]_vars => AdminInv'
<1> SUFFICES ASSUME AdminInv, [Next]_vars PROVE AdminInv'
  BY Zenon
<1>0. LoaderInv /\ LoaderTypes
  BY Zenon DEF AdminInv, LoaderInv
<1>1. ASSUME NEW k \in Loads, LoadStep(k), UNCHANGED adminVars PROVE AdminInv'
  BY <1>0, <1>1, LoadStepKeeps, LoadStepFrozen, QuietKeeps, ZenonT(40)
<1>2. CASE StartupLoad
  BY <1>1, <1>2, StartupAssumption, ZenonT(40) DEF StartupLoad
<1>3. CASE Deployed
  <2>1. LoaderNext /\ UNCHANGED adminVars
    BY <1>3, Zenon DEF Deployed, LoaderNext
  <2>2. LoaderInv'
    BY <1>0, <2>1, LoaderInvNext, ZenonT(40)
  <2>3. pc' = pc /\ store' = store
    BY <1>3, ZenonT(40) DEF Deployed, Edit, Mount
  <2>4. Frozen
    BY <2>3, ZenonT(40) DEF Frozen
  <2> QED
    BY <2>1, <2>2, <2>4, QuietKeeps, ZenonT(40)
<1>4. CASE Publish
  BY <1>4, PublishKeeps, ZenonT(40)
<1>5. ASSUME NEW r \in Requests, OnRequest(r) \/ HandlerStep(r) PROVE AdminInv'
  <2>1. r \in Loads
    BY ZenonT(40) DEF Requests
  <2>2. CASE ReloadReads(r)
    BY <1>1, <2>1, <2>2, ZenonT(40) DEF ReloadReads
  <2>3. CASE ReloadBegins(r)
    BY <2>3, BeginsKeeps, ZenonT(40)
  <2>4. CASE ReloadSwaps(r)
    BY <2>4, SwapsKeeps, ZenonT(40)
  <2> QED
    BY <1>5, <2>2, <2>3, <2>4, CallbackKeeps, ZenonT(40) DEF HandlerStep
<1>6. CASE UNCHANGED vars
  <2>1. UNCHANGED loaderVars /\ UNCHANGED adminVars
    BY <1>6, ZenonT(40) DEF vars
  <2>2. LoaderInv'
    BY <1>0, <2>1, LoaderInvNext, ZenonT(40)
  <2>3. Frozen
    BY <2>1, Zenon DEF Frozen, loaderVars
  <2> QED
    BY <2>1, <2>2, <2>3, QuietKeeps, ZenonT(40)
<1> QED
  BY <1>2, <1>3, <1>4, <1>5, <1>6, ZenonT(40) DEF Next

(* The admin server keeps its invariant.                                   *)
THEOREM AdminInvariant == Spec => []AdminInv
BY AdminInvInit, AdminInvNext, PTL DEF Spec

(* admin_handler.cpp makes reloads take effect in the order in which they  *)
(* were begun, however many there are.  This rests on the one thread of    *)
(* admin_server.cpp: the load is not under the lock.                       *)
THEOREM LastReloadWinsAlways == Spec => []LastReloadWins
<1>1. AdminInv => LastReloadWins
  BY Zenon DEF AdminInv
<1> QED
  BY <1>1, AdminInvariant, PTL

(* SharedConfig::current is always what one load returned.                 *)
THEOREM CurrentIsCompleteAlways == Spec => []CurrentIsComplete
<1>1. AdminInv => CurrentIsComplete
  BY Zenon DEF AdminInv
<1> QED
  BY <1>1, AdminInvariant, PTL

(* A reload answered with 200 has put every well-formed document that lay  *)
(* in the directory into SharedConfig::current.                            *)
THEOREM ReloadAppliesAlways == Spec => []ReloadApplies
<1>1. AdminInv => ReloadApplies
  <2> SUFFICES ASSUME AdminInv, NEW i \in DOMAIN began, Confirmed(began[i]),
                      \A j \in (i + 1) .. Len(began) : ~ Confirmed(began[j]),
                      NEW f \in Files, NEW t \in Texts, Steady(began[i], f, t)
               PROVE  Loaded(t, current[1])
    BY Zenon DEF ReloadApplies, Steady
  <2>1. began[i] \in Requests /\ began[i] \in Loads
    BY DEF AdminInv, Order, Requests
  <2>2. pc[began[i]] = "returned"
    BY <2>1, Zenon DEF AdminInv, Replies
  <2>3. current = <<store[began[i]]>>
    BY Zenon DEF AdminInv, LastReloadWins
  <2>4. NoFileLost
    BY LoaderInvNoFileLost, Zenon DEF AdminInv
  <2>5. pc[began[i]] \in {"returned", "patched"}
    BY <2>2, Zenon
  <2>6. Loaded(t, store[began[i]])
    BY <2>1, <2>4, <2>5, ZenonT(40) DEF NoFileLost, Steady
  <2>7. current[1] = store[began[i]]
    BY <2>3, Zenon
  <2> QED
    BY <2>6, <2>7, Zenon
<1> QED
  BY <1>1, AdminInvariant, PTL

-----------------------------------------------------------------------------
(* What an undisturbed load returns                                        *)

(* c is the store after each of the first n files of order q.              *)
Chain(d, n, q, c) ==
  c[0] = EmptyStore /\ \A i \in 1 .. n : c[i] = Read(d[q[i]], c[i - 1])

(* A chain is what Stages computes.                                        *)
LEMMA ChainIsStages ==
  ASSUME NEW d, NEW n \in Nat, NEW q, NEW c, Chain(d, n, q, c)
  PROVE  Stages(d, n, q)[n] = c[n]
<1> DEFINE Step(f) == [i \in 0 .. n |-> IF i = 0 THEN EmptyStore ELSE Read(d[q[i]], f[i - 1])]
           st == CHOOSE f : f = Step(f)
           c0 == [i \in 0 .. n |-> c[i]]
<1>1. \A i \in 0 .. n : i = 0 \/ (i \in 1 .. n /\ i - 1 \in 0 .. n)
  OBVIOUS
<1>2. c0 = Step(c0)
  <2>1. \A i \in 0 .. n : c0[i] = Step(c0)[i]
    BY <1>1, Zenon DEF Chain
  <2> QED
    BY <2>1, Zenon
<1>3. st = Step(st)
  <2> HIDE DEF c0
  <2> QED
    BY <1>2, Zenon
<1>4. Stages(d, n, q) = st
  BY DEF Stages
<1> HIDE DEF st
<1>5. \A i \in 0 .. n : st[i] = IF i = 0 THEN EmptyStore ELSE Read(d[q[i]], st[i - 1])
  BY <1>3, Zenon
<1> DEFINE T == {i \in 0 .. n : st[i] # c[i]}
<1>6. T = {}
  <2> SUFFICES ASSUME T # {} PROVE FALSE
    BY Zenon
  <2>1. T \subseteq Nat
    OBVIOUS
  <2>2. PICK i \in T : \A j \in T : i <= j
    BY <2>1, Least, Zenon
  <2>3. i # 0
    BY <1>5, <2>2, Zenon DEF Chain
  <2>4. i \in 1 .. n /\ i - 1 \in 0 .. n
    BY <1>1, <2>3, Zenon
  <2>5. ~ (i <= i - 1)
    BY <2>4
  <2>6. st[i - 1] = c[i - 1]
    BY <2>2, <2>4, <2>5, ZenonT(40)
  <2>7. st[i] = c[i]
    BY <1>5, <2>3, <2>4, <2>6, ZenonT(40) DEF Chain
  <2> QED
    BY <2>7, Zenon
<1>7. n \in 0 .. n
  OBVIOUS
<1> QED
  BY <1>4, <1>6, <1>7, Zenon

(* The files P have been read, n of them, with s as the result.            *)
ReadOnce(P, d, n, s) ==
  \E q, c : q \in Bijection(1 .. n, P) /\ Chain(d, n, q, c) /\ c[n] = s

(* Of a directory d that nobody disturbs, load l has read each file once   *)
(* that is not still before it.                                            *)
QuietInv(l) ==
  /\ pc[l] = "idle" => store[l] = EmptyStore
  /\ pc[l] = "returned" => entries[l] = {}
  /\ pc[l] \in {"reading", "returned"} =>
       \A d : held[l] = {d} =>
         /\ entries[l] \subseteq Present(d)
         /\ \E n \in Nat : ReadOnce(Present(d) \ entries[l], d, n, store[l])

(* One more file.                                                          *)
LEMMA PastOneMore ==
  ASSUME NEW P, NEW E, NEW f, NEW d, NEW n, NEW s,
         f \in E, E \subseteq P, n \in Nat, ReadOnce(P \ E, d, n, s)
  PROVE  ReadOnce(P \ (E \ {f}), d, n + 1, Read(d[f], s))
<1>0. PICK q, c : q \in Bijection(1 .. n, P \ E) /\ Chain(d, n, q, c) /\ c[n] = s
  BY Zenon DEF ReadOnce
<1> DEFINE m == n + 1
           D == P \ E
           D2 == P \ (E \ {f})
           q2 == [i \in 1 .. m |-> IF i = m THEN f ELSE q[i]]
           c2 == [i \in 0 .. m |-> IF i = m THEN Read(d[f], c[n]) ELSE c[i]]
<1>1. m \in 1 .. m /\ m \in 0 .. m /\ 0 \in 0 .. m /\ m # 0 /\ m - 1 = n /\ n # m /\ n \in 0 .. m
  OBVIOUS
<1>2. /\ \A i \in 1 .. m : i = m \/ i \in 1 .. n
      /\ \A i \in 1 .. n : i \in 1 .. m /\ i # m /\ i \in 0 .. m /\ i - 1 \in 0 .. m /\ i - 1 # m
  OBVIOUS
<1>3. f \notin D /\ D2 = D \cup {f}
  BY Zenon
<1>4. /\ \A i \in 1 .. n : q[i] \in D
      /\ \A i, j \in 1 .. n : q[i] = q[j] => i = j
      /\ \A x \in D : \E i \in 1 .. n : q[i] = x
  BY <1>0, Zenon DEF Bijection, Injection, Surjection, IsInjective
<1> HIDE DEF m, D, D2
<1>5. q2[m] = f /\ c2[m] = Read(d[f], c[n]) /\ \A i \in 1 .. n : q2[i] = q[i]
  BY <1>1, <1>2, Zenon
<1>6. \A i \in 0 .. m : i # m => c2[i] = c[i]
  BY Zenon
<1>7. DOMAIN q2 = 1 .. m
  BY Zenon
<1>7a. q2 = [i \in 1 .. m |-> q2[i]]
  BY Zenon
<1> HIDE DEF q2, c2
<1>8. q2 \in Bijection(1 .. m, D2)
  <2>1. \A i \in 1 .. m : q2[i] \in D2
    BY <1>2, <1>3, <1>4, <1>5, ZenonT(40)
  <2>2. ASSUME NEW i \in 1 .. m, NEW j \in 1 .. m, q2[i] = q2[j] PROVE i = j
    <3>1. CASE i = m /\ j = m
      BY <3>1, ZenonT(40)
    <3>2. CASE i = m /\ j \in 1 .. n
      BY <1>3, <1>4, <1>5, <2>2, <3>2, ZenonT(40)
    <3>3. CASE i \in 1 .. n /\ j = m
      BY <1>3, <1>4, <1>5, <2>2, <3>3, ZenonT(40)
    <3>4. CASE i \in 1 .. n /\ j \in 1 .. n
      BY <1>4, <1>5, <2>2, <3>4, ZenonT(40)
    <3> QED
      BY <1>2, <3>1, <3>2, <3>3, <3>4, ZenonT(40)
  <2>3. ASSUME NEW x \in D2 PROVE \E i \in 1 .. m : q2[i] = x
    <3>1. CASE x = f
      BY <1>1, <1>5, <3>1, ZenonT(40)
    <3>2. CASE x \in D
      <4>1. PICK i \in 1 .. n : q[i] = x
        BY <1>4, <3>2, Zenon
      <4> QED
        BY <1>2, <1>5, <4>1, ZenonT(40)
    <3> QED
      BY <1>3, <3>1, <3>2, ZenonT(40)
  <2>4. q2 \in [1 .. m -> D2]
    BY <1>7a, <2>1, ZenonT(40)
  <2> QED
    BY <2>2, <2>3, <2>4, ZenonT(40) DEF Bijection, Injection, Surjection, IsInjective
<1>9. Chain(d, m, q2, c2)
  <2>1. c2[0] = EmptyStore
    BY <1>0, <1>1, <1>6, ZenonT(40) DEF Chain
  <2>2. ASSUME NEW i \in 1 .. m PROVE c2[i] = Read(d[q2[i]], c2[i - 1])
    <3>1. CASE i = m
      <4>1. c2[m - 1] = c[n]
        BY <1>1, <1>6, ZenonT(40)
      <4> QED
        BY <1>5, <3>1, <4>1, ZenonT(40)
    <3>2. CASE i \in 1 .. n
      BY <1>0, <1>2, <1>5, <1>6, <3>2, ZenonT(40) DEF Chain
    <3> QED
      BY <1>2, <3>1, <3>2, ZenonT(40)
  <2> QED
    BY <2>1, <2>2, ZenonT(40) DEF Chain
<1> QED
  BY <1>0, <1>5, <1>8, <1>9, ZenonT(40) DEF m, D2, ReadOnce

(* What QuietInv says of a load depends on these only.                     *)
LEMMA QuietFrame ==
  ASSUME NEW l, QuietInv(l), pc'[l] = pc[l], held'[l] = held[l], entries'[l] = entries[l],
         store'[l] = store[l]
  PROVE  QuietInv(l)'
BY Zenon DEF QuietInv

(* Who edits the directory disturbs every load that reads.                 *)
LEMMA EditQuiet ==
  ASSUME LoaderInv, NEW l \in Loads, QuietInv(l),
         NEW f0 \in Files, NEW t0 \in Texts \cup {NoFile}, Edit(f0, t0)
  PROVE  QuietInv(l)'
<1>1. /\ dir' = [dir EXCEPT ![f0] = t0] /\ dir[f0] # t0 /\ dirState = "there"
      /\ pc' = pc /\ store' = store
      /\ held' = [k \in Loads |-> IF pc[k] = "reading" THEN held[k] \cup {dir'} ELSE held[k]]
  BY Zenon DEF Edit
<1>2. PICK late \in SUBSET {k \in Loads : pc[k] = "reading" /\ dir[f0] = NoFile} :
        entries' = [k \in Loads |-> IF k \in late THEN entries[k] \cup {f0} ELSE entries[k]]
  BY Zenon DEF Edit
<1>3. CASE pc[l] = "reading"
  <2>1. dir \in held[l]
    BY <1>1, <1>3, ZenonT(40) DEF LoaderInv, Visible
  <2>2. dir' # dir
    <3>1. dir'[f0] = t0
      BY <1>1, ZenonT(40) DEF LoaderInv, LoaderTypes, Contents
    <3> QED
      BY <1>1, <3>1, ZenonT(40)
  <2>3. held'[l] = held[l] \cup {dir'}
    BY <1>1, <1>3, ZenonT(40)
  <2>4. \A d : held'[l] # {d}
    <3>1. dir \in held'[l] /\ dir' \in held'[l]
      BY <2>1, <2>3, ZenonT(40)
    <3> QED
      BY ONLY <2>2, <3>1
  <2>5. pc'[l] = "reading"
    BY <1>1, <1>3, ZenonT(40)
  <2> QED
    BY <2>4, <2>5, ZenonT(40) DEF QuietInv
<1>4. CASE pc[l] # "reading"
  <2>1. held'[l] = held[l] /\ entries'[l] = entries[l]
    BY <1>1, <1>2, <1>4, ZenonT(40)
  <2> QED
    BY <1>1, <2>1, QuietFrame, Zenon
<1> QED
  BY <1>3, <1>4, Zenon

(* A directory that disappears or is locked is one more content.           *)
LEMMA MountQuiet ==
  ASSUME LoaderInv, NEW l \in Loads, QuietInv(l), NEW s, Mount(s)
  PROVE  QuietInv(l)'
<1>1. /\ dir' = dir /\ pc' = pc /\ store' = store /\ entries' = entries
      /\ held' = [k \in Loads |-> IF pc[k] = "reading" THEN held[k] \cup Visible(s, dir)
                                                      ELSE held[k]]
  BY Zenon DEF Mount
<1>2. CASE pc[l] = "reading"
  <2>1. PICK e : e \in held[l]
    BY <1>2, VisibleSome, ZenonT(40) DEF LoaderInv
  <2>2. held'[l] = held[l] \cup Visible(s, dir)
    BY <1>1, <1>2, ZenonT(40)
  <2>3. \A d : held'[l] = {d} => held[l] = {d}
    BY <2>1, <2>2
  <2> QED
    BY <1>1, <1>2, <2>3, ZenonT(40) DEF QuietInv
<1>3. CASE pc[l] # "reading"
  <2>1. held'[l] = held[l]
    BY <1>1, <1>3, ZenonT(40)
  <2> QED
    BY <1>1, <2>1, QuietFrame, ZenonT(40)
<1> QED
  BY <1>2, <1>3, Zenon

(* A load begins with all files before it,                                 *)
LEMMA BeginQuiet ==
  ASSUME LoaderInv, NEW l \in Loads, QuietInv(l), Begin(l)
  PROVE  QuietInv(l)'
<1>1. /\ pc[l] = "idle" /\ dirState # "unreadable" /\ store' = store
      /\ pc'[l] = IF dirState = "missing" THEN "returned" ELSE "reading"
      /\ entries'[l] = IF dirState = "missing" THEN {} ELSE Present(dir)
      /\ held'[l] = IF dirState = "missing" THEN {} ELSE Visible(dirState, dir)
  BY Zenon DEF Begin, LoaderInv, LoaderTypes
<1>2. store[l] = EmptyStore /\ pc'[l] # "idle" /\ (pc'[l] = "returned" => entries'[l] = {})
  BY <1>1, Zenon DEF QuietInv
<1>3. ASSUME NEW d, held'[l] = {d}
      PROVE  /\ entries'[l] \subseteq Present(d)
             /\ \E n \in Nat : ReadOnce(Present(d) \ entries'[l], d, n, store'[l])
  <2>1. d = dir /\ entries'[l] = Present(d)
    <3>1. dirState # "missing"
      BY <1>1, <1>3, ZenonT(40)
    <3>2. dir \in held'[l]
      BY <1>1, <3>1, VisibleSome, ZenonT(40)
    <3> QED
      BY <1>1, <1>3, <3>1, <3>2, ZenonT(40)
  <2> DEFINE q == [i \in {} |-> i]
             c == [i \in {0} |-> EmptyStore]
  <2>2. 1 .. 0 = {}
    OBVIOUS
  <2>3. q \in Bijection(1 .. 0, Present(d) \ entries'[l])
    BY <2>1, <2>2, Zenon DEF Bijection, Injection, Surjection, IsInjective
  <2>4. Chain(d, 0, q, c) /\ c[0] = EmptyStore
    BY <2>2, Zenon DEF Chain
  <2>5. ReadOnce(Present(d) \ entries'[l], d, 0, store'[l])
    <3> HIDE DEF q, c
    <3> QED
      BY <1>1, <1>2, <2>3, <2>4, ZenonT(40) DEF ReadOnce
  <2>6. 0 \in Nat
    OBVIOUS
  <2> QED
    BY <2>1, <2>5, <2>6, ZenonT(40)
<1> QED
  BY <1>2, <1>3, ZenonT(40) DEF QuietInv

(* and gets past them one by one.                                          *)
LEMMA ReadQuiet ==
  ASSUME LoaderInv, NEW l \in Loads, QuietInv(l), ReadFile(l)
  PROVE  QuietInv(l)'
<1>1. PICK f0 \in entries[l], d0 \in Visible(dirState, dir) :
        /\ entries' = [entries EXCEPT ![l] = @ \ {f0}]
        /\ store' = [store EXCEPT ![l] = Read(d0[f0], @)]
  BY Zenon DEF ReadFile
<1>2. /\ pc[l] = "reading" /\ pc' = pc /\ held' = held /\ d0 \in held[l]
      /\ entries'[l] = entries[l] \ {f0} /\ store'[l] = Read(d0[f0], store[l])
  BY <1>1, Zenon DEF ReadFile, LoaderInv, LoaderTypes
<1>3. ASSUME NEW d, held'[l] = {d}
      PROVE  /\ entries'[l] \subseteq Present(d)
             /\ \E n \in Nat : ReadOnce(Present(d) \ entries'[l], d, n, store'[l])
  <2>1. d0 = d /\ held[l] = {d}
    BY <1>2, <1>3, ZenonT(40)
  <2>2. entries[l] \subseteq Present(d)
    BY <1>2, <2>1, ZenonT(40) DEF QuietInv
  <2>3. PICK n \in Nat : ReadOnce(Present(d) \ entries[l], d, n, store[l])
    BY <1>2, <2>1, ZenonT(40) DEF QuietInv
  <2>4. ReadOnce(Present(d) \ (entries[l] \ {f0}), d, n + 1, Read(d[f0], store[l]))
    BY <2>2, <2>3, PastOneMore, ZenonT(40)
  <2>6. ReadOnce(Present(d) \ entries'[l], d, n + 1, store'[l])
    BY <1>2, <2>1, <2>4, ZenonT(40)
  <2>7. n + 1 \in Nat
    OBVIOUS
  <2> QED
    BY <1>2, <2>2, <2>6, <2>7, ZenonT(40)
<1>4. pc'[l] = "reading"
  BY <1>2, Zenon
<1> QED
  BY <1>3, <1>4, Zenon DEF QuietInv

(* Every step keeps QuietInv.                                              *)
LEMMA QuietNext ==
  ASSUME LoaderInv, NEW l \in Loads, QuietInv(l), [LoaderNext]_loaderVars
  PROVE  QuietInv(l)'
<1>1. ASSUME UNCHANGED loaderVars PROVE QuietInv(l)'
  BY <1>1, QuietFrame, Zenon DEF loaderVars
<1>2. ASSUME NEW k \in Loads, LoadStep(k) PROVE QuietInv(l)'
  <2>1. CASE k # l
    <3>1. pc'[l] = pc[l] /\ held'[l] = held[l] /\ entries'[l] = entries[l] /\ store'[l] = store[l]
      BY <1>2, <2>1, ZenonT(40) DEF LoadStep, Proceed, Begin, ReadFile, Return, Throw, LoaderInv, LoaderTypes
    <3> QED
      BY <3>1, QuietFrame, ZenonT(40)
  <2>2. CASE k = l /\ Throw(k)
    <3>1. pc'[l] = "threw"
      BY <2>2, Zenon DEF Throw, LoaderInv, LoaderTypes
    <3> QED
      BY <3>1, Zenon DEF QuietInv
  <2>3. CASE k = l /\ Return(k)
    <3>1. /\ pc[l] = "reading" /\ pc'[l] = "returned" /\ held' = held /\ entries' = entries
          /\ store' = store /\ entries[l] = {}
      BY <2>3, Zenon DEF Return, LoaderInv, LoaderTypes
    <3> QED
      BY <3>1, Zenon DEF QuietInv
  <2> QED
    BY <1>2, <2>1, <2>2, <2>3, BeginQuiet, ReadQuiet, ZenonT(40) DEF LoadStep, Proceed
<1>3. ASSUME NEW k \in Loads, NEW t \in Texts, ApplyJsonDocument(k, t) PROVE QuietInv(l)'
  <2>1. CASE k # l
    <3>1. pc'[l] = pc[l] /\ held'[l] = held[l] /\ entries'[l] = entries[l] /\ store'[l] = store[l]
      BY <1>3, <2>1, Zenon DEF ApplyJsonDocument, LoaderInv, LoaderTypes
    <3> QED
      BY <3>1, QuietFrame, Zenon
  <2>2. CASE k = l
    <3>1. pc'[l] = "patched"
      BY <1>3, <2>2, ZenonT(40) DEF ApplyJsonDocument, LoaderInv, LoaderTypes
    <3> QED
      BY <3>1, Zenon DEF QuietInv
  <2> QED
    BY <2>1, <2>2, ZenonT(40)
<1> QED
  BY <1>1, <1>2, <1>3, EditQuiet, MountQuiet, ZenonT(40) DEF LoaderNext

(* When nothing is left to read, that is the snapshot.                     *)
LEMMA QuietIsSnapshot ==
  ASSUME NEW d, NEW n \in Nat, NEW s, ReadOnce(Present(d), d, n, s)
  PROVE  Snapshot(d, s)
<1>1. PICK q, c : q \in Bijection(1 .. n, Present(d)) /\ Chain(d, n, q, c) /\ c[n] = s
  BY Zenon DEF ReadOnce
<1>2. Cardinality(Present(d)) = n
  <2>1. ExistsBijection(1 .. n, Present(d))
    BY <1>1, ZenonT(40) DEF ExistsBijection
  <2> QED
    BY <2>1, FS_CountingElements, Zenon
<1>3. s = Stages(d, n, q)[n]
  BY <1>1, ChainIsStages, ZenonT(40)
<1> QED
  BY <1>1, <1>2, <1>3, ZenonT(40) DEF Snapshot

(* loadFromDirectory, left alone, returns what the directory holds: every  *)
(* file once and in some order, none twice, nothing else.                  *)
THEOREM QuietLoadReturnsSnapshot == LoaderSpec => []QuietLoadIsSnapshot
<1> DEFINE AllQuiet == \A l \in Loads : QuietInv(l)
<1>1. LoaderInit => AllQuiet
  <2> SUFFICES ASSUME LoaderInit, NEW l \in Loads PROVE QuietInv(l)
    BY ZenonT(40)
  <2>1. pc[l] = "idle" /\ store[l] = EmptyStore
    BY Zenon DEF LoaderInit
  <2> QED
    BY <2>1, ZenonT(40) DEF QuietInv
<1>2. LoaderInv /\ AllQuiet /\ [LoaderNext]_loaderVars => AllQuiet'
  BY QuietNext, ZenonT(40)
<1>3. AllQuiet => QuietLoadIsSnapshot
  <2> SUFFICES ASSUME AllQuiet, NEW l \in Loads, pc[l] = "returned", NEW d, held[l] = {d}
               PROVE  Snapshot(d, store[l])
    BY ZenonT(40) DEF QuietLoadIsSnapshot
  <2>1. entries[l] = {} /\ \E n \in Nat : ReadOnce(Present(d) \ entries[l], d, n, store[l])
    BY Zenon DEF QuietInv
  <2>2. Present(d) \ entries[l] = Present(d)
    BY <2>1, ZenonT(40)
  <2> QED
    BY <2>1, <2>2, QuietIsSnapshot, ZenonT(40)
<1> QED
  BY <1>1, <1>2, <1>3, LoaderInvInit, LoaderInvNext, PTL DEF LoaderSpec

-----------------------------------------------------------------------------
(* Types                                                                   *)

(* A uint16_t is one, whatever number it was cast from.                    *)
LEMMA U16Range ==
  ASSUME NEW n \in Int
  PROVE  U16(n) \in Uint16
BY DEF U16, Uint16

(* So every port that is loaded is.                                        *)
LEMMA PortRange ==
  ASSUME NEW s \in Stores, NEW i \in DOMAIN s.listeners
  PROVE  s.listeners[i].port \in Uint16
<1> DEFINE L == {ListenerConfig(t) : t \in OfKind("Listener")}
<1>1. s.listeners \in Seq(L)
  BY DEF Stores
<1>2. s.listeners[i] \in L
  <2> HIDE DEF L
  <2> QED
    BY ONLY <1>1, i \in DOMAIN s.listeners
<1>3. PICK t \in OfKind("Listener") : s.listeners[i] = ListenerConfig(t)
  BY <1>2, ZenonT(40)
<1>4. Numeric(t.val["spec"])
  BY LoaderAssumption, ZenonT(40)
<1>5. \A n \in Int : GetInt(t.val["spec"], "port", n) \in Int
  BY <1>4, ZenonT(40) DEF Numeric, GetInt, Get, Has
<1>6. \A d : (\A n \in Int : GetInt(d.val["spec"], "port", n) \in Int)
            => ListenerConfig(d).port \in Uint16
  BY U16Range, SMTT(30) DEF ListenerConfig
<1> QED
  BY <1>3, <1>5, <1>6, ZenonT(40)

(* The directory and the bound on its edits.                               *)
DirTypes == dirState \in {"there", "missing", "unreadable"} /\ edits \in 0 .. MaxEdits

(* They keep their types.                                                  *)
LEMMA DirTypesNext == DirTypes /\ [LoaderNext]_loaderVars => DirTypes'
<1> SUFFICES ASSUME DirTypes, [LoaderNext]_loaderVars PROVE DirTypes'
  BY Zenon
<1>1. \A n \in 0 .. MaxEdits : n < MaxEdits => n + 1 \in 0 .. MaxEdits
  BY LoaderAssumption
<1>2. ASSUME NEW f \in Files, NEW t, Edit(f, t) PROVE DirTypes'
  BY <1>1, <1>2, ZenonT(40) DEF Edit, DirTypes
<1>3. ASSUME NEW s \in {"there", "missing", "unreadable"}, Mount(s) PROVE DirTypes'
  BY <1>1, <1>3, ZenonT(40) DEF Mount, DirTypes
<1>4. ASSUME dirState' = dirState, edits' = edits PROVE DirTypes'
  BY <1>4, Zenon DEF DirTypes
<1>5. ASSUME NEW l \in Loads, LoadStep(l) \/ \E t \in Texts : ApplyJsonDocument(l, t)
      PROVE  dirState' = dirState /\ edits' = edits
  BY <1>5, ZenonT(40) DEF LoadStep, Proceed, Begin, ReadFile, Return, Throw, ApplyJsonDocument
<1>6. UNCHANGED loaderVars => dirState' = dirState /\ edits' = edits
  BY Zenon DEF loaderVars
<1> QED
  BY <1>2, <1>3, <1>4, <1>5, <1>6, ZenonT(40) DEF LoaderNext

(* At first there were no edits.                                           *)
LEMMA DirTypesInit == LoaderInit => DirTypes
<1>1. 0 \in 0 .. MaxEdits
  BY LoaderAssumption
<1> QED
  BY <1>1, ZenonT(40) DEF LoaderInit, DirTypes

(* The invariant has the types in it.                                      *)
LEMMA LoaderTyped == LoaderInv /\ DirTypes => LoaderTypeOK
<1> SUFFICES ASSUME LoaderInv, DirTypes PROVE LoaderTypeOK
  BY Zenon
<1>1. \A l \in Loads : held[l] \subseteq Contents /\ store[l] \in Stores
  BY Zenon DEF LoaderInv, LoaderTypes
<1>2. \A l \in Loads : \A i \in DOMAIN store[l].listeners : store[l].listeners[i].port \in Uint16
  BY <1>1, PortRange, ZenonT(40)
<1>3. /\ dirState \in {"there", "missing", "unreadable"}
      /\ edits \in 0 .. MaxEdits
      /\ dir \in [Files -> Texts \cup {NoFile}]
      /\ pc \in [Loads -> {"idle", "reading", "returned", "threw", "patched"}]
      /\ entries \in [Loads -> SUBSET Files]
      /\ \A l \in Loads : held[l] \subseteq [Files -> Texts \cup {NoFile}]
  BY <1>1, Zenon DEF LoaderInv, LoaderTypes, DirTypes, Contents
<1> QED
  BY <1>2, <1>3, ZenonT(40) DEF LoaderTypeOK

(* The loader keeps its types; the port of a listener is a uint16_t        *)
(* whatever number its document gives.                                     *)
THEOREM LoaderTypeCorrect == LoaderSpec => []LoaderTypeOK
BY LoaderInvInit, LoaderInvNext, DirTypesInit, DirTypesNext, LoaderTyped, PTL DEF LoaderSpec

(* The reloads are different requests.                                     *)
Distinct == \A i, j \in 1 .. Len(began) : began[i] = began[j] => i = j

(* A handler is open once, and a reload begins when it is.                 *)
LEMMA DistinctNext == AdminInv /\ Distinct /\ [Next]_vars => Distinct'
<1> SUFFICES ASSUME AdminInv, Distinct, [Next]_vars PROVE Distinct'
  BY Zenon
<1>1. ASSUME NEW r \in Requests, ReloadBegins(r) PROVE Distinct'
  <2>1. began \in Seq(Requests) /\ began' = Append(began, r) /\ handler[r] = "open"
    BY <1>1, Zenon DEF ReloadBegins, AdminInv, Order
  <2>2. \A i \in 1 .. Len(began) : began[i] # r
    BY <2>1, ZenonT(40) DEF AdminInv, Order
  <2>3. /\ Len(began') = Len(began) + 1 /\ Len(began) \in Nat
        /\ began'[Len(began) + 1] = r
        /\ \A i \in 1 .. Len(began) : began'[i] = began[i]
    BY <2>1
  <2>4. \A i \in 1 .. Len(began') : i \in 1 .. Len(began) \/ i = Len(began) + 1
    BY <2>3
  <2> QED
    BY <2>2, <2>3, <2>4, ZenonT(40) DEF Distinct
<1>2. ASSUME began' = began PROVE Distinct'
  BY <1>2, ZenonT(40) DEF Distinct
<1>3. ASSUME NEW r \in Requests, OnRequest(r) \/ HandlerStep(r), ~ ReloadBegins(r)
      PROVE  began' = began
  BY <1>3, ZenonT(40) DEF OnRequest, HandlerStep, OnEOM, OnUpgrade, RequestComplete, OnError,
     ReloadReads, ReloadSwaps, ReloadFails, adminVars
<1>4. StartupLoad \/ Publish \/ Deployed \/ UNCHANGED vars => began' = began
  BY Zenon DEF StartupLoad, Publish, Deployed, vars, adminVars
<1> QED
  BY <1>1, <1>2, <1>3, <1>4, ZenonT(40) DEF Next

(* So there are no more of them than requests.                             *)
LEMMA ReloadsBounded ==
  ASSUME AdminInv, Distinct
  PROVE  Len(began) <= Cardinality(Requests)
<1>1. began \in Seq(Requests)
  BY Zenon DEF AdminInv, Order
<1>2. Len(began) \in Nat /\ began \in [1 .. Len(began) -> Requests]
  BY <1>1
<1>3. began \in Injection(1 .. Len(began), Requests)
  BY <1>2, ZenonT(40) DEF Distinct, Injection, IsInjective
<1>4. IsFiniteSet(Requests)
  BY StartupAssumption, FS_Subset, ZenonT(40) DEF Requests
<1>5. IsFiniteSet(1 .. Len(began)) /\ Cardinality(1 .. Len(began)) = Len(began)
  <2>1. 1 \in Int /\ Len(began) \in Int
    BY <1>2
  <2>2. IsFiniteSet(1 .. Len(began))
        /\ Cardinality(1 .. Len(began)) = IF 1 > Len(began) THEN 0 ELSE Len(began) - 1 + 1
    BY <2>1, FS_Interval, ZenonT(40)
  <2>3. \A n \in Nat : n = IF 1 > n THEN 0 ELSE n - 1 + 1
    OBVIOUS
  <2> QED
    BY <1>2, <2>2, <2>3, ZenonT(40)
<1>6. Cardinality(1 .. Len(began)) <= Cardinality(Requests)
  BY <1>3, <1>4, FS_Injection, ZenonT(40)
<1> QED
  BY <1>5, <1>6, ZenonT(40)

(* The steps of the admin server are steps of the loader.                  *)
LEMMA StepsLoad == [Next]_vars => [LoaderNext]_loaderVars
<1>1. UNCHANGED vars => UNCHANGED loaderVars
  BY Zenon DEF vars
<1>2. StartupLoad => LoaderNext
  BY StartupAssumption, Zenon DEF StartupLoad, LoaderNext
<1>3. Publish => UNCHANGED loaderVars
  BY Zenon DEF Publish, loaderVars
<1>4. Deployed => LoaderNext
  BY Zenon DEF Deployed, LoaderNext
<1>5. ASSUME NEW r \in Requests, OnRequest(r) \/ HandlerStep(r)
      PROVE  LoaderNext \/ UNCHANGED loaderVars
  <2>1. ReloadReads(r) => LoaderNext
    BY Zenon DEF ReloadReads, LoaderNext, Requests
  <2> QED
    BY <1>5, <2>1, ZenonT(40) DEF OnRequest, HandlerStep, OnEOM, OnUpgrade, RequestComplete, OnError,
       ReloadBegins, ReloadSwaps, ReloadFails, loaderVars
<1> QED
  BY <1>1, <1>2, <1>3, <1>4, <1>5, ZenonT(40) DEF Next

(* The admin server keeps its types, the loader's included, and no request *)
(* reloads twice.                                                          *)
THEOREM AdminTypeCorrect == Spec => []TypeOK
<1>1. Init => LoaderInit /\ Distinct
  <2>1. \A i \in 1 .. Len(<< >>) : FALSE
    OBVIOUS
  <2> QED
    BY <2>1, ZenonT(40) DEF Init, Distinct
<1>2. AdminInv /\ Distinct /\ DirTypes => TypeOK
  BY LoaderTyped, ReloadsBounded, ZenonT(40) DEF AdminInv, Replies, TypeOK
<1> QED
  BY <1>1, <1>2, AdminInvInit, AdminInvNext, DistinctNext, DirTypesInit, DirTypesNext, StepsLoad,
     PTL DEF Spec

-----------------------------------------------------------------------------
(* What the data plane is started with                                     *)

(* An int32_t is one, whatever number it was cast from.                    *)
LEMMA I32Range ==
  ASSUME NEW n \in Int
  PROVE  I32(n) \in Int /\ I32(n) < IntRange \div 2
<1>1. \A a, b \in Int : b > 0 => a % b \in 0 .. (b - 1)
  OBVIOUS
<1>2. \A b \in Nat : b % 2 = 0 => b \div 2 \in Nat /\ b = 2 * (b \div 2)
  OBVIOUS
<1>3. \A k \in Int : \A x \in 0 .. (2 * k - 1) : x - k \in Int /\ x - k < k
  OBVIOUS
<1>4. IntRange \in Nat /\ IntRange \in Int /\ IntRange > 0 /\ IntRange % 2 = 0
  BY ONLY IntRangeAssumption
<1> DEFINE h == IntRange \div 2
<1>5. h \in Nat /\ IntRange = 2 * h
  BY <1>2, <1>4, ZenonT(40)
<1>6. h \in Int /\ n + h \in Int
  BY <1>5
<1>7. (n + h) % IntRange \in 0 .. (2 * h - 1)
  <2>1. (n + h) % IntRange \in 0 .. (IntRange - 1)
    BY <1>1, <1>4, <1>6, ZenonT(40)
  <2> QED
    BY <1>5, <2>1, ZenonT(40)
<1> HIDE DEF h
<1>8. ((n + h) % IntRange) - h \in Int /\ ((n + h) % IntRange) - h < h
  BY <1>3, <1>6, <1>7, ZenonT(40)
<1> QED
  BY <1>8, ZenonT(40) DEF I32, h

(* So is the number of threads a Gateway asks for.                         *)
LEMMA ThreadsAsked ==
  ASSUME NEW s \in Stores
  PROVE  Tuning(s).workerThreads \in Int /\ Tuning(s).workerThreads < IntRange \div 2
<1>1. ServerTuningDefault.workerThreads = 0 /\ 0 < IntRange \div 2 /\ 0 \in Int
  BY IntRangeAssumption DEF ServerTuningDefault
<1>2. CASE s.gateway = Absent
  BY <1>1, <1>2, ZenonT(40) DEF Tuning
<1>3. CASE s.gateway # Absent
  <2>1. PICK t \in OfKind("Gateway") : s.gateway = GatewayConfig(t)
    BY <1>3, ZenonT(40) DEF Stores
  <2> DEFINE spec == t.val["spec"]
             srv  == spec.val["server"]
  <2>2. GatewayConfig(t).server = IF Has(spec, "server") THEN ServerTuningConfig(srv)
                                  ELSE ServerTuningDefault
    BY DEF GatewayConfig
  <2>3. CASE Has(spec, "server")
    <3>1. Numeric(srv)
      BY <2>3, LoaderAssumption, ZenonT(40)
    <3>2. GetInt(srv, "workerThreads", 0) \in Int
      BY <1>1, <3>1, ZenonT(40) DEF Numeric, GetInt, Get, Has
    <3>3. \A x : ServerTuningConfig(x).workerThreads = I32(GetInt(x, "workerThreads", 0))
      BY DEF ServerTuningConfig
    <3>4. Tuning(s).workerThreads = I32(GetInt(srv, "workerThreads", 0))
      BY <1>3, <2>1, <2>2, <2>3, <3>3, ZenonT(40) DEF Tuning
    <3> QED
      BY <3>2, <3>4, I32Range, ZenonT(40)
  <2>4. CASE ~ Has(spec, "server")
    BY <1>1, <1>3, <2>1, <2>2, <2>4, ZenonT(40) DEF Tuning
  <2> QED
    BY <2>3, <2>4, ZenonT(40)
<1> QED
  BY <1>2, <1>3, ZenonT(40)

(* And with it the number of threads the server is started with.           *)
LEMMA ThreadsStarted ==
  ASSUME NEW s \in Stores, NEW cores \in 1 .. 2
  PROVE  ServerOptions(s, cores).threads \in 1 .. (IntRange \div 2 - 1)
<1> DEFINE w == Tuning(s).workerThreads
<1>1. w \in Int /\ w < IntRange \div 2
  BY ThreadsAsked, ZenonT(40)
<1>2. \A x, y : Options(x, y).threads = x
  BY DEF Options
<1>3. ServerOptions(s, cores).threads = IF w > 0 THEN SizeT(w) ELSE cores
  BY <1>2, ZenonT(40) DEF ServerOptions
<1> HIDE DEF w
<1>4. CASE w > 0
  <2>1. \A x, k \in Nat : x < k => x % k = x
    OBVIOUS
  <2>2. w \in Nat /\ 2 * IntRange \in Nat /\ w < 2 * IntRange
    BY ONLY <1>1, <1>4, IntRangeAssumption
  <2>3. SizeT(w) = w
    BY <2>1, <2>2, ZenonT(40) DEF SizeT
  <2>4. w \in 1 .. (IntRange \div 2 - 1)
    BY ONLY <1>1, <1>4, IntRangeAssumption
  <2> QED
    BY <1>3, <1>4, <2>3, <2>4, ZenonT(40)
<1>5. CASE ~ (w > 0)
  <2>1. IntRange \div 2 \in Nat /\ IntRange \div 2 > 2
    BY ONLY IntRangeAssumption
  <2>2. cores \in 1 .. (IntRange \div 2 - 1)
    BY ONLY <2>1, cores \in 1 .. 2
  <2> QED
    BY <1>3, <1>5, <2>2, ZenonT(40)
<1> QED
  BY <1>4, <1>5, ZenonT(40)

(* Whatever the directory held, negative numbers and values of the wrong   *)
(* type included, main() has a listener to bind and starts a positive      *)
(* number of worker threads that an int32_t can hold.                      *)
THEOREM DataPlaneAlwaysRuns == LoaderSpec => []DataPlaneCanRun
<1>1. LoaderInv => DataPlaneCanRun
  <2> SUFFICES ASSUME LoaderInv, NEW l \in Loads
               PROVE  /\ DataListeners(store[l], 18000) # << >>
                      /\ \A cores \in 1 .. 2 : ServerOptions(store[l], cores).threads
                                                  \in 1 .. (IntRange \div 2 - 1)
    BY DEF DataPlaneCanRun
  <2>1. store[l] \in Stores
    BY DEF LoaderInv, LoaderTypes
  <2>2. \A n : DataListeners(store[l], n) # << >>
    BY DEF DataListeners
  <2>3. \A cores \in 1 .. 2 : ServerOptions(store[l], cores).threads \in 1 .. (IntRange \div 2 - 1)
    BY ONLY <2>1, ThreadsStarted, ZenonT(40)
  <2> QED
    BY ONLY <2>2, <2>3, SMTT(30)
<1> QED
  BY <1>1, LoaderInvInit, LoaderInvNext, PTL DEF LoaderSpec

-----------------------------------------------------------------------------
(* The defaults                                                            *)

(* A number that an int32_t holds is not changed by the cast.              *)
LEMMA I32Small ==
  ASSUME NEW n \in Nat, n < IntRange \div 2
  PROVE  I32(n) = n
<1> DEFINE h == IntRange \div 2
<1>1. h \in Nat /\ n + h \in Nat /\ n + h < IntRange /\ IntRange \in Nat
  BY IntRangeAssumption
<1> HIDE DEF h
<1>2. \A x, k \in Nat : x < k => x % k = x
  OBVIOUS
<1>3. (n + h) % IntRange = n + h
  BY <1>1, <1>2, ZenonT(40)
<1>4. (n + h) - h = n
  BY <1>1
<1> QED
  BY <1>3, <1>4 DEF I32, h

(* Objects d and e have the same under key k.                              *)
SameAt(d, e, k) == (Has(e, k) <=> Has(d, k)) /\ (Has(d, k) => e.val[k] = d.val[k])

Under(d, k, v) == Has(d, k) /\ d.val[k] = v

(* What an object is given under one key does not change what it has under *)
(* another.                                                                *)
LEMMA WithKeeps ==
  ASSUME NEW d, NEW key, NEW v
  PROVE  /\ Under(With(d, key, v), key, v)
         /\ \A k : k # key => SameAt(d, With(d, key, v), k)
<1>1. With(d, key, v).val = [k \in DOMAIN d.val \cup {key} |-> IF k = key THEN v ELSE d.val[k]]
  BY DEF With
<1> QED
  BY <1>1, ZenonT(40) DEF Has, Under, SameAt

(* Nor what is read from it there: a value                                 *)
LEMMA SameGets ==
  ASSUME NEW d, NEW e, NEW k, NEW type, NEW default, SameAt(d, e, k)
  PROVE  Get(e, k, type, default) = Get(d, k, type, default)
<1>1. CASE Has(d, k)
  BY <1>1, Zenon DEF Get, SameAt
<1>2. CASE ~ Has(d, k)
  BY <1>2, ZenonT(40) DEF Get, SameAt
<1> QED
  BY <1>1, <1>2, ZenonT(40)

(* or a list.                                                              *)
LEMMA SameItems ==
  ASSUME NEW d, NEW e, NEW k, SameAt(d, e, k)
  PROVE  Items(e, k) = Items(d, k) /\ Strings(e, k) = Strings(d, k)
<1>1. Items(e, k) = Items(d, k)
  BY Zenon DEF Items, SameAt
<1> QED
  BY <1>1, SMTT(30) DEF Strings

(* From an empty object, the defaults are read.                            *)
LEMMA EmptyReads ==
  ASSUME NEW key
  PROVE  /\ ~ Has(EmptyObject, key)
         /\ \A type, default : Get(EmptyObject, key, type, default) = default
         /\ Items(EmptyObject, key) = << >>
<1>1. DOMAIN EmptyObject.val = {}
  BY DEF EmptyObject
<1> QED
  BY <1>1, ZenonT(40) DEF Get, Items, Has

(* A document given an empty section keeps its name, and its spec has the  *)
(* section and is otherwise as it was.                                     *)
LEMMA SectionAdded ==
  ASSUME NEW d, NEW key
  PROVE  /\ Name(WithSection(d, key)) = Name(d)
         /\ Under(WithSection(d, key).val["spec"], key, EmptyObject)
         /\ \A k : k # key => SameAt(d.val["spec"], WithSection(d, key).val["spec"], k)
<1> DEFINE spec2 == With(d.val["spec"], key, EmptyObject)
<1>1. "metadata" # "spec"
  OBVIOUS
<1>2. WithSection(d, key) = With(d, "spec", spec2)
  BY Zenon DEF WithSection
<1>3. Under(spec2, key, EmptyObject) /\ \A k : k # key => SameAt(d.val["spec"], spec2, k)
  BY WithKeeps, ZenonT(40)
<1> HIDE DEF spec2
<1>4. Under(WithSection(d, key), "spec", spec2)
  BY <1>2, WithKeeps, ZenonT(40)
<1>5. SameAt(d, WithSection(d, key), "metadata")
  BY <1>1, <1>2, WithKeeps, ZenonT(40)
<1>6. Name(WithSection(d, key)) = Name(d)
  BY <1>5, ZenonT(40) DEF SameAt, Name
<1>7. WithSection(d, key).val["spec"] = spec2
  BY <1>4, ZenonT(40) DEF Under
<1> QED
  BY <1>3, <1>6, <1>7, ZenonT(40)

(* An empty server section is none.                                        *)
LEMMA ServerDefault == ServerTuningConfig(EmptyObject) = ServerTuningDefault
<1> DEFINE Int32(key, n) == I32(GetInt(EmptyObject, key, n))
           zeroCopy == GetBool(EmptyObject, "useZeroCopy", FALSE)
           off == FALSE
           idle == 60000
           backlog == 1024
           streams == 100
           window == 65536
           Tuned(a, b, c, e, f, g) ==
             [workerThreads |-> a, idleTimeoutMs |-> b, listenBacklog |-> c,
              maxConcurrentStreams |-> e, initialReceiveWindowBytes |-> f, useZeroCopy |-> g]
<1>1. \A key : \A n \in Nat : n < IntRange \div 2 => Int32(key, n) = n
  BY EmptyReads, I32Small, ZenonT(40) DEF GetInt
<1>2. zeroCopy = off
  BY EmptyReads, ZenonT(40) DEF GetBool
<1>3. ServerTuningConfig(EmptyObject) =
        Tuned(Int32("workerThreads", 0), Int32("idleTimeoutMs", idle),
              Int32("listenBacklog", backlog), Int32("maxConcurrentStreams", streams),
              Int32("initialReceiveWindowBytes", window), zeroCopy)
  BY DEF ServerTuningConfig
<1>4. ServerTuningDefault = Tuned(0, idle, backlog, streams, window, off)
  BY DEF ServerTuningDefault
<1> HIDE DEF Int32, Tuned, zeroCopy, off, idle, backlog, streams, window
<1>5. /\ Int32("workerThreads", 0) = 0 /\ Int32("idleTimeoutMs", idle) = idle
      /\ Int32("listenBacklog", backlog) = backlog /\ Int32("maxConcurrentStreams", streams) = streams
      /\ Int32("initialReceiveWindowBytes", window) = window
  BY ONLY <1>1, IntRangeAssumption, SMTT(30) DEF idle, backlog, streams, window
<1> QED
  BY ONLY <1>2, <1>3, <1>4, <1>5, ZenonT(40)

(* The Gateway resource,                                                   *)
LEMMA EmptyServer ==
  ASSUME NEW d, LeftOut(d, "server")
  PROVE  GatewayConfig(WithSection(d, "server")) = GatewayConfig(d)
<1> DEFINE spec == d.val["spec"]
           spec2 == WithSection(d, "server").val["spec"]
<1>1. "observability" # "server"
  OBVIOUS
<1>2. Has(spec2, "server") /\ spec2.val["server"] = EmptyObject /\ ~ Has(spec, "server")
  BY SectionAdded, ZenonT(40) DEF LeftOut, Under
<1>3. SameAt(spec, spec2, "observability")
  BY <1>1, SectionAdded, ZenonT(40)
<1>4. Name(WithSection(d, "server")) = Name(d)
  BY SectionAdded, ZenonT(40)
<1> QED
  BY <1>2, <1>3, <1>4, ServerDefault, ZenonT(40) DEF GatewayConfig, SameAt

(* both of its sections;                                                   *)
LEMMA EmptyObservability ==
  ASSUME NEW d, LeftOut(d, "observability")
  PROVE  GatewayConfig(WithSection(d, "observability")) = GatewayConfig(d)
<1> DEFINE spec == d.val["spec"]
           spec2 == WithSection(d, "observability").val["spec"]
<1>1. "observability" # "server"
  OBVIOUS
<1>2. /\ spec2.val["observability"] = EmptyObject /\ ~ Has(spec, "observability")
      /\ ~ Has(EmptyObject, "accessLog")
  BY SectionAdded, EmptyReads, ZenonT(40) DEF LeftOut, Under
<1>3. SameAt(spec, spec2, "server")
  BY <1>1, SectionAdded, ZenonT(40)
<1>4. Name(WithSection(d, "observability")) = Name(d)
  BY SectionAdded, ZenonT(40)
<1> QED
  BY <1>2, <1>3, <1>4, ZenonT(40) DEF GatewayConfig, SameAt

(* the Service,                                                            *)
LEMMA EmptyLoadBalancing ==
  ASSUME NEW d, LeftOut(d, "loadBalancing")
  PROVE  ServiceConfig(WithSection(d, "loadBalancing")) = ServiceConfig(d)
<1> DEFINE spec == d.val["spec"]
           spec2 == WithSection(d, "loadBalancing").val["spec"]
<1>1. "protocol" # "loadBalancing"
  OBVIOUS
<1>2. Under(spec2, "loadBalancing", EmptyObject) /\ ~ Has(spec, "loadBalancing")
  BY SectionAdded, ZenonT(40) DEF LeftOut
<1>3. SameAt(spec, spec2, "protocol")
  BY <1>1, SectionAdded, ZenonT(40)
<1>4. GetStr(spec2, "protocol", "HTTP") = GetStr(spec, "protocol", "HTTP")
  <2>1. Get(spec2, "protocol", "string", "HTTP") = Get(spec, "protocol", "string", "HTTP")
    BY ONLY <1>3, SameGets, SMTT(30)
  <2> QED
    BY <2>1, ZenonT(40) DEF GetStr
<1>5. Name(WithSection(d, "loadBalancing")) = Name(d)
  BY SectionAdded, ZenonT(40)
<1>6. LoadBalancingConfig(EmptyObject) = LoadBalancingDefault
  <2>1. GetStr(EmptyObject, "algorithm", "ROUND_ROBIN") = "ROUND_ROBIN"
    BY EmptyReads, ZenonT(40) DEF GetStr
  <2>2. Items(EmptyObject, "targets") = << >>
    BY EmptyReads, ZenonT(40)
  <2>3. \A q : q = << >> => [i \in DOMAIN q |-> LoadBalancingTarget(q[i])] = << >>
    BY ONLY TRUE
  <2> QED
    BY <2>1, <2>2, <2>3, ZenonT(40) DEF LoadBalancingConfig, LoadBalancingDefault
<1> QED
  BY <1>2, <1>4, <1>5, <1>6, ZenonT(40) DEF ServiceConfig, Under

(* and the Router.                                                         *)
LEMMA EmptyTargetRef ==
  ASSUME NEW d, LeftOut(d, "targetRef")
  PROVE  RouterConfig(WithSection(d, "targetRef")) = RouterConfig(d)
<1> DEFINE spec == d.val["spec"]
           spec2 == WithSection(d, "targetRef").val["spec"]
           Dests(x) == IF Has(x, "config") THEN Items(x.val["config"], "destinations") ELSE << >>
<1>1. "rules" # "targetRef" /\ "config" # "targetRef" /\ "policies" # "targetRef"
  OBVIOUS
<1>2. Under(spec2, "targetRef", EmptyObject) /\ ~ Has(spec, "targetRef")
  BY SectionAdded, ZenonT(40) DEF LeftOut
<1>3. GetStr(EmptyObject, "name", "") = ""
  BY EmptyReads, ZenonT(40) DEF GetStr
<1>4. /\ SameAt(spec, spec2, "rules") /\ SameAt(spec, spec2, "config")
      /\ SameAt(spec, spec2, "policies")
  BY <1>1, SectionAdded, ZenonT(40)
<1>5. Items(spec2, "rules") = Items(spec, "rules") /\ Strings(spec2, "policies") = Strings(spec, "policies")
  BY <1>4, SameItems, ZenonT(40)
<1>6. Dests(spec2) = Dests(spec)
  BY <1>4, Zenon DEF SameAt
<1>7. Name(WithSection(d, "targetRef")) = Name(d)
  BY SectionAdded, ZenonT(40)
<1> QED
  BY <1>2, <1>3, <1>5, <1>6, <1>7, ZenonT(40) DEF RouterConfig, Under

(* For every document, not only those in the directory, the defaults of    *)
(* models.h and those of the fromJson functions agree: leaving a section   *)
(* out configures what an empty one does.                                  *)
THEOREM DefaultsAgree == LoaderSpec => []EmptySectionIsDefault
<1>1. EmptySectionIsDefault
  BY EmptyServer, EmptyObservability, EmptyLoadBalancing, EmptyTargetRef, ZenonT(40)
     DEF EmptySectionIsDefault
<1> QED
  BY <1>1, PTL
=============================================================================
