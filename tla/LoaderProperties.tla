-------------------------- MODULE LoaderProperties --------------------------
(***************************************************************************)
(* What ConfigLoader and ConfigModels should satisfy, besides what         *)
(* ConfigLoader states itself.                                             *)
(***************************************************************************)
EXTENDS ConfigLoader, FiniteSets, Functions

(* The store after each of the first n files of order, for every n.        *)
Stages(d, n, order) ==
  LET stage[i \in 0 .. n] == IF i = 0 THEN EmptyStore ELSE Read(d[order[i]], stage[i - 1])
  IN  stage

(* s is what the directory content d amounts to: every file of it read     *)
(* once, in some order.                                                    *)
Snapshot(d, s) ==
  LET n == Cardinality(Present(d))
  IN  \E order \in Bijection(1 .. n, Present(d)) : s = Stages(d, n, order)[n]

(* A load that nobody disturbs returns what the directory holds: each file *)
(* once, none twice, nothing else.                                         *)
QuietLoadIsSnapshot ==
  \A l \in Loads : pc[l] = "returned" =>
    \A d \in held[l] : held[l] = {d} => Snapshot(d, store[l])

(* Whatever the directory held, wrong types and negative numbers included, *)
(* the data plane gets a listener and a number of threads that a machine   *)
(* with one core or more can run.                                          *)
DataPlaneCanRun ==
  \A l \in Loads : pc[l] = "returned" =>
    /\ DataListeners(store[l], 18000) # << >>
    /\ \A cores \in 1 .. 2 :
         ServerOptions(store[l], cores).threads \in 1 .. (IntRange \div 2 - 1)

(* Document d with v under key.                                            *)
With(d, key, v) == [type |-> "object",
                    val |-> [k \in DOMAIN d.val \cup {key} |-> IF k = key THEN v ELSE d.val[k]]]

EmptyObject == [type |-> "object", val |-> [k \in {} |-> Absent]]

WithSection(d, key) == With(d, "spec", With(d.val["spec"], key, EmptyObject))

LeftOut(d, key) == ~ Has(d.val["spec"], key)

(* models.h and loader.cpp each state defaults.  They agree for the        *)
(* optional sections server and observability of a Gateway, loadBalancing  *)
(* of a Service and targetRef of a Router: one that is left out configures *)
(* what an empty one does.                                                 *)
EmptySectionIsDefault ==
  \A f \in Files : (dir[f] # NoFile /\ ~ Throws(dir[f])) =>
    LET d == dir[f]
    IN  /\ (Kind(d) = "Gateway" /\ LeftOut(d, "server"))
             => GatewayConfig(WithSection(d, "server")) = GatewayConfig(d)
        /\ (Kind(d) = "Gateway" /\ LeftOut(d, "observability"))
             => GatewayConfig(WithSection(d, "observability")) = GatewayConfig(d)
        /\ (Kind(d) = "Service" /\ LeftOut(d, "loadBalancing"))
             => ServiceConfig(WithSection(d, "loadBalancing")) = ServiceConfig(d)
        /\ (Kind(d) = "Router" /\ LeftOut(d, "targetRef"))
             => RouterConfig(WithSection(d, "targetRef")) = RouterConfig(d)
=============================================================================
