--------------------------- MODULE MCConfigLoader ---------------------------
(***************************************************************************)
(* Small directories for ConfigLoader.                                     *)
(***************************************************************************)
EXTENDS LoaderProperties

Str(x) == [type |-> "string", val |-> x]
Num(n) == [type |-> "int", val |-> n]
Bool(b) == [type |-> "bool", val |-> b]
Arr(x) == [type |-> "array", val |-> x]
Obj(x) == [type |-> "object", val |-> x]
Doc(kind, name, spec) ==
  Obj([kind |-> Str(kind), metadata |-> Obj([name |-> Str(name)]), spec |-> Obj(spec)])

Policy == Doc("Policy", "a",
  [order |-> Num(5), security |-> Obj([jwt |-> Obj([jwksUri |-> Str("u")])])])
Router == Doc("Router", "r",
  [policies |-> Arr(<<Str("a")>>),
   rules    |-> Arr(<<Obj([path |-> Str("/"), pathType |-> Str("Glob"),
                          methods |-> Arr(<<Str("GET")>>)])>>),
   config   |-> Obj([destinations |-> Arr(<<Obj([rewrite |-> Obj([path |-> Str("/x")])])>>)])])
Service == Doc("Service", "s",
  [loadBalancing |-> Obj([targets |-> Arr(<<Obj([host |-> Str("h"), port |-> Num(8080)])>>)])])
BareService == Doc("Service", "t", [k \in {} |-> Absent])
Gateway == Doc("Gateway", "g",
  [observability |-> Obj([accessLog |-> Obj([enabled |-> Bool(FALSE)])])])
TunedGateway == Doc("Gateway", "g", [server |-> Obj([workerThreads |-> Num(-1)])])
Listener == Doc("Listener", "l",
  [port |-> Num(18080), allowedHostnames |-> Arr(<<Str("h")>>),
   tls |-> Obj([certificates |-> Arr(<<Obj([certRef |-> Str("c")])>>)])])
WideListener == Doc("Listener", "w", [port |-> Num(65536 + 80)])

(* What fromJson rejects, what dispatchDocument skips.                     *)
NumericPolicy == Doc("Policy", "n", [security |-> Num(1)])
NoSpec == Obj([kind |-> Str("Router")])
Mocking == Obj([kind |-> Str("MockingService")])
NoKind == Obj([kind |-> Num(1)])

AllTexts == {Policy, Router, Service, BareService, Gateway, TunedGateway, Listener,
             WideListener,
             NumericPolicy, NoSpec, Mocking, NoKind, Arr(<<>>), Unparsable}
=============================================================================
