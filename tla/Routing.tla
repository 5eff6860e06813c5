------------------------------ MODULE Routing ------------------------------
(***************************************************************************)
(* GatewayHandlerFactory: the routing tables and the service cache that    *)
(* its constructor builds from the configuration, and the handler it       *)
(* creates for a request.                                                  *)
(*                                                                         *)
(* A configuration is [routers, services], both in the order the files     *)
(* were loaded.  A router is [rules, destination, rewriteHost]:            *)
(* destination is the service of its first destination, or Absent when it  *)
(* has none, and rewriteHost what that one's rewrite puts into the Host    *)
(* header, or Absent.  A rule is [path, pathType, methods] as its JSON     *)
(* gives them.  A service is [name, protocol, targets], a target           *)
(* [host, port], which also stands for its address.                        *)
(*                                                                         *)
(* A path is a sequence of characters.  As a regular expression it stands  *)
(* for the set of paths that match it, Language[path], or does not compile.*)
(***************************************************************************)
EXTENDS Subsequences, Functions

CONSTANTS
  Configs,    \* the configurations the gateway may be started with
  Hosts,      \* the hosts of their targets
  Paths,      \* paths of requests
  Methods,    \* methods of requests
  Language,   \* what a rule's path means as a regular expression
  Invalid,    \* a regular expression that does not compile
  Absent      \* a part of the configuration, or an object, that is not there

VARIABLES
  config,        \* GatewayHandlerFactory::store_
  exactRoutes,   \* the members of the same names
  prefixRoutes,
  regexRoutes,
  serviceCache,
  last           \* the last request and what was created for it

(* Routers, their rules, the services and their targets are vectors, and a *)
(* target has its host and its port.                                       *)
IsVector(v) == Len(v) \in Nat /\ DOMAIN v = 1 .. Len(v)

ASSUME ConfigsAssumption ==
  \A c \in Configs :
    /\ IsVector(c.routers)
    /\ IsVector(c.services)
    /\ \A i \in DOMAIN c.routers :
         /\ i # Absent
         /\ IsVector(c.routers[i].rules)
         /\ \A k \in DOMAIN c.routers[i].rules : IsVector(c.routers[i].rules[k].path)
    /\ \A n \in DOMAIN c.services :
         /\ IsVector(c.services[n].targets)
         /\ \A k \in DOMAIN c.services[n].targets :
              LET target == c.services[n].targets[k]
              IN  target = [host |-> target.host, port |-> target.port] /\ target.port # Absent

tables == <<exactRoutes, prefixRoutes, regexRoutes, serviceCache>>
vars == <<config, tables, last>>

-----------------------------------------------------------------------------
(* The constructor                                                         *)

(* RouterConfig::fromJson: what is neither "Exact" nor "Regex" is a        *)
(* prefix, and so is a rule that does not say.                             *)
PathType(rule) ==
  IF rule.pathType \in {"Exact", "Regex"} THEN rule.pathType ELSE "Prefix"

(* Rule k of router i is <<i, k>>; the two nested loops come to the rules  *)
(* router by router.                                                       *)
Rules(routers) == UNION { {i} \X DOMAIN routers[i].rules : i \in DOMAIN routers }

RuleAt(routers, h) == routers[h[1]].rules[h[2]]

Precedes(g, h) == g[1] < h[1] \/ (g[1] = h[1] /\ g[2] <= h[2])

LoopOrder(hs) == {p \in hs \X hs : Precedes(p[1], p[2])}

OfType(routers, type) == {h \in Rules(routers) : PathType(RuleAt(routers, h)) = type}

Route(routers, h) ==
  [path        |-> RuleAt(routers, h).path,
   methods     |-> RuleAt(routers, h).methods,
   routerIndex |-> h[1]]

(* What the loops have pushed for the rules hs.                            *)
Pushed(routers, hs) ==
  [n \in 1 .. Cardinality(hs) |-> Route(routers, Ranked(hs, LoopOrder(hs), n))]

ExactRoutes(routers) ==
  LET exact == OfType(routers, "Exact")
  IN  [p \in { RuleAt(routers, h).path : h \in exact } |->
         Pushed(routers, {h \in exact : RuleAt(routers, h).path = p})]

(* std::sort, longest prefix first; rules of equal length may end up       *)
(* either way round.                                                       *)
Sortings(routes) ==
  { [n \in DOMAIN routes |-> routes[f[n]]] :
      f \in { g \in Bijection(DOMAIN routes, DOMAIN routes) :
                \A m, n \in DOMAIN routes :
                  m < n => Len(routes[g[m]].path) >= Len(routes[g[n]].path) } }

(* A pattern that does not compile is logged and left out.                 *)
RegexRoutes(routers) ==
  Pushed(routers, {h \in OfType(routers, "Regex") : Language[RuleAt(routers, h).path] # Invalid})

Addrs_Prepends(targets, resolving) ==
  LET known == Pick(targets, {k \in DOMAIN targets : targets[k].host \in resolving})
  IN  [i \in DOMAIN known |-> known[Len(known) + 1 - i]]

Addrs(targets, resolving) == Pick(targets, {k \in DOMAIN targets : targets[k].host \in resolving})

(* One entry for each service name, the first service of that name, with   *)
(* the addresses of those of its targets that resolve.                     *)
ServiceCache_KeepsLast(services, resolving) ==
  [name \in { services[n].name : n \in DOMAIN services } |->
     LET n == CHOOSE n \in DOMAIN services :
                /\ services[n].name = name
                /\ \A m \in DOMAIN services : m > n => services[m].name # name
     IN  [config |-> services[n],
          addrs  |-> Addrs(services[n].targets, resolving)]]

ServiceCache(services, resolving) ==
  [name \in { services[n].name : n \in DOMAIN services } |->
     LET n == CHOOSE n \in DOMAIN services :
                /\ services[n].name = name
                /\ \A m \in DOMAIN services : m < n => services[m].name # name
     IN  [config |-> services[n],
          addrs  |-> Addrs(services[n].targets, resolving)]]

Construct ==
  /\ serviceCache = Absent
  /\ exactRoutes' = ExactRoutes(config.routers)
  /\ prefixRoutes' \in Sortings(Pushed(config.routers, OfType(config.routers, "Prefix")))
  /\ regexRoutes' = RegexRoutes(config.routers)
  /\ \E resolving \in SUBSET Hosts :
       serviceCache' = ServiceCache(config.services, resolving)
  /\ UNCHANGED <<config, last>>

-----------------------------------------------------------------------------
(* onRequest                                                               *)

MethodMatches(allowed, method) == allowed = {} \/ method \in allowed

(* The positions of the routes that allow the method.                      *)
Allowing(routes, method) == {n \in DOMAIN routes : MethodMatches(routes[n].methods, method)}

(* The router of the first route at one of the positions hits, or Absent.  *)
FirstMatch(routes, hits) ==
  IF hits = {} THEN Absent
  ELSE routes[CHOOSE n \in hits : \A m \in hits : n <= m].routerIndex

MatchedExact(path, method) ==
  IF path \in DOMAIN exactRoutes
    THEN FirstMatch(exactRoutes[path], Allowing(exactRoutes[path], method))
    ELSE Absent

StartsWith(path, prefix) ==
  Len(prefix) <= Len(path) /\ SubSeq(path, 1, Len(prefix)) = prefix

MatchedPrefix(path, method) ==
  FirstMatch(prefixRoutes,
             {n \in Allowing(prefixRoutes, method) : StartsWith(path, prefixRoutes[n].path)})

MatchedRegex(path, method) ==
  FirstMatch(regexRoutes,
             {n \in Allowing(regexRoutes, method) : path \in Language[regexRoutes[n].path]})

(* Exact routes, then prefixes, then regular expressions.                  *)
Matched_ExactShadows(path, method) ==
  IF path \in DOMAIN exactRoutes THEN MatchedExact(path, method)
  ELSE IF MatchedPrefix(path, method) # Absent THEN MatchedPrefix(path, method)
  ELSE MatchedRegex(path, method)

Matched(path, method) ==
  IF MatchedExact(path, method) # Absent THEN MatchedExact(path, method)
  ELSE IF MatchedPrefix(path, method) # Absent THEN MatchedPrefix(path, method)
  ELSE MatchedRegex(path, method)

Handler(kind, router, addr, host) ==
  [kind |-> kind, router |-> router, addr |-> addr, host |-> host]

(* GatewayHandler::onEOM: the Host header, when no rewrite replaces it,    *)
(* names the first target of the service, and its port unless that is the  *)
(* default one of the protocol.                                            *)
IsDefaultPort_AnyProtocol(protocol, port) == port \in {80, 443}

IsDefaultPort(protocol, port) ==
  (protocol = "HTTP" /\ port = 80) \/ (protocol = "HTTPS" /\ port = 443)

HostHeader(router, service) ==
  LET target == service.targets[1]
      named  == IsDefaultPort(service.protocol, target.port)
  IN  IF router.rewriteHost # Absent
        THEN [host |-> router.rewriteHost, port |-> Absent]
        ELSE [host |-> target.host, port |-> IF named THEN Absent ELSE target.port]

(* The connection goes to the first address.                               *)
Create(router) ==
  LET name   == config.routers[router].destination
      cached == serviceCache[name]
  IN  IF router = Absent THEN Handler("NotFoundHandler", Absent, Absent, Absent)
      ELSE IF \/ name = Absent
              \/ name \notin DOMAIN serviceCache
              \/ cached.addrs = << >>
        THEN Handler("BadGatewayHandler", router, Absent, Absent)
      ELSE Handler("GatewayHandler", router, cached.addrs[1],
                   HostHeader(config.routers[router], cached.config))

OnRequest(path, method) ==
  /\ serviceCache # Absent
  /\ last' = [path |-> path, method |-> method, handler |-> Create(Matched(path, method))]
  /\ UNCHANGED <<config, tables>>

-----------------------------------------------------------------------------
Init ==
  /\ config \in Configs
  /\ exactRoutes = Absent
  /\ prefixRoutes = Absent
  /\ regexRoutes = Absent
  /\ serviceCache = Absent
  /\ last = Absent

Next ==
  \/ Construct
  \/ \E path \in Paths, method \in Methods : OnRequest(path, method)

Spec == Init /\ [][Next]_vars

-----------------------------------------------------------------------------
(* Properties                                                              *)

(* The rules of one type that match the last request.                      *)
MatchesLast(rule) ==
  /\ rule.methods # {} => last.method \in rule.methods
  /\ CASE PathType(rule) = "Exact"  -> last.path = rule.path
       [] PathType(rule) = "Prefix" -> StartsWith(last.path, rule.path)
       [] PathType(rule) = "Regex"  -> /\ Language[rule.path] # Invalid
                                       /\ last.path \in Language[rule.path]

Hits(type) == {h \in OfType(config.routers, type) : MatchesLast(RuleAt(config.routers, h))}

Earliest(hits) == {h \in hits : \A g \in hits : Precedes(h, g)}

AllTyped(routers) == \A h \in Rules(routers) : RuleAt(routers, h).pathType # Absent

Longest(hits) ==
  {h \in hits : \A g \in hits :
     Len(RuleAt(config.routers, h).path) >= Len(RuleAt(config.routers, g).path)}

(* The most specific rule that matches both path and method decides: an    *)
(* exact one before the longest prefix before a regular expression, and an *)
(* exact or regular expression rule loaded earlier before a later one.  A  *)
(* rule that matches the path but not the method hides nothing, and only   *)
(* when no rule at all matches is the answer 404.  This is said of         *)
(* configurations whose rules all have a pathType: the code takes a path   *)
(* without one for a prefix, and README.md:94 calls it a regular           *)
(* expression.                                                             *)
MostSpecificRule ==
  (last # Absent /\ AllTyped(config.routers)) =>
    LET best == IF Hits("Exact") # {} THEN Earliest(Hits("Exact"))
                ELSE IF Hits("Prefix") # {} THEN Longest(Hits("Prefix"))
                ELSE Earliest(Hits("Regex"))
    IN  IF best = {} THEN last.handler.kind = "NotFoundHandler"
                     ELSE \E h \in best : last.handler.router = h[1]

(* A request is proxied to a target of the first service that has the name *)
(* the router gives, and that service has no earlier target whose address  *)
(* is known; a router without a service to go to is answered with 502.     *)
RightService ==
  last # Absent /\ last.handler.router # Absent =>
    LET name   == config.routers[last.handler.router].destination
        named  == { n \in DOMAIN config.services : config.services[n].name = name }
        n      == CHOOSE n \in named : \A m \in named : n <= m
        target == { k \in DOMAIN config.services[n].targets :
                      config.services[n].targets[k] = last.handler.addr }
    IN  /\ named = {} => last.handler.kind = "BadGatewayHandler"
        /\ last.handler.kind = "GatewayHandler" =>
             \E k \in target : \A j \in 1 .. (k - 1) :
               \A i \in DOMAIN serviceCache[name].addrs :
                 serviceCache[name].addrs[i] # config.services[n].targets[j]

(* A request goes to the target its Host header names: the addresses of a  *)
(* service are those of its targets, in the same order.                    *)
HostNamesTarget ==
  last # Absent /\ last.handler.kind = "GatewayHandler"
    => last.handler.addr.host = last.handler.host.host

(* Where HostNamesTarget holds after all: the first target of the service  *)
(* is the one the Host header names, and when its address is known the     *)
(* request goes there, whichever of the other targets resolved.            *)
HostNamesKnownTarget ==
  last # Absent /\ last.handler.kind = "GatewayHandler" =>
    LET router == config.routers[last.handler.router]
        cached == serviceCache[router.destination]
        first  == cached.config.targets[1]
    IN  (router.rewriteHost = Absent /\ \E i \in DOMAIN cached.addrs : cached.addrs[i] = first)
          => last.handler.addr = first /\ last.handler.host.host = first.host

(* Unless the router rewrites it, the Host header reads back as the first  *)
(* target: a port is left out only where the reader, who knows the         *)
(* protocol, puts the same one in.                                         *)
HostReadsBack ==
  last # Absent /\ last.handler.kind = "GatewayHandler" =>
    LET router  == config.routers[last.handler.router]
        service == serviceCache[router.destination].config
        port    == IF last.handler.host.port # Absent THEN last.handler.host.port
                   ELSE IF service.protocol = "HTTPS" THEN 443 ELSE 80
    IN  router.rewriteHost = Absent
          => [host |-> last.handler.host.host, port |-> port] = service.targets[1]
=============================================================================
