---------------------------- MODULE RoutingProofs ----------------------------
(***************************************************************************)
(* GatewayHandlerFactory chooses the right rule, service and Host header,  *)
(* for every configuration and every request.                              *)
(***************************************************************************)
EXTENDS Routing, SubsequenceLemmas

-----------------------------------------------------------------------------
(* The tables                                                              *)

(* A table has a route for each of its rules, and only these, in the order *)
(* in which the loops come to them.                                        *)
Lists(routes, routers, hs, at) ==
  /\ DOMAIN at = DOMAIN routes
  /\ \A n \in DOMAIN routes : at[n] \in hs /\ routes[n] = Route(routers, at[n])
  /\ \A h \in hs : \E n \in DOMAIN routes : at[n] = h

(* There are finitely many rules.                                          *)
LEMMA RulesFinite ==
  ASSUME NEW c \in Configs
  PROVE  IsFiniteSet(Rules(c.routers))
<1> DEFINE D == DOMAIN c.routers
           Own(i) == {i} \X DOMAIN c.routers[i].rules
           own == [i \in D |-> Own(i)]
           S == { Own(i) : i \in D }
<1>0. \A v : IsVector(v) => IsFiniteSet(DOMAIN v)
  <2>1. \A n \in Nat : IsFiniteSet(1 .. n)
    BY FS_Interval
  <2> QED
    BY <2>1, Zenon DEF IsVector
<1>1. IsFiniteSet(D)
  BY <1>0, ConfigsAssumption, Zenon
<1>2. ASSUME NEW i \in D PROVE IsFiniteSet(Own(i))
  <2>1. IsFiniteSet(DOMAIN c.routers[i].rules)
    BY <1>0, ConfigsAssumption, Zenon
  <2>2. IsFiniteSet({i})
    BY FS_Singleton, Zenon
  <2> QED
    BY <2>1, <2>2, FS_Product, Zenon
<1> HIDE DEF D, Own
<1>3. own \in Surjection(D, S)
  BY Zenon DEF Surjection
<1>4. IsFiniteSet(S)
  <2> HIDE DEF own, S
  <2> QED
    BY <1>1, <1>3, FS_Surjection, Zenon
<1>5. IsFiniteSet(UNION S)
  BY <1>2, <1>4, FS_UNION, Zenon
<1> QED
  BY <1>5, Zenon DEF Rules, D, Own

(* A rule is a pair of positions.                                          *)
LEMMA RulePlaces ==
  ASSUME NEW c \in Configs, NEW h \in Rules(c.routers)
  PROVE  /\ h[1] \in DOMAIN c.routers /\ h[2] \in DOMAIN c.routers[h[1]].rules
         /\ h = <<h[1], h[2]>> /\ h[1] \in Nat /\ h[2] \in Nat
<1>1. PICK i \in DOMAIN c.routers : h \in {i} \X DOMAIN c.routers[i].rules
  BY Zenon DEF Rules
<1>2. h = <<h[1], h[2]>> /\ h[1] = i /\ h[2] \in DOMAIN c.routers[i].rules
  BY <1>1
<1>3. DOMAIN c.routers \subseteq Nat /\ DOMAIN c.routers[i].rules \subseteq Nat
  <2>1. \A v : IsVector(v) => DOMAIN v \subseteq Nat
    BY DEF IsVector
  <2> QED
    BY <2>1, ConfigsAssumption, Zenon
<1> QED
  BY <1>1, <1>2, <1>3, Zenon

(* The order of the loops is one.                                          *)
LEMMA LoopOrders ==
  ASSUME NEW c \in Configs, NEW hs \in SUBSET Rules(c.routers)
  PROVE  Orders(LoopOrder(hs), hs)
<1>1. \A g, h \in hs : <<g, h>> \in LoopOrder(hs) <=> Precedes(g, h)
  BY DEF LoopOrder
<1>2. \A h \in hs : h = <<h[1], h[2]>> /\ h[1] \in Nat /\ h[2] \in Nat
  BY RulePlaces, Zenon
<1>3. \A h \in hs : Precedes(h, h)
  BY ONLY <1>2 DEF Precedes
<1>4. \A g, h \in hs : Precedes(g, h) \/ Precedes(h, g)
  BY ONLY <1>2 DEF Precedes
<1>5. \A g, h \in hs : Precedes(g, h) /\ Precedes(h, g) => g[1] = h[1] /\ g[2] = h[2]
  BY ONLY <1>2 DEF Precedes
<1>6. \A g, h \in hs : Precedes(g, h) /\ Precedes(h, g) => g = h
  BY <1>2, <1>5
<1>7. \A f, g, h \in hs : Precedes(f, g) /\ Precedes(g, h) => Precedes(f, h)
  BY ONLY <1>2 DEF Precedes
<1> QED
  BY <1>1, <1>3, <1>4, <1>6, <1>7, Zenon DEF Orders

(* What the loops push for the rules hs.                                   *)
LEMMA PushedLists ==
  ASSUME NEW c \in Configs, NEW hs \in SUBSET Rules(c.routers)
  PROVE  LET routes == Pushed(c.routers, hs)
         IN  /\ Cardinality(hs) \in Nat
             /\ DOMAIN routes = 1 .. Cardinality(hs)
             /\ \E at : /\ Lists(routes, c.routers, hs, at)
                        /\ \A m, n \in DOMAIN routes : m <= n => Precedes(at[m], at[n])
<1> DEFINE N == Cardinality(hs)
           R == LoopOrder(hs)
           at == [n \in 1 .. N |-> Ranked(hs, R, n)]
           routes == Pushed(c.routers, hs)
<1>1. IsFiniteSet(hs)
  BY RulesFinite, FS_Subset, Zenon
<1>2. Orders(R, hs)
  BY LoopOrders, Zenon
<1>3. /\ N \in Nat
      /\ \A k \in 1 .. N : Ranked(hs, R, k) \in hs
      /\ \A k, l \in 1 .. N : k < l =>
           <<Ranked(hs, R, k), Ranked(hs, R, l)>> \in R /\ Ranked(hs, R, k) # Ranked(hs, R, l)
      /\ \A x \in hs : \E k \in 1 .. N : Ranked(hs, R, k) = x
  <2> HIDE DEF R
  <2> QED
    BY <1>1, <1>2, RankedProperties, Zenon
<1>4. DOMAIN routes = 1 .. N /\ DOMAIN at = 1 .. N
  BY Zenon DEF Pushed
<1>5. \A n \in 1 .. N : at[n] = Ranked(hs, R, n) /\ routes[n] = Route(c.routers, at[n])
  BY Zenon DEF Pushed
<1> HIDE DEF N, at, routes
<1>6. Lists(routes, c.routers, hs, at)
  <2>1. \A n \in 1 .. N : at[n] \in hs
    BY <1>3, <1>5, Zenon
  <2>2. \A h \in hs : \E n \in 1 .. N : at[n] = h
    BY <1>3, <1>5, Zenon
  <2> QED
    BY <1>4, <1>5, <2>1, <2>2, Zenon DEF Lists
<1>7. ASSUME NEW m \in 1 .. N, NEW n \in 1 .. N, m <= n PROVE Precedes(at[m], at[n])
  <2>1. m < n \/ m = n
    BY <1>3, <1>7
  <2>2. <<at[m], at[n]>> \in R
    BY <1>2, <1>3, <1>5, <2>1, Zenon DEF Orders
  <2> QED
    BY <2>2 DEF LoopOrder
<1> QED
  BY <1>3, <1>4, <1>6, <1>7, Zenon DEF N, routes

(* Sorting the prefixes loses none and adds none, and leaves the longest   *)
(* first.                                                                  *)
LEMMA SortedLists ==
  ASSUME NEW c \in Configs, NEW hs \in SUBSET Rules(c.routers),
         NEW routes \in Sortings(Pushed(c.routers, hs))
  PROVE  /\ DOMAIN routes \subseteq Nat
         /\ \E at : /\ Lists(routes, c.routers, hs, at)
                    /\ \A m, n \in DOMAIN routes : m <= n =>
                         Len(RuleAt(c.routers, at[m]).path) >= Len(RuleAt(c.routers, at[n]).path)
<1> DEFINE pushed == Pushed(c.routers, hs)
           D == DOMAIN pushed
<1>1. D \subseteq Nat
  <2>1. D = 1 .. Cardinality(hs) /\ Cardinality(hs) \in Nat
    BY PushedLists, Zenon
  <2> QED
    BY ONLY <2>1
<1>2. PICK at : Lists(pushed, c.routers, hs, at)
  BY PushedLists, Zenon
<1>3. PICK f \in Bijection(D, D) :
        /\ \A m, n \in D : m < n => Len(pushed[f[m]].path) >= Len(pushed[f[n]].path)
        /\ routes = [n \in D |-> pushed[f[n]]]
  BY Zenon DEF Sortings
<1> HIDE DEF pushed, D
<1>4. /\ \A n \in D : f[n] \in D
      /\ \A n \in D : \E m \in D : f[m] = n
  BY Zenon DEF Bijection, Injection, Surjection
<1> DEFINE now == [n \in D |-> at[f[n]]]
<1>5. DOMAIN routes = D /\ DOMAIN now = D /\ \A n \in D : routes[n] = pushed[f[n]] /\ now[n] = at[f[n]]
  BY <1>3, Zenon
<1> HIDE DEF now
<1>6. /\ \A n \in D : at[n] \in hs /\ pushed[n] = Route(c.routers, at[n])
      /\ \A h \in hs : \E n \in D : at[n] = h
  BY <1>2, Zenon DEF Lists, D
<1>7. Lists(routes, c.routers, hs, now)
  <2>1. ASSUME NEW n \in D PROVE now[n] \in hs /\ routes[n] = Route(c.routers, now[n])
    <3>1. PICK m \in D : f[n] = m
      BY <1>4, Zenon
    <3>2. now[n] = at[m] /\ routes[n] = pushed[m]
      BY <1>5, <3>1, Zenon
    <3> QED
      BY <1>6, <3>2
  <2>2. ASSUME NEW h \in hs PROVE \E n \in D : now[n] = h
    <3>1. PICK m \in D : at[m] = h
      BY <1>6, Zenon
    <3>2. PICK n \in D : f[n] = m
      BY <1>4, Zenon
    <3>3. now[n] = h
      BY <1>5, <3>1, <3>2
    <3> QED
      BY <3>3, Zenon
  <2> QED
    BY <1>5, <2>1, <2>2, Zenon DEF Lists
<1>8. \A h \in hs : Len(RuleAt(c.routers, h).path) \in Nat
  BY ConfigsAssumption, RulePlaces, Zenon DEF RuleAt, IsVector
<1>9. \A h : Route(c.routers, h).path = RuleAt(c.routers, h).path
  BY Zenon DEF Route
<1>10. ASSUME NEW m \in D, NEW n \in D, m <= n
       PROVE  Len(RuleAt(c.routers, now[m]).path) >= Len(RuleAt(c.routers, now[n]).path)
  <2>1. m < n \/ m = n
    BY <1>1, <1>10
  <2>2. CASE m < n
    <3>1. Len(pushed[f[m]].path) >= Len(pushed[f[n]].path)
      BY <1>3, <2>2, Zenon
    <3>2. \A k \in D : pushed[f[k]].path = RuleAt(c.routers, now[k]).path
      <4>1. \A k \in D : pushed[f[k]] = Route(c.routers, now[k])
        BY <1>4, <1>5, <1>6, SMTT(30)
      <4> QED
        BY <1>9, <4>1
    <3> QED
      BY <3>1, <3>2, Zenon
  <2>3. CASE m = n
    <3>1. \A k \in Nat : k >= k
      OBVIOUS
    <3>2. Len(RuleAt(c.routers, now[m]).path) \in Nat
      BY <1>4, <1>5, <1>6, <1>8, ZenonT(30)
    <3> QED
      BY <2>3, <3>1, <3>2, Zenon
  <2> QED
    BY <2>1, <2>2, <2>3, Zenon
<1> QED
  BY <1>1, <1>5, <1>7, <1>10, Zenon

-----------------------------------------------------------------------------
(* The match                                                               *)

(* A stage that tries its routes in order finds a rule exactly when there  *)
(* is one in T, the rules it accepts, and finds the first of them.         *)
LEMMA FirstMatchFinds ==
  ASSUME NEW routers, NEW hs, NEW routes, NEW at, NEW T \in SUBSET hs, NEW hits,
         DOMAIN routes \subseteq Nat, Lists(routes, routers, hs, at),
         hits \in SUBSET DOMAIN routes,
         \A n \in DOMAIN routes : n \in hits <=> at[n] \in T
  PROVE  /\ T = {} => FirstMatch(routes, hits) = Absent
         /\ T # {} => \E n \in DOMAIN routes :
                       /\ FirstMatch(routes, hits) = at[n][1] /\ at[n] \in T
                       /\ \A g \in T : \E m \in DOMAIN routes : at[m] = g /\ n <= m
<1>1. T = {} => FirstMatch(routes, hits) = Absent
  BY Zenon DEF FirstMatch
<1>2. ASSUME T # {}
      PROVE  \E n \in DOMAIN routes :
               /\ FirstMatch(routes, hits) = at[n][1] /\ at[n] \in T
               /\ \A g \in T : \E m \in DOMAIN routes : at[m] = g /\ n <= m
  <2> DEFINE first == CHOOSE n \in hits : \A m \in hits : n <= m
  <2>1. hits # {} /\ hits \subseteq Nat
    BY <1>2, Zenon DEF Lists
  <2>2. first \in hits /\ \A m \in hits : first <= m
    BY <2>1, Least, Zenon
  <2>3. FirstMatch(routes, hits) = routes[first].routerIndex
    BY <2>1, Zenon DEF FirstMatch
  <2> HIDE DEF first
  <2>4. routes[first] = Route(routers, at[first]) /\ at[first] \in T
    BY <2>2, Zenon DEF Lists
  <2>5. routes[first].routerIndex = at[first][1]
    BY <2>4 DEF Route
  <2>6. \A g \in T : \E m \in DOMAIN routes : at[m] = g /\ first <= m
    BY <2>2, Zenon DEF Lists
  <2> QED
    BY <2>2, <2>3, <2>4, <2>5, <2>6, Zenon
<1> QED
  BY <1>1, <1>2, Zenon

(* What the constructor leaves behind.                                     *)
Built ==
  /\ exactRoutes = ExactRoutes(config.routers)
  /\ prefixRoutes \in Sortings(Pushed(config.routers, OfType(config.routers, "Prefix")))
  /\ regexRoutes = RegexRoutes(config.routers)
  /\ \E resolving \in SUBSET Hosts : serviceCache = ServiceCache(config.services, resolving)

(* A stage finds one of the best of the rules T, or none when T is empty.  *)
Finds(router, T, best) ==
  /\ T = {} => router = Absent
  /\ T # {} => \E h \in best : router = h[1] /\ h[1] # Absent

(* The rules of the three types that match the last request.               *)
LEMMA HitsOf ==
  /\ \A h : h \in Hits("Exact") <=>
       /\ h \in OfType(config.routers, "Exact")
       /\ RuleAt(config.routers, h).path = last.path
       /\ MethodMatches(RuleAt(config.routers, h).methods, last.method)
  /\ \A h : h \in Hits("Prefix") <=>
       /\ h \in OfType(config.routers, "Prefix")
       /\ StartsWith(last.path, RuleAt(config.routers, h).path)
       /\ MethodMatches(RuleAt(config.routers, h).methods, last.method)
  /\ \A h : h \in Hits("Regex") <=>
       /\ h \in OfType(config.routers, "Regex")
       /\ Language[RuleAt(config.routers, h).path] # Invalid
       /\ last.path \in Language[RuleAt(config.routers, h).path]
       /\ MethodMatches(RuleAt(config.routers, h).methods, last.method)
<1>1. \A rule : MatchesLast(rule) <=>
        /\ MethodMatches(rule.methods, last.method)
        /\ PathType(rule) = "Exact" => last.path = rule.path
        /\ PathType(rule) = "Prefix" => StartsWith(last.path, rule.path)
        /\ PathType(rule) = "Regex" => Language[rule.path] # Invalid /\ last.path \in Language[rule.path]
  <2> TAKE rule
  <2>1. MethodMatches(rule.methods, last.method) <=> (rule.methods # {} => last.method \in rule.methods)
    BY Zenon DEF MethodMatches
  <2>2. PathType(rule) \in {"Exact", "Prefix", "Regex"}
    BY DEF PathType
  <2>3. MatchesLast(rule) <=>
          /\ MethodMatches(rule.methods, last.method)
          /\ CASE PathType(rule) = "Exact"  -> last.path = rule.path
               [] PathType(rule) = "Prefix" -> StartsWith(last.path, rule.path)
               [] PathType(rule) = "Regex"  -> /\ Language[rule.path] # Invalid
                                               /\ last.path \in Language[rule.path]
    BY <2>1, Zenon DEF MatchesLast
  <2>4. "Exact" # "Prefix" /\ "Exact" # "Regex" /\ "Prefix" # "Regex"
    OBVIOUS
  <2>5. CASE PathType(rule) = "Exact"
    BY ONLY <2>3, <2>4, <2>5, Zenon
  <2>6. CASE PathType(rule) = "Prefix"
    BY ONLY <2>3, <2>4, <2>6, Zenon
  <2>7. CASE PathType(rule) = "Regex"
    BY ONLY <2>3, <2>4, <2>7, Zenon
  <2> QED
    BY <2>2, <2>5, <2>6, <2>7, ZenonT(40)
<1>2. \A h, type : h \in OfType(config.routers, type) => PathType(RuleAt(config.routers, h)) = type
  BY Zenon DEF OfType
<1>3. "Exact" # "Prefix" /\ "Exact" # "Regex" /\ "Prefix" # "Regex"
  OBVIOUS
<1>4. \A h, type : h \in Hits(type) <=>
        h \in OfType(config.routers, type) /\ MatchesLast(RuleAt(config.routers, h))
  BY Zenon DEF Hits
<1>5. \A h : h \in Hits("Exact") <=>
        /\ h \in OfType(config.routers, "Exact")
        /\ RuleAt(config.routers, h).path = last.path
        /\ MethodMatches(RuleAt(config.routers, h).methods, last.method)
  BY <1>1, <1>2, <1>3, <1>4, ZenonT(40)
<1>6. \A h : h \in Hits("Prefix") <=>
        /\ h \in OfType(config.routers, "Prefix")
        /\ StartsWith(last.path, RuleAt(config.routers, h).path)
        /\ MethodMatches(RuleAt(config.routers, h).methods, last.method)
  BY <1>1, <1>2, <1>3, <1>4, Zenon
<1>7. \A h : h \in Hits("Regex") <=>
        /\ h \in OfType(config.routers, "Regex")
        /\ Language[RuleAt(config.routers, h).path] # Invalid
        /\ last.path \in Language[RuleAt(config.routers, h).path]
        /\ MethodMatches(RuleAt(config.routers, h).methods, last.method)
  BY <1>1, <1>2, <1>3, <1>4, Zenon
<1> QED
  BY <1>5, <1>6, <1>7, Zenon

(* A stage whose table is as the loops pushed it finds the earliest rule.  *)
LEMMA StageEarliest ==
  ASSUME NEW c \in Configs, NEW hs \in SUBSET Rules(c.routers), NEW T \in SUBSET hs, NEW hits,
         hits \in SUBSET DOMAIN Pushed(c.routers, hs),
         \A n \in DOMAIN Pushed(c.routers, hs), h \in hs :
           Pushed(c.routers, hs)[n] = Route(c.routers, h) => (n \in hits <=> h \in T)
  PROVE  Finds(FirstMatch(Pushed(c.routers, hs), hits), T, Earliest(T))
<1> DEFINE routes == Pushed(c.routers, hs)
<1>1. DOMAIN routes \subseteq Nat
  <2>1. DOMAIN routes = 1 .. Cardinality(hs) /\ Cardinality(hs) \in Nat
    BY PushedLists, Zenon
  <2> QED
    BY ONLY <2>1
<1>2. PICK at : /\ Lists(routes, c.routers, hs, at)
                /\ \A m, n \in DOMAIN routes : m <= n => Precedes(at[m], at[n])
  BY PushedLists, Zenon
<1> HIDE DEF routes
<1>3. \A n \in DOMAIN routes : n \in hits <=> at[n] \in T
  BY <1>2, Zenon DEF Lists, routes
<1>4. /\ T = {} => FirstMatch(routes, hits) = Absent
      /\ T # {} => \E n \in DOMAIN routes :
                    /\ FirstMatch(routes, hits) = at[n][1] /\ at[n] \in T
                    /\ \A g \in T : \E m \in DOMAIN routes : at[m] = g /\ n <= m
  <2>1. hits \in SUBSET DOMAIN routes
    BY Zenon DEF routes
  <2>2. T \in SUBSET hs /\ Lists(routes, c.routers, hs, at)
    BY <1>2, Zenon
  <2> QED
    BY ONLY <1>1, <1>3, <2>1, <2>2, FirstMatchFinds, SMTT(30)
<1>5. ASSUME T # {}
      PROVE  \E h \in Earliest(T) : FirstMatch(routes, hits) = h[1] /\ h[1] # Absent
  <2>1. PICK n \in DOMAIN routes :
          /\ FirstMatch(routes, hits) = at[n][1] /\ at[n] \in T
          /\ \A g \in T : \E m \in DOMAIN routes : at[m] = g /\ n <= m
    BY <1>4, <1>5, Zenon
  <2>2. at[n] \in Earliest(T)
    <3>1. ASSUME NEW g \in T PROVE Precedes(at[n], g)
      <4>1. PICK m \in DOMAIN routes : at[m] = g /\ n <= m
        BY <2>1, Zenon
      <4> QED
        BY <1>2, <4>1
    <3> QED
      BY <2>1, <3>1, ZenonT(40) DEF Earliest
  <2>3. at[n][1] # Absent
    BY <2>1, RulePlaces, ConfigsAssumption, ZenonT(40)
  <2> QED
    BY <2>1, <2>2, <2>3, ZenonT(40)
<1> QED
  BY <1>4, <1>5, Zenon DEF Finds, routes

(* Exact rules, by the path of the request.                                *)
LEMMA ExactStage ==
  ASSUME config \in Configs, Built
  PROVE  Finds(MatchedExact(last.path, last.method), Hits("Exact"), Earliest(Hits("Exact")))
<1> DEFINE routers == config.routers
           exact == OfType(routers, "Exact")
           hs == {h \in exact : RuleAt(routers, h).path = last.path}
           routes == Pushed(routers, hs)
           T == Hits("Exact")
<1>1. \A h : h \in T <=> h \in hs /\ MethodMatches(RuleAt(routers, h).methods, last.method)
  BY HitsOf, Zenon
<1>2. hs \in SUBSET Rules(routers)
  BY Zenon DEF OfType
<1>3. /\ DOMAIN exactRoutes = { RuleAt(routers, h).path : h \in exact }
      /\ last.path \in DOMAIN exactRoutes => exactRoutes[last.path] = routes
  BY Zenon DEF Built, ExactRoutes
<1>4. CASE last.path \notin DOMAIN exactRoutes
  <2>1. T = {}
    BY <1>1, <1>3, <1>4, Zenon
  <2> QED
    BY <1>4, <2>1, Zenon DEF Finds, MatchedExact
<1>5. CASE last.path \in DOMAIN exactRoutes
  <2> DEFINE hits == Allowing(routes, last.method)
  <2>1. MatchedExact(last.path, last.method) = FirstMatch(routes, hits)
    BY <1>3, <1>5, Zenon DEF MatchedExact
  <2>2. hits \in SUBSET DOMAIN routes
    BY Zenon DEF Allowing
  <2>3. ASSUME NEW n \in DOMAIN routes, NEW h \in hs, routes[n] = Route(routers, h)
        PROVE  n \in hits <=> h \in T
    <3> HIDE DEF hs, T, routes
    <3>1. routes[n].methods = RuleAt(routers, h).methods
      BY <2>3 DEF Route
    <3> QED
      BY <1>1, <3>1, Zenon DEF Allowing
  <2>4. T \in SUBSET hs
    BY <1>1, Zenon
  <2> HIDE DEF hs, T, hits
  <2>5. Finds(FirstMatch(routes, hits), T, Earliest(T))
    BY <1>2, <2>2, <2>3, <2>4, StageEarliest, ZenonT(40)
  <2> QED
    BY <2>1, <2>5, Zenon DEF T
<1> QED
  BY <1>4, <1>5, Zenon

(* Regular expressions that compile.                                       *)
LEMMA RegexStage ==
  ASSUME config \in Configs, Built
  PROVE  Finds(MatchedRegex(last.path, last.method), Hits("Regex"), Earliest(Hits("Regex")))
<1> DEFINE routers == config.routers
           hs == {h \in OfType(routers, "Regex") : Language[RuleAt(routers, h).path] # Invalid}
           routes == Pushed(routers, hs)
           T == Hits("Regex")
           hits == {n \in Allowing(routes, last.method) : last.path \in Language[routes[n].path]}
<1>1. \A h : h \in T <=> /\ h \in hs /\ last.path \in Language[RuleAt(routers, h).path]
                         /\ MethodMatches(RuleAt(routers, h).methods, last.method)
  BY HitsOf, Zenon
<1>2. hs \in SUBSET Rules(routers)
  BY Zenon DEF OfType
<1>3. MatchedRegex(last.path, last.method) = FirstMatch(routes, hits)
  <2>1. regexRoutes = routes
    BY Zenon DEF Built, RegexRoutes
  <2> HIDE DEF routes
  <2> QED
    BY <2>1, Zenon DEF MatchedRegex
<1>4. hits \in SUBSET DOMAIN routes
  BY Zenon DEF Allowing
<1>5. ASSUME NEW n \in DOMAIN routes, NEW h \in hs, routes[n] = Route(routers, h)
      PROVE  n \in hits <=> h \in T
  <2> HIDE DEF hs, T, routes
  <2>1. routes[n].methods = RuleAt(routers, h).methods /\ routes[n].path = RuleAt(routers, h).path
    BY <1>5 DEF Route
  <2> QED
    BY <1>1, <2>1, Zenon DEF Allowing
<1>6. T \in SUBSET hs
  BY <1>1, Zenon
<1> HIDE DEF hs, T, hits
<1>7. Finds(FirstMatch(routes, hits), T, Earliest(T))
  BY <1>2, <1>4, <1>5, <1>6, StageEarliest, ZenonT(40)
<1> QED
  BY <1>3, <1>7, Zenon DEF T

(* Prefixes, longest first.                                                *)
LEMMA PrefixStage ==
  ASSUME config \in Configs, Built
  PROVE  Finds(MatchedPrefix(last.path, last.method), Hits("Prefix"), Longest(Hits("Prefix")))
<1> DEFINE routers == config.routers
           hs == OfType(routers, "Prefix")
           T == Hits("Prefix")
           hits == {n \in Allowing(prefixRoutes, last.method) : StartsWith(last.path, prefixRoutes[n].path)}
<1>1. \A h : h \in T <=> /\ h \in hs /\ StartsWith(last.path, RuleAt(routers, h).path)
                         /\ MethodMatches(RuleAt(routers, h).methods, last.method)
  BY HitsOf, Zenon
<1>2. hs \in SUBSET Rules(routers)
  BY Zenon DEF OfType
<1>3. MatchedPrefix(last.path, last.method) = FirstMatch(prefixRoutes, hits)
  BY Zenon DEF MatchedPrefix
<1>4. prefixRoutes \in Sortings(Pushed(routers, hs))
  BY Zenon DEF Built
<1>5. T \in SUBSET hs
  BY <1>1, Zenon
<1> HIDE DEF hs, T
<1>6. DOMAIN prefixRoutes \subseteq Nat
  BY <1>2, <1>4, SortedLists, Zenon
<1>7. PICK at : /\ Lists(prefixRoutes, routers, hs, at)
                /\ \A m, n \in DOMAIN prefixRoutes : m <= n =>
                     Len(RuleAt(routers, at[m]).path) >= Len(RuleAt(routers, at[n]).path)
  BY <1>2, <1>4, SortedLists, Zenon
<1>8. \A n \in DOMAIN prefixRoutes : n \in hits <=> at[n] \in T
  <2> TAKE n \in DOMAIN prefixRoutes
  <2>1. prefixRoutes[n] = Route(routers, at[n]) /\ at[n] \in hs
    BY <1>7, Zenon DEF Lists
  <2>2. /\ prefixRoutes[n].methods = RuleAt(routers, at[n]).methods
        /\ prefixRoutes[n].path = RuleAt(routers, at[n]).path
    BY <2>1 DEF Route
  <2> QED
    BY <1>1, <2>1, <2>2, ZenonT(40) DEF Allowing
<1>9. hits \in SUBSET DOMAIN prefixRoutes
  BY Zenon DEF Allowing
<1> HIDE DEF hits
<1>10. Lists(prefixRoutes, routers, hs, at)
  BY <1>7, ZenonT(40)
<1>11. /\ T = {} => FirstMatch(prefixRoutes, hits) = Absent
       /\ T # {} => \E n \in DOMAIN prefixRoutes :
                     /\ FirstMatch(prefixRoutes, hits) = at[n][1] /\ at[n] \in T
                     /\ \A g \in T : \E m \in DOMAIN prefixRoutes : at[m] = g /\ n <= m
  BY ONLY <1>5, <1>6, <1>8, <1>9, <1>10, FirstMatchFinds, SMTT(30)
<1>12. ASSUME T # {}
       PROVE  \E h \in Longest(T) : FirstMatch(prefixRoutes, hits) = h[1] /\ h[1] # Absent
  <2>1. PICK n \in DOMAIN prefixRoutes :
          /\ FirstMatch(prefixRoutes, hits) = at[n][1] /\ at[n] \in T
          /\ \A g \in T : \E m \in DOMAIN prefixRoutes : at[m] = g /\ n <= m
    BY <1>11, <1>12, Zenon
  <2>2. at[n] \in Longest(T)
    <3>1. ASSUME NEW g \in T
          PROVE  Len(RuleAt(routers, at[n]).path) >= Len(RuleAt(routers, g).path)
      <4>1. PICK m \in DOMAIN prefixRoutes : at[m] = g /\ n <= m
        BY <2>1, Zenon
      <4> QED
        BY <1>7, <4>1, ZenonT(40)
    <3> QED
      BY <2>1, <3>1, ZenonT(40) DEF Longest
  <2>3. at[n][1] # Absent
    BY <1>2, <1>5, <2>1, RulePlaces, ConfigsAssumption, ZenonT(40)
  <2> QED
    BY <2>1, <2>2, <2>3, Zenon
<1> QED
  BY <1>3, <1>11, <1>12, Zenon DEF Finds, T

-----------------------------------------------------------------------------
(* The factory                                                             *)

(* The tables are those of the configuration as soon as there are any, and *)
(* the last handler is what they give for the last request.                *)
FactoryInv ==
  /\ config \in Configs
  /\ serviceCache # Absent => Built
  /\ last # Absent => /\ serviceCache # Absent
                      /\ last.handler = Create(Matched(last.path, last.method))

(* A request is matched with the tables it finds, and changes none.        *)
LEMMA RequestKeeps ==
  ASSUME NEW path, NEW method, FactoryInv, OnRequest(path, method)
  PROVE  FactoryInv'
<1>1. /\ last' = [path |-> path, method |-> method, handler |-> Create(Matched(path, method))]
      /\ config' = config /\ exactRoutes' = exactRoutes /\ prefixRoutes' = prefixRoutes
      /\ regexRoutes' = regexRoutes /\ serviceCache' = serviceCache /\ serviceCache # Absent
  BY DEF OnRequest, tables
<1>2. /\ last'.path = path /\ last'.method = method
      /\ last'.handler = Create(Matched(path, method))
  BY <1>1
<1>3. MatchedExact(last.path, last.method)' = MatchedExact(path, method)
  BY <1>1, <1>2, Zenon DEF MatchedExact
<1>4. MatchedPrefix(last.path, last.method)' = MatchedPrefix(path, method)
  BY <1>1, <1>2, Zenon DEF MatchedPrefix
<1>5. MatchedRegex(last.path, last.method)' = MatchedRegex(path, method)
  BY <1>1, <1>2, Zenon DEF MatchedRegex
<1>6. Matched(last.path, last.method)' = Matched(path, method)
  BY <1>3, <1>4, <1>5, Zenon DEF Matched
<1>7. Create(Matched(last.path, last.method))' = Create(Matched(path, method))
  BY <1>1, <1>6, Zenon DEF Create
<1>8. Built => Built'
  BY <1>1, Zenon DEF Built
<1> QED
  BY <1>1, <1>2, <1>7, <1>8, Zenon DEF FactoryInv

(* FactoryInv holds in every state.                                        *)
LEMMA FactoryCorrect == Spec => []FactoryInv
<1>1. Init => FactoryInv
  BY Zenon DEF Init, FactoryInv
<1>2. FactoryInv /\ [Next]_vars => FactoryInv'
  <2> SUFFICES ASSUME FactoryInv, [Next]_vars PROVE FactoryInv'
    OBVIOUS
  <2>1. CASE Construct
    <3>1. config' = config /\ last' = last /\ serviceCache = Absent
      BY <2>1 DEF Construct
    <3>2. Built'
      BY <2>1, <3>1, Zenon DEF Construct, Built
    <3>3. last' = Absent
      BY <3>1, Zenon DEF FactoryInv
    <3> QED
      BY <3>1, <3>2, <3>3, ZenonT(40) DEF FactoryInv
  <2>2. ASSUME NEW path \in Paths, NEW method \in Methods, OnRequest(path, method)
        PROVE  FactoryInv'
    BY <2>2, RequestKeeps, Zenon
  <2>3. CASE UNCHANGED vars
    <3>1. /\ config' = config /\ exactRoutes' = exactRoutes /\ prefixRoutes' = prefixRoutes
          /\ regexRoutes' = regexRoutes /\ serviceCache' = serviceCache /\ last' = last
      BY <2>3 DEF vars, tables
    <3>2. Create(Matched(last.path, last.method))' = Create(Matched(last.path, last.method))
      BY <3>1, ZenonT(90) DEF Create, Matched, MatchedExact, MatchedPrefix, MatchedRegex
    <3>3. Built => Built'
      BY <3>1, Zenon DEF Built
    <3> QED
      BY <3>1, <3>2, <3>3, Zenon DEF FactoryInv
  <2> QED
    BY <2>1, <2>2, <2>3, Zenon DEF Next
<1> QED
  BY <1>1, <1>2, PTL DEF Spec

(* A router has a service to go to, and the kinds of handler.              *)
Goes(name) ==
  name # Absent /\ name \in DOMAIN serviceCache /\ serviceCache[name].addrs # << >>

(* What decides between the handlers, and what each is given.              *)
LEMMA Created ==
  ASSUME NEW router
  PROVE  LET name    == config.routers[router].destination
             handler == Create(router)
         IN  /\ router = Absent => handler.kind = "NotFoundHandler" /\ handler.router = Absent
             /\ router # Absent => handler.router = router
             /\ router # Absent /\ ~ Goes(name) => handler.kind = "BadGatewayHandler"
             /\ router # Absent /\ Goes(name) =>
                  /\ handler.kind = "GatewayHandler"
                  /\ handler.addr = serviceCache[name].addrs[1]
                  /\ handler.host = HostHeader(config.routers[router], serviceCache[name].config)
<1> DEFINE name == config.routers[router].destination
           cached == serviceCache[name]
<1>1. \A kind, r, addr, host :
        /\ Handler(kind, r, addr, host).kind = kind /\ Handler(kind, r, addr, host).router = r
        /\ Handler(kind, r, addr, host).addr = addr /\ Handler(kind, r, addr, host).host = host
  BY DEF Handler
<1>2. router = Absent => Create(router) = Handler("NotFoundHandler", Absent, Absent, Absent)
  BY Zenon DEF Create
<1>3. router # Absent /\ ~ Goes(name) => Create(router) = Handler("BadGatewayHandler", router, Absent, Absent)
  BY Zenon DEF Create, Goes
<1>4. router # Absent /\ Goes(name) =>
        Create(router) = Handler("GatewayHandler", router, cached.addrs[1],
                                 HostHeader(config.routers[router], cached.config))
  BY Zenon DEF Create, Goes
<1> HIDE DEF name, cached
<1>5. router = Absent => Create(router).kind = "NotFoundHandler" /\ Create(router).router = Absent
  BY ONLY <1>1, <1>2
<1>6. router # Absent /\ ~ Goes(name) =>
        Create(router).kind = "BadGatewayHandler" /\ Create(router).router = router
  BY ONLY <1>1, <1>3
<1>7. router # Absent /\ Goes(name) =>
        /\ Create(router).kind = "GatewayHandler" /\ Create(router).router = router
        /\ Create(router).addr = cached.addrs[1]
        /\ Create(router).host = HostHeader(config.routers[router], cached.config)
  BY ONLY <1>1, <1>4
<1> QED
  BY <1>5, <1>6, <1>7, Zenon DEF name, cached

(* GatewayHandlerFactory::onRequest hands every request to the most        *)
(* specific rule that matches its path and its method, for all routers,    *)
(* rules, regular expressions and requests, and however std::sort orders   *)
(* prefixes of equal length.                                               *)
THEOREM BestRuleWins == Spec => []MostSpecificRule
<1>1. FactoryInv => MostSpecificRule
  <2> SUFFICES ASSUME FactoryInv, last # Absent, AllTyped(config.routers) PROVE MostSpecificRule
    BY Zenon DEF MostSpecificRule
  <2> DEFINE exact == Hits("Exact")
             prefix == Hits("Prefix")
             regex == Hits("Regex")
             router == Matched(last.path, last.method)
             best == IF exact # {} THEN Earliest(exact)
                     ELSE IF prefix # {} THEN Longest(prefix) ELSE Earliest(regex)
  <2>1. config \in Configs /\ Built /\ last.handler = Create(router)
    BY Zenon DEF FactoryInv
  <2>2. /\ Finds(MatchedExact(last.path, last.method), exact, Earliest(exact))
        /\ Finds(MatchedPrefix(last.path, last.method), prefix, Longest(prefix))
        /\ Finds(MatchedRegex(last.path, last.method), regex, Earliest(regex))
    BY <2>1, ExactStage, PrefixStage, RegexStage, ZenonT(40)
  <2> HIDE DEF exact, prefix, regex
  <2>3. exact = {} /\ prefix = {} /\ regex = {} => router = Absent
    BY <2>2, Zenon DEF Finds, Matched
  <2>4. exact = {} /\ prefix = {} /\ regex = {} => best = {}
    BY Zenon DEF Earliest
  <2>5. ~ (exact = {} /\ prefix = {} /\ regex = {}) => \E h \in best : router = h[1] /\ h[1] # Absent
    BY <2>2, Zenon DEF Finds, Matched
  <2> HIDE DEF best, router
  <2>6. IF best = {} THEN last.handler.kind = "NotFoundHandler"
        ELSE \E h \in best : last.handler.router = h[1]
    <3>1. /\ router = Absent => last.handler.kind = "NotFoundHandler"
          /\ router # Absent => last.handler.router = router
      BY <2>1, Created, ZenonT(40)
    <3> QED
      BY <2>3, <2>4, <2>5, <3>1, ZenonT(40)
  <2> QED
    BY <2>6, Zenon DEF MostSpecificRule, best, exact, prefix, regex
<1> QED
  BY <1>1, FactoryCorrect, PTL

(* The service cache has the first service of each name, with the          *)
(* addresses of its targets that resolve, in their order.                  *)
LEMMA CachedService ==
  ASSUME NEW c \in Configs, NEW resolving, NEW n \in DOMAIN c.services,
         \A m \in DOMAIN c.services : m < n => c.services[m].name # c.services[n].name
  PROVE  LET name  == c.services[n].name
             cache == ServiceCache(c.services, resolving)
         IN  /\ name \in DOMAIN cache
             /\ cache[name].config = c.services[n]
             /\ cache[name].addrs = Addrs(c.services[n].targets, resolving)
<1> DEFINE D == DOMAIN c.services
           name == c.services[n].name
           first == CHOOSE k \in D : /\ c.services[k].name = name
                                     /\ \A m \in D : m < k => c.services[m].name # name
<1>1. D \subseteq Nat
  <2>1. \A v : IsVector(v) => DOMAIN v \subseteq Nat
    BY DEF IsVector
  <2> QED
    BY <2>1, ConfigsAssumption, ZenonT(40)
<1>2. first = n
  <2>1. first \in D /\ c.services[first].name = name /\ \A m \in D : m < first => c.services[m].name # name
    BY Zenon
  <2> HIDE DEF first
  <2>2. ~ (first < n) /\ ~ (n < first)
    BY <2>1, Zenon
  <2>3. \A a, b \in Nat : ~ (a < b) /\ ~ (b < a) => a = b
    OBVIOUS
  <2> QED
    BY <1>1, <2>1, <2>2, <2>3, Zenon
<1>3. /\ name \in DOMAIN ServiceCache(c.services, resolving)
      /\ ServiceCache(c.services, resolving)[name] =
           [config |-> c.services[first], addrs |-> Addrs(c.services[first].targets, resolving)]
  BY Zenon DEF ServiceCache
<1> HIDE DEF first
<1> QED
  BY <1>2, <1>3

(* The addresses are those of the targets that resolve, and the first      *)
(* address is that of the first of them.                                   *)
LEMMA FirstAddress ==
  ASSUME NEW targets, IsVector(targets), NEW resolving, Addrs(targets, resolving) # << >>
  PROVE  /\ 1 \in DOMAIN targets
         /\ \E k \in DOMAIN targets :
              /\ targets[k] = Addrs(targets, resolving)[1]
              /\ \A j \in 1 .. (k - 1) : \A i \in DOMAIN Addrs(targets, resolving) :
                   Addrs(targets, resolving)[i] # targets[j]
<1> DEFINE I == {k \in DOMAIN targets : targets[k].host \in resolving}
           N == Cardinality(I)
           L == Len(targets)
           addrs == Addrs(targets, resolving)
<1>1. L \in Nat /\ DOMAIN targets = 1 .. L /\ I \in SUBSET (1 .. L)
  BY DEF IsVector
<1>2. addrs = Pick(targets, I)
  BY Zenon DEF Addrs
<1>3. \A k \in I : targets[k].host \in resolving
  OBVIOUS
<1>4. \A k \in 1 .. L : targets[k].host \in resolving => k \in I
  BY <1>1, Zenon
<1> HIDE DEF I, addrs, L
<1>5. /\ N \in Nat
      /\ \A k \in 1 .. N : Nth(I, k) \in I
      /\ \A k, l \in 1 .. N : k < l => Nth(I, k) < Nth(I, l)
      /\ \A i \in I : \E k \in 1 .. N : Nth(I, k) = i
  BY <1>1, NthProperties, Zenon
<1>6. DOMAIN addrs = 1 .. N /\ \A k \in 1 .. N : addrs[k] = targets[Nth(I, k)]
  BY <1>2, Zenon DEF Pick
<1> HIDE DEF N
<1>7. 1 \in 1 .. N
  <2>1. N # 0
    <3>1. N = 0 => addrs = << >>
      BY <1>2 DEF Pick, N
    <3> QED
      BY <3>1, Zenon DEF addrs
  <2> QED
    BY <1>5, <2>1
<1>8. PICK k \in I : k = Nth(I, 1)
  BY <1>5, <1>7, ZenonT(40)
<1>9. ASSUME NEW j \in 1 .. (k - 1), NEW i \in 1 .. N PROVE addrs[i] # targets[j]
  <2>1. k \in 1 .. L
    BY <1>1, Zenon
  <2>2. j \in 1 .. L /\ j < k
    BY <1>1, <2>1
  <2>3. \A m \in I : ~ (m < k)
    <3>1. \A l \in 1 .. N : l = 1 \/ 1 < l
      BY <1>5
    <3>2. \A l \in 1 .. N : Nth(I, l) = k \/ k < Nth(I, l)
      BY <1>5, <1>7, <1>8, <3>1, ZenonT(40)
    <3>3. \A m \in I : m = k \/ k < m
      BY <1>5, <3>2
    <3>4. \A a, b \in 1 .. L : a = b \/ b < a => ~ (a < b)
      BY <1>1
    <3> QED
      BY <1>1, <2>1, <3>3, <3>4, ZenonT(40)
  <2>4. targets[j].host \notin resolving
    BY <1>4, <2>2, <2>3, ZenonT(40)
  <2>5. addrs[i].host \in resolving
    BY <1>3, <1>5, <1>6, ZenonT(40)
  <2> QED
    BY <2>4, <2>5, ZenonT(40)
<1>10. targets[k] = addrs[1]
  BY <1>6, <1>7, <1>8, ZenonT(40)
<1>11. 1 \in DOMAIN targets /\ k \in DOMAIN targets
  BY <1>1, <1>8
<1> QED
  BY <1>6, <1>9, <1>10, <1>11, ZenonT(40) DEF addrs

(* Service n is the first of its name, and cached.                         *)
IsCached(name, n, resolving) ==
  /\ config.services[n].name = name
  /\ \A m \in DOMAIN config.services : config.services[m].name = name => n <= m
  /\ serviceCache[name].config = config.services[n]
  /\ serviceCache[name].addrs = Addrs(config.services[n].targets, resolving)

(* The cached service of a name is the first one that has it.              *)
LEMMA ServiceOf ==
  ASSUME config \in Configs, Built, NEW name, name \in DOMAIN serviceCache
  PROVE  \E n \in DOMAIN config.services, resolving \in SUBSET Hosts : IsCached(name, n, resolving)
<1> DEFINE D == DOMAIN config.services
           named == { k \in D : config.services[k].name = name }
<1>1. PICK resolving \in SUBSET Hosts : serviceCache = ServiceCache(config.services, resolving)
  BY Zenon DEF Built
<1>2. named # {}
  BY <1>1, Zenon DEF ServiceCache
<1>3. D \subseteq Nat
  <2>1. \A v : IsVector(v) => DOMAIN v \subseteq Nat
    BY DEF IsVector
  <2> QED
    BY <2>1, ConfigsAssumption, Zenon
<1>4. PICK n \in named : \A m \in named : n <= m
  BY <1>2, <1>3, Least, ZenonT(40)
<1>5. n \in D /\ config.services[n].name = name
  OBVIOUS
<1>6. \A m \in D : m < n => config.services[m].name # config.services[n].name
  <2>1. \A a, b \in Nat : a <= b => ~ (b < a)
    OBVIOUS
  <2>2. \A m \in named : ~ (m < n)
    BY <1>3, <1>4, <1>5, <2>1, ZenonT(40)
  <2> QED
    BY <1>5, <2>2, Zenon
<1>7. LET own == ServiceCache(config.services, resolving)[config.services[n].name]
      IN  /\ own.config = config.services[n]
          /\ own.addrs = Addrs(config.services[n].targets, resolving)
  BY <1>5, <1>6, CachedService, ZenonT(40)
<1>8. /\ serviceCache[name].config = config.services[n]
      /\ serviceCache[name].addrs = Addrs(config.services[n].targets, resolving)
  BY ONLY <1>1, <1>5, <1>7
<1>9. \A m \in D : config.services[m].name = name => n <= m
  BY <1>4, Zenon
<1>10. IsCached(name, n, resolving)
  BY <1>5, <1>8, <1>9, ZenonT(40) DEF IsCached
<1> QED
  BY <1>5, <1>10, Zenon

(* GatewayHandlerFactory goes to the first target that resolves of the     *)
(* first service with the router's destination name, and answers 502 when  *)
(* no service has that name, whichever of the targets resolve.             *)
THEOREM FirstServiceServes == Spec => []RightService
<1>1. FactoryInv => RightService
  <2> SUFFICES ASSUME FactoryInv, last # Absent, last.handler.router # Absent PROVE RightService
    BY Zenon DEF RightService
  <2> DEFINE router == last.handler.router
             name   == config.routers[router].destination
             named  == { n \in DOMAIN config.services : config.services[n].name = name }
             n      == CHOOSE n \in named : \A m \in named : n <= m
             targets == config.services[n].targets
             addrs  == serviceCache[name].addrs
  <2>1. config \in Configs /\ Built /\ last.handler = Create(Matched(last.path, last.method))
    BY Zenon DEF FactoryInv
  <2>2. last.handler = Create(router) /\ router # Absent
    BY <2>1, Created, ZenonT(40)
  <2>3. DOMAIN serviceCache = { config.services[k].name : k \in DOMAIN config.services }
    BY <2>1, Zenon DEF Built, ServiceCache
  <2> HIDE DEF router
  <2>4. /\ ~ Goes(name) => last.handler.kind = "BadGatewayHandler"
        /\ Goes(name) => last.handler.addr = addrs[1]
    BY <2>2, Created, ZenonT(40)
  <2>5. named = {} => last.handler.kind = "BadGatewayHandler"
    BY <2>3, <2>4, Zenon DEF Goes
  <2>6. ASSUME last.handler.kind = "GatewayHandler"
        PROVE  \E k \in DOMAIN targets :
                 /\ targets[k] = last.handler.addr
                 /\ \A j \in 1 .. (k - 1) : \A i \in DOMAIN addrs : addrs[i] # targets[j]
    <3>1. Goes(name)
      <4>1. "GatewayHandler" # "BadGatewayHandler"
        OBVIOUS
      <4> QED
        BY <2>4, <2>6, <4>1, ZenonT(40)
    <3>2. PICK first \in DOMAIN config.services, resolving \in SUBSET Hosts :
            IsCached(name, first, resolving)
      BY <2>1, <3>1, ServiceOf, Zenon DEF Goes
    <3>3. n = first
      <4>1. DOMAIN config.services \subseteq Nat
        <5>1. \A v : IsVector(v) => DOMAIN v \subseteq Nat
          BY DEF IsVector
        <5> QED
          BY <2>1, <5>1, ConfigsAssumption, Zenon
      <4>2. first \in named /\ \A m \in named : first <= m
        BY <3>2, Zenon DEF IsCached
      <4>3. n \in named /\ \A m \in named : n <= m
        BY <4>2, Zenon
      <4>4. \A a, b \in Nat : a <= b /\ b <= a => a = b
        OBVIOUS
      <4> HIDE DEF n
      <4> QED
        BY <4>1, <4>2, <4>3, <4>4, ZenonT(40)
    <3>4. addrs = Addrs(targets, resolving) /\ IsVector(targets)
      <4> HIDE DEF n, addrs
      <4>1. IsVector(config.services[first].targets)
        BY <2>1, ConfigsAssumption, Zenon
      <4>2. addrs = Addrs(config.services[first].targets, resolving)
        BY <3>2, Zenon DEF IsCached, addrs
      <4> QED
        BY ONLY <3>3, <4>1, <4>2
    <3>5. addrs # << >> /\ last.handler.addr = addrs[1]
      BY <2>4, <3>1, Zenon DEF Goes
    <3> HIDE DEF targets, addrs
    <3>6. Addrs(targets, resolving) # << >>
      BY <3>4, <3>5, Zenon
    <3>7. \E k \in DOMAIN targets :
            /\ targets[k] = Addrs(targets, resolving)[1]
            /\ \A j \in 1 .. (k - 1) : \A i \in DOMAIN Addrs(targets, resolving) :
                 Addrs(targets, resolving)[i] # targets[j]
      BY <3>4, <3>6, FirstAddress, ZenonT(90)
    <3> QED
      BY ONLY <3>4, <3>5, <3>7
  <2> QED
    BY <2>5, <2>6, Zenon DEF RightService, router
<1> QED
  BY <1>1, FactoryCorrect, PTL

(* The Host header that GatewayHandler::onEOM writes, read back with the   *)
(* default port of the protocol where it names none, is the first target   *)
(* of the service unless the router rewrites it.                           *)
THEOREM HostHeaderFaithful == Spec => []HostReadsBack
<1>1. FactoryInv => HostReadsBack
  <2> DEFINE router  == config.routers[last.handler.router]
             name    == router.destination
             service == serviceCache[name].config
             target  == service.targets[1]
             host    == last.handler.host
             port    == IF host.port # Absent THEN host.port
                        ELSE IF service.protocol = "HTTPS" THEN 443 ELSE 80
  <2> SUFFICES ASSUME FactoryInv, last # Absent, last.handler.kind = "GatewayHandler",
                      router.rewriteHost = Absent
               PROVE  [host |-> host.host, port |-> port] = target
    BY Zenon DEF HostReadsBack
  <2>1. config \in Configs /\ Built /\ last.handler = Create(Matched(last.path, last.method))
    BY Zenon DEF FactoryInv
  <2>2. last.handler.router = Matched(last.path, last.method) /\ last.handler.router # Absent
    <3>1. "GatewayHandler" # "NotFoundHandler"
      OBVIOUS
    <3>2. \A r : /\ r = Absent => Create(r).kind = "NotFoundHandler"
                 /\ r # Absent => Create(r).router = r
      BY Created, Zenon
    <3> QED
      BY <2>1, <3>1, <3>2, Zenon
  <2>3. Goes(name) /\ host = HostHeader(router, service)
    <3>1. "GatewayHandler" # "BadGatewayHandler"
      OBVIOUS
    <3> QED
      BY <2>1, <2>2, <3>1, Created, ZenonT(40)
  <2>4. PICK n \in DOMAIN config.services, resolving \in SUBSET Hosts : IsCached(name, n, resolving)
    BY <2>1, <2>3, ServiceOf, Zenon DEF Goes
  <2>5. PICK vector : vector = config.services[n].targets
    BY Zenon
  <2>6. /\ target = [host |-> target.host, port |-> target.port]
        /\ target.port # Absent
    <3>1. IsVector(vector) /\ \A k \in DOMAIN vector :
            vector[k] = [host |-> vector[k].host, port |-> vector[k].port] /\ vector[k].port # Absent
      BY <2>1, <2>5, ConfigsAssumption, ZenonT(40)
    <3>2. Addrs(vector, resolving) # << >>
      BY <2>3, <2>4, <2>5, ZenonT(40) DEF Goes, IsCached
    <3>3. 1 \in DOMAIN vector
      BY <3>1, <3>2, FirstAddress, ZenonT(40)
    <3>4. target = vector[1]
      BY <2>4, <2>5, Zenon DEF IsCached
    <3> HIDE DEF target
    <3> QED
      BY ONLY <3>1, <3>3, <3>4
  <2>7. host = [host |-> target.host,
                port |-> IF IsDefaultPort(service.protocol, target.port) THEN Absent ELSE target.port]
    BY <2>3, Zenon DEF HostHeader
  <2> HIDE DEF target, service, host
  <2>8. host.host = target.host /\ port = target.port
    BY ONLY <2>6, <2>7 DEF IsDefaultPort, port
  <2> QED
    BY <2>6, <2>8, Zenon
<1> QED
  BY <1>1, FactoryCorrect, PTL

(* An index that is not the first has the first before it.                 *)
LEMMA OneBelow ==
  ASSUME NEW n \in Nat, NEW k \in 1 .. n
  PROVE  k = 1 \/ 1 \in 1 .. (k - 1)
OBVIOUS

(* GatewayHandler connects to addrs[0] and names targets[0] in the Host    *)
(* header; the two are the same target whenever the first one resolved,    *)
(* whatever became of the others.                                          *)
THEOREM HostHeaderOfKnownTarget == Spec => []HostNamesKnownTarget
<1>1. FactoryInv => HostNamesKnownTarget
  <2> DEFINE router == config.routers[last.handler.router]
             name   == router.destination
             cached == serviceCache[name]
             first  == cached.config.targets[1]
  <2> SUFFICES ASSUME FactoryInv, last # Absent, last.handler.kind = "GatewayHandler",
                      router.rewriteHost = Absent,
                      \E i \in DOMAIN cached.addrs : cached.addrs[i] = first
               PROVE  last.handler.addr = first /\ last.handler.host.host = first.host
    BY Zenon DEF HostNamesKnownTarget
  <2>1. config \in Configs /\ Built /\ last.handler = Create(Matched(last.path, last.method))
    BY Zenon DEF FactoryInv
  <2>2. last.handler.router = Matched(last.path, last.method) /\ last.handler.router # Absent
    <3>1. "GatewayHandler" # "NotFoundHandler"
      BY Zenon
    <3>2. \A r : /\ r = Absent => Create(r).kind = "NotFoundHandler"
                 /\ r # Absent => Create(r).router = r
      BY Created, ZenonT(40)
    <3> QED
      BY <2>1, <3>1, <3>2, ZenonT(60)
  <2>3. /\ Goes(name) /\ last.handler.addr = cached.addrs[1]
        /\ last.handler.host = HostHeader(router, cached.config)
    <3>1. "GatewayHandler" # "BadGatewayHandler"
      BY Zenon
    <3> QED
      BY <2>1, <2>2, <3>1, Created, ZenonT(60)
  <2>4. PICK n \in DOMAIN config.services, resolving \in SUBSET Hosts : IsCached(name, n, resolving)
    BY <2>1, <2>3, ServiceOf, Zenon DEF Goes
  <2>5. PICK targets : targets = config.services[n].targets
    BY Zenon
  <2>6. IsVector(targets) /\ cached.addrs = Addrs(targets, resolving) /\ first = targets[1]
    <3>1. IsVector(targets)
      BY <2>1, <2>5, ConfigsAssumption, ZenonT(40)
    <3> QED
      BY <2>4, <2>5, <3>1, Zenon DEF IsCached
  <2>7. PICK k \in DOMAIN targets :
          /\ targets[k] = Addrs(targets, resolving)[1]
          /\ \A j \in 1 .. (k - 1) : \A i \in DOMAIN Addrs(targets, resolving) :
               Addrs(targets, resolving)[i] # targets[j]
    <3>1. Addrs(targets, resolving) # << >>
      BY <2>3, <2>6, Zenon DEF Goes
    <3> QED
      BY <2>6, <3>1, FirstAddress, ZenonT(90)
  <2>8. k = 1
    <3>1. k = 1 \/ 1 \in 1 .. (k - 1)
      BY <2>6, OneBelow, Zenon DEF IsVector
    <3> QED
      BY <2>6, <2>7, <3>1, ZenonT(40)
  <2>9. last.handler.addr = first
    BY <2>3, <2>6, <2>7, <2>8, ZenonT(40)
  <2>10. HostHeader(router, cached.config).host = first.host
    BY ZenonT(40) DEF HostHeader
  <2> QED
    BY <2>3, <2>9, <2>10, Zenon
<1> QED
  BY <1>1, FactoryCorrect, PTL
=============================================================================
