----------------------------- MODULE MCRouting -----------------------------
(***************************************************************************)
(* Small configurations for Routing.  Characters are "/", "a" and "b", and *)
(* "*" stands for the regular expression .* at the end of a path.          *)
(***************************************************************************)
EXTENDS Routing

PathSet == { <<"/">>, <<"/", "a">>, <<"/", "b">>, <<"/", "a", "b">> }

Texts == PathSet \cup { << >>, <<"/", "*">>, <<"/", "a", "*">>, <<"*">> }

(* A text without "*" matches itself; "*" alone does not compile.          *)
Meaning ==
  [t \in Texts |->
     IF t = <<"*">> THEN Invalid
     ELSE IF t # << >> /\ t[Len(t)] = "*"
       THEN { p \in PathSet : /\ Len(p) >= Len(t) - 1
                              /\ SubSeq(p, 1, Len(t) - 1) = SubSeq(t, 1, Len(t) - 1) }
       ELSE {t}]

Rl(path, type, methods) == [path |-> path, pathType |-> type, methods |-> methods]

Router(rules, destination) ==
  [rules |-> rules, destination |-> destination, rewriteHost |-> Absent]

Target(host, port) == [host |-> host, port |-> port]

Service(name, protocol, targets) == [name |-> name, protocol |-> protocol, targets |-> targets]

Services == << Service("s", "HTTP", <<Target("h1", 80), Target("h2", 8080)>>),
               Service("t", "HTTPS", <<Target("h2", 80)>>),
               Service("s", "HTTP", <<Target("h3", 443)>>),
               Service("none", "HTTP", << >>),
               Service("u", "HTTPS", <<Target("h3", 443)>>),
               Service("v", "HTTP", <<Target("h3", 443)>>) >>

Exact == Rl(<<"/", "a">>, "Exact", {"GET"})
Short == Rl(<<"/">>, "Prefix", {})
Long  == Rl(<<"/", "a">>, "Prefix", {"POST"})
Regex == Rl(<<"/", "a", "*">>, "Regex", {})
Every == Rl(<<"/", "*">>, "Regex", {})
Bad   == Rl(<<"*">>, "Regex", {})
Empty == Rl(<< >>, "Prefix", {"POST"})
Plain == Rl(<<"/", "a">>, Absent, {})

RuleSet == {Exact, Short, Long, Regex, Every, Bad, Empty, Plain}

(* Two routers: one with two different rules, one with a single rule, for  *)
(* every choice of rules.                                                  *)
AllConfigs ==
  { [services |-> Services,
     routers |-> << Router(<<x, y>>, "s"), Router(<<z>>, d) >>] :
      x \in {Short, Regex, Bad, Long}, y \in {Exact, Long, Every}, z \in RuleSet,
      d \in {"t", "unknown"} }
  \cup
  { [services |-> Services, routers |-> << Router(<<x, x>>, d) >>] :
      x \in RuleSet, d \in {Absent, "none", "u", "v"} }
  \cup
  { [services |-> Services,
     routers |-> << [Router(<<Every>>, d) EXCEPT !.rewriteHost = "example.com"] >>] :
      d \in {"s", "u"} }

OneRouter(rule) == { [services |-> Services, routers |-> << Router(<<rule>>, "s") >>] }

PrefixConfig == OneRouter(Short)
=============================================================================
