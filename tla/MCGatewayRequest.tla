-------------------------- MODULE MCGatewayRequest --------------------------
(***************************************************************************)
(* Small instances of GatewayRequest.  The filter chains are the ones      *)
(* PolicyEngine builds from a small configuration.                         *)
(***************************************************************************)
EXTENDS GatewayRefinement

Engine == INSTANCE PolicyEngine

(* One key set, one policy that asks for an issuer and one that does not.  *)
Key == [kid |-> "k1", x5c |-> TRUE, key |-> "rsa1"]

AnyIssuer == [issuer |-> Absent, audience |-> Absent, parses |-> TRUE, keys |-> <<Key>>]

OneIssuer == [issuer |-> "idp", audience |-> "api", parses |-> TRUE, keys |-> <<Key>>]

Policies == << [name |-> "strict", order |-> 5, jwt |-> "cfg1"],
               [name |-> "lax", order |-> 7, jwt |-> "cfg2"],
               [name |-> "plain", order |-> 1, jwt |-> Absent] >>

Caches == [name \in {"strict", "lax"} |->
             IF name = "strict" THEN OneIssuer ELSE AnyIssuer]

ChainsFor(names) == Engine!BuildChain(Policies, Caches, names)

Proxied(names) ==
  { [terminal |-> "GatewayHandler", filters |-> f] : f \in ChainsFor(names) }

ErrorRoutes ==
  { [terminal |-> t, filters |-> << >>] : t \in {"NotFoundHandler", "BadGatewayHandler"} }

AllRoutes ==
  ErrorRoutes \cup Proxied(<< >>) \cup Proxied(<<"strict", "plain">>)
              \cup Proxied(<<"lax", "strict">>)

FewRoutes == Proxied(<<"strict">>)

TwoPolicyRoutes == Proxied(<<"lax", "strict">>)

Token == [valid |-> TRUE, kid |-> Absent, signer |-> "rsa1",
          iss |-> "idp", aud |-> "api", sub |-> "alice"]

Auths ==
  { Absent, [bearer |-> FALSE, token |-> Token] } \cup
  { [bearer |-> TRUE, token |-> t] :
      t \in {Token, [Token EXCEPT !.kid = "k1", !.aud = "web"],
             [Token EXCEPT !.sub = Absent], [Token EXCEPT !.kid = "k2"]} }

Msg(rid, tid, auth) == [rid |-> rid, tid |-> tid, auth |-> auth, subject |-> Absent]

Good == [bearer |-> TRUE, token |-> Token]

(* Every Authorization header, and every way to send the two ids.          *)
AllMessages ==
  { Msg(Absent, Absent, a) : a \in Auths } \cup
  { Msg(rid, tid, Good) : rid \in {Absent, "rid"}, tid \in {Absent, "tid"} }

FewMessages == { Msg(Absent, Absent, a) : a \in {Absent, Good} }
=============================================================================
