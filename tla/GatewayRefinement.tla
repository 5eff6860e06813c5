-------------------------- MODULE GatewayRefinement --------------------------
(***************************************************************************)
(* GatewayRequest implements ReverseProxy: what of a request's state the   *)
(* promise is about.                                                       *)
(***************************************************************************)
EXTENDS GatewayRequest

(* A request is admitted when GatewayHandler has its headers, and the      *)
(* upstream has been asked when there is a transaction with it.            *)
VerdictOf(r) ==
  IF down[r] = "idle" THEN "pending"
  ELSE IF headers[r] # NoMsg THEN "pass" ELSE "refuse"

AskedOf(r) == IF upstream[r] = "none" THEN "unasked" ELSE "asked"

(* Interim responses are not yet a response.                               *)
StageOf(e) ==
  CASE e \in {"none", "interim"} -> "none"
    [] e = "headers" -> "started"
    [] e = "eom" -> "complete"
    [] e = "aborted" -> "cut"
    [] OTHER -> "broken"

ByOf(rep) ==
  CASE rep = "none" -> "none" [] rep = "upstream" -> "upstream" [] OTHER -> "gateway"

ViewOf(r) ==
  [verdict |-> VerdictOf(r), upstream |-> AskedOf(r),
   stage |-> StageOf(egress[r]), by |-> ByOf(reply[r])]

viewBar == [r \in Requests |-> ViewOf(r)]

Proxy == INSTANCE ReverseProxy WITH view <- viewBar

(* Filters, GatewayHandler and UpstreamClient together do what a reverse   *)
(* proxy promises: no upstream is asked for a request that was refused or  *)
(* answered, or twice; no response is begun twice, mixed from two sources  *)
(* or resumed after it was cut.                                            *)
RefinesProxy == Proxy!Spec
=============================================================================
