-------------------------- MODULE GatewayRequestInv -------------------------
(***************************************************************************)
(* The inductive invariant behind the theorems about GatewayRequest, and   *)
(* that every callback keeps it.                                           *)
(***************************************************************************)
EXTENDS GatewayRequest, TLAPS

-----------------------------------------------------------------------------
(* The inductive invariant, per request.                                   *)

Nil == << >>

(* Nothing exists for a request that has not arrived.                      *)
Idle(r) ==
  down[r] = "idle" =>
    /\ ~ err[r]
    /\ egress[r] = "none"
    /\ reply[r] = "none"
    /\ blocked[r] = Nil
    /\ headers[r] = NoMsg
    /\ body[r] = Nil
    /\ client[r] = "none"

(* When the chain is deleted: by an error, or once the transaction is over *)
(* with a complete response.                                               *)
ChainLife(r) ==
  /\ chain[r] = "none" <=> down[r] = "idle"
  /\ err[r] => chain[r] = "deleted"
  /\ chain[r] = "deleted" => err[r] \/ (down[r] = "detached" /\ egress[r] = "eom")

SomeBlocked(r) == \E i \in 1 .. Len(blocked[r]) : blocked[r][i]

Accepted(r) ==
  \A i \in 1 .. Len(route[r].filters) :
    route[r].filters[i].kind = "JwtPolicy"
      => JwtAllows(route[r].filters[i].cache, request[r].auth)

(* What the filters let through, GatewayHandler has; what they blocked it  *)
(* has not, and that has been answered.                                    *)
Filtered(r) ==
  /\ SomeBlocked(r) => /\ client[r] = "none"
                       /\ headers[r] = NoMsg
                       /\ body[r] = Nil
                       /\ egress[r] # "none"
  /\ headers[r] # NoMsg => Accepted(r)
  /\ down[r] # "idle" /\ Forwards(r) => headers[r] # NoMsg

(* Before there is an UpstreamClient.                                      *)
NoClient(r) ==
  client[r] = "none" =>
    /\ upstream[r] = "none"
    /\ upReq[r] = NoMsg
    /\ reply[r] # "upstream"
    /\ ~ dangling[r]
    /\ egress[r] \in {"none", "eom", "aborted"}
    /\ ~ err[r] /\ down[r] = "receiving" =>
         egress[r] = IF Forwards(r) THEN "none" ELSE "eom"
    /\ ~ err[r] /\ down[r] \notin {"idle", "receiving"} => egress[r] = "eom"

(* From then on.                                                           *)
HasClient(r) ==
  client[r] # "none" =>
    /\ down[r] \in {"received", "detached"}
    /\ Forwards(r)
    /\ upReq[r].msg = headers[r]

ClientLife(r) ==
  /\ client[r] = "connecting" => upstream[r] = "none"
  /\ client[r] = "active" => upstream[r] \in {"open", "interim", "headers", "eom", "failed"}
  /\ client[r] = "deleted" => upstream[r] \in {"none", "detached"}

(* The upstream's progress, headersSent_ and the chunks.                   *)
Progress(r) ==
  /\ upstream[r] \in {"none", "open"} => ~ headersSent[r]
  /\ upstream[r] \in {"interim", "headers", "eom"} => headersSent[r]
  /\ upstream[r] \in {"none", "open", "interim"} => upChunks[r] = 0 /\ relayed[r] = 0
  /\ upEnded[r] => upstream[r] \in {"eom", "failed", "detached"}
  /\ relayed[r] <= upChunks[r]

(* As long as the downstream transaction has not failed, what the client   *)
(* has been sent is what the upstream has sent so far.                     *)
InStep(r) ==
  ~ err[r] =>
    /\ client[r] = "connecting" => egress[r] = "none"
    /\ upstream[r] = "open" => egress[r] = "none"
    /\ upstream[r] = "interim" => egress[r] = "interim"
    /\ upstream[r] = "headers" => /\ egress[r] = "headers"
                                  /\ reply[r] = "upstream"
                                  /\ relayed[r] = upChunks[r]
    /\ upstream[r] = "eom" => egress[r] = "eom"
    /\ ~ dangling[r]

Answered(r) ==
  /\ egress[r] # "broken"
  /\ egress[r] = "none" => reply[r] = "none"
  /\ egress[r] = "interim" => reply[r] # "upstream"
  /\ egress[r] = "eom" /\ reply[r] = "upstream"
       => upEnded[r] /\ relayed[r] = upChunks[r]

RInv(r) ==
  /\ Idle(r)
  /\ ChainLife(r)
  /\ Filtered(r)
  /\ NoClient(r)
  /\ HasClient(r)
  /\ ClientLife(r)
  /\ Progress(r)
  /\ InStep(r)
  /\ Answered(r)

Domains ==
  /\ DOMAIN request = Requests
  /\ DOMAIN headers = Requests
  /\ DOMAIN upReq = Requests

IInv == TypeOK /\ Domains /\ \A r \in Requests : RInv(r)

-----------------------------------------------------------------------------
(* Facts about one request, used for every action.                         *)

(* The types at request r of the state that RInv(r) is about.              *)
TypedAt(r) ==
  /\ down[r] \in {"idle", "receiving", "received", "upgraded", "detached"}
  /\ err[r] \in BOOLEAN
  /\ egress[r] \in {"none", "interim", "headers", "eom", "aborted", "broken"}
  /\ chain[r] \in {"none", "alive", "deleted"}
  /\ client[r] \in {"none", "connecting", "active", "deleted"}
  /\ upstream[r] \in {"none", "open", "interim", "headers", "eom", "failed", "detached"}
  /\ headersSent[r] \in BOOLEAN
  /\ upEnded[r] \in BOOLEAN
  /\ dangling[r] \in BOOLEAN
  /\ upChunks[r] \in Nat
  /\ relayed[r] \in Nat

(* What a step may leave alone at request q.                               *)
KeepsAnswer(q) == egress'[q] = egress[q] /\ reply'[q] = reply[q]

KeepsDown(q) == down'[q] = down[q] /\ err'[q] = err[q]

KeepsFilters(q) ==
  route'[q] = route[q] /\ blocked'[q] = blocked[q] /\ request'[q] = request[q]

KeepsHandler(q) == headers'[q] = headers[q] /\ body'[q] = body[q]

KeepsClient(q) == client'[q] = client[q] /\ upReq'[q] = upReq[q]

KeepsUpstream(q) ==
  /\ upstream'[q] = upstream[q] /\ headersSent'[q] = headersSent[q]
  /\ upChunks'[q] = upChunks[q] /\ upEnded'[q] = upEnded[q] /\ relayed'[q] = relayed[q]

Same(q) ==
  /\ KeepsAnswer(q) /\ KeepsDown(q) /\ KeepsFilters(q) /\ KeepsHandler(q)
  /\ KeepsClient(q) /\ KeepsUpstream(q)
  /\ chain'[q] = chain[q] /\ dangling'[q] = dangling[q]

(* The invariant at request r.                                             *)
LEMMA AtRequest ==
  ASSUME IInv, NEW r \in Requests
  PROVE  RInv(r) /\ TypedAt(r) /\ (Forwards(r) => ~ SomeBlocked(r))
<1>1. TypedAt(r)
  BY ChunksAssumption DEF IInv, TypeOK, TypedAt
<1>2. Forwards(r) => ~ SomeBlocked(r)
  BY DEF Forwards, SomeBlocked
<1> QED
  BY <1>1, <1>2 DEF IInv

(* A step that leaves the chain's filters and their input alone leaves     *)
(* alone what they forward, block and accept.                              *)
LEMMA FiltersKept ==
  ASSUME NEW q \in Requests, KeepsFilters(q)
  PROVE  /\ Forwards(q)' <=> Forwards(q)
         /\ SomeBlocked(q)' <=> SomeBlocked(q)
         /\ Accepted(q)' <=> Accepted(q)
BY DEF KeepsFilters, Forwards, SomeBlocked, Accepted

(* One more chunk from the upstream, relayed or not, leaves the number of  *)
(* relayed chunks within the number received.                              *)
LEMMA ChunkCounts ==
  \A m, n \in Nat : m <= n => m <= n + 1 /\ m + 1 <= n + 1
OBVIOUS

(* A request whose state a step leaves alone (see Same) keeps RInv.        *)
LEMMA Frame ==
  ASSUME NEW q \in Requests, RInv(q), Same(q)
  PROVE  RInv(q)'
<1>1. /\ Forwards(q)' <=> Forwards(q)
      /\ SomeBlocked(q)' <=> SomeBlocked(q)
      /\ Accepted(q)' <=> Accepted(q)
  BY FiltersKept DEF Same
<1>2. /\ KeepsAnswer(q) /\ KeepsDown(q) /\ KeepsHandler(q) /\ KeepsClient(q)
      /\ KeepsUpstream(q) /\ chain'[q] = chain[q] /\ dangling'[q] = dangling[q]
      /\ blocked'[q] = blocked[q]
  BY DEF Same, KeepsFilters
<1> USE <1>1, <1>2 DEF RInv, KeepsAnswer, KeepsDown, KeepsHandler, KeepsClient, KeepsUpstream
<1>3. Idle(q)' /\ ChainLife(q)'
  BY ZenonT(30) DEF Idle, ChainLife
<1>4. Filtered(q)'
  BY ZenonT(30) DEF Filtered
<1>5. NoClient(q)'
  BY ZenonT(30) DEF NoClient
<1>6. HasClient(q)' /\ ClientLife(q)'
  BY ZenonT(30) DEF HasClient, ClientLife
<1>7. Progress(q)' /\ InStep(q)'
  BY ZenonT(30) DEF Progress, InStep
<1>8. Answered(q)'
  BY ZenonT(30) DEF Answered
<1> QED
  BY <1>3, <1>4, <1>5, <1>6, <1>7, <1>8, Zenon

(* What a send on downstream_ does: it reaches the client or, when the     *)
(* chain is gone, is recorded as dangling; other requests see nothing.     *)
LEMMA SendAt ==
  ASSUME IInv, NEW r \in Requests, NEW e, NEW rep, Send(r, e, rep)
  PROVE  /\ \/ /\ chain[r] = "alive"
               /\ egress'[r] = e /\ reply'[r] = rep /\ dangling'[r] = dangling[r]
            \/ /\ chain[r] # "alive"
               /\ KeepsAnswer(r) /\ dangling'[r] = TRUE
         /\ \A q \in Requests : q # r => KeepsAnswer(q) /\ dangling'[q] = dangling[q]
<1>1. DOMAIN egress = Requests /\ DOMAIN reply = Requests /\ DOMAIN dangling = Requests
  BY Zenon DEF IInv, TypeOK
<1>2. CASE chain[r] = "alive"
  <2>1. /\ egress' = [egress EXCEPT ![r] = e] /\ reply' = [reply EXCEPT ![r] = rep]
        /\ dangling' = dangling
    BY <1>2, Zenon DEF Send
  <2>2. \A q \in Requests : q # r => KeepsAnswer(q) /\ dangling'[q] = dangling[q]
    BY <1>1, <2>1, Zenon DEF KeepsAnswer
  <2> QED
    BY <1>1, <1>2, <2>1, <2>2, Zenon
<1>3. CASE chain[r] # "alive"
  <2>1. dangling' = [dangling EXCEPT ![r] = TRUE] /\ egress' = egress /\ reply' = reply
    BY <1>3, Zenon DEF Send
  <2>2. \A q \in Requests : q # r => KeepsAnswer(q) /\ dangling'[q] = dangling[q]
    BY <1>1, <2>1, Zenon DEF KeepsAnswer
  <2> QED
    BY <1>1, <1>3, <2>1, <2>2, Zenon DEF KeepsAnswer
<1> QED
  BY <1>2, <1>3, Zenon

(* The types of what a send changes.                                       *)
LEMMA SendTyped ==
  ASSUME IInv, NEW r \in Requests, NEW e, NEW rep, Send(r, e, rep),
         e \in {"none", "interim", "headers", "eom", "aborted", "broken"},
         rep \in {"none", "400", "401", "404", "408", "429", "502", "upstream"}
  PROVE  /\ egress' \in [Requests -> {"none", "interim", "headers", "eom", "aborted", "broken"}]
         /\ reply' \in [Requests -> {"none", "400", "401", "404", "408", "429", "502", "upstream"}]
         /\ dangling' \in [Requests -> BOOLEAN]
         /\ process' \in {"up", "crashed"}
<1>1. /\ egress \in [Requests -> {"none", "interim", "headers", "eom", "aborted", "broken"}]
      /\ reply \in [Requests -> {"none", "400", "401", "404", "408", "429", "502", "upstream"}]
      /\ dangling \in [Requests -> BOOLEAN]
      /\ process \in {"up", "crashed"}
  BY DEF IInv, TypeOK
<1>2. CASE chain[r] = "alive"
  BY <1>1, <1>2 DEF Send
<1>3. CASE chain[r] # "alive"
  BY <1>1, <1>3, Zenon DEF Send
<1> QED
  BY <1>2, <1>3

-----------------------------------------------------------------------------
(* The callbacks of the downstream transaction keep the invariant.         *)

(* The flags of new filters are a sequence of n Booleans, all FALSE; with   *)
(* flag n set it is still a sequence of Booleans.                          *)
LEMMA Flags ==
  ASSUME NEW len \in Nat
  PROVE  /\ FreshFlags(len) \in Seq(BOOLEAN)
         /\ Len(FreshFlags(len)) = len
         /\ \A i \in 1 .. len : FreshFlags(len)[i] = FALSE
         /\ \A n \in 1 .. len :
              LET flags == [FreshFlags(len) EXCEPT ![n] = TRUE]
              IN  flags \in Seq(BOOLEAN) /\ Len(flags) = len /\ flags[n] = TRUE
BY DEF FreshFlags

(* A request that passes a chain was accepted by each JwtPolicy of it on   *)
(* the Authorization header the client sent: a second JwtPolicy would find *)
(* the header gone, and would not pass it.                                 *)
LEMMA PassesVerified ==
  ASSUME NEW filters, NEW msg, NEW outcome, Len(filters) \in Nat,
         Passes(filters, msg, outcome),
         NEW i \in 1 .. Len(filters), filters[i].kind = "JwtPolicy"
  PROVE  JwtAllows(filters[i].cache, msg.auth)
<1>1. JwtAllows(filters[i].cache, AuthAt(filters, i, msg))
  BY Zenon DEF Passes, Blocks
<1>2. AuthAt(filters, i, msg) # Absent
  BY <1>1, Zenon DEF JwtAllows
<1>3. AuthAt(filters, i, msg) = msg.auth
  BY <1>2, Zenon DEF AuthAt
<1> QED
  BY <1>1, <1>3, Zenon

(* An error handler's answer keeps the invariant.                          *)
LEMMA OnRequestRejectedInv ==
  ASSUME IInv, NEW r \in Requests, NEW rt \in Routes,
         OnRequestRejected(r, rt)
  PROVE  IInv'
<1>0. /\ rt.terminal \in {"GatewayHandler", "NotFoundHandler", "BadGatewayHandler"}
      /\ Len(rt.filters) \in Nat
      /\ TypeOK /\ Domains
  BY RoutesAssumption, Zenon DEF IInv
<1>a. RInv(r) /\ TypedAt(r) /\ down[r] = "idle"
  BY AtRequest, Zenon DEF OnRequestRejected, Arrive
<1>1. TypeOK'
  BY <1>0, <1>a, Zenon DEF TypeOK, RInv, Idle, Nil, OnRequestRejected, Arrive, AfterAll,
     upVars
<1>2. Domains'
  BY Zenon DEF IInv, Domains, OnRequestRejected, Arrive, AfterAll, upVars
<1>3. ASSUME NEW q \in Requests, q # r PROVE RInv(q)'
  <2>1. Same(q)
    BY <1>3, Zenon DEF IInv, TypeOK, Domains, Same, KeepsAnswer, KeepsDown, KeepsFilters,
       KeepsHandler, KeepsClient, KeepsUpstream, OnRequestRejected, Arrive, AfterAll, upVars
  <2> QED
    BY <2>1, Frame, Zenon DEF IInv
<1>4. RInv(r)'
  <2>1. /\ down'[r] = "receiving" /\ err'[r] = err[r] /\ chain'[r] = "alive"
        /\ route'[r] = rt /\ body'[r] = body[r]
        /\ KeepsClient(r) /\ KeepsUpstream(r) /\ dangling'[r] = dangling[r]
        /\ blocked'[r] = blocked[r] /\ headers'[r] = headers[r]
        /\ egress'[r] = AfterAll(egress[r]) /\ reply'[r] \in {"404", "502"}
    BY <1>0, Zenon DEF TypeOK, Domains, KeepsAnswer, KeepsClient, KeepsUpstream,
       OnRequestRejected, Arrive, AfterAll, upVars
  <2>2. ~ Forwards(r)' /\ ~ SomeBlocked(r)'
    BY <1>a, <2>1 DEF Forwards, SomeBlocked, OnRequestRejected, RInv, Idle, Nil
  <2> QED
    BY <1>a, <2>1, <2>2, ZenonT(60) DEF TypedAt, KeepsAnswer, KeepsClient, KeepsUpstream,
       AfterAll, RInv, Idle,
       ChainLife, Filtered, NoClient, HasClient, ClientLife, Progress, InStep, Answered
<1> QED
  BY <1>1, <1>2, <1>3, <1>4, Zenon DEF IInv

(* blockRequest in any of the filters keeps the invariant.                 *)
LEMMA OnRequestBlockedInv ==
  ASSUME IInv, NEW r \in Requests, NEW rt \in Routes, NEW msg \in Messages,
         NEW outcome \in StoreOutcomes, NEW n \in 1 .. Len(rt.filters),
         OnRequestBlocked(r, rt, msg, outcome, n)
  PROVE  IInv'
<1>0. /\ rt.terminal \in {"GatewayHandler", "NotFoundHandler", "BadGatewayHandler"}
      /\ Len(rt.filters) \in Nat
      /\ TypeOK /\ Domains
  BY RoutesAssumption, Zenon DEF IInv
<1>a. RInv(r) /\ TypedAt(r) /\ down[r] = "idle"
  BY AtRequest, Zenon DEF OnRequestBlocked, Arrive
<1>b. /\ n \in 1 .. Len(blocked'[r])
      /\ blocked'[r][n] = TRUE
      /\ blocked' \in [Requests -> Seq(BOOLEAN)]
  <2> DEFINE flags == [FreshFlags(Len(rt.filters)) EXCEPT ![n] = TRUE]
  <2>1. flags \in Seq(BOOLEAN) /\ n \in 1 .. Len(flags) /\ flags[n] = TRUE
    BY <1>0, Flags, Zenon
  <2>2. blocked' = [blocked EXCEPT ![r] = flags] /\ blocked \in [Requests -> Seq(BOOLEAN)]
    BY <1>0, Zenon DEF TypeOK, OnRequestBlocked
  <2> HIDE DEF flags
  <2> QED
    BY <2>1, <2>2, Zenon
<1>1. TypeOK'
  <2>1. /\ egress' \in [Requests -> {"none", "interim", "headers", "eom", "aborted", "broken"}]
        /\ reply' \in [Requests -> {"none", "400", "401", "404", "408", "429", "502", "upstream"}]
    BY <1>0, Zenon DEF TypeOK, OnRequestBlocked, AfterAll, BlockStatus
  <2>2. /\ down' \in [Requests -> {"idle", "receiving", "received", "upgraded", "detached"}]
        /\ route' \in [Requests -> Routes \cup {Bare}]
        /\ chain' \in [Requests -> {"none", "alive", "deleted"}]
    BY <1>0, Zenon DEF TypeOK, OnRequestBlocked, Arrive
  <2> QED
    BY <1>0, <1>b, <2>1, <2>2, Zenon DEF TypeOK, OnRequestBlocked, Arrive, upVars
<1>2. Domains'
  BY Zenon DEF IInv, Domains, OnRequestBlocked, Arrive, AfterAll, BlockStatus, upVars
<1>3. ASSUME NEW q \in Requests, q # r PROVE RInv(q)'
  <2>1. Same(q)
    BY <1>3, Zenon DEF IInv, TypeOK, Domains, Same, KeepsAnswer, KeepsDown, KeepsFilters,
       KeepsHandler, KeepsClient, KeepsUpstream, OnRequestBlocked, Arrive, AfterAll, BlockStatus, upVars
  <2> QED
    BY <2>1, Frame, Zenon DEF IInv
<1>4. RInv(r)'
  <2>1. /\ down'[r] = "receiving" /\ err'[r] = err[r] /\ chain'[r] = "alive"
        /\ route'[r] = rt /\ body'[r] = body[r]
        /\ KeepsClient(r) /\ KeepsUpstream(r) /\ dangling'[r] = dangling[r]
        /\ headers'[r] = headers[r]
        /\ egress'[r] = AfterAll(egress[r]) /\ reply'[r] \in {"401", "429"}
    BY <1>0, Zenon DEF TypeOK, Domains, KeepsAnswer, KeepsClient, KeepsUpstream,
       OnRequestBlocked, Arrive, AfterAll, BlockStatus, upVars
  <2>2. ~ Forwards(r)' /\ SomeBlocked(r)'
    BY <1>b, Zenon DEF Forwards, SomeBlocked
  <2> QED
    BY <1>a, <2>1, <2>2, ZenonT(60) DEF TypedAt, KeepsAnswer, KeepsClient, KeepsUpstream,
       AfterAll, RInv, Idle,
       ChainLife, Filtered, NoClient, HasClient, ClientLife, Progress, InStep, Answered
<1> QED
  BY <1>1, <1>2, <1>3, <1>4, Zenon DEF IInv

(* A request that passes all the filters keeps the invariant.              *)
LEMMA OnRequestPassedInv ==
  ASSUME IInv, NEW r \in Requests, NEW rt \in Routes, NEW msg \in Messages,
         NEW outcome \in StoreOutcomes,
         OnRequestPassed(r, rt, msg, outcome)
  PROVE  IInv'
<1>0. /\ rt.terminal \in {"GatewayHandler", "NotFoundHandler", "BadGatewayHandler"}
      /\ Len(rt.filters) \in Nat
      /\ TypeOK /\ Domains
  BY RoutesAssumption, Zenon DEF IInv
<1>a. RInv(r) /\ TypedAt(r) /\ down[r] = "idle"
  BY AtRequest, Zenon DEF OnRequestPassed, Arrive
<1>b. /\ \A i \in 1 .. Len(blocked'[r]) : blocked'[r][i] = FALSE
      /\ blocked' \in [Requests -> Seq(BOOLEAN)]
  BY <1>0, Flags, ZenonT(60) DEF TypeOK, OnRequestPassed
<1>1. TypeOK'
  BY <1>0, <1>a, <1>b, Zenon DEF TypeOK, RInv, Idle, Nil, OnRequestPassed, Arrive, upVars
<1>2. Domains'
  BY Zenon DEF IInv, Domains, OnRequestPassed, Arrive, upVars
<1>3. ASSUME NEW q \in Requests, q # r PROVE RInv(q)'
  <2>1. Same(q)
    BY <1>3, Zenon DEF IInv, TypeOK, Domains, Same, KeepsAnswer, KeepsDown, KeepsFilters,
       KeepsHandler, KeepsClient, KeepsUpstream, OnRequestPassed, Arrive, upVars
  <2> QED
    BY <2>1, Frame, Zenon DEF IInv
<1>4. RInv(r)'
  <2>1. /\ down'[r] = "receiving" /\ err'[r] = err[r] /\ chain'[r] = "alive"
        /\ route'[r] = rt /\ body'[r] = body[r]
        /\ KeepsClient(r) /\ KeepsUpstream(r) /\ dangling'[r] = dangling[r]
        /\ headers'[r] = AfterFilters(rt.filters, msg) /\ request'[r] = msg
        /\ KeepsAnswer(r)
    BY <1>0, Zenon DEF TypeOK, Domains, KeepsAnswer, KeepsClient, KeepsUpstream,
       OnRequestPassed, Arrive, upVars
  <2>2. Forwards(r)' /\ ~ SomeBlocked(r)' /\ Accepted(r)' /\ headers'[r] # NoMsg
    <3>1. Forwards(r)' /\ ~ SomeBlocked(r)'
      BY <1>b, <2>1, Zenon DEF Forwards, SomeBlocked, OnRequestPassed
    <3>2. Accepted(r)'
      BY <1>0, <2>1, PassesVerified, Zenon DEF Accepted, OnRequestPassed
    <3>3. headers'[r] # NoMsg
      BY <2>1, NoMsgAssumption, Zenon DEF OnRequestPassed
    <3> QED
      BY <3>1, <3>2, <3>3, Zenon
  <2> QED
    BY <1>a, <2>1, <2>2, ZenonT(60) DEF TypedAt, KeepsAnswer, KeepsClient, KeepsUpstream,
       RInv, Idle,
       ChainLife, Filtered, NoClient, HasClient, ClientLife, Progress, InStep, Answered
<1> QED
  BY <1>1, <1>2, <1>3, <1>4, Zenon DEF IInv

(* GatewayHandler::onBody keeps the invariant.                             *)
LEMMA OnBodyInv ==
  ASSUME IInv, NEW r \in Requests, OnBody(r)
  PROVE  IInv'
<1>1. TypeOK'
  <2>1. chunks[r] + 1 \in 1 .. MaxChunks /\ body[r] \in Seq(1 .. MaxChunks)
    BY ChunksAssumption DEF IInv, TypeOK, OnBody
  <2>2. Buffered(body[r], chunks[r] + 1) \in Seq(1 .. MaxChunks)
    BY <2>1 DEF Buffered
  <2>3. chunks' \in [Requests -> 0 .. MaxChunks]
    BY <2>1, ChunksAssumption DEF IInv, TypeOK, OnBody
  <2>4. body' \in [Requests -> Seq(1 .. MaxChunks)]
    BY <2>1, <2>2, Zenon DEF IInv, TypeOK, OnBody
  <2> QED
    BY <2>3, <2>4, Zenon DEF IInv, TypeOK, OnBody, upVars
<1>2. Domains'
  BY Zenon DEF IInv, Domains, OnBody, Receiving, upVars
<1>3. ASSUME NEW q \in Requests, q # r PROVE RInv(q)'
  <2>1. Same(q)
    BY <1>3, Zenon DEF IInv, TypeOK, Domains, Same, KeepsAnswer, KeepsDown, KeepsFilters,
       KeepsHandler, KeepsClient, KeepsUpstream, OnBody, Receiving, upVars
  <2> QED
    BY <2>1, Frame, Zenon DEF IInv
<1>4. RInv(r)'
  <2>1. RInv(r) /\ TypedAt(r) /\ (Forwards(r) => ~ SomeBlocked(r))
    BY AtRequest, Zenon
  <2>2. /\ down[r] = "receiving"
        /\ KeepsAnswer(r) /\ KeepsDown(r) /\ KeepsFilters(r) /\ headers'[r] = headers[r]
        /\ KeepsClient(r) /\ KeepsUpstream(r)
        /\ chain'[r] = chain[r] /\ dangling'[r] = dangling[r]
        /\ ~ Forwards(r) => body'[r] = body[r]
    BY Zenon DEF IInv, TypeOK, Domains, KeepsAnswer, KeepsDown, KeepsFilters,
       KeepsHandler, KeepsClient, KeepsUpstream, OnBody, Receiving, upVars
  <2>3. /\ Forwards(r)' <=> Forwards(r)
        /\ SomeBlocked(r)' <=> SomeBlocked(r)
        /\ Accepted(r)' <=> Accepted(r)
    BY <2>2, FiltersKept, Zenon
  <2>5. Idle(r)' /\ ChainLife(r)'
    BY <2>1, <2>2, <2>3, Zenon DEF TypedAt, KeepsAnswer, KeepsDown, KeepsHandler,
       KeepsClient, KeepsUpstream,
       RInv, Idle, ChainLife, NoClient, HasClient, InStep
  <2>6. Filtered(r)'
    BY <2>1, <2>2, <2>3, Zenon DEF TypedAt, KeepsAnswer, KeepsDown, KeepsHandler,
       KeepsClient, KeepsUpstream,
       RInv, Idle, Filtered, HasClient
  <2>7. NoClient(r)'
    BY <2>1, <2>2, <2>3, ZenonT(40) DEF TypedAt, KeepsAnswer, KeepsDown, KeepsHandler,
       KeepsClient, KeepsUpstream,
       RInv, Idle, ChainLife, Filtered, NoClient, HasClient
  <2>8. HasClient(r)' /\ ClientLife(r)'
    BY <2>1, <2>2, <2>3, Zenon DEF TypedAt, KeepsAnswer, KeepsDown, KeepsHandler,
       KeepsClient, KeepsUpstream,
       RInv, Idle, NoClient, HasClient, ClientLife
  <2>9. Progress(r)'
    BY <2>1, <2>2, <2>3, ZenonT(40) DEF TypedAt, KeepsAnswer, KeepsDown, KeepsHandler,
       KeepsClient, KeepsUpstream,
       RInv, NoClient, ClientLife, Progress, InStep
  <2>10. InStep(r)'
    BY <2>1, <2>2, <2>3, Zenon DEF TypedAt, KeepsAnswer, KeepsDown, KeepsHandler,
       KeepsClient, KeepsUpstream,
       RInv, ChainLife, Idle, NoClient, HasClient, ClientLife, Progress, InStep
  <2>11. Answered(r)'
    BY <2>1, <2>2, <2>3, ZenonT(40) DEF TypedAt, KeepsAnswer, KeepsDown, KeepsHandler,
       KeepsClient, KeepsUpstream,
       RInv, ChainLife, Idle, NoClient, HasClient, ClientLife, Progress, InStep, Answered
  <2> QED
    BY <2>5, <2>6, <2>7, <2>8, <2>9, <2>10, <2>11, Zenon DEF RInv
<1> QED
  BY <1>1, <1>2, <1>3, <1>4, Zenon DEF IInv

(* GatewayHandler::onEOM keeps the invariant.                              *)
LEMMA OnEOMInv ==
  ASSUME IInv, NEW r \in Requests, OnEOM(r)
  PROVE  IInv'
<1>1. TypeOK'
  <2>1. CASE Forwards(r)
    <3> DEFINE Bodies == Seq(1 .. MaxChunks)
    <3>1. << >> \in Bodies /\ body \in [Requests -> Bodies]
      BY DEF IInv, TypeOK
    <3>2. body' = [body EXCEPT ![r] = << >>]
      BY <2>1, Zenon DEF OnEOM
    <3>3. body' \in [Requests -> Bodies]
      <4> HIDE DEF Bodies
      <4> QED BY <3>1, <3>2, Zenon
    <3> QED
      BY <2>1, <3>3, ZenonT(40) DEF IInv, TypeOK, OnEOM, Receiving
  <2>2. CASE ~ Forwards(r)
    BY <2>2, ZenonT(40) DEF IInv, TypeOK, OnEOM, Receiving
  <2> QED
    BY <2>1, <2>2, Zenon
<1>2. Domains'
  BY Zenon DEF IInv, Domains, OnEOM, Receiving
<1>3. ASSUME NEW q \in Requests, q # r PROVE RInv(q)'
  <2>1. Same(q)
    <3>1. /\ DOMAIN down = Requests /\ DOMAIN client = Requests
          /\ DOMAIN upReq = Requests /\ DOMAIN body = Requests
      BY Zenon DEF IInv, TypeOK, Domains
    <3>2. /\ down' = [down EXCEPT ![r] = "received"]
          /\ UNCHANGED <<err, egress, reply, request, route, chain, blocked, headers,
                         upstream, headersSent, upChunks, upEnded, relayed, dangling>>
      BY Zenon DEF OnEOM
    <3>3. KeepsAnswer(q) /\ KeepsFilters(q) /\ KeepsUpstream(q)
      BY <3>2, Zenon DEF KeepsAnswer, KeepsFilters, KeepsUpstream
    <3>4. down'[q] = down[q] /\ err'[q] = err[q]
      BY <1>3, <3>1, <3>2, Zenon
    <3>5. client'[q] = client[q] /\ upReq'[q] = upReq[q] /\ body'[q] = body[q]
      <4>1. CASE Forwards(r)
        BY <1>3, <3>1, <4>1, Zenon DEF OnEOM
      <4>2. CASE ~ Forwards(r)
        BY <4>2, Zenon DEF OnEOM
      <4> QED
        BY <4>1, <4>2, Zenon
    <3> QED
      BY <3>2, <3>3, <3>4, <3>5, Zenon DEF Same, KeepsDown, KeepsHandler, KeepsClient
  <2> QED
    BY <2>1, Frame, Zenon DEF IInv
<1>4. RInv(r)'
  <2>1. RInv(r) /\ TypedAt(r) /\ (Forwards(r) => ~ SomeBlocked(r))
    BY AtRequest, Zenon
  <2>2. /\ down[r] = "receiving" /\ ~ err[r] /\ down'[r] = "received" /\ err'[r] = err[r]
        /\ KeepsAnswer(r) /\ KeepsFilters(r) /\ KeepsUpstream(r)
        /\ chain'[r] = chain[r] /\ dangling'[r] = dangling[r] /\ headers'[r] = headers[r]
        /\ Forwards(r) => client'[r] = "connecting" /\ upReq'[r].msg = headers[r]
        /\ ~ Forwards(r) => KeepsClient(r) /\ body'[r] = body[r]
    BY DEF IInv, TypeOK, Domains, KeepsAnswer, KeepsDown, KeepsFilters,
       KeepsHandler, KeepsClient, KeepsUpstream, OnEOM, Receiving
  <2>3. /\ Forwards(r)' <=> Forwards(r)
        /\ SomeBlocked(r)' <=> SomeBlocked(r)
        /\ Accepted(r)' <=> Accepted(r)
    BY <2>2, FiltersKept, Zenon
  <2>5. Idle(r)' /\ ChainLife(r)'
    BY <2>1, <2>2, <2>3, Zenon DEF TypedAt, KeepsAnswer, KeepsDown, KeepsHandler,
       KeepsClient, KeepsUpstream,
       RInv, Idle, ChainLife, NoClient, HasClient, InStep
  <2>6. Filtered(r)'
    BY <2>1, <2>2, <2>3, ZenonT(40) DEF TypedAt, KeepsAnswer, KeepsDown, KeepsHandler,
       KeepsClient, KeepsUpstream,
       RInv, Idle, Filtered, HasClient
  <2>7. NoClient(r)'
    BY <2>1, <2>2, <2>3, Zenon DEF TypedAt, KeepsAnswer, KeepsDown, KeepsHandler,
       KeepsClient, KeepsUpstream,
       RInv, Idle, ChainLife, Filtered, NoClient, HasClient
  <2>8. HasClient(r)' /\ ClientLife(r)'
    BY <2>1, <2>2, <2>3, ZenonT(40) DEF TypedAt, KeepsAnswer, KeepsDown, KeepsHandler,
       KeepsClient, KeepsUpstream,
       RInv, Idle, NoClient, HasClient, ClientLife
  <2>9. Progress(r)'
    BY <2>1, <2>2, <2>3, ZenonT(40) DEF TypedAt, KeepsAnswer, KeepsDown, KeepsHandler,
       KeepsClient, KeepsUpstream,
       RInv, NoClient, ClientLife, Progress, InStep
  <2>10. InStep(r)'
    BY <2>1, <2>2, <2>3, Zenon DEF TypedAt, KeepsAnswer, KeepsDown, KeepsHandler,
       KeepsClient, KeepsUpstream,
       RInv, ChainLife, Idle, NoClient, HasClient, ClientLife, Progress, InStep
  <2>11. Answered(r)'
    BY <2>1, <2>2, <2>3, ZenonT(40) DEF TypedAt, KeepsAnswer, KeepsDown, KeepsHandler,
       KeepsClient, KeepsUpstream,
       RInv, ChainLife, Idle, NoClient, HasClient, ClientLife, Progress, InStep, Answered
  <2> QED
    BY <2>5, <2>6, <2>7, <2>8, <2>9, <2>10, <2>11, Zenon DEF RInv
<1> QED
  BY <1>1, <1>2, <1>3, <1>4, Zenon DEF IInv

(* GatewayHandler::onUpgrade keeps the invariant.                          *)
LEMMA OnUpgradeInv ==
  ASSUME IInv, NEW r \in Requests, OnUpgrade(r)
  PROVE  IInv'
<1>1. TypeOK'
  <2>1. CASE Forwards(r)
    BY <2>1, ZenonT(60) DEF IInv, TypeOK, OnUpgrade, Receiving, AfterAll, chainVars, upVars
  <2>2. CASE ~ Forwards(r)
    BY <2>2, ZenonT(40) DEF IInv, TypeOK, OnUpgrade, Receiving, AfterAll, chainVars, upVars
  <2> QED
    BY <2>1, <2>2, Zenon
<1>2. Domains'
  BY Zenon DEF IInv, Domains, OnUpgrade, Receiving, chainVars, upVars
<1>3. ASSUME NEW q \in Requests, q # r PROVE RInv(q)'
  <2>1. Same(q)
    <3>1. KeepsAnswer(q) /\ KeepsDown(q)
      BY <1>3, ZenonT(60) DEF IInv, TypeOK, KeepsAnswer, KeepsDown, OnUpgrade
    <3>2. UNCHANGED <<request, chunks, chainVars, upVars, dangling, process>>
      BY Zenon DEF OnUpgrade
    <3>3. /\ KeepsFilters(q) /\ KeepsHandler(q) /\ KeepsClient(q) /\ KeepsUpstream(q)
          /\ chain'[q] = chain[q] /\ dangling'[q] = dangling[q]
      BY <3>2, ZenonT(40) DEF KeepsFilters, KeepsHandler, KeepsClient, KeepsUpstream,
         chainVars, upVars
    <3> QED
      BY <3>1, <3>3, Zenon DEF Same
  <2> QED
    BY <2>1, Frame, Zenon DEF IInv
<1>4. RInv(r)'
  <2>1. RInv(r) /\ TypedAt(r) /\ (Forwards(r) => ~ SomeBlocked(r))
    BY AtRequest, Zenon
  <2>2. /\ down[r] = "receiving" /\ ~ err[r] /\ down'[r] = "upgraded" /\ err'[r] = err[r]
        /\ KeepsFilters(r) /\ KeepsHandler(r) /\ KeepsClient(r) /\ KeepsUpstream(r)
        /\ chain'[r] = chain[r] /\ dangling'[r] = dangling[r]
        /\ Forwards(r) => egress'[r] = AfterAll(egress[r]) /\ reply'[r] = "400"
        /\ ~ Forwards(r) => KeepsAnswer(r)
    BY DEF IInv, TypeOK, Domains, KeepsAnswer, KeepsDown, KeepsFilters,
       KeepsHandler, KeepsClient, KeepsUpstream, OnUpgrade, Receiving, chainVars, upVars
  <2>3. /\ Forwards(r)' <=> Forwards(r)
        /\ SomeBlocked(r)' <=> SomeBlocked(r)
        /\ Accepted(r)' <=> Accepted(r)
    BY <2>2, FiltersKept, Zenon
  <2>5. Idle(r)' /\ ChainLife(r)'
    BY <2>1, <2>2, <2>3, Zenon DEF TypedAt, KeepsAnswer, KeepsDown, KeepsHandler,
       KeepsClient, KeepsUpstream,
       AfterAll, RInv, Idle, ChainLife, NoClient, HasClient, InStep
  <2>6. Filtered(r)'
    BY <2>1, <2>2, <2>3, Zenon DEF TypedAt, KeepsAnswer, KeepsDown, KeepsHandler,
       KeepsClient, KeepsUpstream,
       AfterAll, RInv, Idle, Filtered, HasClient
  <2>7. NoClient(r)'
    BY <2>1, <2>2, <2>3, ZenonT(40) DEF TypedAt, KeepsAnswer, KeepsDown, KeepsHandler,
       KeepsClient, KeepsUpstream,
       AfterAll, RInv, Idle, ChainLife, Filtered, NoClient, HasClient
  <2>8. HasClient(r)' /\ ClientLife(r)'
    BY <2>1, <2>2, <2>3, Zenon DEF TypedAt, KeepsAnswer, KeepsDown, KeepsHandler,
       KeepsClient, KeepsUpstream,
       AfterAll, RInv, Idle, NoClient, HasClient, ClientLife
  <2>9. Progress(r)'
    BY <2>1, <2>2, <2>3, ZenonT(40) DEF TypedAt, KeepsAnswer, KeepsDown, KeepsHandler,
       KeepsClient, KeepsUpstream,
       AfterAll, RInv, NoClient, ClientLife, Progress, InStep
  <2>10. InStep(r)'
    BY <2>1, <2>2, <2>3, Zenon DEF TypedAt, KeepsAnswer, KeepsDown, KeepsHandler,
       KeepsClient, KeepsUpstream,
       AfterAll, RInv, ChainLife, Idle, NoClient, HasClient, ClientLife, Progress, InStep
  <2>11. Answered(r)'
    BY <2>1, <2>2, <2>3, ZenonT(40) DEF TypedAt, KeepsAnswer, KeepsDown, KeepsHandler,
       KeepsClient, KeepsUpstream,
       AfterAll, RInv, ChainLife, Idle, NoClient, HasClient, ClientLife, Progress, InStep, Answered
  <2> QED
    BY <2>5, <2>6, <2>7, <2>8, <2>9, <2>10, <2>11, Zenon DEF RInv
<1> QED
  BY <1>1, <1>2, <1>3, <1>4, Zenon DEF IInv

(* onError for a client that has gone keeps the invariant.                 *)
LEMMA OnErrorClientGoneInv ==
  ASSUME IInv, NEW r \in Requests, OnErrorClientGone(r)
  PROVE  IInv'
<1>1. TypeOK'
  BY ChunksAssumption, Zenon DEF IInv, TypeOK, OnErrorClientGone, Open, upVars
<1>2. Domains'
  BY Zenon DEF IInv, Domains, OnErrorClientGone, Open, upVars
<1>3. ASSUME NEW q \in Requests, q # r PROVE RInv(q)'
  <2>1. Same(q)
    BY <1>3, Zenon DEF IInv, TypeOK, Domains, Same, KeepsAnswer, KeepsDown, KeepsFilters,
       KeepsHandler, KeepsClient, KeepsUpstream, OnErrorClientGone, Open, upVars
  <2> QED
    BY <2>1, Frame, Zenon DEF IInv
<1>4. RInv(r)'
  <2>1. RInv(r) /\ TypedAt(r) /\ (Forwards(r) => ~ SomeBlocked(r))
    BY AtRequest, Zenon
  <2>2. /\ down[r] # "idle" /\ down'[r] = down[r] /\ err'[r] = TRUE /\ chain'[r] = "deleted"
        /\ egress'[r] = (IF egress[r] = "eom" THEN "eom" ELSE "aborted") /\ reply'[r] = reply[r]
        /\ KeepsFilters(r) /\ KeepsHandler(r) /\ KeepsClient(r) /\ KeepsUpstream(r)
        /\ dangling'[r] = dangling[r]
    BY Zenon DEF IInv, TypeOK, Domains, KeepsAnswer, KeepsDown, KeepsFilters,
       KeepsHandler, KeepsClient, KeepsUpstream, OnErrorClientGone, Open, upVars
  <2>3. /\ Forwards(r)' <=> Forwards(r)
        /\ SomeBlocked(r)' <=> SomeBlocked(r)
        /\ Accepted(r)' <=> Accepted(r)
    BY <2>2, FiltersKept, Zenon
  <2>5. Idle(r)' /\ ChainLife(r)'
    BY <2>1, <2>2, <2>3, Zenon DEF TypedAt, KeepsAnswer, KeepsDown, KeepsHandler,
       KeepsClient, KeepsUpstream,
       RInv, Idle, ChainLife, NoClient, HasClient, InStep
  <2>6. Filtered(r)'
    BY <2>1, <2>2, <2>3, ZenonT(40) DEF TypedAt, KeepsAnswer, KeepsDown, KeepsHandler,
       KeepsClient, KeepsUpstream,
       RInv, Idle, Filtered, HasClient
  <2>7. NoClient(r)'
    BY <2>1, <2>2, <2>3, ZenonT(40) DEF TypedAt, KeepsAnswer, KeepsDown, KeepsHandler,
       KeepsClient, KeepsUpstream,
       RInv, Idle, ChainLife, Filtered, NoClient, HasClient
  <2>8. HasClient(r)' /\ ClientLife(r)'
    BY <2>1, <2>2, <2>3, ZenonT(40) DEF TypedAt, KeepsAnswer, KeepsDown, KeepsHandler,
       KeepsClient, KeepsUpstream,
       RInv, Idle, NoClient, HasClient, ClientLife
  <2>9. Progress(r)'
    BY <2>1, <2>2, <2>3, ZenonT(60) DEF TypedAt, KeepsAnswer, KeepsDown, KeepsHandler,
       KeepsClient, KeepsUpstream,
       RInv, NoClient, ClientLife, Progress, InStep
  <2>10. InStep(r)'
    BY <2>1, <2>2, <2>3, Zenon DEF TypedAt, KeepsAnswer, KeepsDown, KeepsHandler,
       KeepsClient, KeepsUpstream,
       RInv, ChainLife, Idle, NoClient, HasClient, ClientLife, Progress, InStep
  <2>11. Answered(r)'
    BY <2>1, <2>2, <2>3, ZenonT(40) DEF TypedAt, KeepsAnswer, KeepsDown, KeepsHandler,
       KeepsClient, KeepsUpstream,
       RInv, ChainLife, Idle, NoClient, HasClient, ClientLife, Progress, InStep, Answered
  <2> QED
    BY <2>5, <2>6, <2>7, <2>8, <2>9, <2>10, <2>11, Zenon DEF RInv
<1> QED
  BY <1>1, <1>2, <1>3, <1>4, Zenon DEF IInv

(* onError for a request that times out or is malformed keeps it.          *)
LEMMA OnErrorIngressInv ==
  ASSUME IInv, NEW r \in Requests, NEW status \in {"400", "408"},
         OnErrorIngress(r, status)
  PROVE  IInv'
<1>1. TypeOK'
  BY ChunksAssumption, Zenon DEF IInv, TypeOK, OnErrorIngress, Receiving, upVars
<1>2. Domains'
  BY Zenon DEF IInv, Domains, OnErrorIngress, Receiving, upVars
<1>3. ASSUME NEW q \in Requests, q # r PROVE RInv(q)'
  <2>1. Same(q)
    BY <1>3, Zenon DEF IInv, TypeOK, Domains, Same, KeepsAnswer, KeepsDown, KeepsFilters,
       KeepsHandler, KeepsClient, KeepsUpstream, OnErrorIngress, Receiving, upVars
  <2> QED
    BY <2>1, Frame, Zenon DEF IInv
<1>4. RInv(r)'
  <2>1. RInv(r) /\ TypedAt(r) /\ (Forwards(r) => ~ SomeBlocked(r))
    BY AtRequest, Zenon
  <2>2. /\ down[r] = "receiving" /\ down'[r] = down[r]
        /\ ~ err[r] /\ err'[r] = TRUE /\ chain'[r] = "deleted"
        /\ egress'[r] = IF egress[r] \in {"none", "eom"} THEN "eom" ELSE "aborted"
        /\ reply'[r] = IF egress[r] = "none" THEN status ELSE reply[r]
        /\ KeepsFilters(r) /\ KeepsHandler(r) /\ KeepsClient(r) /\ KeepsUpstream(r)
        /\ dangling'[r] = dangling[r]
    BY Zenon DEF IInv, TypeOK, Domains, KeepsAnswer, KeepsDown, KeepsFilters,
       KeepsHandler, KeepsClient, KeepsUpstream, OnErrorIngress, Receiving, upVars
  <2>3. /\ Forwards(r)' <=> Forwards(r)
        /\ SomeBlocked(r)' <=> SomeBlocked(r)
        /\ Accepted(r)' <=> Accepted(r)
    BY <2>2, FiltersKept, Zenon
  <2> QED
    BY <2>1, <2>2, <2>3, ZenonT(60) DEF TypedAt, KeepsAnswer, KeepsDown, KeepsHandler,
       KeepsClient,
       KeepsUpstream, RInv, Idle, ChainLife, Filtered, NoClient, HasClient,
       ClientLife, Progress, InStep, Answered
<1> QED
  BY <1>1, <1>2, <1>3, <1>4, Zenon DEF IInv

(* requestComplete keeps the invariant.                                    *)
LEMMA RequestCompleteInv ==
  ASSUME IInv, NEW r \in Requests, RequestComplete(r)
  PROVE  IInv'
<1>1. TypeOK'
  BY ChunksAssumption, Zenon DEF IInv, TypeOK, RequestComplete, Open, upVars
<1>2. Domains'
  BY Zenon DEF IInv, Domains, RequestComplete, Open, upVars
<1>3. ASSUME NEW q \in Requests, q # r PROVE RInv(q)'
  <2>1. Same(q)
    BY <1>3, Zenon DEF IInv, TypeOK, Domains, Same, KeepsAnswer, KeepsDown, KeepsFilters,
       KeepsHandler, KeepsClient, KeepsUpstream, RequestComplete, Open, upVars
  <2> QED
    BY <2>1, Frame, Zenon DEF IInv
<1>4. RInv(r)'
  <2>1. RInv(r) /\ TypedAt(r) /\ (Forwards(r) => ~ SomeBlocked(r))
    BY AtRequest, Zenon
  <2>2. /\ down[r] \notin {"idle", "detached"} /\ down'[r] = "detached" /\ chain'[r] = "deleted"
        /\ err[r] \/ (down[r] # "receiving" /\ egress[r] = "eom")
        /\ err'[r] = err[r] /\ KeepsAnswer(r) /\ KeepsFilters(r) /\ KeepsHandler(r)
        /\ KeepsClient(r) /\ KeepsUpstream(r) /\ dangling'[r] = dangling[r]
    BY Zenon DEF IInv, TypeOK, Domains, KeepsAnswer, KeepsDown, KeepsFilters,
       KeepsHandler, KeepsClient, KeepsUpstream, RequestComplete, Open, upVars
  <2>3. /\ Forwards(r)' <=> Forwards(r)
        /\ SomeBlocked(r)' <=> SomeBlocked(r)
        /\ Accepted(r)' <=> Accepted(r)
    BY <2>2, FiltersKept, Zenon
  <2>5. Idle(r)' /\ ChainLife(r)'
    BY <2>1, <2>2, <2>3, ZenonT(40) DEF TypedAt, KeepsAnswer, KeepsDown, KeepsHandler,
       KeepsClient, KeepsUpstream,
       RInv, Idle, ChainLife, NoClient, HasClient, InStep
  <2>6. Filtered(r)'
    BY <2>1, <2>2, <2>3, ZenonT(40) DEF TypedAt, KeepsAnswer, KeepsDown, KeepsHandler,
       KeepsClient, KeepsUpstream,
       RInv, Idle, Filtered, HasClient
  <2>7. NoClient(r)'
    BY <2>1, <2>2, <2>3, ZenonT(40) DEF TypedAt, KeepsAnswer, KeepsDown, KeepsHandler,
       KeepsClient, KeepsUpstream,
       RInv, Idle, ChainLife, Filtered, NoClient, HasClient
  <2>8. HasClient(r)' /\ ClientLife(r)'
    BY <2>1, <2>2, <2>3, ZenonT(40) DEF TypedAt, KeepsAnswer, KeepsDown, KeepsHandler,
       KeepsClient, KeepsUpstream,
       RInv, Idle, NoClient, HasClient, ClientLife
  <2>9. Progress(r)'
    BY <2>1, <2>2, <2>3, ZenonT(40) DEF TypedAt, KeepsAnswer, KeepsDown, KeepsHandler,
       KeepsClient, KeepsUpstream,
       RInv, NoClient, ClientLife, Progress, InStep
  <2>10. InStep(r)'
    BY <2>1, <2>2, <2>3, ZenonT(40) DEF TypedAt, KeepsAnswer, KeepsDown, KeepsHandler,
       KeepsClient, KeepsUpstream,
       RInv, ChainLife, Idle, NoClient, HasClient, ClientLife, Progress, InStep
  <2>11. Answered(r)'
    BY <2>1, <2>2, <2>3, ZenonT(60) DEF TypedAt, KeepsAnswer, KeepsDown, KeepsHandler,
       KeepsClient, KeepsUpstream,
       RInv, ChainLife, Idle, NoClient, HasClient, ClientLife, Progress, InStep, Answered
  <2> QED
    BY <2>5, <2>6, <2>7, <2>8, <2>9, <2>10, <2>11, Zenon DEF RInv
<1> QED
  BY <1>1, <1>2, <1>3, <1>4, Zenon DEF IInv

-----------------------------------------------------------------------------
(* The callbacks of UpstreamClient keep the invariant.                     *)

(* UpstreamClient::connectSuccess keeps the invariant.                     *)
LEMMA ConnectSuccessInv ==
  ASSUME IInv, NEW r \in Requests, ConnectSuccess(r)
  PROVE  IInv'
<1>1. TypeOK'
  BY ChunksAssumption, Zenon DEF IInv, TypeOK, ConnectSuccess, SendsNothing, chainVars
<1>2. Domains'
  BY Zenon DEF IInv, Domains, ConnectSuccess, SendsNothing, chainVars
<1>3. ASSUME NEW q \in Requests, q # r PROVE RInv(q)'
  <2>1. Same(q)
    BY <1>3, Zenon DEF IInv, TypeOK, Domains, Same, KeepsAnswer, KeepsDown, KeepsFilters,
       KeepsHandler, KeepsClient, KeepsUpstream, ConnectSuccess, SendsNothing, chainVars
  <2> QED
    BY <2>1, Frame, Zenon DEF IInv
<1>4. RInv(r)'
  <2>1. RInv(r) /\ TypedAt(r) /\ (Forwards(r) => ~ SomeBlocked(r))
    BY AtRequest, Zenon
  <2>2. /\ client[r] = "connecting" /\ client'[r] = "active" /\ upReq'[r] = upReq[r]
        /\ upstream'[r] = "open" /\ headersSent'[r] = headersSent[r]
        /\ upChunks'[r] = upChunks[r] /\ upEnded'[r] = upEnded[r] /\ relayed'[r] = relayed[r]
        /\ KeepsDown(r) /\ KeepsFilters(r) /\ KeepsHandler(r) /\ chain'[r] = chain[r]
        /\ KeepsAnswer(r) /\ dangling'[r] = dangling[r]
    BY Zenon DEF IInv, TypeOK, Domains, KeepsAnswer, KeepsDown, KeepsFilters,
       KeepsHandler, KeepsClient, KeepsUpstream, ConnectSuccess, SendsNothing, chainVars
  <2>3. /\ Forwards(r)' <=> Forwards(r)
        /\ SomeBlocked(r)' <=> SomeBlocked(r)
        /\ Accepted(r)' <=> Accepted(r)
    BY <2>2, FiltersKept, Zenon
  <2> QED
    <3>1. Idle(r)' /\ ChainLife(r)'
      BY <2>1, <2>2, ZenonT(40) DEF KeepsAnswer, KeepsDown, KeepsHandler, RInv, Idle,
         ChainLife, HasClient
    <3>2. Filtered(r)'
      BY <2>1, <2>2, <2>3, ZenonT(40) DEF KeepsAnswer, KeepsDown, KeepsHandler, RInv,
         Filtered
    <3>3. NoClient(r)' /\ HasClient(r)' /\ ClientLife(r)'
      BY <2>1, <2>2, <2>3, ZenonT(40) DEF KeepsDown, KeepsHandler, RInv, NoClient,
         HasClient, ClientLife
    <3>4. Progress(r)'
      BY <2>1, <2>2, ZenonT(40) DEF RInv, ClientLife, Progress
    <3>5. InStep(r)' /\ Answered(r)'
      BY <2>1, <2>2, ZenonT(40) DEF KeepsAnswer, KeepsDown, RInv, InStep, Answered
    <3> QED
      BY <3>1, <3>2, <3>3, <3>4, <3>5, Zenon DEF RInv
<1> QED
  BY <1>1, <1>2, <1>3, <1>4, Zenon DEF IInv

(* UpstreamClient::connectError keeps the invariant.                       *)
LEMMA ConnectErrorInv ==
  ASSUME IInv, NEW r \in Requests, ConnectError(r)
  PROVE  IInv'
<1>0. Send(r, AfterAll(egress[r]), "502")
  BY Zenon DEF ConnectError
<1>1. TypeOK'
  <2>1. AfterAll(egress[r]) \in {"none", "interim", "headers", "eom", "aborted", "broken"}
    BY Zenon DEF AfterAll
  <2>2. "502" \in {"none", "400", "401", "404", "408", "429", "502", "upstream"}
    BY Zenon DEF IInv, TypeOK
  <2>3. /\ egress' \in [Requests -> {"none", "interim", "headers", "eom", "aborted", "broken"}]
        /\ reply' \in [Requests -> {"none", "400", "401", "404", "408", "429", "502", "upstream"}]
        /\ dangling' \in [Requests -> BOOLEAN]
        /\ process' \in {"up", "crashed"}
    BY <1>0, <2>1, <2>2, SendTyped, Zenon
  <2> QED
    BY <2>3, Zenon DEF IInv, TypeOK, ConnectError, chainVars
<1>2. Domains'
  BY Zenon DEF IInv, Domains, ConnectError, chainVars
<1>3. ASSUME NEW q \in Requests, q # r PROVE RInv(q)'
  <2>0. KeepsAnswer(q) /\ dangling'[q] = dangling[q]
    BY <1>0, <1>3, SendAt, Zenon
  <2>1. Same(q)
    BY <1>3, <2>0, Zenon DEF IInv, TypeOK, Domains, Same, KeepsDown, KeepsFilters,
       KeepsHandler,
       KeepsClient, KeepsUpstream, ConnectError, chainVars
  <2> QED
    BY <2>1, Frame, Zenon DEF IInv
<1>4. RInv(r)'
  <2>1. RInv(r) /\ TypedAt(r) /\ (Forwards(r) => ~ SomeBlocked(r))
    BY AtRequest, Zenon
  <2>2. /\ client[r] = "connecting" /\ client'[r] = "deleted" /\ upReq'[r] = upReq[r]
        /\ KeepsUpstream(r)
        /\ KeepsDown(r) /\ KeepsFilters(r) /\ KeepsHandler(r) /\ chain'[r] = chain[r]
    BY Zenon DEF IInv, TypeOK, Domains, KeepsAnswer, KeepsDown, KeepsFilters,
       KeepsHandler, KeepsClient, KeepsUpstream, ConnectError, chainVars
  <2>3. /\ Forwards(r)' <=> Forwards(r)
        /\ SomeBlocked(r)' <=> SomeBlocked(r)
        /\ Accepted(r)' <=> Accepted(r)
    BY <2>2, FiltersKept, Zenon
  <2>4. \/ /\ chain[r] = "alive"
           /\ egress'[r] = AfterAll(egress[r]) /\ reply'[r] = "502" /\ dangling'[r] = dangling[r]
        \/ /\ chain[r] # "alive"
           /\ KeepsAnswer(r) /\ dangling'[r] = TRUE
    BY <1>0, SendAt, Zenon
  <2> QED
    BY <2>1, <2>2, <2>3, <2>4, ZenonT(60) DEF TypedAt, KeepsAnswer, KeepsDown,
       KeepsHandler, KeepsClient,
       KeepsUpstream, AfterAll, RInv, Idle, ChainLife, Filtered, NoClient, HasClient,
       ClientLife, Progress, InStep, Answered
<1> QED
  BY <1>1, <1>2, <1>3, <1>4, Zenon DEF IInv

(* onHeadersComplete for interim headers keeps the invariant.              *)
LEMMA OnHeadersInterimInv ==
  ASSUME IInv, NEW r \in Requests, OnHeadersInterim(r)
  PROVE  IInv'
<1>0. Send(r, AfterInterim(egress[r]), reply[r])
  BY Zenon DEF OnHeadersInterim
<1>1. TypeOK'
  <2>1. AfterInterim(egress[r]) \in {"none", "interim", "headers", "eom", "aborted", "broken"}
    BY Zenon DEF AfterInterim
  <2>2. reply[r] \in {"none", "400", "401", "404", "408", "429", "502", "upstream"}
    BY Zenon DEF IInv, TypeOK
  <2>3. /\ egress' \in [Requests -> {"none", "interim", "headers", "eom", "aborted", "broken"}]
        /\ reply' \in [Requests -> {"none", "400", "401", "404", "408", "429", "502", "upstream"}]
        /\ dangling' \in [Requests -> BOOLEAN]
        /\ process' \in {"up", "crashed"}
    BY <1>0, <2>1, <2>2, SendTyped, Zenon
  <2> QED
    BY <2>3, Zenon DEF IInv, TypeOK, OnHeadersInterim, chainVars
<1>2. Domains'
  BY Zenon DEF IInv, Domains, OnHeadersInterim, chainVars
<1>3. ASSUME NEW q \in Requests, q # r PROVE RInv(q)'
  <2>0. KeepsAnswer(q) /\ dangling'[q] = dangling[q]
    BY <1>0, <1>3, SendAt, Zenon
  <2>1. Same(q)
    BY <1>3, <2>0, Zenon DEF IInv, TypeOK, Domains, Same, KeepsDown, KeepsFilters,
       KeepsHandler,
       KeepsClient, KeepsUpstream, OnHeadersInterim, chainVars
  <2> QED
    BY <2>1, Frame, Zenon DEF IInv
<1>4. RInv(r)'
  <2>1. RInv(r) /\ TypedAt(r) /\ (Forwards(r) => ~ SomeBlocked(r))
    BY AtRequest, Zenon
  <2>2. /\ upstream[r] \in {"open", "interim"} /\ upstream'[r] = "interim" /\ headersSent'[r] = TRUE
        /\ upChunks'[r] = upChunks[r] /\ upEnded'[r] = upEnded[r] /\ relayed'[r] = relayed[r]
        /\ KeepsClient(r)
        /\ KeepsDown(r) /\ KeepsFilters(r) /\ KeepsHandler(r) /\ chain'[r] = chain[r]
    BY Zenon DEF IInv, TypeOK, Domains, KeepsAnswer, KeepsDown, KeepsFilters,
       KeepsHandler, KeepsClient, KeepsUpstream, OnHeadersInterim, chainVars
  <2>3. /\ Forwards(r)' <=> Forwards(r)
        /\ SomeBlocked(r)' <=> SomeBlocked(r)
        /\ Accepted(r)' <=> Accepted(r)
    BY <2>2, FiltersKept, Zenon
  <2>4. \/ /\ chain[r] = "alive"
           /\ egress'[r] = AfterInterim(egress[r]) /\ reply'[r] = reply[r] /\ dangling'[r] = dangling[r]
        \/ /\ chain[r] # "alive"
           /\ KeepsAnswer(r) /\ dangling'[r] = TRUE
    BY <1>0, SendAt, Zenon
  <2> QED
    BY <2>1, <2>2, <2>3, <2>4, ZenonT(60) DEF TypedAt, KeepsAnswer, KeepsDown,
       KeepsHandler, KeepsClient,
       KeepsUpstream, AfterInterim, RInv, Idle, ChainLife, Filtered, NoClient, HasClient,
       ClientLife, Progress, InStep, Answered
<1> QED
  BY <1>1, <1>2, <1>3, <1>4, Zenon DEF IInv

(* onHeadersComplete for final headers keeps the invariant.                *)
LEMMA OnHeadersCompleteInv ==
  ASSUME IInv, NEW r \in Requests, OnHeadersComplete(r)
  PROVE  IInv'
<1>0. Send(r, AfterHeaders(egress[r]), "upstream")
  BY Zenon DEF OnHeadersComplete
<1>1. TypeOK'
  <2>1. AfterHeaders(egress[r]) \in {"none", "interim", "headers", "eom", "aborted", "broken"}
    BY Zenon DEF AfterHeaders
  <2>2. "upstream" \in {"none", "400", "401", "404", "408", "429", "502", "upstream"}
    BY Zenon DEF IInv, TypeOK
  <2>3. /\ egress' \in [Requests -> {"none", "interim", "headers", "eom", "aborted", "broken"}]
        /\ reply' \in [Requests -> {"none", "400", "401", "404", "408", "429", "502", "upstream"}]
        /\ dangling' \in [Requests -> BOOLEAN]
        /\ process' \in {"up", "crashed"}
    BY <1>0, <2>1, <2>2, SendTyped, Zenon
  <2> QED
    BY <2>3, Zenon DEF IInv, TypeOK, OnHeadersComplete, chainVars
<1>2. Domains'
  BY Zenon DEF IInv, Domains, OnHeadersComplete, chainVars
<1>3. ASSUME NEW q \in Requests, q # r PROVE RInv(q)'
  <2>0. KeepsAnswer(q) /\ dangling'[q] = dangling[q]
    BY <1>0, <1>3, SendAt, Zenon
  <2>1. Same(q)
    BY <1>3, <2>0, Zenon DEF IInv, TypeOK, Domains, Same, KeepsDown, KeepsFilters,
       KeepsHandler,
       KeepsClient, KeepsUpstream, OnHeadersComplete, chainVars
  <2> QED
    BY <2>1, Frame, Zenon DEF IInv
<1>4. RInv(r)'
  <2>1. RInv(r) /\ TypedAt(r) /\ (Forwards(r) => ~ SomeBlocked(r))
    BY AtRequest, Zenon
  <2>2. /\ upstream[r] \in {"open", "interim"} /\ upstream'[r] = "headers" /\ headersSent'[r] = TRUE
        /\ upChunks'[r] = upChunks[r] /\ upEnded'[r] = upEnded[r] /\ relayed'[r] = relayed[r]
        /\ KeepsClient(r)
        /\ KeepsDown(r) /\ KeepsFilters(r) /\ KeepsHandler(r) /\ chain'[r] = chain[r]
    BY Zenon DEF IInv, TypeOK, Domains, KeepsAnswer, KeepsDown, KeepsFilters,
       KeepsHandler, KeepsClient, KeepsUpstream, OnHeadersComplete, chainVars
  <2>3. /\ Forwards(r)' <=> Forwards(r)
        /\ SomeBlocked(r)' <=> SomeBlocked(r)
        /\ Accepted(r)' <=> Accepted(r)
    BY <2>2, FiltersKept, Zenon
  <2>4. \/ /\ chain[r] = "alive"
           /\ egress'[r] = AfterHeaders(egress[r]) /\ reply'[r] = "upstream" /\ dangling'[r] = dangling[r]
        \/ /\ chain[r] # "alive"
           /\ KeepsAnswer(r) /\ dangling'[r] = TRUE
    BY <1>0, SendAt, Zenon
  <2>5. Idle(r)' /\ ChainLife(r)'
    BY <2>1, <2>2, <2>3, <2>4, Zenon DEF TypedAt, KeepsAnswer, KeepsDown, KeepsHandler,
       KeepsClient, KeepsUpstream,
       AfterHeaders, RInv, Idle, ChainLife, NoClient, HasClient, InStep
  <2>6. Filtered(r)'
    BY <2>1, <2>2, <2>3, <2>4, ZenonT(40) DEF TypedAt, KeepsAnswer, KeepsDown, KeepsHandler,
       KeepsClient, KeepsUpstream,
       AfterHeaders, RInv, Idle, Filtered, HasClient
  <2>7. NoClient(r)'
    BY <2>1, <2>2, <2>3, <2>4, Zenon DEF TypedAt, KeepsAnswer, KeepsDown, KeepsHandler,
       KeepsClient, KeepsUpstream,
       AfterHeaders, RInv, Idle, ChainLife, Filtered, NoClient, HasClient
  <2>8. HasClient(r)' /\ ClientLife(r)'
    BY <2>1, <2>2, <2>3, <2>4, ZenonT(40) DEF TypedAt, KeepsAnswer, KeepsDown, KeepsHandler,
       KeepsClient, KeepsUpstream,
       AfterHeaders, RInv, Idle, NoClient, HasClient, ClientLife
  <2>9. Progress(r)'
    BY <2>1, <2>2, <2>3, <2>4, Zenon DEF TypedAt, KeepsAnswer, KeepsDown, KeepsHandler,
       KeepsClient, KeepsUpstream,
       AfterHeaders, RInv, NoClient, ClientLife, Progress, InStep
  <2>10. InStep(r)'
    BY <2>1, <2>2, <2>3, <2>4, ZenonT(60) DEF TypedAt, KeepsAnswer, KeepsDown,
       KeepsHandler, KeepsClient, KeepsUpstream,
       AfterHeaders, RInv, ChainLife, Idle, NoClient, HasClient, ClientLife, Progress, InStep
  <2>11. Answered(r)'
    BY <2>1, <2>2, <2>3, <2>4, ZenonT(40) DEF TypedAt, KeepsAnswer, KeepsDown, KeepsHandler,
       KeepsClient, KeepsUpstream,
       AfterHeaders, RInv, ChainLife, Idle, NoClient, HasClient, ClientLife, Progress, InStep, Answered
  <2> QED
    BY <2>5, <2>6, <2>7, <2>8, <2>9, <2>10, <2>11, Zenon DEF RInv
<1> QED
  BY <1>1, <1>2, <1>3, <1>4, Zenon DEF IInv

(* UpstreamClient::onBody keeps the invariant.                             *)
LEMMA OnUpstreamBodyInv ==
  ASSUME IInv, NEW r \in Requests, OnUpstreamBody(r)
  PROVE  IInv'
<1>0. Send(r, AfterBody(egress[r]), reply[r])
  BY Zenon DEF OnUpstreamBody
<1>1. TypeOK'
  <2>1. AfterBody(egress[r]) \in {"none", "interim", "headers", "eom", "aborted", "broken"}
    BY Zenon DEF AfterBody
  <2>2. reply[r] \in {"none", "400", "401", "404", "408", "429", "502", "upstream"}
    BY Zenon DEF IInv, TypeOK
  <2>3. /\ egress' \in [Requests -> {"none", "interim", "headers", "eom", "aborted", "broken"}]
        /\ reply' \in [Requests -> {"none", "400", "401", "404", "408", "429", "502", "upstream"}]
        /\ dangling' \in [Requests -> BOOLEAN]
        /\ process' \in {"up", "crashed"}
    BY <1>0, <2>1, <2>2, SendTyped, Zenon
  <2>4. upChunks' \in [Requests -> 0 .. MaxChunks] /\ relayed' \in [Requests -> 0 .. MaxChunks]
    <3>1. upChunks[r] + 1 \in 0 .. MaxChunks /\ relayed[r] + 1 \in 0 .. MaxChunks
      <4>1. /\ upChunks[r] \in 0 .. MaxChunks /\ upChunks[r] < MaxChunks
            /\ relayed[r] \in 0 .. MaxChunks /\ relayed[r] <= upChunks[r]
        BY Zenon DEF IInv, TypeOK, OnUpstreamBody, RInv, Progress
      <4> QED
        BY ONLY <4>1, ChunksAssumption
    <3> QED
      BY <3>1, Zenon DEF IInv, TypeOK, OnUpstreamBody
  <2> QED
    BY <2>4, <2>3, Zenon DEF IInv, TypeOK, OnUpstreamBody, chainVars
<1>2. Domains'
  BY Zenon DEF IInv, Domains, OnUpstreamBody, chainVars
<1>3. ASSUME NEW q \in Requests, q # r PROVE RInv(q)'
  <2>0. KeepsAnswer(q) /\ dangling'[q] = dangling[q]
    BY <1>0, <1>3, SendAt, Zenon
  <2>1. Same(q)
    BY <1>3, <2>0, Zenon DEF IInv, TypeOK, Domains, Same, KeepsDown, KeepsFilters,
       KeepsHandler,
       KeepsClient, KeepsUpstream, OnUpstreamBody, chainVars
  <2> QED
    BY <2>1, Frame, Zenon DEF IInv
<1>4. RInv(r)'
  <2>1. RInv(r) /\ TypedAt(r) /\ (Forwards(r) => ~ SomeBlocked(r))
    BY AtRequest, Zenon
  <2>2. /\ upstream[r] = "headers" /\ upstream'[r] = "headers" /\ headersSent'[r] = headersSent[r]
        /\ upChunks'[r] = upChunks[r] + 1 /\ upEnded'[r] = upEnded[r]
        /\ relayed'[r] = IF chain[r] = "alive" THEN relayed[r] + 1 ELSE relayed[r]
        /\ KeepsClient(r)
        /\ KeepsDown(r) /\ KeepsFilters(r) /\ KeepsHandler(r) /\ chain'[r] = chain[r]
    BY Zenon DEF IInv, TypeOK, Domains, KeepsAnswer, KeepsDown, KeepsFilters,
       KeepsHandler, KeepsClient, KeepsUpstream, OnUpstreamBody, chainVars
  <2>3. /\ Forwards(r)' <=> Forwards(r)
        /\ SomeBlocked(r)' <=> SomeBlocked(r)
        /\ Accepted(r)' <=> Accepted(r)
    BY <2>2, FiltersKept, Zenon
  <2>4. \/ /\ chain[r] = "alive"
           /\ egress'[r] = AfterBody(egress[r]) /\ reply'[r] = reply[r] /\ dangling'[r] = dangling[r]
        \/ /\ chain[r] # "alive"
           /\ KeepsAnswer(r) /\ dangling'[r] = TRUE
    BY <1>0, SendAt, Zenon
  <2>5. Idle(r)' /\ ChainLife(r)'
    BY <2>1, <2>2, <2>3, <2>4, Zenon DEF TypedAt, KeepsAnswer, KeepsDown, KeepsHandler,
       KeepsClient, KeepsUpstream,
       AfterBody, RInv, Idle, ChainLife, NoClient, HasClient, InStep
  <2>6. Filtered(r)'
    BY <2>1, <2>2, <2>3, <2>4, ZenonT(60) DEF TypedAt, KeepsAnswer, KeepsDown, KeepsHandler,
       KeepsClient, KeepsUpstream,
       AfterBody, RInv, Idle, Filtered, HasClient
  <2>7. NoClient(r)'
    BY <2>1, <2>2, <2>3, <2>4, Zenon DEF TypedAt, KeepsAnswer, KeepsDown, KeepsHandler,
       KeepsClient, KeepsUpstream,
       AfterBody, RInv, Idle, ChainLife, Filtered, NoClient, HasClient
  <2>8. HasClient(r)' /\ ClientLife(r)'
    BY <2>1, <2>2, <2>3, <2>4, ZenonT(40) DEF TypedAt, KeepsAnswer, KeepsDown, KeepsHandler,
       KeepsClient, KeepsUpstream,
       AfterBody, RInv, Idle, NoClient, HasClient, ClientLife
  <2>9. Progress(r)'
    <3>1. upChunks[r] \in Nat /\ relayed[r] \in Nat /\ relayed[r] <= upChunks[r]
      BY <2>1, Zenon DEF TypedAt, RInv, Progress
    <3>2. relayed[r] <= upChunks[r] + 1 /\ relayed[r] + 1 <= upChunks[r] + 1
      BY <3>1, ChunkCounts, Zenon
    <3>3. relayed'[r] <= upChunks'[r]
      BY <2>2, <3>2, Zenon
    <3>4. headersSent[r] /\ ~ upEnded[r]
      BY <2>1, <2>2, Zenon DEF RInv, Progress
    <3> QED
      BY <2>2, <3>3, <3>4, ZenonT(30) DEF Progress
  <2>10. InStep(r)'
    BY <2>1, <2>2, <2>3, <2>4, ZenonT(60) DEF TypedAt, KeepsAnswer, KeepsDown,
       KeepsHandler, KeepsClient, KeepsUpstream,
       AfterBody, RInv, ChainLife, Idle, NoClient, HasClient, ClientLife, Progress, InStep
  <2>11. Answered(r)'
    BY <2>1, <2>2, <2>3, <2>4, ZenonT(40) DEF TypedAt, KeepsAnswer, KeepsDown, KeepsHandler,
       KeepsClient, KeepsUpstream,
       AfterBody, RInv, ChainLife, Idle, NoClient, HasClient, ClientLife, Progress, InStep, Answered
  <2> QED
    BY <2>5, <2>6, <2>7, <2>8, <2>9, <2>10, <2>11, Zenon DEF RInv
<1> QED
  BY <1>1, <1>2, <1>3, <1>4, Zenon DEF IInv

(* UpstreamClient::onEOM keeps the invariant.                              *)
LEMMA OnUpstreamEOMInv ==
  ASSUME IInv, NEW r \in Requests, OnUpstreamEOM(r)
  PROVE  IInv'
<1>0. Send(r, AfterEOM(egress[r]), reply[r])
  BY Zenon DEF OnUpstreamEOM
<1>1. TypeOK'
  <2>1. AfterEOM(egress[r]) \in {"none", "interim", "headers", "eom", "aborted", "broken"}
    BY Zenon DEF AfterEOM
  <2>2. reply[r] \in {"none", "400", "401", "404", "408", "429", "502", "upstream"}
    BY Zenon DEF IInv, TypeOK
  <2>3. /\ egress' \in [Requests -> {"none", "interim", "headers", "eom", "aborted", "broken"}]
        /\ reply' \in [Requests -> {"none", "400", "401", "404", "408", "429", "502", "upstream"}]
        /\ dangling' \in [Requests -> BOOLEAN]
        /\ process' \in {"up", "crashed"}
    BY <1>0, <2>1, <2>2, SendTyped, Zenon
  <2> QED
    BY <2>3, Zenon DEF IInv, TypeOK, OnUpstreamEOM, chainVars
<1>2. Domains'
  BY Zenon DEF IInv, Domains, OnUpstreamEOM, chainVars
<1>3. ASSUME NEW q \in Requests, q # r PROVE RInv(q)'
  <2>0. KeepsAnswer(q) /\ dangling'[q] = dangling[q]
    BY <1>0, <1>3, SendAt, Zenon
  <2>1. Same(q)
    BY <1>3, <2>0, Zenon DEF IInv, TypeOK, Domains, Same, KeepsDown, KeepsFilters,
       KeepsHandler,
       KeepsClient, KeepsUpstream, OnUpstreamEOM, chainVars
  <2> QED
    BY <2>1, Frame, Zenon DEF IInv
<1>4. RInv(r)'
  <2>1. RInv(r) /\ TypedAt(r) /\ (Forwards(r) => ~ SomeBlocked(r))
    BY AtRequest, Zenon
  <2>2. /\ upstream[r] = "headers" /\ upstream'[r] = "eom" /\ headersSent'[r] = headersSent[r]
        /\ upChunks'[r] = upChunks[r] /\ upEnded'[r] = TRUE /\ relayed'[r] = relayed[r]
        /\ KeepsClient(r)
        /\ KeepsDown(r) /\ KeepsFilters(r) /\ KeepsHandler(r) /\ chain'[r] = chain[r]
    BY Zenon DEF IInv, TypeOK, Domains, KeepsAnswer, KeepsDown, KeepsFilters,
       KeepsHandler, KeepsClient, KeepsUpstream, OnUpstreamEOM, chainVars
  <2>3. /\ Forwards(r)' <=> Forwards(r)
        /\ SomeBlocked(r)' <=> SomeBlocked(r)
        /\ Accepted(r)' <=> Accepted(r)
    BY <2>2, FiltersKept, Zenon
  <2>4. \/ /\ chain[r] = "alive"
           /\ egress'[r] = AfterEOM(egress[r]) /\ reply'[r] = reply[r] /\ dangling'[r] = dangling[r]
        \/ /\ chain[r] # "alive"
           /\ KeepsAnswer(r) /\ dangling'[r] = TRUE
    BY <1>0, SendAt, Zenon
  <2>5. Idle(r)' /\ ChainLife(r)'
    BY <2>1, <2>2, <2>3, <2>4, ZenonT(40) DEF TypedAt, KeepsAnswer, KeepsDown, KeepsHandler,
       KeepsClient, KeepsUpstream,
       AfterEOM, RInv, Idle, ChainLife, NoClient, HasClient, InStep
  <2>6. Filtered(r)'
    BY <2>1, <2>2, <2>3, <2>4, ZenonT(40) DEF TypedAt, KeepsAnswer, KeepsDown, KeepsHandler,
       KeepsClient, KeepsUpstream,
       AfterEOM, RInv, Idle, Filtered, HasClient
  <2>7. NoClient(r)'
    BY <2>1, <2>2, <2>3, <2>4, Zenon DEF TypedAt, KeepsAnswer, KeepsDown, KeepsHandler,
       KeepsClient, KeepsUpstream,
       AfterEOM, RInv, Idle, ChainLife, Filtered, NoClient, HasClient
  <2>8. HasClient(r)' /\ ClientLife(r)'
    BY <2>1, <2>2, <2>3, <2>4, ZenonT(40) DEF TypedAt, KeepsAnswer, KeepsDown, KeepsHandler,
       KeepsClient, KeepsUpstream,
       AfterEOM, RInv, Idle, NoClient, HasClient, ClientLife
  <2>9. Progress(r)'
    BY <2>1, <2>2, <2>3, <2>4, Zenon DEF TypedAt, KeepsAnswer, KeepsDown, KeepsHandler,
       KeepsClient, KeepsUpstream,
       AfterEOM, RInv, NoClient, ClientLife, Progress, InStep
  <2>10. InStep(r)'
    BY <2>1, <2>2, <2>3, <2>4, Zenon DEF TypedAt, KeepsAnswer, KeepsDown, KeepsHandler,
       KeepsClient, KeepsUpstream,
       AfterEOM, RInv, ChainLife, Idle, NoClient, HasClient, ClientLife, Progress, InStep
  <2>11. Answered(r)'
    BY <2>1, <2>2, <2>3, <2>4, ZenonT(60) DEF TypedAt, KeepsAnswer, KeepsDown,
       KeepsHandler, KeepsClient, KeepsUpstream,
       AfterEOM, RInv, ChainLife, Idle, NoClient, HasClient, ClientLife, Progress, InStep, Answered
  <2> QED
    BY <2>5, <2>6, <2>7, <2>8, <2>9, <2>10, <2>11, Zenon DEF RInv
<1> QED
  BY <1>1, <1>2, <1>3, <1>4, Zenon DEF IInv

(* UpstreamClient::onError keeps the invariant.                            *)
LEMMA OnUpstreamErrorInv ==
  ASSUME IInv, NEW r \in Requests, OnUpstreamError(r)
  PROVE  IInv'
<1>1. CASE ~ headersSent[r]
  <2>0. Send(r, AfterAll(egress[r]), "502")
    BY <1>1, Zenon DEF OnUpstreamError, ErrorReply
  <2>1. TypeOK'
    <3>1. AfterAll(egress[r]) \in {"none", "interim", "headers", "eom", "aborted", "broken"}
      BY Zenon DEF AfterAll
    <3>2. "502" \in {"none", "400", "401", "404", "408", "429", "502", "upstream"}
      BY Zenon DEF IInv, TypeOK
    <3>3. /\ egress' \in [Requests -> {"none", "interim", "headers", "eom", "aborted", "broken"}]
          /\ reply' \in [Requests -> {"none", "400", "401", "404", "408", "429", "502", "upstream"}]
          /\ dangling' \in [Requests -> BOOLEAN]
          /\ process' \in {"up", "crashed"}
      BY <2>0, <3>1, <3>2, SendTyped, Zenon
    <3> QED
      BY <3>3, Zenon DEF IInv, TypeOK, OnUpstreamError, chainVars
  <2>2. Domains'
    BY Zenon DEF IInv, Domains, OnUpstreamError, chainVars
  <2>3. ASSUME NEW q \in Requests, q # r PROVE RInv(q)'
    <3>0. KeepsAnswer(q) /\ dangling'[q] = dangling[q]
      BY <2>0, <2>3, SendAt, Zenon
    <3>1. Same(q)
      BY <2>3, <3>0, Zenon DEF IInv, TypeOK, Domains, Same, KeepsDown, KeepsFilters,
         KeepsHandler,
         KeepsClient, KeepsUpstream, OnUpstreamError, chainVars
    <3> QED
      BY <3>1, Frame, Zenon DEF IInv
  <2>4. RInv(r)'
    <3>1. RInv(r) /\ TypedAt(r) /\ (Forwards(r) => ~ SomeBlocked(r))
      BY AtRequest, Zenon
    <3>2. /\ upstream[r] \in {"open", "interim", "headers", "eom"} /\ upstream'[r] = "failed"
          /\ headersSent'[r] = headersSent[r]
          /\ upChunks'[r] = upChunks[r] /\ upEnded'[r] = upEnded[r] /\ relayed'[r] = relayed[r]
          /\ KeepsClient(r)
          /\ KeepsDown(r) /\ KeepsFilters(r) /\ KeepsHandler(r) /\ chain'[r] = chain[r]
      BY Zenon DEF IInv, TypeOK, Domains, KeepsAnswer, KeepsDown, KeepsFilters,
         KeepsHandler, KeepsClient, KeepsUpstream, OnUpstreamError, chainVars
    <3>3. /\ Forwards(r)' <=> Forwards(r)
          /\ SomeBlocked(r)' <=> SomeBlocked(r)
          /\ Accepted(r)' <=> Accepted(r)
      BY <3>2, FiltersKept, Zenon
    <3>4. \/ /\ chain[r] = "alive"
             /\ egress'[r] = AfterAll(egress[r]) /\ reply'[r] = "502" /\ dangling'[r] = dangling[r]
          \/ /\ chain[r] # "alive"
             /\ KeepsAnswer(r) /\ dangling'[r] = TRUE
      BY <2>0, SendAt, Zenon
    <3>5. Idle(r)' /\ ChainLife(r)'
      BY <1>1, <3>1, <3>2, <3>3, <3>4, ZenonT(40) DEF TypedAt, KeepsAnswer, KeepsDown,
         KeepsHandler, KeepsClient, KeepsUpstream,
         AfterAll, RInv, Idle, ChainLife, NoClient, HasClient, InStep
    <3>6. Filtered(r)'
      BY <1>1, <3>1, <3>2, <3>3, <3>4, ZenonT(40) DEF TypedAt, KeepsAnswer, KeepsDown,
         KeepsHandler, KeepsClient, KeepsUpstream,
         AfterAll, RInv, Idle, Filtered, HasClient
    <3>7. NoClient(r)'
      BY <1>1, <3>1, <3>2, <3>3, <3>4, Zenon DEF TypedAt, KeepsAnswer, KeepsDown,
         KeepsHandler, KeepsClient, KeepsUpstream,
         AfterAll, RInv, Idle, ChainLife, Filtered, NoClient, HasClient
    <3>8. HasClient(r)' /\ ClientLife(r)'
      BY <1>1, <3>1, <3>2, <3>3, <3>4, Zenon DEF TypedAt, KeepsAnswer, KeepsDown,
         KeepsHandler, KeepsClient, KeepsUpstream,
         AfterAll, RInv, Idle, NoClient, HasClient, ClientLife
    <3>9. Progress(r)'
      BY <1>1, <3>1, <3>2, <3>3, <3>4, Zenon DEF TypedAt, KeepsAnswer, KeepsDown,
         KeepsHandler, KeepsClient, KeepsUpstream,
         AfterAll, RInv, NoClient, ClientLife, Progress, InStep
    <3>10. InStep(r)'
      BY <1>1, <3>1, <3>2, <3>3, <3>4, Zenon DEF TypedAt, KeepsAnswer, KeepsDown,
         KeepsHandler, KeepsClient, KeepsUpstream,
         AfterAll, RInv, ChainLife, Idle, NoClient, HasClient, ClientLife, Progress, InStep
    <3>11. Answered(r)'
      BY <1>1, <3>1, <3>2, <3>3, <3>4, ZenonT(40) DEF TypedAt, KeepsAnswer, KeepsDown,
         KeepsHandler, KeepsClient, KeepsUpstream,
         AfterAll, RInv, ChainLife, Idle, NoClient, HasClient, ClientLife, Progress, InStep, Answered
    <3> QED
      BY <3>5, <3>6, <3>7, <3>8, <3>9, <3>10, <3>11, Zenon DEF RInv
  <2> QED
    BY <2>1, <2>2, <2>3, <2>4, Zenon DEF IInv
<1>2. CASE headersSent[r]
  <2>1. TypeOK'
    BY <1>2, ZenonT(60) DEF IInv, TypeOK, OnUpstreamError, ErrorReply, SendsNothing,
       chainVars
  <2>2. Domains'
    BY Zenon DEF IInv, Domains, OnUpstreamError, chainVars
  <2>3. ASSUME NEW q \in Requests, q # r PROVE RInv(q)'
    <3>1. Same(q)
      BY <1>2, <2>3, Zenon DEF IInv, TypeOK, Domains, Same, KeepsAnswer, KeepsDown,
         KeepsFilters,
         KeepsHandler, KeepsClient, KeepsUpstream, OnUpstreamError, ErrorReply, SendsNothing, chainVars
    <3> QED
      BY <3>1, Frame, Zenon DEF IInv
  <2>4. RInv(r)'
    <3>1. RInv(r) /\ TypedAt(r) /\ (Forwards(r) => ~ SomeBlocked(r))
      BY AtRequest, Zenon
    <3>2. /\ upstream[r] \in {"open", "interim", "headers", "eom"} /\ upstream'[r] = "failed"
          /\ headersSent[r] /\ headersSent'[r] = headersSent[r]
          /\ upChunks'[r] = upChunks[r] /\ upEnded'[r] = upEnded[r] /\ relayed'[r] = relayed[r]
          /\ KeepsClient(r) /\ KeepsAnswer(r) /\ dangling'[r] = dangling[r]
          /\ KeepsDown(r) /\ KeepsFilters(r) /\ KeepsHandler(r) /\ chain'[r] = chain[r]
      BY <1>2, Zenon DEF IInv, TypeOK, Domains, KeepsAnswer, KeepsDown, KeepsFilters,
         KeepsHandler, KeepsClient, KeepsUpstream, OnUpstreamError, ErrorReply, SendsNothing, chainVars
    <3>3. /\ Forwards(r)' <=> Forwards(r)
          /\ SomeBlocked(r)' <=> SomeBlocked(r)
          /\ Accepted(r)' <=> Accepted(r)
      BY <3>2, FiltersKept, Zenon
    <3>5. Idle(r)' /\ ChainLife(r)'
      BY <3>1, <3>2, <3>3, ZenonT(40) DEF TypedAt, KeepsAnswer, KeepsDown, KeepsHandler,
         KeepsClient, KeepsUpstream,
         RInv, Idle, ChainLife, NoClient, HasClient, InStep
    <3>6. Filtered(r)'
      BY <3>1, <3>2, <3>3, ZenonT(60) DEF TypedAt, KeepsAnswer, KeepsDown, KeepsHandler,
         KeepsClient, KeepsUpstream,
         RInv, Idle, Filtered, HasClient
    <3>7. NoClient(r)'
      BY <3>1, <3>2, <3>3, Zenon DEF TypedAt, KeepsAnswer, KeepsDown, KeepsHandler,
         KeepsClient, KeepsUpstream,
         RInv, Idle, ChainLife, Filtered, NoClient, HasClient
    <3>8. HasClient(r)' /\ ClientLife(r)'
      BY <3>1, <3>2, <3>3, ZenonT(40) DEF TypedAt, KeepsAnswer, KeepsDown, KeepsHandler,
         KeepsClient, KeepsUpstream,
         RInv, Idle, NoClient, HasClient, ClientLife
    <3>9. Progress(r)'
      BY <3>1, <3>2, <3>3, Zenon DEF TypedAt, KeepsAnswer, KeepsDown, KeepsHandler,
         KeepsClient, KeepsUpstream,
         RInv, NoClient, ClientLife, Progress, InStep
    <3>10. InStep(r)'
      BY <3>1, <3>2, <3>3, Zenon DEF TypedAt, KeepsAnswer, KeepsDown, KeepsHandler,
         KeepsClient, KeepsUpstream,
         RInv, ChainLife, Idle, NoClient, HasClient, ClientLife, Progress, InStep
    <3>11. Answered(r)'
      BY <3>1, <3>2, <3>3, ZenonT(60) DEF TypedAt, KeepsAnswer, KeepsDown, KeepsHandler,
         KeepsClient, KeepsUpstream,
         RInv, ChainLife, Idle, NoClient, HasClient, ClientLife, Progress, InStep, Answered
    <3> QED
      BY <3>5, <3>6, <3>7, <3>8, <3>9, <3>10, <3>11, Zenon DEF RInv
  <2> QED
    BY <2>1, <2>2, <2>3, <2>4, Zenon DEF IInv
<1> QED
  BY <1>1, <1>2, Zenon

(* UpstreamClient::detachTransaction keeps the invariant.                  *)
LEMMA DetachTransactionInv ==
  ASSUME IInv, NEW r \in Requests, DetachTransaction(r)
  PROVE  IInv'
<1>1. TypeOK'
  BY ChunksAssumption, Zenon DEF IInv, TypeOK, DetachTransaction, SendsNothing, chainVars
<1>2. Domains'
  BY Zenon DEF IInv, Domains, DetachTransaction, SendsNothing, chainVars
<1>3. ASSUME NEW q \in Requests, q # r PROVE RInv(q)'
  <2>1. Same(q)
    BY <1>3, Zenon DEF IInv, TypeOK, Domains, Same, KeepsAnswer, KeepsDown, KeepsFilters,
       KeepsHandler, KeepsClient, KeepsUpstream, DetachTransaction, SendsNothing, chainVars
  <2> QED
    BY <2>1, Frame, Zenon DEF IInv
<1>4. RInv(r)'
  <2>1. RInv(r) /\ TypedAt(r) /\ (Forwards(r) => ~ SomeBlocked(r))
    BY AtRequest, Zenon
  <2>2. /\ upstream[r] \in {"eom", "failed"} /\ upstream'[r] = "detached" /\ headersSent'[r] = headersSent[r]
        /\ upChunks'[r] = upChunks[r] /\ upEnded'[r] = upEnded[r] /\ relayed'[r] = relayed[r]
        /\ client'[r] = "deleted" /\ upReq'[r] = upReq[r]
        /\ KeepsDown(r) /\ KeepsFilters(r) /\ KeepsHandler(r) /\ chain'[r] = chain[r]
        /\ KeepsAnswer(r) /\ dangling'[r] = dangling[r]
    BY Zenon DEF IInv, TypeOK, Domains, KeepsAnswer, KeepsDown, KeepsFilters,
       KeepsHandler, KeepsClient, KeepsUpstream, DetachTransaction, SendsNothing, chainVars
  <2>3. /\ Forwards(r)' <=> Forwards(r)
        /\ SomeBlocked(r)' <=> SomeBlocked(r)
        /\ Accepted(r)' <=> Accepted(r)
    BY <2>2, FiltersKept, Zenon
  <2> QED
    BY <2>1, <2>2, <2>3, ZenonT(60) DEF TypedAt, KeepsAnswer, KeepsDown, KeepsHandler,
       KeepsClient,
       KeepsUpstream, RInv, Idle, ChainLife, Filtered, NoClient, HasClient,
       ClientLife, Progress, InStep, Answered
<1> QED
  BY <1>1, <1>2, <1>3, <1>4, Zenon DEF IInv

=============================================================================
