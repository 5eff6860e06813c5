------------------------ MODULE GatewayRequestProofs ------------------------
(***************************************************************************)
(* Theorems about GatewayRequest, for any number of requests, any set of   *)
(* routes, messages and rate limit outcomes and any bound on the chunks:   *)
(* its safety properties, and that it implements ReverseProxy.             *)
(***************************************************************************)
EXTENDS GatewayRequestInv, GatewayRefinement

(* The invariant holds initially.                                          *)
LEMMA InitInv == Init => IInv
<1> SUFFICES ASSUME Init PROVE IInv
  OBVIOUS
<1>1. << >> \in Seq(BOOLEAN) /\ << >> \in Seq(1 .. MaxChunks) /\ Len(<< >>) = 0
  OBVIOUS
<1>2. TypeOK
  BY <1>1, ChunksAssumption DEF Init, TypeOK
<1>3. Domains
  BY DEF Init, Domains
<1>4. ASSUME NEW r \in Requests PROVE RInv(r)
  BY <1>1 DEF Init, Bare, Nil, RInv, Idle, ChainLife, Filtered, NoClient, HasClient, ClientLife,
     Progress, InStep, Answered, SomeBlocked, Forwards
<1> QED
  BY <1>2, <1>3, <1>4 DEF IInv

(* Every step keeps the invariant.                                         *)
LEMMA NextInv == IInv /\ [Next]_vars => IInv'
<1> SUFFICES ASSUME IInv, [Next]_vars PROVE IInv'
  OBVIOUS
<1>1. CASE UNCHANGED vars
  <2>1. TypeOK' /\ Domains'
    BY <1>1 DEF IInv, TypeOK, Domains, vars, downVars, chainVars, upVars
  <2>2. ASSUME NEW q \in Requests PROVE RInv(q)'
    <3>1. Same(q)
      BY <1>1 DEF Same, KeepsAnswer, KeepsDown, KeepsFilters, KeepsHandler, KeepsClient,
         KeepsUpstream, vars, downVars, chainVars, upVars
    <3> QED
      BY <3>1, Frame DEF IInv
  <2> QED
    BY <2>1, <2>2 DEF IInv
<1>2. ASSUME NEW r \in Requests, OnRequest(r) PROVE IInv'
  <2>1. PICK rt \in Routes :
          \/ OnRequestRejected(r, rt)
          \/ \E msg \in Messages, outcome \in StoreOutcomes :
               \/ OnRequestPassed(r, rt, msg, outcome)
               \/ \E n \in 1 .. Len(rt.filters) : OnRequestBlocked(r, rt, msg, outcome, n)
    BY <1>2 DEF OnRequest
  <2> QED
    BY <2>1, OnRequestRejectedInv, OnRequestPassedInv, OnRequestBlockedInv
<1>3. ASSUME NEW r \in Requests, IngressStep(r) PROVE IInv'
  BY <1>3, OnBodyInv, OnEOMInv, OnUpgradeInv, OnErrorIngressInv DEF IngressStep
<1>4. ASSUME NEW r \in Requests, ConnectStep(r) PROVE IInv'
  BY <1>4, ConnectSuccessInv, ConnectErrorInv DEF ConnectStep
<1>5. ASSUME NEW r \in Requests, UpstreamStep(r) PROVE IInv'
  BY <1>5, OnHeadersInterimInv, OnHeadersCompleteInv, OnUpstreamBodyInv, OnUpstreamEOMInv,
     OnUpstreamErrorInv DEF UpstreamStep
<1> QED
  BY <1>1, <1>2, <1>3, <1>4, <1>5, OnErrorClientGoneInv, RequestCompleteInv,
     DetachTransactionInv DEF Next

(* The inductive invariant is an invariant of the specification.           *)
THEOREM Invariance == Spec => []IInv
  BY InitInv, NextInv, PTL DEF Spec

-----------------------------------------------------------------------------
(* What follows                                                            *)

(* Every piece of state always has a value of its type.                    *)
THEOREM TypeCorrect == Spec => []TypeOK
<1>1. IInv => TypeOK
  BY DEF IInv
<1> QED
  BY <1>1, Invariance, PTL

(* A request that a filter has answered is never proxied, in whatever      *)
(* order its body, EOM, upgrade or error still arrive.                     *)
THEOREM BlockedSafe == Spec => []BlockedNeverProxied
<1>1. IInv => BlockedNeverProxied
  BY DEF IInv, RInv, Filtered, SomeBlocked, Nil, BlockedNeverProxied
<1> QED
  BY <1>1, Invariance, PTL

(* An upstream is asked only for a request whose token every JwtPolicy of  *)
(* its route accepts, whatever the filters are and in whatever order.      *)
THEOREM Verified == Spec => []ProxiedOnlyIfVerified
<1>1. IInv => ProxiedOnlyIfVerified
  <2> SUFFICES ASSUME IInv, NEW r \in Requests, upReq[r] # NoMsg
               PROVE  /\ upReq[r].msg # NoMsg
                      /\ \A i \in 1 .. Len(route[r].filters) :
                           route[r].filters[i].kind = "JwtPolicy"
                             => JwtAllows(route[r].filters[i].cache, request[r].auth)
    BY DEF ProxiedOnlyIfVerified
  <2>1. client[r] # "none"
    BY DEF IInv, RInv, NoClient
  <2>2. headers[r] # NoMsg /\ upReq[r].msg = headers[r]
    BY <2>1 DEF IInv, RInv, HasClient, Filtered
  <2> QED
    BY <2>2 DEF IInv, RInv, Filtered, Accepted
<1> QED
  BY <1>1, Invariance, PTL

(* The client never gets a second response or one out of order, whoever    *)
(* answers: filter, handler, UpstreamClient or the server itself.          *)
THEOREM OneResponse == Spec => []ResponseWellFormed
<1>1. IInv => ResponseWellFormed
  BY DEF IInv, RInv, Answered, ResponseWellFormed
<1> QED
  BY <1>1, Invariance, PTL

(* A proxied response that ends is complete.                               *)
THEOREM WholeResponse == Spec => []CompleteMeansWhole
<1>1. IInv => CompleteMeansWhole
  BY DEF IInv, RInv, Answered, CompleteMeansWhole
<1> QED
  BY <1>1, Invariance, PTL

(* UpstreamClient can only meet a deleted chain after the downstream       *)
(* transaction failed.                                                     *)
THEOREM DanglingNeedsError == Spec => []DanglesOnlyAfterError
<1>1. IInv => DanglesOnlyAfterError
  BY DEF IInv, RInv, InStep, TypeOK, DanglesOnlyAfterError
<1> QED
  BY <1>1, Invariance, PTL

-----------------------------------------------------------------------------
(* What the upstream is sent.  IInv says which messages there are; FInv    *)
(* says what is in them.                                                   *)

Chunks(n) == [i \in 1 .. n |-> i]

(* GatewayHandler has what the filters made of the client's headers.       *)
KnowsHeaders(r) ==
  headers[r] # NoMsg =>
    /\ route[r] \in Routes /\ route[r].terminal = "GatewayHandler"
    /\ request[r] \in Messages
    /\ headers[r] = AfterFilters(route[r].filters, request[r])

(* The chunks that came in are in requestBody_, then in upstreamReq_.      *)
KnowsBody(r) ==
  /\ down[r] = "idle" => chunks[r] = 0
  /\ down[r] = "receiving" /\ Forwards(r) => body[r] = Chunks(chunks[r])
  /\ client[r] # "none" => upReq[r].body = Chunks(chunks[r])

(* Only upstreamReq_ is ever sent.                                         *)
KnowsSent(r) == sent[r] # NoMsg => client[r] # "none" /\ sent[r] = upReq[r]

FInv == /\ DOMAIN sent = Requests
        /\ \A r \in Requests : KnowsHeaders(r) /\ KnowsBody(r) /\ KnowsSent(r)

(* A step that leaves the request alone, and at most takes it past         *)
(* receiving, keeps FInv.                                                  *)
Quiet(q) ==
  /\ KeepsFilters(q) /\ KeepsHandler(q)
  /\ upReq'[q] = upReq[q] /\ chunks'[q] = chunks[q] /\ sent'[q] = sent[q]
  /\ client[q] = "none" <=> client'[q] = "none"
  /\ down'[q] \in {"idle", "receiving"} => down'[q] = down[q]

(* It does.                                                                *)
LEMMA QuietKeeps ==
  ASSUME NEW q \in Requests, Quiet(q), KnowsHeaders(q), KnowsBody(q), KnowsSent(q)
  PROVE  KnowsHeaders(q)' /\ KnowsBody(q)' /\ KnowsSent(q)'
<1>1. Forwards(q)' <=> Forwards(q)
  BY FiltersKept, Zenon DEF Quiet
<1>2. KnowsHeaders(q)'
  BY Zenon DEF Quiet, KeepsFilters, KeepsHandler, KnowsHeaders
<1>3. KnowsBody(q)'
  BY <1>1, Zenon DEF Quiet, KeepsHandler, KnowsBody
<1>4. KnowsSent(q)'
  BY Zenon DEF Quiet, KnowsSent
<1> QED
  BY <1>2, <1>3, <1>4

(* The state is kept per request.                                          *)
LEMMA PerRequest ==
  ASSUME IInv
  PROVE  /\ DOMAIN down = Requests /\ DOMAIN request = Requests /\ DOMAIN route = Requests
         /\ DOMAIN blocked = Requests /\ DOMAIN headers = Requests /\ DOMAIN body = Requests
         /\ DOMAIN client = Requests /\ DOMAIN upReq = Requests
BY Zenon DEF IInv, TypeOK, Domains

(* The callbacks that hand no part of the request on.                      *)
QuietStep(r) ==
  \/ OnUpgrade(r)
  \/ \E status \in {"400", "408"} : OnErrorIngress(r, status)
  \/ OnErrorClientGone(r) \/ RequestComplete(r)
  \/ ConnectError(r) \/ UpstreamStep(r) \/ DetachTransaction(r)

(* They keep FInv.                                                         *)
LEMMA QuietSteps ==
  ASSUME IInv, FInv, NEW r \in Requests, QuietStep(r)
  PROVE  FInv'
<1>1. /\ sent' = sent /\ chunks' = chunks /\ upReq' = upReq /\ headers' = headers
      /\ body' = body /\ route' = route /\ blocked' = blocked /\ request' = request
  BY Zenon DEF QuietStep, OnUpgrade, OnErrorIngress, OnErrorClientGone, RequestComplete,
     ConnectError, UpstreamStep, OnHeadersInterim, OnHeadersComplete, OnUpstreamBody,
     OnUpstreamEOM, OnUpstreamError, DetachTransaction, chainVars, upVars
<1>2. ASSUME NEW q \in Requests
      PROVE  down'[q] \in {"idle", "receiving"} => down'[q] = down[q]
  <2>1. \/ down' = down
        \/ down' = [down EXCEPT ![r] = "upgraded"]
        \/ down' = [down EXCEPT ![r] = "detached"]
    BY Zenon DEF QuietStep, OnUpgrade, OnErrorIngress, OnErrorClientGone,
       RequestComplete, ConnectError, UpstreamStep, OnHeadersInterim, OnHeadersComplete,
       OnUpstreamBody, OnUpstreamEOM, OnUpstreamError, DetachTransaction
  <2> QED
    BY <2>1, PerRequest, Zenon
<1>3. ASSUME NEW q \in Requests
      PROVE  client[q] = "none" <=> client'[q] = "none"
  <2>1. \/ client' = client
        \/ ConnectError(r)
        \/ DetachTransaction(r)
    BY Zenon DEF QuietStep, OnUpgrade, OnErrorIngress, OnErrorClientGone, RequestComplete,
       UpstreamStep, OnHeadersInterim, OnHeadersComplete, OnUpstreamBody, OnUpstreamEOM,
       OnUpstreamError, chainVars, upVars
  <2>2. CASE ConnectError(r)
    BY <2>2, ZenonT(40) DEF IInv, TypeOK, ConnectError
  <2>3. CASE DetachTransaction(r)
    <3>1. client[r] # "none"
      BY <2>3, AtRequest, Zenon DEF DetachTransaction, RInv, NoClient
    <3> QED
      BY <2>3, <3>1, ZenonT(40) DEF IInv, TypeOK, DetachTransaction
  <2> QED
    BY <2>1, <2>2, <2>3, Zenon
<1>4. ASSUME NEW q \in Requests PROVE Quiet(q)
  BY <1>1, <1>2, <1>3, Zenon DEF Quiet, KeepsFilters, KeepsHandler
<1> QED
  BY <1>1, <1>4, QuietKeeps, Zenon DEF FInv

(* A step that changes the request r alone has to look at r alone.         *)
LEMMA QuietElsewhere ==
  ASSUME FInv, NEW r \in Requests, DOMAIN sent' = Requests,
         \A q \in Requests : q # r => Quiet(q),
         KnowsHeaders(r)' /\ KnowsBody(r)' /\ KnowsSent(r)'
  PROVE  FInv'
BY QuietKeeps, Zenon DEF FInv

(* The request arrives.                                                    *)
LEMMA ArrivalSends ==
  ASSUME IInv, FInv, NEW r \in Requests, OnRequest(r)
  PROVE  FInv'
<1>1. PICK rt \in Routes :
        \/ OnRequestRejected(r, rt)
        \/ \E msg \in Messages, outcome \in StoreOutcomes :
             \/ OnRequestPassed(r, rt, msg, outcome)
             \/ \E n \in 1 .. Len(rt.filters) : OnRequestBlocked(r, rt, msg, outcome, n)
  BY Zenon DEF OnRequest
<1>2. \/ headers' = headers
      \/ \E msg \in Messages, outcome \in StoreOutcomes : OnRequestPassed(r, rt, msg, outcome)
  BY <1>1, Zenon DEF OnRequestRejected, OnRequestBlocked
<1>3. \E msg : Arrive(r, rt, msg)
  BY <1>1, Zenon DEF OnRequestRejected, OnRequestPassed, OnRequestBlocked
<1>4. /\ sent' = sent /\ chunks' = chunks /\ body' = body /\ upReq' = upReq /\ client' = client
      /\ down[r] = "idle" /\ down'[r] = "receiving"
      /\ \A q \in Requests : q # r => /\ down'[q] = down[q] /\ request'[q] = request[q]
                                      /\ route'[q] = route[q]
  <2>1. /\ down' = [down EXCEPT ![r] = "receiving"] /\ down[r] = "idle"
        /\ route' = [route EXCEPT ![r] = rt]
        /\ \E msg : request' = [request EXCEPT ![r] = msg]
        /\ sent' = sent /\ chunks' = chunks /\ body' = body /\ upReq' = upReq /\ client' = client
    BY <1>3, Zenon DEF Arrive, upVars
  <2>2. \A q \in Requests : q # r => request'[q] = request[q]
    BY <2>1, PerRequest, Zenon
  <2> QED
    BY <2>1, <2>2, PerRequest, Zenon
<1>5. ASSUME NEW q \in Requests, q # r PROVE blocked'[q] = blocked[q] /\ headers'[q] = headers[q]
  <2>1. /\ blocked' = blocked \/ \E b : blocked' = [blocked EXCEPT ![r] = b]
        /\ headers' = headers \/ \E h : headers' = [headers EXCEPT ![r] = h]
    BY <1>1, Zenon DEF OnRequestRejected, OnRequestPassed, OnRequestBlocked
  <2> QED
    BY <1>5, <2>1, PerRequest, Zenon
<1>6. ASSUME NEW q \in Requests, q # r PROVE Quiet(q)
  BY <1>4, <1>5, <1>6, Zenon DEF Quiet, KeepsFilters, KeepsHandler
<1>7. Idle(r) /\ chunks[r] = 0
  BY <1>4, Zenon DEF IInv, RInv, FInv, KnowsBody
<1>8. KnowsHeaders(r)'
  <2>1. CASE headers' = headers
    BY <2>1, <1>4, <1>7, Zenon DEF Idle, KnowsHeaders
  <2>2. CASE \E msg \in Messages, outcome \in StoreOutcomes : OnRequestPassed(r, rt, msg, outcome)
    <3>1. PICK msg \in Messages, outcome \in StoreOutcomes : OnRequestPassed(r, rt, msg, outcome)
      BY <2>2, Zenon
    <3>2. /\ route'[r] = rt /\ request'[r] = msg /\ rt.terminal = "GatewayHandler"
          /\ headers'[r] = AfterFilters(rt.filters, msg)
      BY <3>1, Zenon DEF OnRequestPassed, Arrive, IInv, TypeOK, Domains
    <3> QED
      BY <3>2, Zenon DEF KnowsHeaders
  <2> QED
    BY <1>2, <2>1, <2>2, Zenon
<1>9. KnowsBody(r)'
  <2>1. body[r] = << >> /\ client[r] = "none"
    BY <1>4, <1>7, Zenon DEF Idle, Nil
  <2>2. << >> = Chunks(0)
    BY DEF Chunks
  <2> QED
    BY <1>4, <1>7, <2>1, <2>2, Zenon DEF KnowsBody
<1>10. KnowsSent(r)'
  BY <1>4, Zenon DEF FInv, KnowsSent
<1>11. DOMAIN sent' = Requests
  BY <1>4, Zenon DEF FInv
<1> QED
  BY <1>6, <1>8, <1>9, <1>10, <1>11, QuietElsewhere, Zenon

(* A chunk comes in.                                                       *)
LEMMA BodySends ==
  ASSUME IInv, FInv, NEW r \in Requests, OnBody(r)
  PROVE  FInv'
<1>1. /\ sent' = sent /\ upReq' = upReq /\ client' = client /\ down' = down /\ headers' = headers
      /\ route' = route /\ blocked' = blocked /\ request' = request
  BY Zenon DEF OnBody, upVars
<1>2. ASSUME NEW q \in Requests, q # r PROVE Quiet(q)
  BY <1>1, <1>2, ZenonT(40) DEF IInv, TypeOK, OnBody, Quiet, KeepsFilters, KeepsHandler
<1>3. down[r] = "receiving" /\ client[r] = "none"
  BY AtRequest, Zenon DEF OnBody, Receiving, RInv, HasClient
<1>4. /\ chunks'[r] = chunks[r] + 1
      /\ Forwards(r) => body'[r] = Append(body[r], chunks[r] + 1)
      /\ chunks[r] \in Nat
  <2>1. chunks \in [Requests -> 0 .. MaxChunks] /\ body \in [Requests -> Seq(1 .. MaxChunks)]
    BY Zenon DEF IInv, TypeOK
  <2>2. chunks[r] \in Nat
    BY <2>1, ChunksAssumption
  <2> QED
    BY <2>1, <2>2, Zenon DEF OnBody, Buffered
<1>5. KeepsFilters(r)
  BY <1>1, Zenon DEF KeepsFilters
<1>6. KnowsBody(r)'
  <2>1. Forwards(r)' <=> Forwards(r)
    BY <1>5, FiltersKept, Zenon
  <2>2. ASSUME Forwards(r) PROVE body'[r] = Chunks(chunks'[r])
    <3>1. body[r] = Chunks(chunks[r])
      BY <1>3, <2>2, Zenon DEF FInv, KnowsBody
    <3>2. \A n \in Nat : Append(Chunks(n), n + 1) = Chunks(n + 1)
      BY DEF Chunks
    <3> QED
      BY <1>4, <2>2, <3>1, <3>2, Zenon
  <2> QED
    BY <1>1, <1>3, <2>1, <2>2, Zenon DEF KnowsBody
<1>7. KnowsHeaders(r)' /\ KnowsSent(r)'
  BY <1>1, Zenon DEF FInv, KnowsHeaders, KnowsSent
<1>8. DOMAIN sent' = Requests
  BY <1>1, Zenon DEF FInv
<1> QED
  BY <1>2, <1>6, <1>7, <1>8, QuietElsewhere, Zenon

(* EOM: the body moves into upstreamReq_.                                  *)
LEMMA EOMSends ==
  ASSUME IInv, FInv, NEW r \in Requests, OnEOM(r)
  PROVE  FInv'
<1>1. /\ sent' = sent /\ chunks' = chunks /\ headers' = headers
      /\ route' = route /\ blocked' = blocked /\ request' = request
      /\ down[r] = "receiving" /\ down'[r] = "received"
  BY Zenon DEF IInv, TypeOK, OnEOM, Receiving
<1>2. ASSUME NEW q \in Requests, q # r
      PROVE  /\ down'[q] = down[q] /\ body'[q] = body[q]
             /\ client'[q] = client[q] /\ upReq'[q] = upReq[q]
  <2>1. /\ down' = [down EXCEPT ![r] = "received"]
        /\ body' = body \/ body' = [body EXCEPT ![r] = << >>]
        /\ client' = client \/ client' = [client EXCEPT ![r] = "connecting"]
        /\ upReq' = upReq \/ \E m : upReq' = [upReq EXCEPT ![r] = m]
    BY Zenon DEF OnEOM
  <2> QED
    BY <1>2, <2>1, PerRequest, Zenon
<1>3. ASSUME NEW q \in Requests, q # r PROVE Quiet(q)
  BY <1>1, <1>2, <1>3, Zenon DEF Quiet, KeepsFilters, KeepsHandler
<1>4. client[r] = "none"
  BY <1>1, AtRequest, Zenon DEF RInv, HasClient
<1>5. KnowsBody(r)'
  <2>1. CASE Forwards(r)
    <3>1. upReq'[r] = [msg |-> headers[r], body |-> body[r]]
      BY <2>1, Zenon DEF IInv, Domains, OnEOM
    <3>2. upReq'[r].body = body[r]
      BY ONLY <3>1
    <3>3. body[r] = Chunks(chunks[r])
      BY <1>1, <2>1, Zenon DEF FInv, KnowsBody
    <3> QED
      BY <1>1, <3>2, <3>3, Zenon DEF KnowsBody
  <2>2. CASE ~ Forwards(r)
    BY <1>1, <1>4, <2>2, Zenon DEF OnEOM, KnowsBody
  <2> QED
    BY <2>1, <2>2, Zenon
<1>6. KnowsHeaders(r)' /\ KnowsSent(r)'
  BY <1>1, <1>4, Zenon DEF FInv, KnowsHeaders, KnowsSent
<1>7. DOMAIN sent' = Requests
  BY <1>1, Zenon DEF FInv
<1> QED
  BY <1>3, <1>5, <1>6, <1>7, QuietElsewhere, Zenon

(* connectSuccess: upstreamReq_ goes out.                                  *)
LEMMA ConnectSends ==
  ASSUME IInv, FInv, NEW r \in Requests, ConnectSuccess(r)
  PROVE  FInv'
<1>1. /\ upReq' = upReq /\ chunks' = chunks /\ headers' = headers /\ body' = body /\ down' = down
      /\ route' = route /\ blocked' = blocked /\ request' = request
      /\ client[r] = "connecting"
  BY Zenon DEF ConnectSuccess, chainVars
<1>2. /\ sent' = [sent EXCEPT ![r] = upReq[r]]
      /\ client' = [client EXCEPT ![r] = "active"]
  BY Zenon DEF ConnectSuccess
<1>3. DOMAIN sent = Requests /\ DOMAIN client = Requests
  BY Zenon DEF FInv, IInv, TypeOK
<1>4. /\ sent'[r] = upReq[r] /\ client'[r] = "active"
      /\ \A q \in Requests : q # r => sent'[q] = sent[q] /\ client'[q] = client[q]
      /\ DOMAIN sent' = Requests
  BY <1>2, <1>3, Zenon
<1>5. ASSUME NEW q \in Requests, q # r PROVE Quiet(q)
  BY <1>1, <1>4, <1>5, Zenon DEF Quiet, KeepsFilters, KeepsHandler
<1>6. Forwards(r)' <=> Forwards(r)
  BY <1>1, FiltersKept, Zenon DEF KeepsFilters
<1>7. KnowsBody(r)'
  BY <1>1, <1>6, Zenon DEF FInv, KnowsBody
<1>8. KnowsHeaders(r)' /\ KnowsSent(r)'
  BY <1>1, <1>4, Zenon DEF FInv, KnowsHeaders, KnowsSent
<1> QED
  BY <1>4, <1>5, <1>7, <1>8, QuietElsewhere, Zenon

(* Every step keeps FInv.                                                  *)
LEMMA NextSends == IInv /\ FInv /\ [Next]_vars => FInv'
<1> SUFFICES ASSUME IInv, FInv, [Next]_vars PROVE FInv'
  OBVIOUS
<1>1. CASE UNCHANGED vars
  <2>1. ASSUME NEW q \in Requests PROVE Quiet(q)
    BY <1>1, Zenon DEF Quiet, KeepsFilters, KeepsHandler, vars, downVars, chainVars, upVars
  <2> QED
    BY <1>1, <2>1, QuietKeeps, Zenon DEF FInv, vars, upVars
<1>2. ASSUME NEW r \in Requests, IngressStep(r) PROVE FInv'
  BY <1>2, BodySends, EOMSends, QuietSteps, Zenon DEF IngressStep, QuietStep
<1>3. ASSUME NEW r \in Requests, ConnectStep(r) PROVE FInv'
  BY <1>3, ConnectSends, QuietSteps, Zenon DEF ConnectStep, QuietStep
<1>4. ASSUME NEW r \in Requests,
             \/ OnErrorClientGone(r) \/ RequestComplete(r)
             \/ UpstreamStep(r) \/ DetachTransaction(r)
      PROVE  FInv'
  BY <1>4, QuietSteps, Zenon DEF QuietStep
<1> QED
  BY <1>1, <1>2, <1>3, <1>4, ArrivalSends, Zenon DEF Next

(* What the filters make of a message.                                     *)
Rewritten(filters, msg, out) ==
  /\ out.rid = IF msg.rid = Absent THEN Generated ELSE msg.rid
  /\ out.tid = IF msg.tid = Absent THEN out.rid ELSE msg.tid
  /\ IF \E i \in 1 .. Len(filters) : filters[i].kind = "JwtPolicy"
       THEN out.auth = Absent /\ out.subject = msg.auth.token.sub
       ELSE out.auth = msg.auth

(* HeaderFilter fills in the ids, a JwtPolicy replaces the token by its    *)
(* subject.                                                                *)
LEMMA FilteredMessage ==
  ASSUME NEW rt \in Routes, rt.terminal = "GatewayHandler", NEW msg \in Messages
  PROVE  Rewritten(rt.filters, msg, AfterFilters(rt.filters, msg))
<1>1. \E i \in 1 .. Len(rt.filters) : rt.filters[i].kind = "HeaderFilter"
  BY RoutesAssumption, Zenon
<1>2. DOMAIN msg = {"rid", "tid", "auth", "subject"}
  BY MessagesAssumption, Zenon
<1> DEFINE rid == IF msg.rid = Absent THEN Generated ELSE msg.rid
           tid == IF msg.tid = Absent THEN rid ELSE msg.tid
           m   == [msg EXCEPT !.rid = rid, !.tid = tid]
           sub == msg.auth.token.sub
           v   == [m EXCEPT !.subject = sub, !.auth = Absent]
<1>3. WithIds(msg) = m
  BY Zenon DEF WithIds
<1>4. AfterFilters(rt.filters, msg)
        = IF \E i \in 1 .. Len(rt.filters) : rt.filters[i].kind = "JwtPolicy" THEN v ELSE m
  BY <1>1, <1>3, Zenon DEF AfterFilters
<1>5. /\ DOMAIN m = {"rid", "tid", "auth", "subject"}
      /\ m.rid = rid /\ m.tid = tid /\ m.auth = msg.auth
  <2> HIDE DEF rid, tid
  <2> QED
    BY <1>2
<1>6. v.rid = rid /\ v.tid = tid /\ v.auth = Absent /\ v.subject = sub
  <2> HIDE DEF rid, tid, m, sub
  <2> QED
    BY <1>5
<1> HIDE DEF m, v
<1> QED
  BY <1>4, <1>5, <1>6, Zenon DEF Rewritten

(* The upstream is sent the whole body in order, with the ids and the      *)
(* subject that HeaderFilter and JwtPolicy put there and without the token.*)
THEOREM ForwardedWhole == Spec => []ForwardedFaithfully
<1>1. Init => FInv
  <2>1. << >> = Chunks(0)
    BY DEF Chunks
  <2> QED
    BY <2>1 DEF Init, FInv, KnowsHeaders, KnowsBody, KnowsSent, Forwards, Bare
<1>2. IInv /\ FInv => ForwardedFaithfully
  <2> SUFFICES ASSUME IInv, FInv, NEW r \in Requests, sent[r] # NoMsg
               PROVE  /\ sent[r].body = [i \in 1 .. chunks[r] |-> i]
                      /\ Rewritten(route[r].filters, request[r], sent[r].msg)
    BY Zenon DEF ForwardedFaithfully, Rewritten
  <2>1. client[r] # "none" /\ sent[r] = upReq[r]
    BY Zenon DEF FInv, KnowsSent
  <2>2. sent[r].body = [i \in 1 .. chunks[r] |-> i]
    BY <2>1, Zenon DEF FInv, KnowsBody, Chunks
  <2>3. headers[r] # NoMsg /\ sent[r].msg = headers[r]
    BY <2>1, AtRequest, Zenon DEF RInv, HasClient, Filtered, IInv
  <2>4. /\ route[r] \in Routes /\ route[r].terminal = "GatewayHandler"
        /\ request[r] \in Messages
        /\ sent[r].msg = AfterFilters(route[r].filters, request[r])
    BY <2>3, Zenon DEF FInv, KnowsHeaders
  <2> QED
    BY <2>2, <2>4, FilteredMessage, Zenon
<1> QED
  BY <1>1, <1>2, Invariance, NextSends, PTL DEF Spec

-----------------------------------------------------------------------------
(* Which tokens are turned away                                            *)

(* A 401 was given for the token the client sent, or by a JwtPolicy behind *)
(* another one.                                                            *)
Justified(r) ==
  reply[r] = "401" =>
    \E i \in 1 .. Len(route[r].filters) :
      /\ route[r].filters[i].kind = "JwtPolicy"
      /\ \/ ~ JwtAllows(route[r].filters[i].cache, request[r].auth)
         \/ \E j \in 1 .. (i - 1) : route[r].filters[j].kind = "JwtPolicy"

(* A step that gives request q no 401 keeps that.                          *)
NoNew401(q) ==
  reply'[q] = "401" => /\ reply[q] = "401"
                       /\ route'[q] = route[q] /\ request'[q] = request[q]

(* It does.                                                                *)
LEMMA JustifiedKept ==
  ASSUME NEW q \in Requests, Justified(q), NoNew401(q)
  PROVE  Justified(q)'
BY ZenonT(40) DEF Justified, NoNew401

(* The filter at which a request stops with a 401 does not accept the      *)
(* token it came with, unless there is a JwtPolicy in front of it.         *)
LEMMA StopJustified ==
  ASSUME NEW filters, NEW msg, NEW outcome, NEW n,
         StopsAt(filters, n, msg, outcome), BlockStatus(filters, n) = "401"
  PROVE  /\ filters[n].kind = "JwtPolicy"
         /\ \/ ~ JwtAllows(filters[n].cache, msg.auth)
            \/ \E j \in 1 .. (n - 1) : filters[j].kind = "JwtPolicy"
<1>1. filters[n].kind = "JwtPolicy"
  <2>1. "429" # "401"
    OBVIOUS
  <2> QED
    BY <2>1, Zenon DEF BlockStatus
<1>2. "JwtPolicy" # "RateLimitFilter"
  OBVIOUS
<1>3. ~ JwtAllows(filters[n].cache, AuthAt(filters, n, msg))
  BY <1>1, <1>2, Zenon DEF StopsAt, Blocks
<1> QED
  BY <1>1, <1>3, Zenon DEF AuthAt

(* Only an arrival gives a 401.                                            *)
LEMMA LaterSteps401 ==
  ASSUME IInv, NEW r \in Requests, NEW q \in Requests,
         \/ IngressStep(r) \/ OnErrorClientGone(r) \/ RequestComplete(r)
         \/ ConnectStep(r) \/ UpstreamStep(r) \/ DetachTransaction(r)
  PROVE  NoNew401(q)
<1>1. route' = route /\ request' = request
  BY ZenonT(40) DEF IngressStep, OnBody, OnEOM, OnUpgrade, OnErrorIngress, OnErrorClientGone,
     RequestComplete, ConnectStep, ConnectSuccess, ConnectError, UpstreamStep,
     OnHeadersInterim, OnHeadersComplete, OnUpstreamBody, OnUpstreamEOM, OnUpstreamError,
     DetachTransaction, chainVars
<1>2. \/ reply' = reply
      \/ \E rep \in {"400", "408", "502", "upstream", reply[r]} :
           reply' = [reply EXCEPT ![r] = rep]
  <2>1. ASSUME NEW e, NEW rep, Send(r, e, rep)
        PROVE  reply' = reply \/ reply' = [reply EXCEPT ![r] = rep]
    BY <2>1, Zenon DEF Send
  <2>2. CASE IngressStep(r)
    <3>1. CASE OnBody(r) \/ OnEOM(r)
      BY <3>1, Zenon DEF OnBody, OnEOM
    <3>2. CASE OnUpgrade(r)
      BY <3>2, Zenon DEF OnUpgrade
    <3>3. ASSUME NEW status \in {"400", "408"}, OnErrorIngress(r, status)
          PROVE  \E rep \in {"400", "408", "502", "upstream", reply[r]} :
                   reply' = [reply EXCEPT ![r] = rep]
      <4>1. reply' = [reply EXCEPT ![r] = IF egress[r] = "none" THEN status ELSE reply[r]]
        BY <3>3, Zenon DEF OnErrorIngress
      <4> QED
        BY <4>1, Zenon
    <3> QED
      BY <2>2, <3>1, <3>2, <3>3, Zenon DEF IngressStep
  <2>3. CASE OnErrorClientGone(r) \/ RequestComplete(r) \/ DetachTransaction(r)
             \/ ConnectSuccess(r)
    BY <2>3, Zenon DEF OnErrorClientGone, RequestComplete, DetachTransaction,
       ConnectSuccess, SendsNothing
  <2>4. CASE ConnectError(r)
    BY <2>1, <2>4, Zenon DEF ConnectError
  <2>5. CASE UpstreamStep(r)
    <3>1. CASE OnUpstreamError(r)
      BY <2>1, <3>1, Zenon DEF OnUpstreamError, ErrorReply, SendsNothing
    <3>2. CASE OnHeadersInterim(r) \/ OnUpstreamBody(r) \/ OnUpstreamEOM(r)
      BY <2>1, <3>2, Zenon DEF OnHeadersInterim, OnUpstreamBody, OnUpstreamEOM
    <3>3. CASE OnHeadersComplete(r)
      BY <2>1, <3>3, Zenon DEF OnHeadersComplete
    <3> QED
      BY <2>5, <3>1, <3>2, <3>3, Zenon DEF UpstreamStep
  <2> QED
    BY <2>2, <2>3, <2>4, <2>5, Zenon DEF ConnectStep
<1>3. DOMAIN reply = Requests
  BY Zenon DEF IInv, TypeOK
<1>4. reply'[q] = reply[q] \/ reply'[q] \in {"400", "408", "502", "upstream"}
  BY <1>2, <1>3, ZenonT(40)
<1>5. "401" \notin {"400", "408", "502", "upstream"}
  OBVIOUS
<1> QED
  BY <1>1, <1>4, <1>5, Zenon DEF NoNew401

(* An arrival gives one only for cause.                                    *)
LEMMA Arrival401 ==
  ASSUME IInv, NEW r \in Requests, OnRequest(r), NEW q \in Requests, Justified(q)
  PROVE  Justified(q)'
<1>1. PICK rt \in Routes :
        \/ OnRequestRejected(r, rt)
        \/ \E msg \in Messages, outcome \in StoreOutcomes :
             \/ OnRequestPassed(r, rt, msg, outcome)
             \/ \E n \in 1 .. Len(rt.filters) : OnRequestBlocked(r, rt, msg, outcome, n)
  BY Zenon DEF OnRequest
<1>2. /\ DOMAIN reply = Requests /\ DOMAIN route = Requests /\ DOMAIN request = Requests
      /\ DOMAIN down = Requests
  BY Zenon DEF IInv, TypeOK, Domains
<1>3. PICK msg : Arrive(r, rt, msg)
  BY <1>1, Zenon DEF OnRequestRejected, OnRequestPassed, OnRequestBlocked
<1>4. CASE q # r
  <2>1. reply' = reply \/ \E rep : reply' = [reply EXCEPT ![r] = rep]
    BY <1>1, Zenon DEF OnRequestRejected, OnRequestPassed, OnRequestBlocked
  <2>2. reply'[q] = reply[q]
    BY <1>2, <1>4, <2>1, Zenon
  <2>3. route'[q] = route[q] /\ request'[q] = request[q]
    BY <1>2, <1>3, <1>4, Zenon DEF Arrive
  <2> QED
    BY <2>2, <2>3, JustifiedKept, Zenon DEF NoNew401
<1>5. CASE q = r
  <2>1. CASE OnRequestRejected(r, rt)
    <3>1. reply'[r] \in {"404", "502"}
      BY <1>2, <2>1, ZenonT(40) DEF OnRequestRejected
    <3>2. "401" \notin {"404", "502"}
      OBVIOUS
    <3> QED
      BY <1>5, <3>1, <3>2, Zenon DEF Justified
  <2>2. ASSUME NEW m \in Messages, NEW outcome \in StoreOutcomes,
               OnRequestPassed(r, rt, m, outcome)
        PROVE  Justified(q)'
    <3>1. reply[r] = "none"
      <4>1. down[r] = "idle"
        BY <1>3, Zenon DEF Arrive
      <4> QED
        BY <4>1, AtRequest, Zenon DEF RInv, Idle
    <3>2. reply' = reply
      BY <2>2, Zenon DEF OnRequestPassed
    <3>3. "none" # "401"
      OBVIOUS
    <3> QED
      BY <1>5, <3>1, <3>2, <3>3, Zenon DEF Justified
  <2>3. ASSUME NEW m \in Messages, NEW outcome \in StoreOutcomes,
               NEW n \in 1 .. Len(rt.filters), OnRequestBlocked(r, rt, m, outcome, n)
        PROVE  Justified(q)'
    <3>1. /\ reply'[r] = BlockStatus(rt.filters, n)
          /\ route'[r] = rt /\ request'[r] = m
          /\ StopsAt(rt.filters, n, m, outcome)
      BY <1>2, <2>3, ZenonT(40) DEF OnRequestBlocked, Arrive
    <3>2. SUFFICES ASSUME reply'[r] = "401"
                   PROVE  \E i \in 1 .. Len(rt.filters) :
                            /\ rt.filters[i].kind = "JwtPolicy"
                            /\ \/ ~ JwtAllows(rt.filters[i].cache, m.auth)
                               \/ \E j \in 1 .. (i - 1) : rt.filters[j].kind = "JwtPolicy"
      BY <1>5, <3>1, ZenonT(40) DEF Justified
    <3>3. BlockStatus(rt.filters, n) = "401" /\ StopsAt(rt.filters, n, m, outcome)
      BY <3>1, <3>2, Zenon
    <3>4. /\ rt.filters[n].kind = "JwtPolicy"
          /\ \/ ~ JwtAllows(rt.filters[n].cache, m.auth)
             \/ \E j \in 1 .. (n - 1) : rt.filters[j].kind = "JwtPolicy"
      BY ONLY <3>3, StopJustified, ZenonT(40)
    <3> QED
      BY <3>4, Zenon
  <2> QED
    BY <1>1, <2>1, <2>2, <2>3, Zenon
<1> QED
  BY <1>4, <1>5, Zenon

(* A client is answered 401 only for a token that the JwtPolicy in front   *)
(* does not accept, or because a JwtPolicy stands behind another: with one *)
(* JwtPolicy per chain, every token that it accepts gets through to the    *)
(* rate limit.  No later event of the request turns into a 401.            *)
THEOREM RejectedForCause == Spec => []SinglePolicyRejectsOnlyBadTokens
<1> DEFINE RejInv == \A r \in Requests : Justified(r)
<1>1. Init => RejInv
  <2>1. "none" # "401"
    OBVIOUS
  <2> QED
    BY <2>1, Zenon DEF Init, Justified
<1>2. IInv /\ RejInv /\ [Next]_vars => RejInv'
  <2> SUFFICES ASSUME IInv, RejInv, [Next]_vars, NEW q \in Requests PROVE Justified(q)'
    BY Zenon
  <2>1. CASE UNCHANGED vars
    <3>1. NoNew401(q)
      BY <2>1, Zenon DEF NoNew401, vars, downVars, chainVars
    <3> QED
      BY <3>1, JustifiedKept, Zenon
  <2>2. ASSUME NEW r \in Requests, OnRequest(r) PROVE Justified(q)'
    BY <2>2, Arrival401, Zenon
  <2>3. ASSUME NEW r \in Requests,
               \/ IngressStep(r) \/ OnErrorClientGone(r) \/ RequestComplete(r)
               \/ ConnectStep(r) \/ UpstreamStep(r) \/ DetachTransaction(r)
        PROVE  Justified(q)'
    BY <2>3, LaterSteps401, JustifiedKept, Zenon
  <2> QED
    BY <2>1, <2>2, <2>3, Zenon DEF Next
<1>3. RejInv => SinglePolicyRejectsOnlyBadTokens
  BY Zenon DEF Justified, SinglePolicyRejectsOnlyBadTokens
<1> HIDE DEF RejInv
<1> QED
  BY <1>1, <1>2, <1>3, Invariance, PTL DEF Spec

-----------------------------------------------------------------------------
(* GatewayRequest implements ReverseProxy                                  *)

(* What a step leaves alone of the view of request q.                      *)
SameView(q) ==
  /\ down'[q] = down[q] /\ headers'[q] = headers[q] /\ upstream'[q] = upstream[q]
  /\ egress'[q] = egress[q] /\ reply'[q] = reply[q]

Others(r) == \A q \in Requests : q # r => SameView(q)

(* A request whose state a step leaves alone looks the same after it.      *)
LEMMA ViewKept ==
  ASSUME NEW q \in Requests, SameView(q)
  PROVE  ViewOf(q)' = ViewOf(q)
BY Zenon DEF SameView, ViewOf, VerdictOf, AskedOf

(* A step that changes the view of r alone is a change of viewBar at r.    *)
LEMMA Lift ==
  ASSUME NEW r \in Requests, Others(r)
  PROVE  /\ viewBar' = [viewBar EXCEPT ![r] = ViewOf(r)']
         /\ viewBar[r] = ViewOf(r)
         /\ ViewOf(r)' = ViewOf(r) => viewBar' = viewBar
<1>1. ASSUME NEW q \in Requests, q # r PROVE ViewOf(q)' = ViewOf(q)
  BY <1>1, ViewKept, Zenon DEF Others
<1> DEFINE V(q) == ViewOf(q)
           W(q) == ViewOf(q)'
<1>2. viewBar = [q \in Requests |-> V(q)] /\ viewBar' = [q \in Requests |-> W(q)]
  BY Zenon DEF viewBar
<1>3. \A q \in Requests : q # r => W(q) = V(q)
  BY <1>1, Zenon
<1> HIDE DEF V, W
<1>4. /\ [q \in Requests |-> W(q)] = [[q \in Requests |-> V(q)] EXCEPT ![r] = W(r)]
      /\ [q \in Requests |-> V(q)][r] = V(r)
      /\ W(r) = V(r) => [q \in Requests |-> W(q)] = [q \in Requests |-> V(q)]
  BY <1>3, Zenon
<1> QED
  BY <1>2, <1>4, Zenon DEF V, W

-----------------------------------------------------------------------------
(* The steps of ReverseProxy, in terms of what a step does at request r.   *)

KeepsVerdict(r) == VerdictOf(r)' = VerdictOf(r)

KeepsAsked(r) == AskedOf(r)' = AskedOf(r)

(* A step that changes neither verdict, upstream, stage nor source is a stutter.*)
LEMMA Stutters ==
  ASSUME NEW r \in Requests, Others(r), KeepsVerdict(r), KeepsAsked(r),
         StageOf(egress'[r]) = StageOf(egress[r]), ByOf(reply'[r]) = ByOf(reply[r])
  PROVE  viewBar' = viewBar
<1>1. ViewOf(r)' = ViewOf(r)
  BY Zenon DEF ViewOf, KeepsVerdict, KeepsAsked
<1> QED
  BY <1>1, Lift, Zenon

(* Passing the chain is ReverseProxy's Admit.                              *)
LEMMA IsAdmit ==
  ASSUME NEW r \in Requests, Others(r), KeepsAsked(r), VerdictOf(r) = "pending",
         VerdictOf(r)' = "pass", egress'[r] = egress[r], reply'[r] = reply[r]
  PROVE  Proxy!Admit(r)
<1>1. ViewOf(r)' = Proxy!View("pass", ViewOf(r).upstream, ViewOf(r).stage, ViewOf(r).by)
  BY Zenon DEF ViewOf, KeepsVerdict, KeepsAsked, Proxy!View
<1>2. ViewOf(r).verdict = "pending"
  BY Zenon DEF ViewOf
<1> QED
  BY <1>1, <1>2, Lift, Zenon DEF Proxy!Admit, Proxy!Becomes

(* A complete answer instead of passing the chain is its Refuse.           *)
LEMMA IsRefuse ==
  ASSUME NEW r \in Requests, Others(r), KeepsAsked(r), VerdictOf(r) = "pending",
         VerdictOf(r)' = "refuse", StageOf(egress'[r]) = "complete",
         ByOf(reply'[r]) = "gateway"
  PROVE  Proxy!Refuse(r)
<1>1. ViewOf(r)' = Proxy!View("refuse", ViewOf(r).upstream, "complete", "gateway")
  BY Zenon DEF ViewOf, KeepsVerdict, KeepsAsked, Proxy!View
<1>2. ViewOf(r).verdict = "pending"
  BY Zenon DEF ViewOf
<1> QED
  BY <1>1, <1>2, Lift, Zenon DEF Proxy!Refuse, Proxy!Becomes

(* Opening the upstream transaction is its Ask.                            *)
LEMMA IsAsk ==
  ASSUME NEW r \in Requests, Others(r), KeepsVerdict(r), VerdictOf(r) = "pass",
         AskedOf(r) = "unasked", AskedOf(r)' = "asked",
         StageOf(egress[r]) \in {"none", "cut"}, egress'[r] = egress[r], reply'[r] = reply[r]
  PROVE  Proxy!Ask(r)
<1>1. ViewOf(r)' = Proxy!View("pass", "asked", ViewOf(r).stage, ViewOf(r).by)
  BY Zenon DEF ViewOf, KeepsVerdict, KeepsAsked, Proxy!View
<1>2. /\ ViewOf(r).verdict = "pass" /\ ViewOf(r).upstream = "unasked"
      /\ ViewOf(r).stage \in {"none", "cut"}
  BY Zenon DEF ViewOf
<1> QED
  BY <1>1, <1>2, Lift, Zenon DEF Proxy!Ask, Proxy!Becomes

(* A complete answer of the gateway's own is its Answer.                   *)
LEMMA IsAnswer ==
  ASSUME NEW r \in Requests, Others(r), KeepsVerdict(r), KeepsAsked(r), VerdictOf(r) = "pass",
         StageOf(egress[r]) = "none", StageOf(egress'[r]) = "complete",
         ByOf(reply'[r]) = "gateway"
  PROVE  Proxy!Answer(r)
<1>1. ViewOf(r)' = Proxy!View("pass", ViewOf(r).upstream, "complete", "gateway")
  BY Zenon DEF ViewOf, KeepsVerdict, KeepsAsked, Proxy!View
<1>2. ViewOf(r).verdict = "pass" /\ ViewOf(r).stage = "none"
  BY Zenon DEF ViewOf
<1> QED
  BY <1>1, <1>2, Lift, Zenon DEF Proxy!Answer, Proxy!Becomes

(* The first final header of the upstream is its Relay.                    *)
LEMMA IsRelay ==
  ASSUME NEW r \in Requests, Others(r), KeepsVerdict(r), KeepsAsked(r), AskedOf(r) = "asked",
         StageOf(egress[r]) = "none", StageOf(egress'[r]) = "started",
         ByOf(reply'[r]) = "upstream"
  PROVE  Proxy!Relay(r)
<1>1. ViewOf(r)' = Proxy!View(ViewOf(r).verdict, "asked", "started", "upstream")
  BY Zenon DEF ViewOf, KeepsVerdict, KeepsAsked, Proxy!View
<1>2. ViewOf(r).upstream = "asked" /\ ViewOf(r).stage = "none"
  BY Zenon DEF ViewOf
<1> QED
  BY <1>1, <1>2, Lift, Zenon DEF Proxy!Relay, Proxy!Becomes

(* The end of a response under way is its Finish.                          *)
LEMMA IsFinish ==
  ASSUME NEW r \in Requests, Others(r), KeepsVerdict(r), KeepsAsked(r),
         StageOf(egress[r]) = "started", StageOf(egress'[r]) = "complete",
         reply'[r] = reply[r]
  PROVE  Proxy!Finish(r)
<1>1. ViewOf(r)' = Proxy!View(ViewOf(r).verdict, ViewOf(r).upstream, "complete", ViewOf(r).by)
  BY Zenon DEF ViewOf, KeepsVerdict, KeepsAsked, Proxy!View
<1>2. ViewOf(r).stage = "started"
  BY Zenon DEF ViewOf
<1> QED
  BY <1>1, <1>2, Lift, Zenon DEF Proxy!Finish, Proxy!Becomes

(* An abort before the end of the response is its Cut.                     *)
LEMMA IsCut ==
  ASSUME NEW r \in Requests, Others(r), KeepsVerdict(r), KeepsAsked(r),
         VerdictOf(r) # "pending", StageOf(egress[r]) \in {"none", "started"},
         StageOf(egress'[r]) = "cut", reply'[r] = reply[r]
  PROVE  Proxy!Cut(r)
<1>1. ViewOf(r)' = Proxy!View(ViewOf(r).verdict, ViewOf(r).upstream, "cut", ViewOf(r).by)
  BY Zenon DEF ViewOf, KeepsVerdict, KeepsAsked, Proxy!View
<1>2. ViewOf(r).verdict # "pending" /\ ViewOf(r).stage \in {"none", "started"}
  BY Zenon DEF ViewOf
<1> QED
  BY <1>1, <1>2, Lift, Zenon DEF Proxy!Cut, Proxy!Becomes

(* What the stages and sources of the concrete values are.                 *)
LEMMA Stages ==
  /\ StageOf("none") = "none" /\ StageOf("interim") = "none"
  /\ StageOf("headers") = "started" /\ StageOf("eom") = "complete"
  /\ StageOf("aborted") = "cut"
  /\ ByOf("upstream") = "upstream"
  /\ \A rep \in {"400", "401", "404", "408", "429", "502"} : ByOf(rep) = "gateway"
BY Zenon DEF StageOf, ByOf

-----------------------------------------------------------------------------
(* An upstream is not asked for a request that has been answered: while    *)
(* UpstreamClient connects, the client has been sent nothing, unless it    *)
(* went away.                                                              *)
Unanswered(r) == client[r] = "connecting" => egress[r] \in {"none", "aborted"}

CInv == \A r \in Requests : Unanswered(r)

Refines == [Proxy!Next]_viewBar

(* A step that keeps the view is allowed by ReverseProxy.                  *)
LEMMA ByStutter ==
  ASSUME viewBar' = viewBar PROVE Refines
BY Zenon DEF Refines

(* One of the seven steps at r is allowed by ReverseProxy.                 *)
LEMMA ByStep ==
  ASSUME NEW r \in Requests,
         \/ Proxy!Admit(r) \/ Proxy!Refuse(r) \/ Proxy!Ask(r) \/ Proxy!Answer(r)
         \/ Proxy!Relay(r) \/ Proxy!Finish(r) \/ Proxy!Cut(r)
  PROVE  Refines
BY Zenon DEF Refines, Proxy!Next

(* The invariant of a step that leaves other requests alone.               *)
LEMMA CInvAt ==
  ASSUME CInv, NEW r \in Requests, Others(r),
         \A q \in Requests : q # r => client'[q] = client[q],
         Unanswered(r)'
  PROVE  CInv'
BY Zenon DEF CInv, Unanswered, Others, SameView

-----------------------------------------------------------------------------
(* The client's side                                                       *)

(* A factory's rejecting handler refuses the request.                      *)
LEMMA RejectedRefines ==
  ASSUME IInv, CInv, NEW r \in Requests, NEW rt \in Routes, OnRequestRejected(r, rt)
  PROVE  Refines /\ CInv'
<1>1. RInv(r) /\ TypedAt(r)
  BY AtRequest, Zenon
<1>2. /\ down[r] = "idle" /\ down'[r] = "receiving" /\ headers'[r] = headers[r]
      /\ egress'[r] = AfterAll(egress[r]) /\ reply'[r] \in {"404", "502"}
      /\ upstream' = upstream /\ client' = client
      /\ Others(r)
  BY ZenonT(60) DEF IInv, TypeOK, OnRequestRejected, Arrive, Others, SameView, upVars
<1>3. egress[r] = "none" /\ headers[r] = NoMsg /\ client[r] = "none"
  BY <1>1, <1>2, Zenon DEF RInv, Idle
<1>4. egress'[r] = "eom"
  BY <1>2, <1>3, Zenon DEF AfterAll
<1>5. VerdictOf(r) = "pending" /\ VerdictOf(r)' = "refuse" /\ KeepsAsked(r)
  BY <1>2, <1>3, Zenon DEF VerdictOf, KeepsAsked, AskedOf
<1>6. Proxy!Refuse(r)
  BY <1>2, <1>4, <1>5, IsRefuse, Stages, Zenon
<1>7. Unanswered(r)'
  BY <1>2, <1>3, Zenon DEF Unanswered
<1> QED
  BY <1>2, <1>6, <1>7, ByStep, CInvAt, ZenonT(40)

(* A filter that answers refuses the request.                              *)
LEMMA BlockedRefines ==
  ASSUME IInv, CInv, NEW r \in Requests, NEW rt \in Routes, NEW msg \in Messages,
         NEW outcome \in StoreOutcomes, NEW n \in 1 .. Len(rt.filters),
         OnRequestBlocked(r, rt, msg, outcome, n)
  PROVE  Refines /\ CInv'
<1>1. RInv(r) /\ TypedAt(r)
  BY AtRequest, Zenon
<1>2. /\ down[r] = "idle" /\ down'[r] = "receiving" /\ headers'[r] = headers[r]
      /\ egress'[r] = AfterAll(egress[r]) /\ reply'[r] \in {"401", "429"}
      /\ upstream' = upstream /\ client' = client
      /\ Others(r)
  BY ZenonT(60) DEF IInv, TypeOK, OnRequestBlocked, Arrive, Others, SameView, upVars, BlockStatus
<1>3. egress[r] = "none" /\ headers[r] = NoMsg /\ client[r] = "none"
  BY <1>1, <1>2, Zenon DEF RInv, Idle
<1>4. egress'[r] = "eom"
  BY <1>2, <1>3, Zenon DEF AfterAll
<1>5. VerdictOf(r) = "pending" /\ VerdictOf(r)' = "refuse" /\ KeepsAsked(r)
  BY <1>2, <1>3, Zenon DEF VerdictOf, KeepsAsked, AskedOf
<1>6. Proxy!Refuse(r)
  BY <1>2, <1>4, <1>5, IsRefuse, Stages, Zenon
<1>7. Unanswered(r)'
  BY <1>2, <1>3, Zenon DEF Unanswered
<1> QED
  BY <1>2, <1>6, <1>7, ByStep, CInvAt, ZenonT(40)

(* GatewayHandler::onRequest admits the request.                           *)
LEMMA PassedRefines ==
  ASSUME IInv, CInv, NEW r \in Requests, NEW rt \in Routes, NEW msg \in Messages,
         NEW outcome \in StoreOutcomes, OnRequestPassed(r, rt, msg, outcome)
  PROVE  Refines /\ CInv'
<1>1. RInv(r) /\ TypedAt(r)
  BY AtRequest, Zenon
<1>2. /\ down[r] = "idle" /\ down'[r] = "receiving"
      /\ headers'[r] = AfterFilters(rt.filters, msg)
      /\ egress' = egress /\ reply' = reply
      /\ upstream' = upstream /\ client' = client
      /\ Others(r)
  BY Zenon DEF IInv, TypeOK, Domains, OnRequestPassed, Arrive, Others, SameView, upVars
<1>3. headers'[r] # NoMsg
  BY <1>2, NoMsgAssumption, Zenon DEF OnRequestPassed
<1>4. VerdictOf(r) = "pending" /\ VerdictOf(r)' = "pass" /\ KeepsAsked(r)
  BY <1>2, <1>3, Zenon DEF VerdictOf, KeepsAsked, AskedOf
<1>5. Proxy!Admit(r)
  BY <1>2, <1>4, IsAdmit, ZenonT(40)
<1>6. Unanswered(r)'
  BY <1>2, Zenon DEF CInv, Unanswered
<1> QED
  BY <1>2, <1>5, <1>6, ByStep, CInvAt, ZenonT(40)

(* A request that reaches GatewayHandler has been admitted, and while it   *)
(* is being received nothing has been sent for it; one that does not reach *)
(* GatewayHandler has been answered.                                       *)
LEMMA AtReceiving ==
  ASSUME IInv, NEW r \in Requests, Receiving(r)
  PROVE  /\ client[r] = "none" /\ down[r] = "receiving"
         /\ Forwards(r) => egress[r] = "none" /\ VerdictOf(r) = "pass" /\ headers[r] # NoMsg
         /\ ~ Forwards(r) => egress[r] = "eom"
<1>1. RInv(r) /\ TypedAt(r)
  BY AtRequest, Zenon
<1>2. down[r] = "receiving" /\ ~ err[r]
  BY Zenon DEF Receiving
<1>3. client[r] = "none"
  BY <1>1, <1>2, Zenon DEF RInv, HasClient
<1>4. egress[r] = IF Forwards(r) THEN "none" ELSE "eom"
  BY <1>1, <1>2, <1>3, Zenon DEF RInv, NoClient
<1>5. Forwards(r) => headers[r] # NoMsg
  BY <1>1, <1>2, Zenon DEF RInv, Filtered
<1> QED
  BY <1>2, <1>3, <1>4, <1>5, Zenon DEF VerdictOf

(* A request with an UpstreamClient has been admitted.                     *)
LEMMA AtClient ==
  ASSUME IInv, NEW r \in Requests, client[r] # "none" \/ upstream[r] # "none"
  PROVE  client[r] # "none" /\ VerdictOf(r) = "pass"
<1>1. RInv(r)
  BY AtRequest, Zenon
<1>2. client[r] # "none"
  BY <1>1, Zenon DEF RInv, NoClient
<1>3. down[r] # "idle" /\ Forwards(r)
  BY <1>1, <1>2, ZenonT(40) DEF RInv, HasClient
<1>4. headers[r] # NoMsg
  BY <1>1, <1>3, Zenon DEF RInv, Filtered
<1> QED
  BY <1>2, <1>3, <1>4, ZenonT(40) DEF VerdictOf

(* GatewayHandler::onBody is a stutter.                                    *)
LEMMA BodyRefines ==
  ASSUME IInv, CInv, NEW r \in Requests, OnBody(r)
  PROVE  Refines /\ CInv'
<1>1. /\ Others(r) /\ KeepsVerdict(r) /\ KeepsAsked(r) /\ client' = client
      /\ egress' = egress /\ reply' = reply
  BY Zenon DEF OnBody, Others, SameView, KeepsVerdict, VerdictOf, KeepsAsked, AskedOf, upVars
<1>2. Unanswered(r)'
  BY <1>1, Zenon DEF CInv, Unanswered
<1> QED
  BY <1>1, <1>2, Stutters, ByStutter, CInvAt, ZenonT(40)

(* GatewayHandler::onEOM, which only starts to connect, is a stutter.      *)
LEMMA EOMRefines ==
  ASSUME IInv, CInv, NEW r \in Requests, OnEOM(r)
  PROVE  Refines /\ CInv'
<1>1. /\ Receiving(r) /\ down'[r] = "received" /\ headers' = headers
      /\ upstream' = upstream /\ egress' = egress /\ reply' = reply
      /\ Forwards(r) \/ client' = client
      /\ Others(r) /\ \A q \in Requests : q # r => client'[q] = client[q]
  BY DEF IInv, TypeOK, OnEOM, Others, SameView
<1>2. /\ client[r] = "none" /\ down[r] = "receiving"
      /\ Forwards(r) => egress[r] = "none"
  BY <1>1, AtReceiving, Zenon
<1>3. KeepsVerdict(r) /\ KeepsAsked(r)
  BY <1>1, <1>2, Zenon DEF KeepsVerdict, VerdictOf, KeepsAsked, AskedOf
<1>4. Unanswered(r)'
  BY <1>1, <1>2, Zenon DEF Unanswered
<1> QED
  BY <1>1, <1>3, <1>4, Stutters, ByStutter, CInvAt, ZenonT(40)

(* onUpgrade answers a request or does nothing.                            *)
LEMMA UpgradeRefines ==
  ASSUME IInv, CInv, NEW r \in Requests, OnUpgrade(r)
  PROVE  Refines /\ CInv'
<1>1. /\ Receiving(r) /\ down'[r] = "upgraded" /\ headers' = headers
      /\ upstream' = upstream /\ client' = client
      /\ IF Forwards(r) THEN egress'[r] = AfterAll(egress[r]) /\ reply'[r] = "400"
                        ELSE egress' = egress /\ reply' = reply
      /\ Others(r)
  BY DEF IInv, TypeOK, OnUpgrade, Others, SameView, upVars, chainVars
<1>2. /\ client[r] = "none" /\ down[r] = "receiving"
      /\ Forwards(r) => egress[r] = "none" /\ VerdictOf(r) = "pass"
  BY <1>1, AtReceiving, Zenon
<1>3. KeepsVerdict(r) /\ KeepsAsked(r)
  BY <1>1, <1>2, Zenon DEF KeepsVerdict, VerdictOf, KeepsAsked, AskedOf
<1>4. Unanswered(r)'
  BY <1>1, <1>2, Zenon DEF Unanswered
<1>5. CASE Forwards(r)
  <2>1. egress'[r] = "eom"
    BY <1>1, <1>2, <1>5, ZenonT(40) DEF AfterAll
  <2>2. Proxy!Answer(r)
    BY <1>1, <1>2, <1>3, <1>5, <2>1, IsAnswer, Stages, ZenonT(40)
  <2> QED
    BY <1>1, <1>4, <2>2, ByStep, CInvAt, ZenonT(40)
<1>6. CASE ~ Forwards(r)
  BY <1>1, <1>3, <1>4, <1>6, Stutters, ByStutter, CInvAt, ZenonT(40)
<1> QED
  BY <1>5, <1>6, ZenonT(40)

(* An ingress error answers, cuts the response or does nothing.            *)
LEMMA ErrorIngressRefines ==
  ASSUME IInv, CInv, NEW r \in Requests, NEW status \in {"400", "408"},
         OnErrorIngress(r, status)
  PROVE  Refines /\ CInv'
<1>1. /\ Receiving(r) /\ down' = down /\ headers' = headers
      /\ upstream' = upstream /\ client' = client
      /\ egress'[r] = IF egress[r] \in {"none", "eom"} THEN "eom" ELSE "aborted"
      /\ reply'[r] = IF egress[r] = "none" THEN status ELSE reply[r]
      /\ Others(r)
  BY ZenonT(60) DEF IInv, TypeOK, OnErrorIngress, Others, SameView, upVars
<1>2. /\ client[r] = "none"
      /\ Forwards(r) => egress[r] = "none" /\ VerdictOf(r) = "pass"
      /\ ~ Forwards(r) => egress[r] = "eom"
  BY <1>1, AtReceiving, Zenon
<1>3. KeepsVerdict(r) /\ KeepsAsked(r)
  BY <1>1, Zenon DEF KeepsVerdict, VerdictOf, KeepsAsked, AskedOf
<1>4. Unanswered(r)'
  BY <1>1, <1>2, Zenon DEF Unanswered
<1>5. CASE Forwards(r)
  <2>1. egress'[r] = "eom" /\ reply'[r] = status
    BY <1>1, <1>2, <1>5, ZenonT(40)
  <2>2. Proxy!Answer(r)
    BY <1>1, <1>2, <1>3, <1>5, <2>1, IsAnswer, Stages, ZenonT(40)
  <2> QED
    BY <1>1, <1>4, <2>2, ByStep, CInvAt, Zenon
<1>6. CASE ~ Forwards(r)
  <2>1. egress'[r] = egress[r] /\ reply'[r] = reply[r]
    BY <1>1, <1>2, <1>6, Zenon
  <2> QED
    BY <1>1, <1>3, <1>4, <2>1, Stutters, ByStutter, CInvAt, ZenonT(40)
<1> QED
  BY <1>5, <1>6, Zenon

(* The client's disappearance cuts what is not yet complete.               *)
LEMMA ClientGoneRefines ==
  ASSUME IInv, CInv, NEW r \in Requests, OnErrorClientGone(r)
  PROVE  Refines /\ CInv'
<1>1. /\ down[r] # "idle" /\ down' = down /\ headers' = headers
      /\ upstream' = upstream /\ client' = client /\ reply' = reply
      /\ egress'[r] = IF egress[r] = "eom" THEN "eom" ELSE "aborted"
      /\ Others(r)
  BY ZenonT(60) DEF IInv, TypeOK, OnErrorClientGone, Open, Others, SameView, upVars
<1>2. egress[r] \in {"none", "interim", "headers", "eom", "aborted"}
  <2>1. RInv(r) /\ TypedAt(r)
    BY AtRequest, Zenon
  <2> QED
    BY <2>1, Zenon DEF RInv, TypedAt, Answered
<1>3. KeepsVerdict(r) /\ KeepsAsked(r) /\ VerdictOf(r) # "pending"
  BY <1>1, Zenon DEF KeepsVerdict, VerdictOf, KeepsAsked, AskedOf
<1>4. Unanswered(r)'
  BY <1>1, Zenon DEF CInv, Unanswered
<1>5. CASE egress[r] \in {"eom", "aborted"}
  <2>1. egress'[r] = egress[r]
    BY <1>1, <1>5, Zenon
  <2> QED
    BY <1>1, <1>3, <1>4, <2>1, Stutters, ByStutter, CInvAt, Zenon
<1>6. CASE egress[r] \in {"none", "interim", "headers"}
  <2>1. egress'[r] = "aborted"
    BY <1>1, <1>6, Zenon
  <2>2. Proxy!Cut(r)
    BY <1>1, <1>3, <1>6, <2>1, IsCut, Stages, ZenonT(40)
  <2> QED
    BY <1>1, <1>4, <2>2, ByStep, CInvAt, Zenon
<1> QED
  BY <1>2, <1>5, <1>6, ZenonT(40)

(* requestComplete is a stutter.                                           *)
LEMMA CompleteRefines ==
  ASSUME IInv, CInv, NEW r \in Requests, RequestComplete(r)
  PROVE  Refines /\ CInv'
<1>1. /\ down[r] # "idle" /\ down'[r] = "detached" /\ headers' = headers
      /\ upstream' = upstream /\ client' = client /\ egress' = egress /\ reply' = reply
      /\ Others(r)
  BY ZenonT(40) DEF IInv, TypeOK, RequestComplete, Open, Others, SameView, upVars
<1>2. KeepsVerdict(r) /\ KeepsAsked(r)
  BY <1>1, Zenon DEF KeepsVerdict, VerdictOf, KeepsAsked, AskedOf
<1>3. Unanswered(r)'
  BY <1>1, Zenon DEF CInv, Unanswered
<1> QED
  BY <1>1, <1>2, <1>3, Stutters, ByStutter, CInvAt, ZenonT(40)

-----------------------------------------------------------------------------
(* The upstream's side                                                     *)

(* A send either reaches the client, whose transaction is then in order    *)
(* and in step with the upstream, or changes nothing the client sees.      *)
LEMMA AtSend ==
  ASSUME IInv, NEW r \in Requests, NEW e, NEW rep, Send(r, e, rep)
  PROVE  /\ \/ InStep(r) /\ ~ err[r] /\ egress'[r] = e /\ reply'[r] = rep
            \/ egress'[r] = egress[r] /\ reply'[r] = reply[r]
         /\ \A q \in Requests : q # r => egress'[q] = egress[q] /\ reply'[q] = reply[q]
<1>1. RInv(r) /\ TypedAt(r)
  BY AtRequest, Zenon
<1>2. chain[r] = "alive" => InStep(r) /\ ~ err[r]
  BY <1>1, Zenon DEF RInv, ChainLife
<1> QED
  BY <1>2, SendAt, ZenonT(40) DEF KeepsAnswer

(* connectSuccess asks the upstream.                                       *)
LEMMA ConnectSuccessRefines ==
  ASSUME IInv, CInv, NEW r \in Requests, ConnectSuccess(r)
  PROVE  Refines /\ CInv'
<1>1. /\ client[r] = "connecting" /\ client'[r] = "active" /\ upstream'[r] = "open"
      /\ down' = down /\ headers' = headers /\ egress' = egress /\ reply' = reply
      /\ Others(r) /\ \A q \in Requests : q # r => client'[q] = client[q]
  BY ZenonT(60) DEF IInv, TypeOK, ConnectSuccess, SendsNothing, Others, SameView, chainVars
<1>2. upstream[r] = "none"
  <2>1. RInv(r)
    BY AtRequest, Zenon
  <2> QED
    BY <1>1, <2>1, Zenon DEF RInv, ClientLife
<1>3. VerdictOf(r) = "pass"
  BY <1>1, AtClient, Zenon
<1>4. KeepsVerdict(r) /\ AskedOf(r) = "unasked" /\ AskedOf(r)' = "asked"
  BY <1>1, <1>2, Zenon DEF KeepsVerdict, VerdictOf, AskedOf
<1>5. StageOf(egress[r]) \in {"none", "cut"}
  BY <1>1, Stages, Zenon DEF CInv, Unanswered
<1>6. Proxy!Ask(r)
  BY <1>1, <1>3, <1>4, <1>5, IsAsk, Zenon
<1>7. Unanswered(r)'
  BY <1>1, Zenon DEF Unanswered
<1> QED
  BY <1>1, <1>6, <1>7, ByStep, CInvAt, ZenonT(40)

(* connectError answers 502, or is a stutter once the handler is gone.     *)
LEMMA ConnectErrorRefines ==
  ASSUME IInv, CInv, NEW r \in Requests, ConnectError(r)
  PROVE  Refines /\ CInv'
<1>1. /\ client[r] = "connecting" /\ client'[r] = "deleted" /\ upstream' = upstream
      /\ down' = down /\ headers' = headers
      /\ Send(r, AfterAll(egress[r]), "502")
      /\ \A q \in Requests : q # r => client'[q] = client[q]
  BY ZenonT(60) DEF IInv, TypeOK, ConnectError, chainVars
<1>2. Others(r)
  BY <1>1, AtSend, ZenonT(40) DEF Others, SameView
<1>3. VerdictOf(r) = "pass" /\ KeepsVerdict(r) /\ KeepsAsked(r)
  BY <1>1, AtClient, Zenon DEF KeepsVerdict, VerdictOf, KeepsAsked, AskedOf
<1>4. Unanswered(r)'
  BY <1>1, Zenon DEF Unanswered
<1>5. CASE InStep(r) /\ ~ err[r] /\ egress'[r] = AfterAll(egress[r]) /\ reply'[r] = "502"
  <2>1. egress[r] = "none" /\ egress'[r] = "eom"
    BY <1>1, <1>5, Zenon DEF InStep, AfterAll
  <2>2. Proxy!Answer(r)
    BY <1>2, <1>3, <1>5, <2>1, IsAnswer, Stages, ZenonT(40)
  <2> QED
    BY <1>1, <1>2, <1>4, <2>2, ByStep, CInvAt, ZenonT(40)
<1>6. CASE egress'[r] = egress[r] /\ reply'[r] = reply[r]
  BY <1>1, <1>2, <1>3, <1>4, <1>6, Stutters, ByStutter, CInvAt, ZenonT(40)
<1> QED
  BY <1>1, <1>5, <1>6, AtSend, ZenonT(40)

(* The upstream's callbacks leave the client object and the verdict alone. *)
UpstreamOnly(r) ==
  /\ client' = client /\ down' = down /\ headers' = headers
  /\ upstream[r] # "none" /\ upstream'[r] # "none"
  /\ \A q \in Requests : q # r => upstream'[q] = upstream[q]

(* What holds of a request whose upstream transaction is open.             *)
LEMMA AtUpstream ==
  ASSUME IInv, CInv, NEW r \in Requests, UpstreamOnly(r),
         \A q \in Requests : q # r => egress'[q] = egress[q] /\ reply'[q] = reply[q]
  PROVE  /\ Others(r) /\ KeepsVerdict(r) /\ KeepsAsked(r) /\ CInv'
         /\ VerdictOf(r) = "pass" /\ AskedOf(r) = "asked"
<1>1. Others(r) /\ KeepsVerdict(r) /\ KeepsAsked(r) /\ AskedOf(r) = "asked"
  BY Zenon DEF UpstreamOnly, Others, SameView, KeepsVerdict, VerdictOf, KeepsAsked, AskedOf
<1>2. VerdictOf(r) = "pass"
  BY AtClient, Zenon DEF UpstreamOnly
<1>3. client[r] # "connecting"
  <2>1. RInv(r)
    BY AtRequest, Zenon
  <2> QED
    BY <2>1, Zenon DEF RInv, ClientLife, UpstreamOnly
<1>4. CInv'
  BY <1>1, <1>3, CInvAt, ZenonT(40) DEF UpstreamOnly, Unanswered
<1> QED
  BY <1>1, <1>2, <1>4, ZenonT(40)

(* An interim response is a stutter.                                       *)
LEMMA InterimRefines ==
  ASSUME IInv, CInv, NEW r \in Requests, OnHeadersInterim(r)
  PROVE  Refines /\ CInv'
<1>1. /\ UpstreamOnly(r) /\ upstream[r] \in {"open", "interim"}
      /\ Send(r, AfterInterim(egress[r]), reply[r])
  BY ZenonT(60) DEF IInv, TypeOK, OnHeadersInterim, UpstreamOnly, chainVars
<1>2. Others(r) /\ KeepsVerdict(r) /\ KeepsAsked(r) /\ CInv'
  BY <1>1, AtSend, AtUpstream, Zenon
<1>3. StageOf(egress'[r]) = StageOf(egress[r]) /\ reply'[r] = reply[r]
  BY <1>1, AtSend, Stages DEF InStep, AfterInterim
<1> QED
  BY <1>2, <1>3, Stutters, ByStutter, ZenonT(40)

(* onHeadersComplete begins to relay.                                      *)
LEMMA HeadersRefines ==
  ASSUME IInv, CInv, NEW r \in Requests, OnHeadersComplete(r)
  PROVE  Refines /\ CInv'
<1>1. /\ UpstreamOnly(r) /\ upstream[r] \in {"open", "interim"}
      /\ Send(r, AfterHeaders(egress[r]), "upstream")
  BY ZenonT(60) DEF IInv, TypeOK, OnHeadersComplete, UpstreamOnly, chainVars
<1>2. /\ Others(r) /\ KeepsVerdict(r) /\ KeepsAsked(r) /\ CInv'
      /\ AskedOf(r) = "asked"
  BY <1>1, AtSend, AtUpstream, Zenon
<1>3. CASE InStep(r) /\ ~ err[r] /\ egress'[r] = AfterHeaders(egress[r]) /\ reply'[r] = "upstream"
  <2>1. egress[r] \in {"none", "interim"} /\ egress'[r] = "headers"
    BY <1>1, <1>3, Zenon DEF InStep, AfterHeaders
  <2>2. Proxy!Relay(r)
    BY <1>2, <1>3, <2>1, IsRelay, Stages, ZenonT(40)
  <2> QED
    BY <1>2, <2>2, ByStep, Zenon
<1>4. CASE egress'[r] = egress[r] /\ reply'[r] = reply[r]
  BY <1>2, <1>4, Stutters, ByStutter, ZenonT(40)
<1> QED
  BY <1>1, <1>3, <1>4, AtSend, ZenonT(40)

(* onBody of the upstream is a stutter.                                    *)
LEMMA UpstreamBodyRefines ==
  ASSUME IInv, CInv, NEW r \in Requests, OnUpstreamBody(r)
  PROVE  Refines /\ CInv'
<1>1. /\ UpstreamOnly(r) /\ upstream[r] = "headers"
      /\ Send(r, AfterBody(egress[r]), reply[r])
  BY Zenon DEF IInv, TypeOK, OnUpstreamBody, UpstreamOnly, chainVars
<1>2. Others(r) /\ KeepsVerdict(r) /\ KeepsAsked(r) /\ CInv'
  BY <1>1, AtSend, AtUpstream, Zenon
<1>3. egress'[r] = egress[r] /\ reply'[r] = reply[r]
  BY <1>1, AtSend, Zenon DEF InStep, AfterBody
<1> QED
  BY <1>2, <1>3, Stutters, ByStutter, Zenon

(* onEOM of the upstream finishes the response.                            *)
LEMMA UpstreamEOMRefines ==
  ASSUME IInv, CInv, NEW r \in Requests, OnUpstreamEOM(r)
  PROVE  Refines /\ CInv'
<1>1. /\ UpstreamOnly(r) /\ upstream[r] = "headers"
      /\ Send(r, AfterEOM(egress[r]), reply[r])
  BY ZenonT(60) DEF IInv, TypeOK, OnUpstreamEOM, UpstreamOnly, chainVars
<1>2. Others(r) /\ KeepsVerdict(r) /\ KeepsAsked(r) /\ CInv'
  BY <1>1, AtSend, AtUpstream, Zenon
<1>3. CASE InStep(r) /\ ~ err[r] /\ egress'[r] = AfterEOM(egress[r]) /\ reply'[r] = reply[r]
  <2>1. egress[r] = "headers" /\ egress'[r] = "eom"
    BY <1>1, <1>3, Zenon DEF InStep, AfterEOM
  <2>2. Proxy!Finish(r)
    BY <1>2, <1>3, <2>1, IsFinish, Stages, ZenonT(40)
  <2> QED
    BY <1>2, <2>2, ByStep, Zenon
<1>4. CASE egress'[r] = egress[r] /\ reply'[r] = reply[r]
  BY <1>2, <1>4, Stutters, ByStutter, ZenonT(40)
<1> QED
  BY <1>1, <1>3, <1>4, AtSend, ZenonT(40)

(* onError of the upstream answers 502, or is a stutter after its headers. *)
LEMMA UpstreamErrorRefines ==
  ASSUME IInv, CInv, NEW r \in Requests, OnUpstreamError(r)
  PROVE  Refines /\ CInv'
<1>1. /\ UpstreamOnly(r) /\ upstream[r] \in {"open", "interim", "headers", "eom"}
      /\ ErrorReply(r)
  BY ZenonT(60) DEF IInv, TypeOK, OnUpstreamError, UpstreamOnly, chainVars
<1>2. CASE headersSent[r] /\ SendsNothing
  <2>1. egress' = egress /\ reply' = reply
    BY <1>2, Zenon DEF SendsNothing
  <2>2. Others(r) /\ KeepsVerdict(r) /\ KeepsAsked(r) /\ CInv'
    BY <1>1, <2>1, AtUpstream, ZenonT(40)
  <2> QED
    BY <2>1, <2>2, Stutters, ByStutter, Zenon
<1>3. CASE ~ headersSent[r] /\ Send(r, AfterAll(egress[r]), "502")
  <2>1. /\ Others(r) /\ KeepsVerdict(r) /\ KeepsAsked(r) /\ CInv'
        /\ VerdictOf(r) = "pass"
    BY <1>1, <1>3, AtSend, AtUpstream, ZenonT(40)
  <2>2. upstream[r] = "open"
    <3>1. RInv(r)
      BY AtRequest, Zenon
    <3> QED
      BY <1>1, <1>3, <3>1, Zenon DEF RInv, Progress
  <2>3. CASE InStep(r) /\ ~ err[r] /\ egress'[r] = AfterAll(egress[r]) /\ reply'[r] = "502"
    <3>1. egress[r] = "none" /\ egress'[r] = "eom"
      BY <2>2, <2>3, Zenon DEF InStep, AfterAll
    <3>2. Proxy!Answer(r)
      BY <2>1, <2>3, <3>1, IsAnswer, Stages, Zenon
    <3> QED
      BY <2>1, <3>2, ByStep, Zenon
  <2>4. CASE egress'[r] = egress[r] /\ reply'[r] = reply[r]
    BY <2>1, <2>4, Stutters, ByStutter, Zenon
  <2> QED
    BY <1>3, <2>3, <2>4, AtSend, ZenonT(40)
<1> QED
  BY <1>1, <1>2, <1>3, ZenonT(40) DEF ErrorReply

(* detachTransaction is a stutter.                                         *)
LEMMA DetachRefines ==
  ASSUME IInv, CInv, NEW r \in Requests, DetachTransaction(r)
  PROVE  Refines /\ CInv'
<1>1. /\ down' = down /\ headers' = headers /\ egress' = egress /\ reply' = reply
      /\ upstream[r] \in {"eom", "failed"} /\ upstream'[r] = "detached"
      /\ client'[r] = "deleted"
      /\ Others(r) /\ \A q \in Requests : q # r => client'[q] = client[q]
  BY ZenonT(60) DEF IInv, TypeOK, DetachTransaction, SendsNothing, Others, SameView, chainVars
<1>2. KeepsVerdict(r) /\ KeepsAsked(r)
  BY <1>1, Zenon DEF KeepsVerdict, VerdictOf, KeepsAsked, AskedOf
<1>3. Unanswered(r)'
  BY <1>1, Zenon DEF Unanswered
<1> QED
  BY <1>1, <1>2, <1>3, Stutters, ByStutter, CInvAt, ZenonT(40)

-----------------------------------------------------------------------------
(* Initially no request has been seen.                                     *)
LEMMA InitRefines == Init => Proxy!Init /\ CInv
<1> SUFFICES ASSUME Init PROVE Proxy!Init /\ CInv
  BY Zenon
<1>1. ASSUME NEW r \in Requests
      PROVE  ViewOf(r) = Proxy!View("pending", "unasked", "none", "none")
  BY Zenon DEF Init, ViewOf, VerdictOf, AskedOf, StageOf, ByOf, Proxy!View
<1>2. CInv
  BY Zenon DEF Init, CInv, Unanswered
<1> QED
  BY <1>1, <1>2, Zenon DEF Proxy!Init, viewBar

(* Every step of the gateway is a step of the promise, or none.            *)
LEMMA NextRefines == IInv /\ CInv /\ [Next]_vars => Refines /\ CInv'
<1> SUFFICES ASSUME IInv, CInv, [Next]_vars PROVE Refines /\ CInv'
  BY Zenon
<1>1. CASE UNCHANGED vars
  <2>1. viewBar' = viewBar
    BY <1>1, Zenon DEF viewBar, ViewOf, VerdictOf, AskedOf, vars, downVars, chainVars, upVars
  <2>2. CInv'
    BY <1>1, Zenon DEF CInv, Unanswered, vars, downVars, upVars
  <2> QED
    BY <2>1, <2>2, ByStutter, Zenon
<1>2. ASSUME NEW r \in Requests, OnRequest(r) PROVE Refines /\ CInv'
  <2>1. PICK rt \in Routes :
          \/ OnRequestRejected(r, rt)
          \/ \E msg \in Messages, outcome \in StoreOutcomes :
               \/ OnRequestPassed(r, rt, msg, outcome)
               \/ \E n \in 1 .. Len(rt.filters) : OnRequestBlocked(r, rt, msg, outcome, n)
    BY <1>2, Zenon DEF OnRequest
  <2> QED
    BY <2>1, RejectedRefines, PassedRefines, BlockedRefines, Zenon
<1>3. ASSUME NEW r \in Requests, IngressStep(r) PROVE Refines /\ CInv'
  BY <1>3, BodyRefines, EOMRefines, UpgradeRefines, ErrorIngressRefines, Zenon DEF IngressStep
<1>4. ASSUME NEW r \in Requests, ConnectStep(r) PROVE Refines /\ CInv'
  BY <1>4, ConnectSuccessRefines, ConnectErrorRefines, Zenon DEF ConnectStep
<1>5. ASSUME NEW r \in Requests, UpstreamStep(r) PROVE Refines /\ CInv'
  BY Zenon, <1>5, InterimRefines, HeadersRefines, UpstreamBodyRefines, UpstreamEOMRefines,
     UpstreamErrorRefines DEF UpstreamStep
<1> QED
  BY <1>1, <1>2, <1>3, <1>4, <1>5, ClientGoneRefines, CompleteRefines, DetachRefines, Zenon DEF Next

(* The gateway keeps the promise of a reverse proxy (RefinesProxy), for    *)
(* any number of requests, any filters and any routes.                     *)
THEOREM ImplementsProxy == Spec => RefinesProxy
<1>1. Init => Proxy!Init /\ CInv
  BY InitRefines, Zenon
<1>2. IInv /\ CInv /\ [Next]_vars => [Proxy!Next]_viewBar /\ CInv'
  BY NextRefines, Zenon DEF Refines
<1> QED
  BY <1>1, <1>2, Invariance, PTL DEF Spec, RefinesProxy, Proxy!Spec
=============================================================================
