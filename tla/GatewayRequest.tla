--------------------------- MODULE GatewayRequest ---------------------------
(***************************************************************************)
(* The life of a proxied request: the downstream transaction that Proxygen *)
(* runs for the client, the filter chain and terminal handler that the     *)
(* gateway creates for it, and the UpstreamClient that GatewayHandler      *)
(* starts and that then lives on its own.                                  *)
(*                                                                         *)
(* One action is one callback of the event loop.  All callbacks of a       *)
(* request run on the EventBase of one I/O thread, so each is atomic, but  *)
(* the callbacks of the downstream and of the upstream transaction come    *)
(* in any order that the two connections produce.                          *)
(*                                                                         *)
(* Nothing ties the life of the UpstreamClient to the life of the chain:   *)
(* UpstreamClient::downstream_ is a plain pointer to the innermost filter. *)
(* A callback that uses it after the chain is deleted is undefined         *)
(* behaviour; here it either has no effect on the request or ends the      *)
(* process.                                                                *)
(***************************************************************************)
EXTENDS FilterChain

CONSTANTS
  Requests,       \* the requests
  Routes,         \* what the factory may create for a request:
                  \*   [terminal, filters], filters outermost first
  Messages,       \* request headers that clients send
  StoreOutcomes,  \* what RateLimitStore::checkAndDecrement may do
  MaxChunks,      \* bound: body chunks of a request and of a response
  NoMsg           \* a null unique_ptr<HTTPMessage>

(* GatewayHandlerFactory::onRequest wraps only a GatewayHandler in a chain;*)
(* the two error handlers are returned bare.  PolicyEngine::buildChain     *)
(* puts a HeaderFilter around every chain.                                 *)
ASSUME RoutesAssumption ==
  \A rt \in Routes :
     /\ rt.terminal \in {"GatewayHandler", "NotFoundHandler", "BadGatewayHandler"}
     /\ Len(rt.filters) \in Nat
     /\ rt.terminal # "GatewayHandler" => Len(rt.filters) = 0
     /\ rt.terminal = "GatewayHandler"
          => \E i \in 1 .. Len(rt.filters) : rt.filters[i].kind = "HeaderFilter"

(* The headers FilterChain tells apart.                                    *)
ASSUME MessagesAssumption ==
  \A msg \in Messages : DOMAIN msg = {"rid", "tid", "auth", "subject"}

(* What a chain hands to GatewayHandler is a message, not a null pointer.  *)
ASSUME NoMsgAssumption ==
  \A rt \in Routes, msg \in Messages, outcome \in StoreOutcomes :
     Passes(rt.filters, msg, outcome) => AfterFilters(rt.filters, msg) # NoMsg

ASSUME ChunksAssumption == MaxChunks \in Nat

VARIABLES
  (* the downstream transaction and its RequestHandlerAdaptor *)
  down,         \* ingress of the client's request
  err,          \* the adaptor has reported an error to the chain
  egress,       \* how much of a response the client has been sent
  reply,        \* whose response that is
  request,      \* the headers the client sent, if a filter looked at them
  chunks,       \* body chunks the client has sent
  (* the objects the factory created *)
  route,        \* which ones
  chain,        \* whether they exist
  blocked,      \* blocked_ of each filter
  headers,      \* GatewayHandler::requestHeaders_
  body,         \* GatewayHandler::requestBody_
  (* the UpstreamClient and its transaction *)
  client,       \* the UpstreamClient object
  upstream,     \* ingress of the upstream's response
  upReq,        \* UpstreamClient::upstreamReq_ and requestBody_
  sent,         \* the request as the upstream received it
  headersSent,  \* UpstreamClient::headersSent_
  upChunks,     \* body chunks the upstream has sent
  upEnded,      \* the upstream has sent the EOM of its response
  relayed,      \* body chunks passed on to the client
  (* undefined behaviour *)
  dangling,     \* a callback used downstream_ after the chain was deleted
  process       \* the gateway process

downVars  == <<down, err, egress, reply, request, chunks>>
chainVars == <<route, chain, blocked, headers, body>>
upVars    == <<client, upstream, upReq, sent, headersSent, upChunks,
               upEnded, relayed>>
vars      == <<downVars, chainVars, upVars, dangling, process>>

Bare == [terminal |-> "none", filters |-> << >>]

Init ==
  /\ down = [r \in Requests |-> "idle"]
  /\ err = [r \in Requests |-> FALSE]
  /\ egress = [r \in Requests |-> "none"]
  /\ reply = [r \in Requests |-> "none"]
  /\ request = [r \in Requests |-> NoMsg]
  /\ chunks = [r \in Requests |-> 0]
  /\ route = [r \in Requests |-> Bare]
  /\ chain = [r \in Requests |-> "none"]
  /\ blocked = [r \in Requests |-> << >>]
  /\ headers = [r \in Requests |-> NoMsg]
  /\ body = [r \in Requests |-> << >>]
  /\ client = [r \in Requests |-> "none"]
  /\ upstream = [r \in Requests |-> "none"]
  /\ upReq = [r \in Requests |-> NoMsg]
  /\ sent = [r \in Requests |-> NoMsg]
  /\ headersSent = [r \in Requests |-> FALSE]
  /\ upChunks = [r \in Requests |-> 0]
  /\ upEnded = [r \in Requests |-> FALSE]
  /\ relayed = [r \in Requests |-> 0]
  /\ dangling = [r \in Requests |-> FALSE]
  /\ process = "up"

-----------------------------------------------------------------------------
(* The egress of the downstream transaction: interim (1xx) headers may     *)
(* come before the final ones, then body, then EOM.  Anything else breaks  *)
(* the transaction.                                                        *)

AfterInterim(e) == IF e \in {"none", "interim"} THEN "interim" ELSE "broken"

AfterHeaders(e) == IF e \in {"none", "interim"} THEN "headers" ELSE "broken"

AfterBody(e) == IF e = "headers" THEN "headers" ELSE "broken"

AfterEOM(e) == IF e = "headers" THEN "eom" ELSE "broken"

(* ResponseBuilder::sendWithEOM: headers, body and EOM at once.            *)
AfterAll(e) == IF e \in {"none", "interim"} THEN "eom" ELSE "broken"

-----------------------------------------------------------------------------
(* The request arrives: the factory has created the handlers of route rt,  *)
(* and onRequest(msg) goes down the chain, all in one callback.            *)

(* The blocked_ flags of n new filters.                                    *)
FreshFlags(n) == [i \in 1 .. n |-> FALSE]

Arrive(r, rt, msg) ==
  /\ down[r] = "idle"
  /\ down' = [down EXCEPT ![r] = "receiving"]
  /\ request' = [request EXCEPT ![r] = msg]
  /\ route' = [route EXCEPT ![r] = rt]
  /\ chain' = [chain EXCEPT ![r] = "alive"]
  /\ UNCHANGED <<err, chunks, body, upVars, dangling, process>>

(* No route, or a route without a usable service: the error handler        *)
(* answers in its onRequest.                                               *)
OnRequestRejected(r, rt) ==
  /\ rt.terminal # "GatewayHandler"
  /\ Arrive(r, rt, NoMsg)
  /\ egress' = [egress EXCEPT ![r] = AfterAll(egress[r])]
  /\ reply' = [reply EXCEPT ![r] =
                 IF rt.terminal = "NotFoundHandler" THEN "404" ELSE "502"]
  /\ UNCHANGED <<blocked, headers>>

(* Filter n answers with blockRequest and does not call the next one.      *)
OnRequestBlocked(r, rt, msg, outcome, n) ==
  /\ rt.terminal = "GatewayHandler"
  /\ StopsAt(rt.filters, n, msg, outcome)
  /\ Arrive(r, rt, msg)
  /\ blocked' = [blocked EXCEPT ![r] =
                   [FreshFlags(Len(rt.filters)) EXCEPT ![n] = TRUE]]
  /\ egress' = [egress EXCEPT ![r] = AfterAll(egress[r])]
  /\ reply' = [reply EXCEPT ![r] = BlockStatus(rt.filters, n)]
  /\ UNCHANGED headers

(* All filters pass the request on and GatewayHandler keeps its headers.   *)
OnRequestPassed(r, rt, msg, outcome) ==
  /\ rt.terminal = "GatewayHandler"
  /\ Passes(rt.filters, msg, outcome)
  /\ Arrive(r, rt, msg)
  /\ blocked' = [blocked EXCEPT ![r] = FreshFlags(Len(rt.filters))]
  /\ headers' = [headers EXCEPT ![r] = AfterFilters(rt.filters, msg)]
  /\ UNCHANGED <<egress, reply>>

-----------------------------------------------------------------------------
(* The rest of the request.  FilterBase::onBody, onEOM and onUpgrade pass  *)
(* a callback on unless the filter has blocked the request; the two error  *)
(* handlers ignore it.                                                     *)

Forwards_IgnoresBlocked(r) == route[r].terminal = "GatewayHandler"

Forwards(r) ==
  /\ route[r].terminal = "GatewayHandler"
  /\ \A i \in 1 .. Len(blocked[r]) : ~ blocked[r][i]

Receiving(r) == down[r] = "receiving" /\ ~ err[r]

(* GatewayHandler::onBody                                                  *)
Buffered_Prepends(buf, chunk) == <<chunk>> \o buf

Buffered(buf, chunk) == Append(buf, chunk)

OnBody(r) ==
  /\ Receiving(r)
  /\ chunks[r] < MaxChunks
  /\ chunks' = [chunks EXCEPT ![r] = @ + 1]
  /\ body' = [body EXCEPT ![r] =
                IF Forwards(r) THEN Buffered(@, chunks[r] + 1) ELSE @]
  /\ UNCHANGED <<down, err, egress, reply, request, route, chain, blocked, headers,
                 upVars, dangling, process>>

(* GatewayHandler::onEOM: the upstream request is put together and handed, *)
(* with the body, to a new UpstreamClient, which starts to connect.        *)
OnEOM(r) ==
  /\ Receiving(r)
  /\ down' = [down EXCEPT ![r] = "received"]
  /\ IF Forwards(r)
       THEN /\ client' = [client EXCEPT ![r] = "connecting"]
            /\ upReq' = [upReq EXCEPT ![r] = [msg |-> headers[r], body |-> body[r]]]
            /\ body' = [body EXCEPT ![r] = << >>]
       ELSE UNCHANGED <<client, upReq, body>>
  /\ UNCHANGED <<err, egress, reply, request, chunks, route, chain, blocked, headers,
                 upstream, sent, headersSent, upChunks, upEnded, relayed,
                 dangling, process>>

(* GatewayHandler::onUpgrade answers 400.  No EOM follows an upgrade.      *)
OnUpgrade(r) ==
  /\ Receiving(r)
  /\ down' = [down EXCEPT ![r] = "upgraded"]
  /\ IF Forwards(r)
       THEN /\ egress' = [egress EXCEPT ![r] = AfterAll(egress[r])]
            /\ reply' = [reply EXCEPT ![r] = "400"]
       ELSE UNCHANGED <<egress, reply>>
  /\ UNCHANGED <<err, request, chunks, chainVars, upVars, dangling, process>>

-----------------------------------------------------------------------------
(* The downstream transaction fails or completes.  onError and             *)
(* requestComplete go down the chain and every filter and handler deletes  *)
(* itself; neither tells the UpstreamClient.                               *)

Open(r) == down[r] \notin {"idle", "detached"}

(* The connection to the client breaks or the client resets the stream.    *)
OnErrorClientGone(r) ==
  /\ Open(r)
  /\ ~ err[r]
  /\ err' = [err EXCEPT ![r] = TRUE]
  /\ chain' = [chain EXCEPT ![r] = "deleted"]
  /\ egress' = [egress EXCEPT ![r] = IF @ = "eom" THEN @ ELSE "aborted"]
  /\ UNCHANGED <<down, reply, request, chunks, route, blocked, headers, body, upVars,
                 dangling, process>>

(* The client is too slow (idleTimeout) or sends what does not parse.  The *)
(* adaptor deletes the chain and then answers itself, 408 or 400, unless a *)
(* response has been started.                                              *)
OnErrorIngress(r, status) ==
  /\ Receiving(r)
  /\ err' = [err EXCEPT ![r] = TRUE]
  /\ chain' = [chain EXCEPT ![r] = "deleted"]
  /\ egress' = [egress EXCEPT ![r] = IF @ \in {"none", "eom"} THEN "eom" ELSE "aborted"]
  /\ reply' = [reply EXCEPT ![r] = IF egress[r] = "none" THEN status ELSE @]
  /\ UNCHANGED <<down, request, chunks, route, blocked, headers, body, upVars,
                 dangling, process>>

(* The transaction is over, both ways or by an error: without an error the *)
(* chain is deleted now, by requestComplete.                               *)
RequestComplete(r) ==
  /\ Open(r)
  /\ err[r] \/ (down[r] # "receiving" /\ egress[r] = "eom")
  /\ down' = [down EXCEPT ![r] = "detached"]
  /\ chain' = [chain EXCEPT ![r] = "deleted"]
  /\ UNCHANGED <<err, egress, reply, request, chunks, route, blocked, headers, body,
                 upVars, dangling, process>>

-----------------------------------------------------------------------------
(* UpstreamClient                                                          *)

(* A send on downstream_ that takes the egress to e as part of response    *)
(* rep.  If the chain is gone the pointer dangles.                         *)
Send(r, e, rep) ==
  \/ /\ chain[r] = "alive"
     /\ egress' = [egress EXCEPT ![r] = e]
     /\ reply' = [reply EXCEPT ![r] = rep]
     /\ UNCHANGED <<dangling, process>>
  \/ /\ chain[r] # "alive"
     /\ dangling' = [dangling EXCEPT ![r] = TRUE]
     /\ process' \in {"up", "crashed"}
     /\ UNCHANGED <<egress, reply>>

SendsNothing == UNCHANGED <<egress, reply, dangling, process>>

(* connectSuccess: the whole request goes out on a new transaction.        *)
ConnectSuccess(r) ==
  /\ client[r] = "connecting"
  /\ client' = [client EXCEPT ![r] = "active"]
  /\ upstream' = [upstream EXCEPT ![r] = "open"]
  /\ sent' = [sent EXCEPT ![r] = upReq[r]]
  /\ SendsNothing
  /\ UNCHANGED <<down, err, request, chunks, chainVars, upReq, headersSent, upChunks, upEnded, relayed>>

(* connectError, after a failure or five seconds.                          *)
ConnectError_NoReply(r) ==
  /\ client[r] = "connecting"
  /\ client' = [client EXCEPT ![r] = "deleted"]
  /\ SendsNothing
  /\ UNCHANGED <<down, err, request, chunks, chainVars, upstream, upReq, sent,
                 headersSent, upChunks, upEnded, relayed>>

ConnectError_Retries(r) ==
  /\ client[r] = "connecting"
  /\ egress[r] # "eom"
  /\ Send(r, AfterAll(egress[r]), "502")
  /\ UNCHANGED <<down, err, request, chunks, chainVars, upVars>>

ConnectError(r) ==
  /\ client[r] = "connecting"
  /\ client' = [client EXCEPT ![r] = "deleted"]
  /\ Send(r, AfterAll(egress[r]), "502")
  /\ UNCHANGED <<down, err, request, chunks, chainVars, upstream, upReq, sent,
                 headersSent, upChunks, upEnded, relayed>>

(* onHeadersComplete, for an interim (1xx) and for the final response.     *)
OnHeadersInterim(r) ==
  /\ upstream[r] \in {"open", "interim"}
  /\ upstream' = [upstream EXCEPT ![r] = "interim"]
  /\ headersSent' = [headersSent EXCEPT ![r] = TRUE]
  /\ Send(r, AfterInterim(egress[r]), reply[r])
  /\ UNCHANGED <<down, err, request, chunks, chainVars, client, upReq, sent, upChunks, upEnded, relayed>>

OnHeadersComplete(r) ==
  /\ upstream[r] \in {"open", "interim"}
  /\ upstream' = [upstream EXCEPT ![r] = "headers"]
  /\ headersSent' = [headersSent EXCEPT ![r] = TRUE]
  /\ Send(r, AfterHeaders(egress[r]), "upstream")
  /\ UNCHANGED <<down, err, request, chunks, chainVars, client, upReq, sent, upChunks, upEnded, relayed>>

OnUpstreamBody(r) ==
  /\ upstream[r] = "headers"
  /\ upChunks[r] < MaxChunks
  /\ upChunks' = [upChunks EXCEPT ![r] = @ + 1]
  /\ relayed' = [relayed EXCEPT ![r] = IF chain[r] = "alive" THEN @ + 1 ELSE @]
  /\ Send(r, AfterBody(egress[r]), reply[r])
  /\ UNCHANGED <<down, err, request, chunks, chainVars, client, upstream, upReq, sent, headersSent,
                 upEnded>>

OnUpstreamEOM(r) ==
  /\ upstream[r] = "headers"
  /\ upstream' = [upstream EXCEPT ![r] = "eom"]
  /\ upEnded' = [upEnded EXCEPT ![r] = TRUE]
  /\ Send(r, AfterEOM(egress[r]), reply[r])
  /\ UNCHANGED <<down, err, request, chunks, chainVars, client, upReq, sent,
                 headersSent, upChunks, relayed>>

(* onError: a reset, a broken connection, 30 seconds without progress.     *)
(* Once headers have gone downstream nothing more is sent.                 *)
ErrorReply_IgnoresHeadersSent(r) == Send(r, AfterAll(egress[r]), "502")

ErrorReply_EndsResponse(r) ==
  IF headersSent[r] /\ upstream[r] = "headers"
    THEN Send(r, AfterEOM(egress[r]), reply[r])
    ELSE IF headersSent[r] THEN SendsNothing ELSE Send(r, AfterAll(egress[r]), "502")

ErrorReply(r) ==
  \/ ~ headersSent[r] /\ Send(r, AfterAll(egress[r]), "502")
  \/ headersSent[r] /\ SendsNothing

OnUpstreamError(r) ==
  /\ upstream[r] \in {"open", "interim", "headers", "eom"}
  /\ upstream' = [upstream EXCEPT ![r] = "failed"]
  /\ ErrorReply(r)
  /\ UNCHANGED <<down, err, request, chunks, chainVars, client, upReq, sent,
                 headersSent, upChunks, upEnded, relayed>>

(* detachTransaction, the last callback: delete this.                      *)
DetachTransaction_Leaks(r) ==
  /\ upstream[r] \in {"eom", "failed"}
  /\ upstream' = [upstream EXCEPT ![r] = "detached"]
  /\ SendsNothing
  /\ UNCHANGED <<down, err, request, chunks, chainVars, client, upReq, sent, headersSent,
                 upChunks, upEnded, relayed>>

DetachTransaction(r) ==
  /\ upstream[r] \in {"eom", "failed"}
  /\ upstream' = [upstream EXCEPT ![r] = "detached"]
  /\ client' = [client EXCEPT ![r] = "deleted"]
  /\ SendsNothing
  /\ UNCHANGED <<down, err, request, chunks, chainVars, upReq, sent, headersSent,
                 upChunks, upEnded, relayed>>

-----------------------------------------------------------------------------
(* Steps of the client, of the upstream's connection, and of the system.   *)

OnRequest(r) ==
  \E rt \in Routes :
    \/ OnRequestRejected(r, rt)
    \/ \E msg \in Messages, outcome \in StoreOutcomes :
          \/ OnRequestPassed(r, rt, msg, outcome)
          \/ \E n \in 1 .. Len(rt.filters) : OnRequestBlocked(r, rt, msg, outcome, n)

IngressStep(r) ==
  \/ OnBody(r)
  \/ OnEOM(r)
  \/ OnUpgrade(r)
  \/ \E status \in {"400", "408"} : OnErrorIngress(r, status)

ConnectStep(r) == ConnectSuccess(r) \/ ConnectError(r)

UpstreamStep(r) ==
  \/ OnHeadersInterim(r)
  \/ OnHeadersComplete(r)
  \/ OnUpstreamBody(r)
  \/ OnUpstreamEOM(r)
  \/ OnUpstreamError(r)

Next ==
  /\ process = "up"
  /\ \E r \in Requests :
        \/ OnRequest(r)
        \/ IngressStep(r)
        \/ OnErrorClientGone(r)
        \/ RequestComplete(r)
        \/ ConnectStep(r)
        \/ UpstreamStep(r)
        \/ DetachTransaction(r)

Spec == Init /\ [][Next]_vars

(* What the timers and the library guarantee: the rest of a request comes  *)
(* in or times out (idleTimeout), a connect attempt ends (five seconds),   *)
(* an upstream either gets on with its response or is given up (30         *)
(* seconds), and finished transactions are detached.  Nothing obliges a    *)
(* client to send a request or to go away.                                 *)
Fairness ==
  \A r \in Requests :
    /\ WF_vars(process = "up" /\ IngressStep(r))
    /\ WF_vars(process = "up" /\ ConnectStep(r))
    /\ WF_vars(process = "up" /\ UpstreamStep(r))
    /\ WF_vars(process = "up" /\ DetachTransaction(r))
    /\ WF_vars(process = "up" /\ RequestComplete(r))

FairSpec == Spec /\ Fairness

-----------------------------------------------------------------------------
(* Properties                                                              *)

(* Every piece of state has a value of its type.                           *)
TypeOK ==
  /\ down \in [Requests -> {"idle", "receiving", "received", "upgraded", "detached"}]
  /\ err \in [Requests -> BOOLEAN]
  /\ egress \in [Requests -> {"none", "interim", "headers", "eom", "aborted", "broken"}]
  /\ reply \in [Requests -> {"none", "400", "401", "404", "408", "429", "502", "upstream"}]
  /\ chunks \in [Requests -> 0 .. MaxChunks]
  /\ route \in [Requests -> Routes \cup {Bare}]
  /\ chain \in [Requests -> {"none", "alive", "deleted"}]
  /\ blocked \in [Requests -> Seq(BOOLEAN)]
  /\ body \in [Requests -> Seq(1 .. MaxChunks)]
  /\ client \in [Requests -> {"none", "connecting", "active", "deleted"}]
  /\ upstream \in [Requests -> {"none", "open", "interim", "headers", "eom",
                                "failed", "detached"}]
  /\ headersSent \in [Requests -> BOOLEAN]
  /\ upChunks \in [Requests -> 0 .. MaxChunks]
  /\ upEnded \in [Requests -> BOOLEAN]
  /\ relayed \in [Requests -> 0 .. MaxChunks]
  /\ dangling \in [Requests -> BOOLEAN]
  /\ process \in {"up", "crashed"}

(* A request that a filter has answered never gets further: however its    *)
(* body, EOM or upgrade still arrive, GatewayHandler never sees them, no   *)
(* UpstreamClient is made for it and no body is kept (blocked_ in          *)
(* FilterBase).                                                            *)
BlockedNeverProxied ==
  \A r \in Requests :
    (\E i \in 1 .. Len(blocked[r]) : blocked[r][i])
      => /\ client[r] = "none"
         /\ headers[r] = NoMsg
         /\ body[r] = << >>

(* An upstream is only asked on behalf of a request that every JwtPolicy   *)
(* of its route accepts, and with the headers that came out of the chain:  *)
(* GatewayHandler::onEOM, which reads requestHeaders_ without looking,     *)
(* never runs before they are set.                                         *)
ProxiedOnlyIfVerified ==
  \A r \in Requests :
    upReq[r] # NoMsg =>
      /\ upReq[r].msg # NoMsg
      /\ \A i \in 1 .. Len(route[r].filters) :
            route[r].filters[i].kind = "JwtPolicy"
              => JwtAllows(route[r].filters[i].cache, request[r].auth)

(* The client gets at most one response and gets it in order: whichever of *)
(* the filters, GatewayHandler, UpstreamClient (including its late onError)*)
(* and the error handlers answer, no send ever meets a transaction that    *)
(* cannot take it.                                                         *)
ResponseWellFormed == \A r \in Requests : egress[r] # "broken"

(* A proxied response that the client sees completed is the whole one: the *)
(* upstream ended it and every chunk was passed on.  A response that the   *)
(* upstream cut short is never ended as if it were complete.               *)
CompleteMeansWhole ==
  \A r \in Requests :
    egress[r] = "eom" /\ reply[r] = "upstream"
      => upEnded[r] /\ relayed[r] = upChunks[r]

(* As long as the client neither fails nor times out, UpstreamClient never *)
(* uses a deleted filter, not even when the upstream fails after its EOM.  *)
DanglesOnlyAfterError == \A r \in Requests : dangling[r] => err[r]

(* The upstream is sent the client's request: all of its body, in order,   *)
(* with the client's request and trace ids or made-up ones, and, when a    *)
(* JwtPolicy let it through, without the token but with its subject.       *)
ForwardedFaithfully ==
  \A r \in Requests :
    sent[r] # NoMsg =>
      /\ sent[r].body = [i \in 1 .. chunks[r] |-> i]
      /\ sent[r].msg.rid = IF request[r].rid = Absent THEN Generated ELSE request[r].rid
      /\ sent[r].msg.tid = IF request[r].tid = Absent THEN sent[r].msg.rid
                                                       ELSE request[r].tid
      /\ IF \E i \in 1 .. Len(route[r].filters) : route[r].filters[i].kind = "JwtPolicy"
           THEN /\ sent[r].msg.auth = Absent
                /\ sent[r].msg.subject = request[r].auth.token.sub
           ELSE sent[r].msg.auth = request[r].auth

(* UpstreamClient owns itself, and frees itself: by connectError or by     *)
(* detachTransaction, whatever happens to the request it was made for.     *)
ClientsFreed ==
  \A r \in Requests :
    client[r] = "connecting" ~> client[r] = "deleted" \/ process = "crashed"

(* The one way for a request to be left hanging: the upstream fails after  *)
(* its (interim or final) headers were relayed, onError sends nothing, and *)
(* the client goes on waiting for the rest.                                *)
LeftHanging(r) ==
  /\ headersSent[r]
  /\ ~ upEnded[r]
  /\ upstream[r] \in {"failed", "detached"}
  /\ egress[r] \in {"interim", "headers"}

(* Every other request comes to its end and its handlers are deleted.      *)
RequestsEnd ==
  \A r \in Requests :
    chain[r] = "alive" ~> \/ chain[r] = "deleted"
                          \/ LeftHanging(r)
                          \/ process = "crashed"

(* A 401 means that some JwtPolicy of the route does not accept the token  *)
(* the client sent: several policies, each with its own JwksCache, can be  *)
(* put on one router.                                                      *)
RejectsOnlyBadTokens ==
  \A r \in Requests :
    reply[r] = "401" =>
      \E i \in 1 .. Len(route[r].filters) :
        /\ route[r].filters[i].kind = "JwtPolicy"
        /\ ~ JwtAllows(route[r].filters[i].cache, request[r].auth)

(* Where RejectsOnlyBadTokens fails: on a route with a single JwtPolicy a  *)
(* 401 means that it does not accept the token the client sent.            *)
SinglePolicyRejectsOnlyBadTokens ==
  \A r \in Requests :
    reply[r] = "401" =>
      \E i \in 1 .. Len(route[r].filters) :
        /\ route[r].filters[i].kind = "JwtPolicy"
        /\ \/ ~ JwtAllows(route[r].filters[i].cache, request[r].auth)
           \/ \E j \in 1 .. (i - 1) : route[r].filters[j].kind = "JwtPolicy"

(* UpstreamClient's downstream_ is only ever used while the chain exists,  *)
(* as the object lifetime timeline of the documentation has it.            *)
DownstreamOutlivesClient == \A r \in Requests : ~ dangling[r]
=============================================================================
