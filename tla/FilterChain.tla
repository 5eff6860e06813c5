---------------------------- MODULE FilterChain ----------------------------
(***************************************************************************)
(* The filters a request passes on its way to GatewayHandler, and what     *)
(* each one does with the request headers.  A filter chain is a sequence   *)
(* of filter records, outermost first:                                     *)
(*                                                                         *)
(*   [kind |-> "HeaderFilter"]                                             *)
(*   [kind |-> "JwtPolicy", cache |-> c]        c: a JwksCache, see below  *)
(*   [kind |-> "RateLimitFilter", policy |-> p] p: FAIL_OPEN or FAIL_CLOSE *)
(*                                                                         *)
(* A request's headers are abstracted to a record                          *)
(*   [rid, tid, auth, subject]                                             *)
(* (x-request-id, x-trace-id, Authorization, x-jwt-subject), in which      *)
(* Absent stands for a header that is missing or empty.                    *)
(*                                                                         *)
(* An Authorization value is [bearer, token]; a token is                   *)
(*   [valid, kid, signer, iss, aud, sub]                                   *)
(* where valid says that it decodes and is within its time limits, and     *)
(* signer is the RSA key it was signed with.                               *)
(*                                                                         *)
(* A JwksCache is [issuer, audience, keys, parses]: the JwtConfig it was   *)
(* fetched for, the keys of the JWKS document in document order, each      *)
(* [kid, x5c, key], and whether the document parses at all.                *)
(***************************************************************************)
EXTENDS Integers, Sequences

CONSTANTS
  Absent,       \* a header, claim or configuration value that is not there
  Generated     \* the identifier HeaderFilter::generateRequestId makes up

-----------------------------------------------------------------------------
(* JwtPolicy::onRequest                                                    *)

(* The key of the JWKS that the token is verified with: the first one      *)
(* with the token's kid, or the first one when the token has no kid.       *)
SelectsKey(keys, token, i) ==
  IF token.kid = Absent
    THEN i = 1
    ELSE /\ keys[i].kid = token.kid
         /\ \A j \in 1 .. (i - 1) : keys[j].kid # token.kid

(* JwtPolicy lets a request through only when all of these hold; each one  *)
(* that fails is answered with a 401.  The last conjunct is                *)
(* decoded.get_subject(), which throws for a token without a subject.      *)
JwtAllows(cache, auth) ==
  /\ auth # Absent
  /\ auth.bearer
  /\ auth.token.valid
  /\ cache.parses
  /\ \E i \in 1 .. Len(cache.keys) :
        /\ SelectsKey(cache.keys, auth.token, i)
        /\ cache.keys[i].x5c
        /\ cache.keys[i].key = auth.token.signer
  /\ cache.issuer # Absent => auth.token.iss = cache.issuer
  /\ cache.audience # Absent => auth.token.aud = cache.audience
  /\ auth.token.sub # Absent

(* RateLimitFilter::onRequest: a store that throws is resolved by the      *)
(* filter's failure policy.                                                *)
RateLimitAllows(policy, outcome) ==
  \/ outcome = "allow"
  \/ outcome = "throw" /\ policy = "FAIL_OPEN"

(* HeaderFilter::onRequest: a missing request id is generated, a missing   *)
(* trace id becomes the (possibly just generated) request id.              *)
WithIds(msg) ==
  LET rid == IF msg.rid = Absent THEN Generated ELSE msg.rid
  IN  [msg EXCEPT !.rid = rid,
                  !.tid = IF msg.tid = Absent THEN rid ELSE msg.tid]

-----------------------------------------------------------------------------
(* The walk of onRequest down a chain                                      *)

(* A JwtPolicy that lets a request through removes its Authorization       *)
(* header, so a filter behind it finds none.                               *)
AuthAt_AnyFilter(filters, i, msg) == IF i > 1 THEN Absent ELSE msg.auth

AuthAt(filters, i, msg) ==
  IF \E j \in 1 .. (i - 1) : filters[j].kind = "JwtPolicy"
    THEN Absent
    ELSE msg.auth

(* Filter i calls blockRequest when the request gets to it.                *)
Blocks(filters, i, msg, outcome) ==
  \/ /\ filters[i].kind = "JwtPolicy"
     /\ ~ JwtAllows(filters[i].cache, AuthAt(filters, i, msg))
  \/ /\ filters[i].kind = "RateLimitFilter"
     /\ ~ RateLimitAllows(filters[i].policy, outcome)

(* The request gets through all filters.                                   *)
Passes(filters, msg, outcome) ==
  \A i \in 1 .. Len(filters) : ~ Blocks(filters, i, msg, outcome)

(* The walk ends at filter n: the ones outside it let the request through. *)
StopsAt(filters, n, msg, outcome) ==
  /\ Blocks(filters, n, msg, outcome)
  /\ \A i \in 1 .. (n - 1) : ~ Blocks(filters, i, msg, outcome)

(* The status with which filter n blocks.                                  *)
BlockStatus_Forbidden(filters, n) ==
  IF filters[n].kind = "JwtPolicy" THEN "403" ELSE "429"

BlockStatus(filters, n) ==
  IF filters[n].kind = "JwtPolicy" THEN "401" ELSE "429"

(* The headers the terminal handler receives from the innermost filter of  *)
(* a chain that lets msg through.                                          *)
AfterFilters(filters, msg) ==
  LET verified == \E i \in 1 .. Len(filters) : filters[i].kind = "JwtPolicy"
      hasIds   == \E i \in 1 .. Len(filters) : filters[i].kind = "HeaderFilter"
      m        == IF hasIds THEN WithIds(msg) ELSE msg
  IN  IF verified
        THEN [m EXCEPT !.subject = msg.auth.token.sub, !.auth = Absent]
        ELSE m
=============================================================================
