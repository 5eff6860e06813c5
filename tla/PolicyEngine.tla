---------------------------- MODULE PolicyEngine ----------------------------
(***************************************************************************)
(* PolicyEngine::buildChain: the filter chain of a router, computed from   *)
(* the Policy resources of the configuration and the JwksCaches fetched    *)
(* at startup.                                                             *)
(*                                                                         *)
(* A Policy resource is a record [name, order, jwt], where jwt is its      *)
(* JwtConfig or Absent (no security section, or one without jwt).  The     *)
(* resources of a configuration are a sequence, in the order the files     *)
(* were loaded; nothing makes their names unique.  The caches are a        *)
(* function whose domain is the set of names that have one.                *)
(***************************************************************************)
EXTENDS FilterChain, Subsequences, Functions

(* The policy a name in router.policies stands for: the first resource of  *)
(* that name.  A name that no resource has is skipped.                     *)
Known(policies, name) == \E i \in 1 .. Len(policies) : policies[i].name = name

Lookup(policies, name) ==
  policies[CHOOSE i \in 1 .. Len(policies) :
             /\ policies[i].name = name
             /\ \A j \in 1 .. (i - 1) : policies[j].name # name]

Active(policies, names) ==
  LET known == Pick(names, {k \in 1 .. Len(names) : Known(policies, names[k])})
  IN  [k \in 1 .. Len(known) |-> Lookup(policies, known[k])]

(* std::sort by spec.order.  It is not a stable sort, so policies of equal *)
(* order may end up either way round.                                      *)
Sortings(active) ==
  { [k \in 1 .. Len(active) |-> active[p[k]]] :
      p \in { q \in Bijection(1 .. Len(active), 1 .. Len(active)) :
                \A k, l \in 1 .. Len(active) :
                  k < l => active[q[k]].order <= active[q[l]].order } }

(* Only a policy with a jwt section and a cache of its name adds a filter; *)
(* the others are passed over.                                             *)
Adds(caches, policy) == policy.jwt # Absent /\ policy.name \in DOMAIN caches

(* The loop wraps the chain from the last policy to the first, so the one  *)
(* of lowest order comes right behind HeaderFilter.                        *)
Wrap_LowestInnermost(sorted, caches) ==
  LET jwt == Pick(sorted, {k \in 1 .. Len(sorted) : Adds(caches, sorted[k])})
  IN  << [kind |-> "HeaderFilter"] >>
      \o [k \in 1 .. Len(jwt) |->
            [kind |-> "JwtPolicy", cache |-> caches[jwt[Len(jwt) + 1 - k].name]]]
      \o << [kind |-> "RateLimitFilter", policy |-> "FAIL_OPEN"] >>

Wrap(sorted, caches) ==
  LET jwt == Pick(sorted, {k \in 1 .. Len(sorted) : Adds(caches, sorted[k])})
  IN  << [kind |-> "HeaderFilter"] >>
      \o [k \in 1 .. Len(jwt) |->
            [kind |-> "JwtPolicy", cache |-> caches[jwt[k].name]]]
      \o << [kind |-> "RateLimitFilter", policy |-> "FAIL_OPEN"] >>

(* Every chain buildChain may return for a router that names these         *)
(* policies.                                                               *)
BuildChain(policies, caches, names) ==
  { Wrap(sorted, caches) : sorted \in Sortings(Active(policies, names)) }
=============================================================================
