------------------------ MODULE GatewayProcessProofs ------------------------
(***************************************************************************)
(* Proofs about GatewayProcess, for any set of configurations.             *)
(***************************************************************************)
EXTENDS GatewayProcess, SubsequenceLemmas

-----------------------------------------------------------------------------
(* What PolicyEngine::buildChain returns                                   *)

(* Lookup finds a policy of the name, if there is one.                     *)
LEMMA LookupFinds ==
  ASSUME NEW policies, NEW name, Len(policies) \in Nat, Known(policies, name)
  PROVE  \E i \in 1 .. Len(policies) :
           Lookup(policies, name) = policies[i] /\ policies[i].name = name
<1> DEFINE T == {i \in 1 .. Len(policies) : policies[i].name = name}
<1>1. T \subseteq Nat /\ T # {}
  BY DEF Known
<1>2. PICK i \in T : \A j \in T : i <= j
  BY <1>1, Least, Zenon
<1>3. ASSUME NEW j \in 1 .. (i - 1) PROVE policies[j].name # name
  <2>1. j \in 1 .. Len(policies) /\ ~ (i <= j)
    BY <1>2
  <2> QED
    BY <1>2, <2>1, Zenon
<1> DEFINE First(k) == /\ policies[k].name = name
                       /\ \A j \in 1 .. (k - 1) : policies[j].name # name
<1>4. \E k \in 1 .. Len(policies) : First(k)
  BY <1>2, <1>3, Zenon
<1>5. Lookup(policies, name) = policies[CHOOSE k \in 1 .. Len(policies) : First(k)]
  BY Zenon DEF Lookup
<1> HIDE DEF First
<1>6. PICK k \in 1 .. Len(policies) : First(k) /\ Lookup(policies, name) = policies[k]
  BY <1>4, <1>5, Zenon
<1> QED
  BY <1>6, Zenon DEF First

(* A policy that Lookup finds has the name it was looked up by.            *)
LEMMA LookupName ==
  ASSUME NEW policies, NEW name, Len(policies) \in Nat, Known(policies, name)
  PROVE  Lookup(policies, name).name = name
<1>1. \E i \in 1 .. Len(policies) :
        Lookup(policies, name) = policies[i] /\ policies[i].name = name
  BY LookupFinds, ZenonT(40)
<1> QED
  BY <1>1, Zenon

(* The policies a router lists that stand for a filter.                    *)
Listed(policies, caches, names) ==
  { n \in 1 .. Len(names) : /\ Known(policies, names[n])
                            /\ Adds(caches, Lookup(policies, names[n])) }

(* The chain is a HeaderFilter, a JwtPolicy for each of them, in their     *)
(* order, and a RateLimitFilter: place[k] is the position in names of the  *)
(* k-th JwtPolicy.                                                         *)
ChainFor(policies, caches, names, chain, m, place) ==
  /\ Len(chain) = m + 2 /\ DOMAIN chain = 1 .. (m + 2)
  /\ chain[1].kind = "HeaderFilter"
  /\ chain[m + 2].kind = "RateLimitFilter"
  /\ \A k \in 1 .. m :
       /\ place[k] \in Listed(policies, caches, names)
       /\ chain[k + 1].kind = "JwtPolicy"
       /\ chain[k + 1].cache = caches[names[place[k]]]
  /\ \A k, l \in 1 .. m : k < l =>
       /\ place[k] # place[l]
       /\ Lookup(policies, names[place[k]]).order <= Lookup(policies, names[place[l]]).order
  /\ \A n \in Listed(policies, caches, names) : \E k \in 1 .. m : place[k] = n

(* Every chain buildChain returns is of that shape.                        *)
LEMMA ChainShape ==
  ASSUME NEW policies, NEW caches, NEW names, Len(policies) \in Nat, Len(names) \in Nat,
         NEW chain \in BuildChain(policies, caches, names)
  PROVE  \E m \in Nat : \E place : ChainFor(policies, caches, names, chain, m, place)
<1> DEFINE I == {k \in 1 .. Len(names) : Known(policies, names[k])}
           N == Cardinality(I)
           active == Active(policies, names)
<1>1. /\ I \in SUBSET (1 .. Len(names)) /\ N \in Nat
      /\ \A k \in 1 .. N : Nth(I, k) \in I
      /\ \A k, l \in 1 .. N : k < l => Nth(I, k) < Nth(I, l)
      /\ \A i \in I : \E k \in 1 .. N : Nth(I, k) = i
  <2>1. I \in SUBSET (1 .. Len(names))
    BY Zenon
  <2> HIDE DEF I
  <2> QED
    BY <2>1, NthProperties, Zenon
<1>2. /\ Len(active) = N
      /\ \A k \in 1 .. N : active[k] = Lookup(policies, names[Nth(I, k)])
  <2> DEFINE known == Pick(names, I)
  <2>1. active = [k \in 1 .. Len(known) |-> Lookup(policies, known[k])]
    BY Zenon DEF Active
  <2> HIDE DEF I, active
  <2>2. Len(known) = N /\ \A k \in 1 .. N : known[k] = names[Nth(I, k)]
    <3> HIDE DEF known
    <3>1. Len(names) \in Nat
      OBVIOUS
    <3>2. /\ Len(Pick(names, I)) = Cardinality(I)
          /\ \A k \in 1 .. Cardinality(I) : Nth(I, k) \in I /\ Pick(names, I)[k] = names[Nth(I, k)]
      BY ONLY <1>1, <3>1, PickElements, ZenonT(40)
    <3> QED
      BY <3>2, Zenon DEF known
  <2> HIDE DEF known, N
  <2>3. \A k \in 1 .. N : active[k] = Lookup(policies, known[k])
    BY <2>1, <2>2, Zenon
  <2>4. Len(active) = N
    BY <1>1, <2>1, <2>2
  <2> QED
    BY <2>2, <2>3, <2>4, Zenon
<1>3. PICK sorted \in Sortings(active) : chain = Wrap(sorted, caches)
  BY Zenon DEF BuildChain
<1> HIDE DEF I, N, active
<1>4. PICK p \in Bijection(1 .. N, 1 .. N) :
        /\ sorted = [k \in 1 .. N |-> active[p[k]]]
        /\ \A k, l \in 1 .. N : k < l => active[p[k]].order <= active[p[l]].order
  <2> DEFINE L == Len(active)
             Ordered(q) == \A k, l \in 1 .. L : k < l => active[q[k]].order <= active[q[l]].order
  <2>1. PICK p \in {q \in Bijection(1 .. L, 1 .. L) : Ordered(q)} :
          sorted = [k \in 1 .. L |-> active[p[k]]]
    BY <1>3, Zenon DEF Sortings
  <2>2. L = N
    BY <1>2, Zenon
  <2>3. p \in Bijection(1 .. L, 1 .. L) /\ Ordered(p)
    BY <2>1, Zenon
  <2>4. /\ p \in Bijection(1 .. N, 1 .. N)
        /\ \A k, l \in 1 .. N : k < l => active[p[k]].order <= active[p[l]].order
        /\ sorted = [k \in 1 .. N |-> active[p[k]]]
    <3> HIDE DEF L
    <3> QED
      BY ONLY <2>1, <2>2, <2>3, Zenon
  <2> QED
    BY ONLY <2>4, Zenon
<1>5. /\ \A k \in 1 .. N : p[k] \in 1 .. N
      /\ \A k, l \in 1 .. N : p[k] = p[l] => k = l
      /\ \A i \in 1 .. N : \E k \in 1 .. N : p[k] = i
  BY <1>4, Zenon DEF Bijection, Injection, Surjection, IsInjective
<1>6. /\ Len(sorted) = N
      /\ \A k \in 1 .. N : sorted[k] = Lookup(policies, names[Nth(I, p[k])])
  <2>1. Len(sorted) = N
    BY <1>1, <1>4
  <2> QED
    BY <1>2, <1>4, <1>5, <2>1, ZenonT(40)
<1> DEFINE J == {k \in 1 .. N : Adds(caches, sorted[k])}
           M == Cardinality(J)
           jwt == Pick(sorted, J)
<1>7. /\ M \in Nat
      /\ \A k \in 1 .. M : Nth(J, k) \in J
      /\ \A k, l \in 1 .. M : k < l => Nth(J, k) < Nth(J, l)
      /\ \A j \in J : \E k \in 1 .. M : Nth(J, k) = j
      /\ Len(jwt) = M /\ \A k \in 1 .. M : jwt[k] = sorted[Nth(J, k)]
  <2>1. J \in SUBSET (1 .. N)
    BY Zenon
  <2> HIDE DEF J
  <2> QED
    <3>1. /\ Cardinality(J) \in Nat
          /\ \A k \in 1 .. Cardinality(J) : Nth(J, k) \in J
          /\ \A k, l \in 1 .. Cardinality(J) : k < l => Nth(J, k) < Nth(J, l)
          /\ \A j \in J : \E k \in 1 .. Cardinality(J) : Nth(J, k) = j
      BY ONLY <1>1, <2>1, NthProperties, ZenonT(40)
    <3>2. /\ Len(Pick(sorted, J)) = Cardinality(J)
          /\ \A k \in 1 .. Cardinality(J) : Nth(J, k) \in J /\ Pick(sorted, J)[k] = sorted[Nth(J, k)]
      BY ONLY <1>1, <2>1, PickElements, ZenonT(40)
    <3> QED
      BY <3>1, <3>2, Zenon
<1> DEFINE guards == [k \in 1 .. M |-> [kind |-> "JwtPolicy", cache |-> caches[jwt[k].name]]]
<1>8. chain = << [kind |-> "HeaderFilter"] >> \o guards
              \o << [kind |-> "RateLimitFilter", policy |-> "FAIL_OPEN"] >>
  BY <1>3, <1>6, <1>7, ZenonT(40) DEF Wrap
<1> HIDE DEF J, M, jwt
<1>9. /\ Len(chain) = M + 2 /\ DOMAIN chain = 1 .. (M + 2)
      /\ chain[1].kind = "HeaderFilter" /\ chain[M + 2].kind = "RateLimitFilter"
      /\ \A k \in 1 .. M : /\ chain[k + 1].kind = "JwtPolicy"
                            /\ chain[k + 1].cache = caches[jwt[k].name]
  BY <1>7, <1>8, SMTT(30)
<1> DEFINE place == [k \in 1 .. M |-> Nth(I, p[Nth(J, k)])]
<1>10. ASSUME NEW k \in 1 .. M
       PROVE  /\ Nth(J, k) \in 1 .. N /\ p[Nth(J, k)] \in 1 .. N
              /\ place[k] = Nth(I, p[Nth(J, k)]) /\ place[k] \in I
              /\ jwt[k] = Lookup(policies, names[place[k]])
              /\ Adds(caches, Lookup(policies, names[place[k]]))
  <2>1. Nth(J, k) \in 1 .. N /\ Adds(caches, sorted[Nth(J, k)])
    BY <1>7, Zenon DEF J
  <2> QED
    BY <1>1, <1>5, <1>6, <1>7, <2>1, ZenonT(40)
<1> HIDE DEF place
<1>11. ASSUME NEW k \in 1 .. M
       PROVE  /\ place[k] \in Listed(policies, caches, names)
              /\ jwt[k].name = names[place[k]]
  <2>1. place[k] \in 1 .. Len(names) /\ Known(policies, names[place[k]])
    BY <1>10, Zenon DEF I
  <2>2. Lookup(policies, names[place[k]]).name = names[place[k]]
    <3>1. Len(policies) \in Nat
      OBVIOUS
    <3> QED
      BY ONLY <2>1, <3>1, LookupName, Zenon
  <2> QED
    BY <1>10, <2>1, <2>2, Zenon DEF Listed
<1>12. ASSUME NEW k \in 1 .. M, NEW l \in 1 .. M, k < l
       PROVE  /\ place[k] # place[l]
              /\ Lookup(policies, names[place[k]]).order <= Lookup(policies, names[place[l]]).order
  <2> DEFINE a == Nth(J, k)
             b == Nth(J, l)
  <2>1. a \in 1 .. N /\ b \in 1 .. N /\ a < b
    BY <1>7, <1>10, <1>12, Zenon
  <2>2. a # b
    <3> HIDE DEF a, b
    <3> QED
      BY <2>1
  <2>3. p[a] # p[b]
    BY <1>5, <2>1, <2>2, Zenon
  <2>4. place[k] # place[l]
    <3>1. \A c, d \in 1 .. N : c # d => c < d \/ d < c
      BY <1>1
    <3>2. \A c, d \in 1 .. N : c < d => Nth(I, c) # Nth(I, d)
      <4> SUFFICES ASSUME NEW c \in 1 .. N, NEW d \in 1 .. N, c < d PROVE Nth(I, c) # Nth(I, d)
        BY Zenon
      <4>1. Nth(I, c) \in 1 .. Len(names) /\ Nth(I, d) \in 1 .. Len(names) /\ Nth(I, c) < Nth(I, d)
        BY <1>1, Zenon
      <4>2. \A x, y \in 1 .. Len(names) : x < y => x # y
        OBVIOUS
      <4> QED
        BY <4>1, <4>2, Zenon
    <3>3. \A c, d \in 1 .. N : c # d => Nth(I, c) # Nth(I, d)
      BY <3>1, <3>2, Zenon
    <3>4. p[a] \in 1 .. N /\ p[b] \in 1 .. N
      BY <1>5, <2>1, Zenon
    <3>5. place[k] = Nth(I, p[a]) /\ place[l] = Nth(I, p[b])
      BY <1>10, Zenon
    <3> QED
      BY ONLY <2>3, <3>3, <3>4, <3>5, ZenonT(40)
  <2>5. /\ active[p[a]] = Lookup(policies, names[place[k]])
        /\ active[p[b]] = Lookup(policies, names[place[l]])
    BY <1>2, <1>10, Zenon
  <2> QED
    BY <1>4, <2>1, <2>4, <2>5, Zenon
<1>13. ASSUME NEW n \in Listed(policies, caches, names) PROVE \E k \in 1 .. M : place[k] = n
  <2>1. n \in I /\ Adds(caches, Lookup(policies, names[n]))
    BY Zenon DEF Listed, I
  <2>2. PICK i \in 1 .. N : Nth(I, i) = n
    BY <1>1, <2>1, Zenon
  <2>3. PICK j \in 1 .. N : p[j] = i
    BY <1>5, Zenon
  <2>4. j \in J
    BY <1>6, <2>1, <2>2, <2>3, ZenonT(40) DEF J
  <2>5. PICK k \in 1 .. M : Nth(J, k) = j
    BY <1>7, <2>4, Zenon
  <2> QED
    BY <1>10, <2>2, <2>3, <2>5, ZenonT(40)
<1>14. ASSUME NEW k \in 1 .. M
       PROVE  /\ place[k] \in Listed(policies, caches, names)
              /\ chain[k + 1].kind = "JwtPolicy"
              /\ chain[k + 1].cache = caches[names[place[k]]]
  BY <1>9, <1>11, Zenon
<1>15. ChainFor(policies, caches, names, chain, M, place)
  BY ONLY <1>9, <1>12, <1>13, <1>14, ZenonT(40) DEF ChainFor
<1> QED
  BY <1>7, <1>15, Zenon

(* Seen from the chain: its JwtPolicy filters are all but the first and    *)
(* the last, and each stands for one of the listed policies.               *)
LEMMA ChainGuards ==
  ASSUME NEW policies, NEW caches, NEW names, Len(policies) \in Nat, Len(names) \in Nat,
         NEW chain \in BuildChain(policies, caches, names)
  PROVE  GuardedBy(policies, caches, names, Listed(policies, caches, names), chain)
<1> DEFINE guards == Guards(chain)
           listed == Listed(policies, caches, names)
<1>a. PICK m \in Nat : \E place : ChainFor(policies, caches, names, chain, m, place)
  BY ChainShape, Zenon
<1>1. PICK place : ChainFor(policies, caches, names, chain, m, place)
  BY <1>a, Zenon
<1>2. /\ Len(chain) = m + 2
      /\ chain[1].kind = "HeaderFilter" /\ chain[m + 2].kind = "RateLimitFilter"
  BY <1>1, Zenon DEF ChainFor
<1>3. \A k \in 1 .. m : /\ place[k] \in listed
                        /\ chain[k + 1].kind = "JwtPolicy"
                        /\ chain[k + 1].cache = caches[names[place[k]]]
  BY <1>1, Zenon DEF ChainFor
<1>4. \A k, l \in 1 .. m : k < l =>
        /\ place[k] # place[l]
        /\ Lookup(policies, names[place[k]]).order <= Lookup(policies, names[place[l]]).order
  BY <1>1, Zenon DEF ChainFor
<1>5. \A n \in listed : \E k \in 1 .. m : place[k] = n
  BY <1>1, Zenon DEF ChainFor
<1> HIDE DEF listed
<1>6. \A i \in guards : i \in Int /\ i - 1 \in 1 .. m /\ (i - 1) + 1 = i
  <2> SUFFICES ASSUME NEW i \in guards PROVE i \in Int /\ i - 1 \in 1 .. m /\ (i - 1) + 1 = i
    BY Zenon
  <2>1. i \in 1 .. (m + 2) /\ chain[i].kind = "JwtPolicy"
    BY <1>2, Zenon DEF Guards
  <2>2. i # 1 /\ i # m + 2
    BY <1>2, <2>1, Zenon
  <2> QED
    BY ONLY m \in Nat, <2>1, <2>2
<1>7. \A k \in 1 .. m : k + 1 \in guards /\ (k + 1) - 1 = k
  <2> SUFFICES ASSUME NEW k \in 1 .. m PROVE k + 1 \in guards /\ (k + 1) - 1 = k
    BY Zenon
  <2>1. k + 1 \in 1 .. (m + 2) /\ (k + 1) - 1 = k
    OBVIOUS
  <2>2. k + 1 \in 1 .. Len(chain)
    BY <1>2, <2>1, Zenon
  <2>3. chain[k + 1].kind = "JwtPolicy"
    BY <1>3, Zenon
  <2> QED
    BY <2>1, <2>2, <2>3, Zenon DEF Guards
<1>8. \A i \in guards : i \in Int
  BY <1>6, Zenon
<1> HIDE DEF guards
<1> DEFINE f == [i \in guards |-> place[i - 1]]
<1>9. f \in [guards -> listed] /\ \A i \in guards : f[i] = place[i - 1]
  BY <1>3, <1>6, Zenon
<1> HIDE DEF f
<1>10. ASSUME NEW i \in guards, NEW j \in guards, i < j
       PROVE  f[i] # f[j] /\ Lookup(policies, names[f[i]]).order <= Lookup(policies, names[f[j]]).order
  <2>1. i - 1 < j - 1
    BY <1>8, <1>10
  <2>2. /\ i - 1 \in 1 .. m /\ f[i] = place[i - 1]
        /\ j - 1 \in 1 .. m /\ f[j] = place[j - 1]
    BY <1>6, <1>9, Zenon
  <2>3. /\ place[i - 1] # place[j - 1]
        /\ Lookup(policies, names[place[i - 1]]).order <= Lookup(policies, names[place[j - 1]]).order
    BY ONLY <1>4, <2>1, <2>2, Zenon
  <2> QED
    BY ONLY <2>2, <2>3, Zenon
<1>11. ASSUME NEW i \in guards, NEW j \in guards, i # j PROVE f[i] # f[j]
  <2>1. i < j \/ j < i
    BY <1>8, <1>11
  <2> QED
    BY <1>10, <2>1, Zenon
<1>12. ASSUME NEW n \in listed PROVE \E i \in guards : f[i] = n
  <2>1. PICK k \in 1 .. m : place[k] = n
    BY <1>5, Zenon
  <2>2. k + 1 \in guards /\ f[k + 1] = place[k]
    BY <1>7, <1>9, Zenon
  <2> QED
    BY <2>1, <2>2, Zenon
<1>13. ASSUME NEW i \in guards PROVE chain[i].cache = caches[names[f[i]]]
  <2>1. i - 1 \in 1 .. m /\ (i - 1) + 1 = i /\ f[i] = place[i - 1]
    BY <1>6, <1>9, Zenon
  <2>2. chain[(i - 1) + 1].cache = caches[names[place[i - 1]]]
    BY <1>3, <2>1, Zenon
  <2> QED
    BY <2>1, <2>2, Zenon
<1>14. \E h \in [guards -> listed] :
         /\ \A i, j \in guards : i # j => h[i] # h[j]
         /\ \A k \in listed : \E i \in guards : h[i] = k
         /\ \A i \in guards : chain[i].cache = caches[names[h[i]]]
         /\ \A i, j \in guards : i < j =>
              Lookup(policies, names[h[i]]).order <= Lookup(policies, names[h[j]]).order
  BY <1>9, <1>10, <1>11, <1>12, <1>13, Zenon
<1>15. chain[Len(chain)].kind = "RateLimitFilter"
  BY <1>2, Zenon
<1> QED
  BY <1>2, <1>14, <1>15, Zenon DEF GuardedBy, guards, listed

(* PolicyEngine and FilterChain together, for any policies, caches and     *)
(* tokens: a request gets through a chain that buildChain returned only if *)
(* the cache of every listed policy accepts the token it came with, and    *)
(* never when two are listed, since the first JwtPolicy takes the          *)
(* Authorization header away from the second.                              *)
THEOREM PassesOnlyIfListedAccept ==
  ASSUME NEW policies, NEW caches, NEW names, Len(policies) \in Nat, Len(names) \in Nat,
         NEW chain \in BuildChain(policies, caches, names),
         NEW msg, NEW outcome, Passes(chain, msg, outcome)
  PROVE  /\ \A n \in Listed(policies, caches, names) : JwtAllows(caches[names[n]], msg.auth)
         /\ \A n, o \in Listed(policies, caches, names) : n = o
<1> DEFINE listed == Listed(policies, caches, names)
<1>a. PICK m \in Nat : \E place : ChainFor(policies, caches, names, chain, m, place)
  BY ChainShape, Zenon
<1>b. PICK place : ChainFor(policies, caches, names, chain, m, place)
  BY <1>a, Zenon
<1>1. Len(chain) = m + 2 /\ chain[1].kind = "HeaderFilter"
  BY <1>b, Zenon DEF ChainFor
<1>2. \A k \in 1 .. m : /\ chain[k + 1].kind = "JwtPolicy"
                        /\ chain[k + 1].cache = caches[names[place[k]]]
  BY <1>b, Zenon DEF ChainFor
<1>3. \A n \in listed : \E k \in 1 .. m : place[k] = n
  BY <1>b, Zenon DEF ChainFor
<1> HIDE DEF listed
<1>4. ASSUME NEW k \in 1 .. m
      PROVE  JwtAllows(caches[names[place[k]]], AuthAt(chain, k + 1, msg))
  <2>1. k + 1 \in 1 .. (m + 2)
    OBVIOUS
  <2>2. ~ Blocks(chain, k + 1, msg, outcome)
    BY <1>1, <2>1, Zenon DEF Passes
  <2> QED
    BY <1>2, <2>2, Zenon DEF Blocks
<1>5. ASSUME NEW k \in 1 .. m PROVE k = 1
  <2>1. SUFFICES ASSUME k # 1 PROVE FALSE
    BY Zenon
  <2>2. 1 \in 1 .. m /\ 1 + 1 \in 1 .. ((k + 1) - 1)
    BY <2>1
  <2>3. AuthAt(chain, k + 1, msg) = Absent
    BY <1>2, <2>2, Zenon DEF AuthAt
  <2> QED
    BY <1>4, <2>3, Zenon DEF JwtAllows
<1>6. ASSUME NEW k \in 1 .. m PROVE AuthAt(chain, k + 1, msg) = msg.auth
  <2>1. \A j \in 1 .. ((1 + 1) - 1) : j = 1
    OBVIOUS
  <2>2. \A j \in 1 .. ((k + 1) - 1) : j = 1
    BY <1>5, <2>1, Zenon
  <2>3. chain[1].kind # "JwtPolicy"
    BY <1>1
  <2> QED
    BY <2>2, <2>3, Zenon DEF AuthAt
<1>7. ASSUME NEW n \in listed PROVE JwtAllows(caches[names[n]], msg.auth)
  BY <1>3, <1>4, <1>6, Zenon
<1>8. ASSUME NEW n \in listed, NEW o \in listed PROVE n = o
  BY <1>3, <1>5, Zenon
<1> QED
  BY <1>7, <1>8, Zenon DEF listed

-----------------------------------------------------------------------------
(* The process                                                             *)

(* Every cache holds the JwtConfig of a policy of its name.                *)
Origin(caches, policies) ==
  \A name \in DOMAIN caches :
    \E i \in 1 .. Len(policies) : /\ policies[i].name = name
                                  /\ caches[name].cfg = policies[i].jwt

(* The loop over the policies has entered a cache for every JWT policy it  *)
(* has passed.                                                             *)
LoopInv ==
  main = "fetch" =>
    /\ store \in Stores
    /\ next # 0
    /\ Origin(jwksCaches, store.policies)
    /\ \A i \in 1 .. Len(store.policies) :
         i < next /\ store.policies[i].jwt # Absent
           => store.policies[i].name \in DOMAIN jwksCaches

(* Every JWT policy the data plane was given has a cache.                  *)
Ready ==
  /\ plane.store \in Stores
  /\ Origin(plane.caches, plane.store.policies)
  /\ \A i \in 1 .. Len(plane.store.policies) :
       plane.store.policies[i].jwt # Absent
         => Adds(plane.caches, plane.store.policies[i])

PInv ==
  /\ TypeOK
  /\ LoopInv
  /\ main = "load" => next = 1 /\ jwksCaches = NoCaches
  /\ main \in {"load", "fetch"} => gateway = "none"
  /\ main \notin {"load", "fetch", "dead"} => Ready
  /\ gateway # "none" => Ready

(* The invariant holds when the process starts.                            *)
LEMMA ProcessInit == Init => PInv
  BY DEF Init, PInv, TypeOK, LoopInv, Steps

(* Every step of main(), of the servers and of the directory's editors     *)
(* keeps the invariant.                                                    *)
LEMMA ProcessNext == PInv /\ [Next]_vars => PInv'
<1> SUFFICES ASSUME PInv, [Next]_vars PROVE PInv'
  OBVIOUS
<1>1. CASE LoadConfig
  <2>1. Origin(jwksCaches', store'.policies)
    BY <1>1, ZenonT(40) DEF PInv, Origin, NoCaches, LoadConfig
  <2>2. 1 # 0 /\ \A i \in 1 .. Len(store'.policies) : ~ (i < 1)
    OBVIOUS
  <2>3. next' = 1
    BY <1>1, Zenon DEF PInv, LoadConfig
  <2>4. store' \in Stores
    BY <1>1, Zenon DEF PInv, TypeOK, LoadConfig
  <2>5. LoopInv'
    BY <2>1, <2>2, <2>3, <2>4, Zenon DEF LoopInv
  <2> QED
    BY <1>1, <2>3, <2>5, ZenonT(60) DEF PInv, TypeOK, Steps, LoadConfig
<1>2. CASE LoadFails
  BY <1>2, ZenonT(60) DEF PInv, TypeOK, Steps, LoopInv, Ready, LoadFails
<1>3. CASE SkipPolicy
  <2>1. LoopInv'
    <3>1. store \in Stores /\ Len(store.policies) \in Nat /\ next \in Nat
      BY <1>3, StoresAssumption DEF PInv, TypeOK, LoopInv, SkipPolicy, Fetching
    <3> QED
      BY <1>3, <3>1 DEF PInv, LoopInv, SkipPolicy, Fetching
  <2>2. \A n \in Nat : n + 1 \in Nat
    OBVIOUS
  <2>3. next' \in Nat
    BY <1>3, <2>2, Zenon DEF PInv, TypeOK, SkipPolicy
  <2> QED
    BY <1>3, <2>1, <2>3, ZenonT(60) DEF PInv, TypeOK, Steps, Ready, SkipPolicy, Fetching
<1>4. CASE FetchJwks
  <2>1. LoopInv'
    <3>1. store \in Stores /\ Len(store.policies) \in Nat /\ next \in Nat
      BY <1>4, StoresAssumption DEF PInv, TypeOK, LoopInv, FetchJwks, Fetching
    <3>2. DOMAIN jwksCaches' = DOMAIN jwksCaches \cup {store.policies[next].name}
      BY <1>4, ZenonT(40) DEF FetchJwks, Enter
    <3> DEFINE policy == store.policies[next]
    <3>3. /\ \A name \in DOMAIN jwksCaches : name # policy.name => jwksCaches'[name] = jwksCaches[name]
          /\ jwksCaches'[policy.name].cfg = policy.jwt
          /\ next \in 1 .. Len(store.policies)
      <4>1. jwksCaches' = Enter(jwksCaches, policy) /\ next <= Len(store.policies) /\ next # 0
        BY <1>4, <3>1 DEF PInv, LoopInv, FetchJwks, Fetching
      <4>2. jwksCaches'[policy.name] = [cfg |-> policy.jwt]
        BY <4>1, ZenonT(40) DEF Enter
      <4> QED
        BY <3>1, <4>1, <4>2 DEF Enter
    <3>4. Origin(jwksCaches, store.policies) /\ store' = store
      BY <1>4, ZenonT(40) DEF PInv, LoopInv, FetchJwks, Fetching
    <3>5. Origin(jwksCaches, store.policies)'
      <4>1. ASSUME NEW name \in DOMAIN jwksCaches'
            PROVE  \E i \in 1 .. Len(store.policies) :
                     store.policies[i].name = name /\ jwksCaches'[name].cfg = store.policies[i].jwt
        <5>1. CASE name = policy.name
          BY <3>3, <5>1, Zenon
        <5>2. CASE name # policy.name
          <6>1. name \in DOMAIN jwksCaches /\ jwksCaches'[name] = jwksCaches[name]
            BY <3>2, <3>3, <5>2, ZenonT(40)
          <6>2. PICK i \in 1 .. Len(store.policies) :
                  store.policies[i].name = name /\ jwksCaches[name].cfg = store.policies[i].jwt
            BY <3>4, <6>1, ZenonT(40) DEF Origin
          <6> QED
            BY <6>1, <6>2, Zenon
        <5> QED
          BY <5>1, <5>2, Zenon
      <4> QED
        BY <3>4, <4>1, ZenonT(40) DEF Origin
    <3> QED
      BY <1>4, <3>1, <3>2, <3>5 DEF PInv, LoopInv, FetchJwks, Fetching
  <2>2. \A n \in Nat : n + 1 \in Nat
    OBVIOUS
  <2>3. next' \in Nat
    BY <1>4, <2>2, Zenon DEF PInv, TypeOK, FetchJwks
  <2> QED
    BY <1>4, <2>1, <2>3, ZenonT(60) DEF PInv, TypeOK, Steps, Ready, FetchJwks, Fetching
<1>5. CASE FetchFails
  BY <1>5, ZenonT(60) DEF PInv, TypeOK, Steps, LoopInv, Ready, FetchFails, Fetching
<1>6. CASE BuildServers
  <2>1. store \in Stores /\ Len(store.policies) \in Nat /\ next \in Nat
    BY <1>6, StoresAssumption DEF PInv, TypeOK, LoopInv, BuildServers
  <2>2. plane'.store = store /\ plane'.caches = jwksCaches
    BY <1>6 DEF BuildServers
  <2>3. Ready'
    BY <1>6, <2>1, <2>2 DEF PInv, LoopInv, Ready, Adds, BuildServers
  <2> QED
    BY <1>6, <2>1, <2>2, <2>3, ZenonT(60) DEF PInv, TypeOK, Steps, LoopInv, BuildServers
<1>7. CASE BuildFails
  BY <1>7, ZenonT(60) DEF PInv, TypeOK, Steps, LoopInv, Ready, BuildFails
<1>8. CASE StartAdmin
  BY <1>8, ZenonT(60) DEF PInv, TypeOK, Steps, LoopInv, Ready, StartAdmin
<1>9. CASE StartGateway
  BY <1>9, ZenonT(60) DEF PInv, TypeOK, Steps, LoopInv, Ready, StartGateway
<1>10. CASE JoinGateway
  BY <1>10, ZenonT(60) DEF PInv, TypeOK, Steps, LoopInv, Ready, JoinGateway
<1>11. CASE StopAdmin
  BY <1>11, ZenonT(60) DEF PInv, TypeOK, Steps, LoopInv, Ready, StopAdmin
<1>12. CASE JoinAdmin
  BY <1>12, ZenonT(60) DEF PInv, TypeOK, Steps, LoopInv, Ready, JoinAdmin
<1>13. CASE EditDir
  BY <1>13, ZenonT(60) DEF PInv, TypeOK, Steps, LoopInv, Ready, EditDir
<1>14. CASE AdminStarts
  BY <1>14, ZenonT(60) DEF PInv, TypeOK, Steps, LoopInv, Ready, AdminStarts
<1>15. CASE GatewayStarts
  BY <1>15, ZenonT(60) DEF PInv, TypeOK, Steps, LoopInv, Ready, GatewayStarts
<1>16. CASE Signal
  BY <1>16, ZenonT(60) DEF PInv, TypeOK, Steps, LoopInv, Ready, Signal
<1>17. CASE Reload
  BY <1>17, ZenonT(60) DEF PInv, TypeOK, Steps, LoopInv, Ready, Reload
<1>18. CASE UNCHANGED vars
  BY <1>18, ZenonT(60) DEF PInv, TypeOK, Steps, LoopInv, Ready, vars
<1> QED
  BY <1>1, <1>2, <1>3, <1>4, <1>5, <1>6, <1>7, <1>8, <1>9, <1>10, <1>11, <1>12,
     <1>13, <1>14, <1>15, <1>16, <1>17, <1>18, ZenonT(40) DEF Next, MainStep

(* Every piece of the process's state always has a value of its type.      *)
THEOREM ProcessTypeCorrect == Spec => []TypeOK
<1>1. PInv => TypeOK
  BY DEF PInv
<1> QED
  BY <1>1, ProcessInit, ProcessNext, PTL DEF Spec

(* Whatever is configured, fetched, edited and reloaded: while the data    *)
(* plane takes traffic, buildChain finds a cache for every JWT policy, so  *)
(* the branch that leaves a policy out for want of one is never taken.     *)
THEOREM NoPolicyLeftOut == Spec => []EveryJwtPolicyAdds
<1>1. PInv => EveryJwtPolicyAdds
  BY DEF PInv, Ready, EveryJwtPolicyAdds
<1> QED
  BY <1>1, ProcessInit, ProcessNext, PTL DEF Spec

(* While the data plane takes traffic, the filters a route's chain has are *)
(* the ones its router lists: one JwtPolicy for each JWT policy, with that *)
(* policy's cache, in ascending order, between HeaderFilter and            *)
(* RateLimitFilter, whichever way std::sort leaves policies of equal order.*)
THEOREM ListedPoliciesGuard == Spec => []ChainsGuarded
<1>1. PInv => ChainsGuarded
  <2> SUFFICES ASSUME PInv, gateway = "listening",
                      NEW k \in 1 .. Len(plane.store.routers),
                      NEW chain \in BuildChain(plane.store.policies, plane.caches,
                                               plane.store.routers[k])
               PROVE  GuardedBy(plane.store.policies, plane.caches, plane.store.routers[k],
                                ListedJwt(plane.store.policies, plane.store.routers[k]), chain)
    BY ZenonT(40) DEF ChainsGuarded
  <2> DEFINE policies == plane.store.policies
             caches == plane.caches
             names == plane.store.routers[k]
  <2>1. /\ plane.store \in Stores
        /\ \A i \in 1 .. Len(policies) : policies[i].jwt # Absent => Adds(caches, policies[i])
    BY ZenonT(60) DEF PInv, Ready
  <2>2. Len(policies) \in Nat /\ Len(names) \in Nat
    <3>1. PICK s \in Stores : s = plane.store
      BY <2>1, Zenon
    <3>2. Len(s.policies) \in Nat /\ \A n \in 1 .. Len(s.routers) : Len(s.routers[n]) \in Nat
      BY StoresAssumption, Zenon
    <3> QED
      BY <3>1, <3>2, Zenon
  <2> HIDE DEF policies, caches, names
  <2>3. ASSUME NEW name, Known(policies, name), Lookup(policies, name).jwt # Absent
        PROVE  Adds(caches, Lookup(policies, name))
    <3>1. PICK i \in 1 .. Len(policies) : Lookup(policies, name) = policies[i]
      BY <2>2, <2>3, LookupFinds, ZenonT(40)
    <3> QED
      BY <2>1, <2>3, <3>1, ZenonT(40) DEF policies, caches
  <2>4. Listed(policies, caches, names) = ListedJwt(policies, names)
    <3>1. \A n \in 1 .. Len(names) :
            (Known(policies, names[n]) /\ Adds(caches, Lookup(policies, names[n])))
              <=> (Known(policies, names[n]) /\ Lookup(policies, names[n]).jwt # Absent)
      BY <2>3, Zenon DEF Adds
    <3> DEFINE A(n) == Known(policies, names[n]) /\ Adds(caches, Lookup(policies, names[n]))
               B(n) == Known(policies, names[n]) /\ Lookup(policies, names[n]).jwt # Absent
    <3>2. /\ Listed(policies, caches, names) = {n \in 1 .. Len(names) : A(n)}
          /\ ListedJwt(policies, names) = {n \in 1 .. Len(names) : B(n)}
      BY Zenon DEF Listed, ListedJwt
    <3>3. \A n \in 1 .. Len(names) : A(n) <=> B(n)
      BY <3>1, Zenon
    <3> HIDE DEF A, B
    <3> QED
      BY ONLY <3>2, <3>3, Zenon
  <2>5. chain \in BuildChain(policies, caches, names)
    BY Zenon DEF policies, caches, names
  <2>6. GuardedBy(policies, caches, names, Listed(policies, caches, names), chain)
    BY ONLY <2>2, <2>5, ChainGuards, Zenon
  <2>7. GuardedBy(policies, caches, names, ListedJwt(policies, names), chain)
    BY ONLY <2>4, <2>6, Zenon
  <2> QED
    BY <2>7, Zenon DEF policies, caches, names
<1> QED
  BY <1>1, ProcessInit, ProcessNext, PTL DEF Spec

-----------------------------------------------------------------------------
(* Whose keys a cache holds                                                *)

(* Of the first n - 1 policies, the last one of each name that has a jwt   *)
(* section has its JwtConfig in the caches.                                *)
Latest(policies, n, caches) ==
  \A i \in 1 .. Len(policies) :
    (/\ i < n
     /\ policies[i].jwt # Absent
     /\ \A j \in 1 .. Len(policies) :
          i < j /\ j < n /\ policies[j].name = policies[i].name => policies[j].jwt = Absent)
    => policies[i].name \in DOMAIN caches /\ caches[policies[i].name].cfg = policies[i].jwt

(* Passing over a policy without a jwt section keeps that.                 *)
LEMMA SkipKeepsLatest ==
  ASSUME NEW policies, NEW caches, Len(policies) \in Nat, NEW n \in 1 .. Len(policies),
         policies[n].jwt = Absent, Latest(policies, n, caches)
  PROVE  Latest(policies, n + 1, caches)
<1> SUFFICES ASSUME NEW i \in 1 .. Len(policies), i < n + 1, policies[i].jwt # Absent,
                    \A j \in 1 .. Len(policies) :
                      i < j /\ j < n + 1 /\ policies[j].name = policies[i].name
                        => policies[j].jwt = Absent
             PROVE  policies[i].name \in DOMAIN caches
                    /\ caches[policies[i].name].cfg = policies[i].jwt
  BY Zenon DEF Latest
<1>1. i # n
  BY Zenon
<1>2. i < n
  BY ONLY <1>1, i < n + 1, Len(policies) \in Nat, n \in 1 .. Len(policies),
          i \in 1 .. Len(policies)
<1>3. \A j \in 1 .. Len(policies) : j < n => j < n + 1
  OBVIOUS
<1> QED
  BY <1>2, <1>3, ZenonT(40) DEF Latest

(* So does entering the cache of the next policy.                          *)
LEMMA EnterKeepsLatest ==
  ASSUME NEW policies, NEW caches, Len(policies) \in Nat, NEW n \in 1 .. Len(policies),
         policies[n].jwt # Absent, Latest(policies, n, caches)
  PROVE  Latest(policies, n + 1, Enter(caches, policies[n]))
<1> DEFINE entered == Enter(caches, policies[n])
<1>1. /\ policies[n].name \in DOMAIN entered /\ entered[policies[n].name].cfg = policies[n].jwt
      /\ \A name \in DOMAIN caches :
           name # policies[n].name => name \in DOMAIN entered /\ entered[name] = caches[name]
  BY ZenonT(40) DEF Enter
<1> HIDE DEF entered
<1>2. ASSUME NEW i \in 1 .. Len(policies), i < n + 1, policies[i].jwt # Absent,
             \A j \in 1 .. Len(policies) :
               i < j /\ j < n + 1 /\ policies[j].name = policies[i].name
                 => policies[j].jwt = Absent
      PROVE  policies[i].name \in DOMAIN entered
             /\ entered[policies[i].name].cfg = policies[i].jwt
  <2>1. CASE i = n
    BY <1>1, <2>1, Zenon
  <2>2. CASE i # n
    <3>1. i < n /\ n < n + 1
      BY ONLY <2>2, <1>2, Len(policies) \in Nat, n \in 1 .. Len(policies)
    <3>2. policies[i].name # policies[n].name
      BY <1>2, <3>1, Zenon
    <3>3. \A j \in 1 .. Len(policies) : j < n => j < n + 1
      OBVIOUS
    <3>4. policies[i].name \in DOMAIN caches /\ caches[policies[i].name].cfg = policies[i].jwt
      BY <1>2, <3>1, <3>3, ZenonT(40) DEF Latest
    <3> QED
      BY <1>1, <3>2, <3>4, Zenon
  <2> QED
    BY <2>1, <2>2, Zenon
<1> QED
  BY <1>2, ZenonT(40) DEF Latest, entered

(* The same of all the policies of a configuration.                        *)
AllLatest(policies, caches) ==
  \A i \in 1 .. Len(policies) :
    (/\ policies[i].jwt # Absent
     /\ \A j \in 1 .. Len(policies) :
          i < j /\ policies[j].name = policies[i].name => policies[j].jwt = Absent)
    => caches[policies[i].name].cfg = policies[i].jwt

CInv ==
  /\ main = "fetch" => Latest(store.policies, next, jwksCaches)
  /\ main \notin {"load", "fetch", "dead"} => AllLatest(plane.store.policies, plane.caches)
  /\ gateway # "none" => AllLatest(plane.store.policies, plane.caches)

(* It holds when the process starts, with no policy entered yet.           *)
LEMMA CachesInit == Init => CInv
  BY Zenon DEF Init, CInv

(* Every step keeps it: only the loop that fetches the keys enters a       *)
(* policy, the next one of the list, over an earlier one of its name.      *)
LEMMA CachesNext == PInv /\ CInv /\ [Next]_vars => CInv'
<1> SUFFICES ASSUME PInv, CInv, [Next]_vars PROVE CInv'
  OBVIOUS
<1>1. CASE LoadConfig
  <2>1. next' = 1
    BY <1>1, Zenon DEF PInv, LoadConfig
  <2>2. \A i \in 1 .. Len(store'.policies) : ~ (i < 1)
    OBVIOUS
  <2>3. Latest(store'.policies, next', jwksCaches')
    BY <2>1, <2>2, Zenon DEF Latest
  <2> QED
    BY <1>1, <2>3, ZenonT(40) DEF PInv, CInv, LoadConfig
<1>2. ASSUME Fetching
      PROVE  Len(store.policies) \in Nat /\ next \in 1 .. Len(store.policies)
  <2>1. store \in Stores /\ next # 0 /\ next \in Nat /\ next <= Len(store.policies)
    BY <1>2, ZenonT(40) DEF PInv, TypeOK, LoopInv, Fetching
  <2>2. Len(store.policies) \in Nat
    BY <2>1, StoresAssumption, Zenon
  <2> QED
    BY ONLY <2>1, <2>2
<1>3. CASE SkipPolicy
  <2>1. Len(store.policies) \in Nat /\ next \in 1 .. Len(store.policies)
    BY <1>2, <1>3, Zenon DEF SkipPolicy
  <2>2. store.policies[next].jwt = Absent /\ Latest(store.policies, next, jwksCaches)
    BY <1>3, Zenon DEF CInv, SkipPolicy, Fetching
  <2>3. Latest(store.policies, next + 1, jwksCaches)
    BY ONLY <2>1, <2>2, SkipKeepsLatest, Zenon
  <2> QED
    BY <1>3, <2>3, ZenonT(40) DEF CInv, SkipPolicy
<1>4. CASE FetchJwks
  <2>1. Len(store.policies) \in Nat /\ next \in 1 .. Len(store.policies)
    BY <1>2, <1>4, Zenon DEF FetchJwks
  <2>2. store.policies[next].jwt # Absent /\ Latest(store.policies, next, jwksCaches)
    BY <1>4, Zenon DEF CInv, FetchJwks, Fetching
  <2>3. Latest(store.policies, next + 1, Enter(jwksCaches, store.policies[next]))
    BY ONLY <2>1, <2>2, EnterKeepsLatest, Zenon
  <2> QED
    BY <1>4, <2>3, ZenonT(40) DEF CInv, FetchJwks
<1>5. CASE BuildServers
  <2>1. store \in Stores /\ next \in Nat /\ next > Len(store.policies)
    BY <1>5, ZenonT(40) DEF PInv, TypeOK, LoopInv, BuildServers
  <2>2. Len(store.policies) \in Nat
    BY <2>1, StoresAssumption, Zenon
  <2>3. \A i \in 1 .. Len(store.policies) : i < next
    BY ONLY <2>1, <2>2
  <2>4. Latest(store.policies, next, jwksCaches)
    BY <1>5, Zenon DEF CInv, BuildServers
  <2>5. AllLatest(store.policies, jwksCaches)
    BY <2>3, <2>4, ZenonT(40) DEF Latest, AllLatest
  <2>6. plane'.store = store /\ plane'.caches = jwksCaches
    BY <1>5 DEF BuildServers
  <2>7. AllLatest(plane'.store.policies, plane'.caches)
    BY <2>5, <2>6, Zenon
  <2> QED
    BY <1>5, <2>7, ZenonT(40) DEF CInv, BuildServers
<1>6. ASSUME \/ LoadFails \/ FetchFails \/ BuildFails \/ StartAdmin \/ JoinGateway
             \/ StopAdmin \/ JoinAdmin \/ EditDir \/ AdminStarts \/ Reload
      PROVE  /\ gateway' = gateway /\ plane' = plane
             /\ main' = "fetch" => main = "fetch" /\ UNCHANGED <<store, next, jwksCaches>>
             /\ main' \notin {"load", "fetch", "dead"} => main \notin {"load", "fetch", "dead"}
  BY <1>6, ZenonT(60) DEF LoadFails, FetchFails, BuildFails, StartAdmin, JoinGateway,
     StopAdmin, JoinAdmin, EditDir, AdminStarts, Reload, Fetching
<1>7. CASE \/ LoadFails \/ FetchFails \/ BuildFails \/ StartAdmin \/ JoinGateway
           \/ StopAdmin \/ JoinAdmin \/ EditDir \/ AdminStarts \/ Reload
  BY <1>6, <1>7, ZenonT(40) DEF CInv
<1>8. CASE StartGateway
  BY <1>8, ZenonT(40) DEF CInv, StartGateway
<1>9. CASE GatewayStarts
  BY <1>9, ZenonT(40) DEF CInv, GatewayStarts
<1>10. CASE Signal
  BY <1>10, ZenonT(40) DEF CInv, Signal
<1>11. CASE UNCHANGED vars
  BY <1>11, ZenonT(40) DEF CInv, vars
<1> QED
  BY <1>1, <1>3, <1>4, <1>5, <1>7, <1>8, <1>9, <1>10, <1>11, ZenonT(40) DEF Next, MainStep

(* Whatever is reloaded, a chain verifies tokens against the JwtConfig of  *)
(* the last JWT policy of the name that main() loaded: jwksCaches[name] is *)
(* assigned once for each, in their order.                                 *)
THEOREM LastOfNameVerifies == Spec => []LastOfNameCached
<1>1. CInv => LastOfNameCached
  BY ZenonT(40) DEF CInv, AllLatest, LastOfNameCached
<1> QED
  BY <1>1, ProcessInit, ProcessNext, CachesInit, CachesNext, PTL DEF Spec

(* No two policies of a configuration have one name.                       *)
DistinctPolicyNames ==
  \A s \in Stores : \A i, j \in 1 .. Len(s.policies) :
    s.policies[i].name = s.policies[j].name => i = j

(* Names that repeat are the only way to break "one JwksCache per policy"  *)
(* (OwnCache): where they are distinct, each policy listed is applied with *)
(* the keys and claims that were fetched for it.                           *)
THEOREM DistinctNamesOwnCache ==
  ASSUME DistinctPolicyNames
  PROVE  Spec => []OwnCache
<1>1. PInv /\ CInv => OwnCache
  <2> SUFFICES ASSUME PInv, CInv, gateway = "listening",
                      NEW i \in 1 .. Len(plane.store.policies),
                      plane.store.policies[i].jwt # Absent
               PROVE  plane.caches[plane.store.policies[i].name].cfg
                        = plane.store.policies[i].jwt
    BY ZenonT(40) DEF OwnCache
  <2> DEFINE policies == plane.store.policies
  <2>1. plane.store \in Stores /\ AllLatest(policies, plane.caches)
    BY ZenonT(40) DEF PInv, Ready, CInv
  <2>2. PICK s \in Stores : s = plane.store
    BY <2>1, Zenon
  <2>3. \A j \in 1 .. Len(policies) : policies[j].name = policies[i].name => i = j
    BY <2>2, ZenonT(40) DEF DistinctPolicyNames
  <2>4. Len(policies) \in Nat
    BY <2>2, StoresAssumption, Zenon
  <2>5. \A j \in 1 .. Len(policies) : i < j => i # j
    BY <2>4
  <2> HIDE DEF policies
  <2>6. i \in 1 .. Len(policies) /\ policies[i].jwt # Absent
    BY Zenon DEF policies
  <2>7. plane.caches[policies[i].name].cfg = policies[i].jwt
    BY ONLY <2>1, <2>3, <2>5, <2>6, ZenonT(40) DEF AllLatest
  <2> QED
    BY <2>7, Zenon DEF policies
<1> QED
  BY <1>1, ProcessInit, ProcessNext, CachesInit, CachesNext, PTL DEF Spec
=============================================================================
