-------------------------- MODULE HTTPClientProofs --------------------------
(***************************************************************************)
(* Proofs about the cookie jar, the cache and the client that fills them,  *)
(* for any hosts, URLs, limits, sizes, lifetimes and number of requests.   *)
(*                                                                         *)
(* The inductive invariant is the types with the three properties of the   *)
(* stored data; what a script may overwrite and that the newest cookie     *)
(* stays follow from it.  The jar's part is proved of sequences: one call  *)
(* filters, appends and evicts in turn.                                    *)
(***************************************************************************)
EXTENDS HTTPClient, SubsequenceProofs, TLAPS

Cookie == [name : Name, domain : Domain, httpOnly : BOOLEAN, exp : Expiries, by : Domain]

Alone(s) == \A i, j \in DOMAIN s : Same(s[i], s[j]) => i = j

Bounded(s) == Within(s, Domain)

ClientInv == TypeOK /\ OneCookieEach /\ JarWithinLimits /\ CacheAccounted
-----------------------------------------------------------------------------
(* The jar as a sequence. *)

(* Whatever is taken out, what stays is in the same order, each cookie     *)
(* still once, and no host has more than it had.                           *)
LEMMA JarKept ==
    ASSUME NEW s \in Seq(Cookie), NEW I \in SUBSET DOMAIN s
    PROVE  /\ At(s, I) \in Seq(Cookie) /\ Len(At(s, I)) <= Len(s)
           /\ Range(At(s, I)) = {s[i] : i \in I}
           /\ Alone(s) => Alone(At(s, I))
           /\ \A h : /\ IsFiniteSet(HeldBy(s, h)) /\ Cardinality(HeldBy(s, h)) \in Nat
                     /\ Cardinality(HeldBy(At(s, I), h)) \in Nat
                     /\ Cardinality(HeldBy(At(s, I), h)) <= Cardinality(HeldBy(s, h))
<1> DEFINE n == Cardinality(I)
           r == At(s, I)
<1>1. /\ n \in Nat /\ r \in Seq(Cookie) /\ DOMAIN r = 1..n
      /\ I \subseteq 1..Len(s) /\ Len(s) \in Nat
      /\ \A k \in 1..n : Place(I, k) \in I /\ r[k] = s[Place(I, k)]
      /\ \A k, l \in 1..n : k < l <=> Place(I, k) < Place(I, l)
  BY Kept
<1>2. Range(r) = {s[i] : i \in I}
  <2>1. Members(r) = {s[i] : i \in I}
    BY KeptMembers
  <2> QED
    BY <2>1 DEF Members, Range
<1>3. ASSUME Alone(s) PROVE Alone(r)
  <2> HIDE DEF r, n
  <2> SUFFICES ASSUME NEW k \in 1..n, NEW l \in 1..n, Same(r[k], r[l]) PROVE k = l
    BY <1>1 DEF Alone
  <2>1. Place(I, k) = Place(I, l)
    BY <1>1, <1>3 DEF Alone
  <2>2. ~ (k < l) /\ ~ (l < k)
    BY <1>1, <2>1
  <2> QED
    BY <1>1, <2>2
<1>4. ASSUME NEW h
      PROVE  /\ IsFiniteSet(HeldBy(s, h)) /\ Cardinality(HeldBy(s, h)) \in Nat
             /\ Cardinality(HeldBy(r, h)) \in Nat
             /\ Cardinality(HeldBy(r, h)) <= Cardinality(HeldBy(s, h))
  <2> DEFINE V == {c \in Cookie : c.by = h}
  <2>1. HeldBy(s, h) = {i \in DOMAIN s : s[i] \in V}
    BY DEF HeldBy
  <2>2. HeldBy(r, h) = {k \in DOMAIN r : r[k] \in V}
    <3> HIDE DEF r
    <3> QED
      BY <1>1 DEF HeldBy
  <2> HIDE DEF V
  <2> DEFINE before == {i \in DOMAIN s : s[i] \in V}
             after == {k \in DOMAIN r : r[k] \in V}
  <2>3. /\ IsFiniteSet(before) /\ Cardinality(before) \in Nat /\ Cardinality(after) \in Nat
        /\ Cardinality(after) <= Cardinality(before)
    BY KeptCount
  <2> QED
    BY <2>1, <2>2, <2>3
<1>5. Len(r) <= Len(s)
  BY KeptCount
<1> QED
  BY <1>1, <1>2, <1>3, <1>4, <1>5

LEMMA TakenOut ==
    ASSUME NEW s \in Seq(Cookie), NEW I \in SUBSET DOMAIN s
    PROVE  /\ At(s, I) \in Seq(Cookie) /\ Range(At(s, I)) \subseteq Range(s)
           /\ Alone(s) => Alone(At(s, I))
           /\ \A h : /\ Cardinality(HeldBy(At(s, I), h)) \in Nat
                     /\ Cardinality(HeldBy(s, h)) \in Nat
                     /\ Cardinality(HeldBy(At(s, I), h)) <= Cardinality(HeldBy(s, h))
           /\ Bounded(s) => Bounded(At(s, I))
<1> DEFINE r == At(s, I)
<1>1. /\ r \in Seq(Cookie) /\ Len(r) <= Len(s)
      /\ Range(r) = {s[i] : i \in I}
      /\ Alone(s) => Alone(r)
      /\ \A h : /\ IsFiniteSet(HeldBy(s, h)) /\ Cardinality(HeldBy(s, h)) \in Nat
                /\ Cardinality(HeldBy(r, h)) \in Nat
                /\ Cardinality(HeldBy(r, h)) <= Cardinality(HeldBy(s, h))
  BY JarKept
<1>2. {s[i] : i \in I} \subseteq Range(s)
  BY DEF Range
<1> HIDE DEF r
<1>3. ASSUME Bounded(s) PROVE Bounded(r)
  <2>1. Len(r) <= MaxTotal
    <3>1. Len(r) \in Nat /\ Len(s) \in Nat /\ MaxTotal \in Nat /\ Len(s) <= MaxTotal
      BY <1>1, <1>3, CookieJarAssumption DEF Bounded, Within
    <3> QED
      BY <1>1, <3>1
  <2>2. ASSUME NEW h \in Domain PROVE Cardinality(HeldBy(r, h)) <= MaxPerHost
    <3>1. Cardinality(HeldBy(s, h)) <= MaxPerHost
      BY <1>3 DEF Bounded, Within
    <3>2. MaxPerHost \in Nat
      BY CookieJarAssumption
    <3> QED
      BY <1>1, <3>1, <3>2
  <2> QED
    BY <2>1, <2>2 DEF Bounded, Within
<1> QED
  BY <1>1, <1>2, <1>3 DEF r

(* Evicting every candidate empties the jar: none goes before itself. *)
LEMMA NoneLeft ==
    ASSUME NEW s \in Seq(Cookie)
    PROVE  Without(s, Len(s)) = <<>>
<1>1. Len(s) \in Nat /\ DOMAIN s = 1..Len(s)
  OBVIOUS
<1>2. IsFiniteSet(DOMAIN s) /\ Cardinality(DOMAIN s) = Len(s)
  BY <1>1, SegmentCount
<1>3. ASSUME NEW i \in DOMAIN s
      PROVE  ~ (Cardinality({j \in DOMAIN s : GoesBefore(s, j, i)}) >= Len(s))
  <2> DEFINE B == {j \in DOMAIN s : GoesBefore(s, j, i)}
  <2>1. i \notin B
    <3>1. i \in Nat /\ s[i] \in Cookie
      BY <1>1
    <3>2. s[i].exp \in Int
      BY <3>1, HTTPClientAssumption DEF Cookie, Expiries, Session, Past, Start
    <3> QED
      BY <3>1, <3>2 DEF GoesBefore
  <2>2. B \in SUBSET DOMAIN s /\ B # DOMAIN s
    BY <2>1
  <2> HIDE DEF B
  <2>3. /\ IsFiniteSet(B) /\ Cardinality(B) <= Cardinality(DOMAIN s)
        /\ Cardinality(B) # Cardinality(DOMAIN s)
    BY <1>2, <2>2, FS_Subset
  <2>4. Cardinality(B) \in Nat
    BY <2>3, FS_CardinalityType
  <2> QED
    BY <1>1, <1>2, <2>3, <2>4 DEF B
<1>4. {i \in DOMAIN s : Cardinality({j \in DOMAIN s : GoesBefore(s, j, i)}) >= Len(s)} = {}
  BY <1>3
<1>5. Without(s, Len(s)) = At(s, {})
  BY <1>4 DEF Without
<1>6. Cardinality({}) = 0
  BY FS_EmptySet
<1>7. At(s, {}) = [k \in {} |-> s[Place({}, k)]]
  BY <1>6 DEF At
<1> QED
  BY <1>5, <1>7

(* The limits can always be met: an empty jar is within them.  So the      *)
(* eviction stops at the first jar that is, and takes nothing else.        *)
LEMMA EvictStops ==
    ASSUME NEW live \in Seq(Cookie), NEW hosts, NEW n,
           n = CHOOSE k \in 0..Len(live) :
                 /\ Within(Without(live, k), hosts)
                 /\ k > 0 => ~ Within(Without(live, k - 1), hosts)
    PROVE  /\ n \in 0..Len(live) /\ Within(Without(live, n), hosts)
           /\ n > 0 => ~ Within(Without(live, n - 1), hosts)
<1> DEFINE E == {k \in Nat : k <= Len(live) /\ Within(Without(live, k), hosts)}
<1>1. Len(live) \in Nat
  OBVIOUS
<1>2. Within(<<>>, hosts)
  <2>1. \A h : HeldBy(<<>>, h) = {}
    BY DEF HeldBy
  <2>2. Len(<<>>) = 0 /\ MaxPerHost >= 0 /\ MaxTotal >= 0
    BY CookieJarAssumption
  <2> QED
    BY <2>1, <2>2, FS_EmptySet DEF Within
<1>3. Len(live) \in E
  BY <1>1, <1>2, NoneLeft
<1>4. E \in SUBSET Nat /\ E # {}
  BY <1>3
<1> HIDE DEF E
<1>5. PICK k \in E : \A m \in E : k <= m
  BY <1>4, LeastNumber
<1>6. k \in 0..Len(live) /\ Within(Without(live, k), hosts)
  BY <1>5 DEF E
<1>7. k > 0 => ~ Within(Without(live, k - 1), hosts)
  <2>1. SUFFICES ASSUME k > 0, Within(Without(live, k - 1), hosts) PROVE FALSE
    OBVIOUS
  <2>2. k - 1 \in Nat /\ k - 1 <= Len(live)
    BY <1>1, <1>6, <2>1
  <2>3. k - 1 \in E
    BY <2>1, <2>2 DEF E
  <2> QED
    BY <1>5, <1>6, <2>3
<1> QED
  BY <1>6, <1>7

(* What an eviction leaves. *)
LEMMA Evicted ==
    ASSUME NEW s \in Seq(Cookie), NEW hosts, NEW now
    PROVE  /\ Evict(s, hosts, now) \in Seq(Cookie)
           /\ Range(Evict(s, hosts, now)) \subseteq Range(s)
           /\ Alone(s) => Alone(Evict(s, hosts, now))
           /\ Within(Evict(s, hosts, now), hosts)
           /\ \A h : /\ Cardinality(HeldBy(Evict(s, hosts, now), h)) \in Nat
                     /\ Cardinality(HeldBy(s, h)) \in Nat
                     /\ Cardinality(HeldBy(Evict(s, hosts, now), h))
                          <= Cardinality(HeldBy(s, h))
<1> DEFINE J == {i \in DOMAIN s : ~Expired(s[i], now)}
           live == At(s, J)
           n == CHOOSE k \in 0..Len(live) :
                  /\ Within(Without(live, k), hosts)
                  /\ k > 0 => ~ Within(Without(live, k - 1), hosts)
           K == {i \in DOMAIN live : Cardinality({j \in DOMAIN live : GoesBefore(live, j, i)}) >= n}
           left == At(live, K)
<1>1. Evict(s, hosts, now) = left
  BY DEF Evict, Without
<1>2. left = Without(live, n)
  BY DEF Without
<1>3. J \in SUBSET DOMAIN s /\ K \in SUBSET DOMAIN live
  OBVIOUS
<1> HIDE DEF J
<1>4. /\ live \in Seq(Cookie) /\ Range(live) \subseteq Range(s)
      /\ Alone(s) => Alone(live)
      /\ \A h : /\ Cardinality(HeldBy(live, h)) \in Nat /\ Cardinality(HeldBy(s, h)) \in Nat
                /\ Cardinality(HeldBy(live, h)) <= Cardinality(HeldBy(s, h))
  BY <1>3, TakenOut
<1> HIDE DEF live, K
<1>5. /\ left \in Seq(Cookie) /\ Range(left) \subseteq Range(live)
      /\ Alone(live) => Alone(left)
      /\ \A h : /\ Cardinality(HeldBy(left, h)) \in Nat /\ Cardinality(HeldBy(live, h)) \in Nat
                /\ Cardinality(HeldBy(left, h)) <= Cardinality(HeldBy(live, h))
  BY <1>3, <1>4, TakenOut
<1>6. Within(left, hosts)
  BY <1>2, <1>4, EvictStops
<1> HIDE DEF left
<1>7. \A h : Cardinality(HeldBy(left, h)) <= Cardinality(HeldBy(s, h))
  <2>1. TAKE h
  <2>2. /\ Cardinality(HeldBy(left, h)) \in Nat /\ Cardinality(HeldBy(live, h)) \in Nat
        /\ Cardinality(HeldBy(s, h)) \in Nat
        /\ Cardinality(HeldBy(left, h)) <= Cardinality(HeldBy(live, h))
        /\ Cardinality(HeldBy(live, h)) <= Cardinality(HeldBy(s, h))
    BY <1>4, <1>5
  <2> QED
    BY <2>2
<1> QED
  BY <1>1, <1>4, <1>5, <1>6, <1>7

(* The last cookie of a jar, if it never expires, is the last to go: every *)
(* other goes before it, so that the one cookie left is this one.          *)
LEMMA LastToGo ==
    ASSUME NEW t \in Seq(Cookie), Len(t) > 0, t[Len(t)].exp = Session
    PROVE  /\ Without(t, Len(t) - 1) = At(t, {Len(t)})
           /\ Cardinality({j \in DOMAIN t : GoesBefore(t, j, Len(t))}) = Len(t) - 1
<1> DEFINE m == Len(t)
           Before(i) == {j \in DOMAIN t : GoesBefore(t, j, i)}
<1>1. m \in Nat /\ m > 0 /\ DOMAIN t = 1..m /\ m \in 1..m /\ t[m].exp = Session
  OBVIOUS
<1> HIDE DEF m
<1>2. \A i \in 1..m : t[i].exp \in Int
  <2>1. TAKE i \in 1..m
  <2>2. t[i] \in Cookie
    BY <1>1
  <2> QED
    BY <2>2, HTTPClientAssumption DEF Cookie, Expiries, Session, Past, Start
<1>3. IsFiniteSet(1..m) /\ Cardinality(1..m) = m
  BY <1>1, SegmentCount
<1>4. Before(m) = 1..(m - 1)
  <2>1. ASSUME NEW j \in 1..m PROVE GoesBefore(t, j, m) <=> j # m
    <3>1. CASE j = m
      BY <1>1, <1>2, <3>1 DEF GoesBefore
    <3>2. CASE j # m
      <4>1. j < m
        BY <1>1, <3>2
      <4> QED
        BY <1>1, <1>2, <3>2, <4>1 DEF GoesBefore
    <3> QED
      BY <3>1, <3>2
  <2>2. \A j \in 1..m : j # m <=> j \in 1..(m - 1)
    BY <1>1
  <2>3. 1..(m - 1) \subseteq 1..m
    BY <1>1
  <2> QED
    BY <1>1, <2>1, <2>2, <2>3
<1>5. Cardinality(Before(m)) = m - 1
  <2>1. m - 1 \in Nat
    BY <1>1
  <2> QED
    BY <1>4, <2>1, SegmentCount
<1>6. ASSUME NEW i \in 1..m, i # m PROVE ~ (Cardinality(Before(i)) >= m - 1)
  <2>1. ~ GoesBefore(t, i, i) /\ ~ GoesBefore(t, m, i)
    <3>1. i < m /\ i \in Nat
      BY <1>1, <1>6
    <3> QED
      BY <1>1, <1>2, <3>1 DEF GoesBefore
  <2>2. Before(i) \subseteq (1..m \ {i}) \ {m}
    BY <1>1, <2>1
  <2>3. /\ IsFiniteSet(1..m \ {i}) /\ Cardinality(1..m \ {i}) = m - 1
    BY <1>3, FS_RemoveElement
  <2>4. m \in 1..m \ {i}
    BY <1>1, <1>6
  <2>5. /\ IsFiniteSet((1..m \ {i}) \ {m})
        /\ Cardinality((1..m \ {i}) \ {m}) = m - 1 - 1
    BY <2>3, <2>4, FS_RemoveElement
  <2> HIDE DEF Before
  <2>6. IsFiniteSet(Before(i)) /\ Cardinality(Before(i)) <= m - 1 - 1
    BY <2>2, <2>5, FS_Subset
  <2>7. Cardinality(Before(i)) \in Nat
    BY <2>6, FS_CardinalityType
  <2> QED
    BY <1>1, <2>6, <2>7
<1>7. {i \in DOMAIN t : Cardinality(Before(i)) >= m - 1} = {m}
  <2> HIDE DEF Before
  <2>0. m - 1 \in Int
    BY <1>1
  <2>1. \A i \in 1..m : Cardinality(Before(i)) >= m - 1 <=> i = m
    BY <1>5, <1>6, <2>0
  <2> QED
    BY <1>1, <2>1
<1> QED
  BY <1>5, <1>7 DEF Without, m

(* So the newest cookie stays, if it outlives the session.                 *)
LEMMA NewestLeft ==
    ASSUME NEW s \in Seq(Cookie), Len(s) > 0, s[Len(s)].exp = Session,
           NEW hosts, NEW now
    PROVE  s[Len(s)] \in Range(Evict(s, hosts, now))
<1> DEFINE J == {i \in DOMAIN s : ~Expired(s[i], now)}
           live == At(s, J)
           n == CHOOSE k \in 0..Len(live) :
                  /\ Within(Without(live, k), hosts)
                  /\ k > 0 => ~ Within(Without(live, k - 1), hosts)
           K == {i \in DOMAIN live : Cardinality({j \in DOMAIN live : GoesBefore(live, j, i)}) >= n}
           m == Cardinality(J)
<1>1. Evict(s, hosts, now) = At(live, K)
  BY DEF Evict, Without
<1>2. K \in SUBSET DOMAIN live
  OBVIOUS
<1>3. /\ Len(s) \in Nat /\ DOMAIN s = 1..Len(s) /\ J \in SUBSET DOMAIN s /\ Len(s) \in J
  <2>1. Len(s) \in Nat /\ DOMAIN s = 1..Len(s) /\ Len(s) \in DOMAIN s
    OBVIOUS
  <2>2. ~Expired(s[Len(s)], now)
    BY DEF Expired
  <2> QED
    BY <2>1, <2>2
<1> HIDE DEF J
<1>4. /\ m \in Nat /\ live \in Seq(Cookie) /\ Len(live) = m /\ DOMAIN live = 1..m
      /\ Rank(J, Len(s)) \in 1..m /\ live[Rank(J, Len(s))] = s[Len(s)]
  BY <1>3, Kept
<1>5. Rank(J, Len(s)) = m
  <2>1. J \subseteq 1..Len(s)
    BY <1>3
  <2>2. {j \in J : j <= Len(s)} = J
    BY <1>3, <2>1
  <2> QED
    BY <2>2 DEF Rank
<1> HIDE DEF live, m
<1>6. m > 0 /\ live[m] = s[Len(s)] /\ live[m].exp = Session
  BY <1>4, <1>5
<1>7. /\ Without(live, m - 1) = At(live, {m})
      /\ Cardinality({j \in DOMAIN live : GoesBefore(live, j, m)}) = m - 1
  BY <1>4, <1>6, LastToGo
<1>8. Within(At(live, {m}), hosts)
  <2>1. {m} \in SUBSET DOMAIN live
    BY <1>4, <1>6
  <2>2. Cardinality({m}) = 1
    BY FS_Singleton
  <2>3. Len(At(live, {m})) = 1 /\ DOMAIN At(live, {m}) = 1..1
    <3>1. /\ Len(At(live, {m})) = Cardinality({m})
          /\ DOMAIN At(live, {m}) = 1..Cardinality({m})
      BY <1>4, <2>1, Kept
    <3> QED
      BY <2>2, <3>1
  <2>4. ASSUME NEW h PROVE Cardinality(HeldBy(At(live, {m}), h)) \in {0, 1}
    <3>1. HeldBy(At(live, {m}), h) \subseteq {1}
      BY <2>3 DEF HeldBy
    <3>2. HeldBy(At(live, {m}), h) = {} \/ HeldBy(At(live, {m}), h) = {1}
      BY <3>1
    <3>3. Cardinality({}) = 0 /\ Cardinality({1}) = 1
      BY FS_EmptySet, FS_Singleton
    <3> QED
      BY <3>2, <3>3
  <2>5. ASSUME NEW h PROVE Cardinality(HeldBy(At(live, {m}), h)) <= MaxPerHost
    <3>1. Cardinality(HeldBy(At(live, {m}), h)) \in {0, 1}
      BY <2>4
    <3>2. 0 <= MaxPerHost /\ 1 <= MaxPerHost
      BY CookieJarAssumption
    <3> QED
      BY <3>1, <3>2
  <2>6. 1 <= MaxTotal
    BY CookieJarAssumption
  <2> QED
    BY <2>3, <2>5, <2>6 DEF Within
<1>9. n \in 0..m /\ (n > 0 => ~ Within(Without(live, n - 1), hosts))
  <2>1. n \in 0..Len(live) /\ (n > 0 => ~ Within(Without(live, n - 1), hosts))
    BY <1>4, EvictStops
  <2> QED
    BY <1>4, <2>1
<1> HIDE DEF n
<1>10. n <= m - 1
  <2>1. n # m
    BY <1>6, <1>7, <1>8, <1>9
  <2> QED
    BY <1>4, <1>9, <2>1
<1>11. m \in K
  BY <1>4, <1>6, <1>7, <1>9, <1>10
<1> HIDE DEF K
<1>12. At(live, K) \in Seq(Cookie) /\ Range(At(live, K)) = {live[i] : i \in K}
  BY <1>2, <1>4, JarKept
<1> QED
  BY <1>1, <1>6, <1>11, <1>12

(* A call that stores or deletes a cookie keeps the jar good, adds nothing *)
(* but the cookie, and leaves a session cookie in.                         *)
LEMMA PutKeeps ==
    ASSUME NEW s \in Seq(Cookie), NEW c \in Cookie, NEW now, Alone(s), Bounded(s)
    PROVE  /\ Put(s, c, now) \in Seq(Cookie)
           /\ Alone(Put(s, c, now)) /\ Bounded(Put(s, c, now))
           /\ Range(Put(s, c, now)) \subseteq Range(s) \cup {c}
           /\ c.exp = Session => c \in Range(Put(s, c, now))
<1>1. CASE Expired(c, now)
  <2> DEFINE I == {i \in DOMAIN s : ~(Same(c, s[i]) /\ s[i].by = c.by)}
  <2>1. Put(s, c, now) = At(s, I) /\ I \in SUBSET DOMAIN s
    BY <1>1 DEF Put
  <2>2. c.exp # Session
    BY <1>1 DEF Expired
  <2> HIDE DEF I
  <2> QED
    BY <2>1, <2>2, TakenOut
<1>2. CASE ~Expired(c, now)
  <2> DEFINE I == {i \in DOMAIN s : ~Same(c, s[i])}
             q == At(s, I)
             a == Append(q, c)
             e == Evict(a, {c.by}, now)
  <2>1. Put(s, c, now) = e
    BY <1>2 DEF Put, Replace
  <2>2. I \in SUBSET DOMAIN s /\ \A i \in I : ~Same(c, s[i])
    OBVIOUS
  <2> HIDE DEF I
  <2>3. q \in Seq(Cookie) /\ Alone(q) /\ Bounded(q) /\ Range(q) \subseteq Range(s)
    BY <2>2, TakenOut
  <2>4. Range(q) = {s[i] : i \in I}
    BY <2>2, JarKept
  <2> HIDE DEF q
  <2>5. \A k \in DOMAIN q : ~Same(c, q[k])
    <3>1. TAKE k \in DOMAIN q
    <3>2. q[k] \in Range(q)
      BY DEF Range
    <3> QED
      BY <2>2, <2>4, <3>2
  <2>6. /\ a \in Seq(Cookie) /\ Len(q) \in Nat /\ Len(a) = Len(q) + 1
        /\ DOMAIN q = 1..Len(q) /\ DOMAIN a = 1..(Len(q) + 1)
        /\ a[Len(a)] = c /\ \A k \in DOMAIN q : a[k] = q[k]
    BY <2>3
  <2> HIDE DEF a
  <2>7. Alone(a)
    <3> SUFFICES ASSUME NEW k \in DOMAIN a, NEW l \in DOMAIN a, Same(a[k], a[l]) PROVE k = l
      BY DEF Alone
    <3>1. \A i \in DOMAIN a : i = Len(a) \/ i \in DOMAIN q
      BY <2>6
    <3>2. CASE k \in DOMAIN q /\ l \in DOMAIN q
      BY <2>3, <2>6, <3>2 DEF Alone
    <3>3. CASE k = Len(a) /\ l \in DOMAIN q
      <4>1. Same(c, q[l])
        BY <2>6, <3>3
      <4> QED
        BY <2>5, <3>3, <4>1
    <3>4. CASE l = Len(a) /\ k \in DOMAIN q
      <4>1. Same(c, q[k])
        BY <2>6, <3>4 DEF Same
      <4> QED
        BY <2>5, <3>4, <4>1
    <3> QED
      BY <3>1, <3>2, <3>3, <3>4
  <2>8. Range(a) \subseteq Range(s) \cup {c}
    <3>1. \A i \in DOMAIN a : a[i] = c \/ a[i] \in Range(q)
      <4>1. \A i \in DOMAIN a : i = Len(a) \/ i \in DOMAIN q
        BY <2>6
      <4> QED
        BY <2>6, <4>1 DEF Range
    <3> QED
      BY <2>3, <3>1 DEF Range
  <2>9. /\ e \in Seq(Cookie) /\ Range(e) \subseteq Range(a) /\ (Alone(a) => Alone(e))
        /\ Within(e, {c.by})
        /\ \A h : /\ Cardinality(HeldBy(e, h)) \in Nat /\ Cardinality(HeldBy(a, h)) \in Nat
                  /\ Cardinality(HeldBy(e, h)) <= Cardinality(HeldBy(a, h))
    BY <2>6, Evicted
  <2>10. c.exp = Session => c \in Range(e)
    <3>1. Len(a) > 0
      BY <2>6
    <3> QED
      BY <2>6, <3>1, NewestLeft
  <2> HIDE DEF e
  <2>11. Bounded(e)
    <3>1. Len(e) <= MaxTotal /\ Cardinality(HeldBy(e, c.by)) <= MaxPerHost
      BY <2>9 DEF Within
    <3>2. ASSUME NEW h \in Domain, h # c.by PROVE Cardinality(HeldBy(e, h)) <= MaxPerHost
      <4>1. HeldBy(a, h) = HeldBy(q, h)
        <5>1. \A i \in DOMAIN a : i = Len(a) \/ i \in DOMAIN q
          BY <2>6
        <5>2. \A i \in DOMAIN a : a[i].by = h => i \in DOMAIN q /\ q[i].by = h
          BY <2>6, <3>2, <5>1
        <5>3. \A i \in DOMAIN q : i \in DOMAIN a /\ a[i] = q[i]
          BY <2>6
        <5> QED
          BY <5>2, <5>3 DEF HeldBy
      <4>2. Cardinality(HeldBy(q, h)) <= MaxPerHost
        BY <2>3 DEF Bounded, Within
      <4>3. /\ Cardinality(HeldBy(e, h)) \in Nat /\ Cardinality(HeldBy(q, h)) \in Nat
            /\ Cardinality(HeldBy(e, h)) <= Cardinality(HeldBy(q, h))
        BY <2>9, <4>1
      <4>4. MaxPerHost \in Nat
        BY CookieJarAssumption
      <4> QED
        BY <4>2, <4>3, <4>4
    <3> QED
      BY <3>1, <3>2 DEF Bounded, Within
  <2> QED
    BY <2>1, <2>7, <2>8, <2>9, <2>10, <2>11
<1> QED
  BY <1>1, <1>2

(* What a script may do: nothing, or a call that stores a cookie it can    *)
(* read, under an identity no cookie it cannot read has.                   *)
LEMMA ScriptedKeeps ==
    ASSUME NEW s \in Seq(Cookie), NEW c \in Cookie, NEW now, Alone(s), Bounded(s)
    PROVE  /\ Scripted(s, c, now) \in Seq(Cookie)
           /\ Alone(Scripted(s, c, now)) /\ Bounded(Scripted(s, c, now))
           /\ Range(Scripted(s, c, now)) \subseteq Range(s) \cup {[c EXCEPT !.httpOnly = FALSE]}
           /\ \A d \in Range(s), e \in Range(Scripted(s, c, now)) :
                 Same(d, e) /\ d.httpOnly => e.httpOnly
<1>1. \A d, e \in Range(s) : Same(d, e) => d = e
  BY DEF Alone, Range
<1>2. CASE Shielded(s, c)
  BY <1>1, <1>2 DEF Scripted
<1>3. CASE ~Shielded(s, c)
  <2> DEFINE b == [c EXCEPT !.httpOnly = FALSE]
  <2>1. /\ b \in Cookie /\ b.name = c.name /\ b.domain = c.domain
    BY DEF Cookie
  <2>2. Scripted(s, c, now) = Put(s, b, now)
    BY <1>3 DEF Scripted
  <2> HIDE DEF b
  <2>3. /\ Put(s, b, now) \in Seq(Cookie) /\ Alone(Put(s, b, now)) /\ Bounded(Put(s, b, now))
        /\ Range(Put(s, b, now)) \subseteq Range(s) \cup {b}
    BY <2>1, PutKeeps
  <2>4. ASSUME NEW d \in Range(s), NEW e \in Range(Put(s, b, now)), Same(d, e), d.httpOnly
        PROVE  e.httpOnly
    <3>1. CASE e \in Range(s)
      BY <1>1, <2>4, <3>1
    <3>2. CASE e = b
      <4>1. Same(c, d)
        BY <2>1, <2>4, <3>2 DEF Same
      <4>2. \E i \in DOMAIN s : d = s[i]
        BY DEF Range
      <4> QED
        BY <1>3, <2>4, <4>1, <4>2 DEF Shielded
    <3> QED
      BY <2>3, <3>1, <3>2
  <2>5. Range(Put(s, b, now)) \subseteq Range(s) \cup {[c EXCEPT !.httpOnly = FALSE]}
    BY <2>3 DEF b
  <2> QED
    BY <2>2, <2>3, <2>4, <2>5
<1> QED
  BY <1>2, <1>3

(* A file read back in any order makes a good jar: no two of its entries   *)
(* are of one cookie, every host it names is evicted for, and each entry   *)
(* is stored under its own domain.                                         *)
LEMMA LoadedKeeps ==
    ASSUME NEW s \in Seq(Cookie), Alone(s), NEW now,
           NEW cookies \in SUBSET Range(s), NEW t \in Loaded(cookies, now)
    PROVE  /\ t \in Seq(Cookie) /\ Alone(t) /\ Bounded(t)
           /\ \A d \in Range(t) : d.by = d.domain
<1> DEFINE Moved(c) == [c EXCEPT !.by = c.domain]
           live == {Moved(c) : c \in cookies}
           hosts == {c.domain : c \in live}
<1>1. PICK f \in SetToSeqs(live) : t = Evict(f, hosts, now)
  BY DEF Loaded
<1>2. \A d \in cookies : /\ d \in Cookie /\ Moved(d) \in Cookie
                         /\ Moved(d).name = d.name /\ Moved(d).domain = d.domain
                         /\ Moved(d).by = d.domain
  <2>1. TAKE d \in cookies
  <2>2. PICK i \in DOMAIN s : d = s[i]
    BY DEF Range
  <2>3. d \in Cookie
    BY <2>2
  <2> QED
    BY <2>3 DEF Cookie
<1>3. \A d, e \in cookies : Same(d, e) => d = e
  BY DEF Alone, Range
<1> HIDE DEF Moved
<1>4. /\ live \subseteq Cookie
      /\ \A d \in live : d.by \in hosts /\ d.by = d.domain
  <2>1. \A d \in live : d.by = d.domain
    BY <1>2
  <2> QED
    BY <1>2, <2>1
<1>5. \A d, e \in live : Same(d, e) => d = e
  <2> SUFFICES ASSUME NEW d \in cookies, NEW e \in cookies, Same(Moved(d), Moved(e))
               PROVE  Moved(d) = Moved(e)
    OBVIOUS
  <2>1. Same(d, e)
    BY <1>2 DEF Same
  <2> QED
    BY <1>3, <2>1
<1>6. IsFiniteSet(live)
  <2>1. IsFiniteSet(DOMAIN s)
    <3>1. Len(s) \in Nat /\ DOMAIN s = 1..Len(s)
      OBVIOUS
    <3> QED
      BY <3>1, SegmentCount
  <2>2. [i \in DOMAIN s |-> s[i]] \in Surjection(DOMAIN s, Range(s))
    BY DEF Surjection, Range
  <2>3. IsFiniteSet(Range(s))
    BY <2>1, <2>2, FS_Surjection
  <2>4. IsFiniteSet(cookies)
    BY <2>3, FS_Subset
  <2>5. [d \in cookies |-> Moved(d)] \in Surjection(cookies, live)
    BY DEF Surjection
  <2> QED
    BY <2>4, <2>5, FS_Surjection
<1> HIDE DEF live, hosts
<1>7. Cardinality(live) \in Nat
  BY <1>6, FS_CardinalityType
<1>8. /\ f \in [1..Cardinality(live) -> live]
      /\ \A i, j \in 1..Cardinality(live) : i # j => f[i] # f[j]
  BY DEF SetToSeqs
<1>9. f \in Seq(Cookie) /\ DOMAIN f = 1..Cardinality(live) /\ \A i \in DOMAIN f : f[i] \in live
  BY <1>4, <1>7, <1>8
<1>10. Alone(f)
  BY <1>5, <1>8, <1>9 DEF Alone
<1>11. /\ t \in Seq(Cookie) /\ (Alone(f) => Alone(t)) /\ Within(t, hosts)
       /\ Range(t) \subseteq Range(f)
       /\ \A h : /\ Cardinality(HeldBy(t, h)) \in Nat /\ Cardinality(HeldBy(f, h)) \in Nat
                 /\ Cardinality(HeldBy(t, h)) <= Cardinality(HeldBy(f, h))
  BY <1>1, <1>9, Evicted
<1>12. Bounded(t)
  <2>1. Len(t) <= MaxTotal /\ \A h \in hosts : Cardinality(HeldBy(t, h)) <= MaxPerHost
    BY <1>11 DEF Within
  <2>2. ASSUME NEW h \in Domain, h \notin hosts PROVE Cardinality(HeldBy(t, h)) <= MaxPerHost
    <3>1. HeldBy(f, h) = {}
      BY <1>4, <1>9, <2>2 DEF HeldBy
    <3>2. Cardinality(HeldBy(f, h)) = 0
      BY <3>1, FS_EmptySet
    <3>3. MaxPerHost \in Nat
      BY CookieJarAssumption
    <3> QED
      BY <1>11, <3>2, <3>3
  <2> QED
    BY <2>1, <2>2 DEF Bounded, Within
<1>13. \A d \in Range(t) : d.by = d.domain
  BY <1>4, <1>9, <1>11 DEF Range
<1> QED
  BY <1>10, <1>11, <1>12, <1>13
-----------------------------------------------------------------------------
(* The cache. *)

(* The weight of finitely many entries is a number; one entry weighs its   *)
(* size, and entries of two disjoint sets weigh together what they weigh   *)
(* apart.                                                                  *)
LEMMA WeightFinite ==
    ASSUME NEW held, NEW T, IsFiniteSet(T), \A u \in T : held[u].size \in Nat
    PROVE  IsFiniteSet(BytesOf(held, T)) /\ Weight(held, T) \in Nat
<1> DEFINE Of(u) == {u} \X (1..held[u].size)
           parts == {Of(u) : u \in T}
<1>1. [u \in T |-> Of(u)] \in Surjection(T, parts)
  BY DEF Surjection
<1>2. IsFiniteSet(parts)
  BY <1>1, FS_Surjection
<1>3. \A u \in T : IsFiniteSet(Of(u))
  <2>1. TAKE u \in T
  <2>2. IsFiniteSet({u}) /\ IsFiniteSet(1..held[u].size)
    BY FS_Singleton, SegmentCount
  <2> QED
    BY <2>2, FS_Product
<1>4. IsFiniteSet(UNION parts)
  <2> HIDE DEF Of
  <2>1. \A X \in parts : IsFiniteSet(X)
    BY <1>3
  <2> HIDE DEF parts
  <2> QED
    BY <1>2, <2>1, FS_UNION
<1>5. BytesOf(held, T) = UNION parts
  BY DEF BytesOf
<1> QED
  BY <1>4, <1>5, FS_CardinalityType DEF Weight

LEMMA WeightOne ==
    ASSUME NEW held, NEW u, held[u].size \in Nat
    PROVE  Weight(held, {u}) = held[u].size
<1>1. BytesOf(held, {u}) = {u} \X (1..held[u].size)
  BY DEF BytesOf
<1>2. /\ IsFiniteSet({u}) /\ Cardinality({u}) = 1
      /\ IsFiniteSet(1..held[u].size) /\ Cardinality(1..held[u].size) = held[u].size
  BY FS_Singleton, SegmentCount
<1>3. Cardinality({u} \X (1..held[u].size)) = 1 * held[u].size
  <2>1. Cardinality({u} \X (1..held[u].size)) = Cardinality({u}) * Cardinality(1..held[u].size)
    BY <1>2, FS_Product
  <2> QED
    BY <1>2, <2>1
<1>4. 1 * held[u].size = held[u].size
  OBVIOUS
<1>5. Weight(held, {u}) = Cardinality({u} \X (1..held[u].size))
  BY <1>1 DEF Weight
<1> QED
  BY <1>3, <1>4, <1>5

LEMMA WeightSum ==
    ASSUME NEW held, NEW T, NEW U, IsFiniteSet(T), IsFiniteSet(U), T \cap U = {},
           \A u \in T \cup U : held[u].size \in Nat
    PROVE  /\ Weight(held, T) \in Nat /\ Weight(held, U) \in Nat
           /\ Weight(held, T \cup U) = Weight(held, T) + Weight(held, U)
<1>1. /\ IsFiniteSet(BytesOf(held, T)) /\ IsFiniteSet(BytesOf(held, U))
      /\ Weight(held, T) \in Nat /\ Weight(held, U) \in Nat
  BY WeightFinite
<1>2. BytesOf(held, T \cup U) = BytesOf(held, T) \cup BytesOf(held, U)
  BY DEF BytesOf
<1>3. BytesOf(held, T) \cap BytesOf(held, U) = {}
  BY DEF BytesOf
<1>4. Cardinality({}) = 0
  BY FS_EmptySet
<1>5. Cardinality(BytesOf(held, T) \cup BytesOf(held, U))
        = Cardinality(BytesOf(held, T)) + Cardinality(BytesOf(held, U)) - 0
  BY <1>1, <1>3, <1>4, FS_Union
<1>6. Weight(held, T \cup U) = Cardinality(BytesOf(held, T) \cup BytesOf(held, U))
  BY <1>2 DEF Weight
<1>7. /\ Weight(held, T) = Cardinality(BytesOf(held, T))
      /\ Weight(held, U) = Cardinality(BytesOf(held, U))
  BY DEF Weight
<1> QED
  BY <1>1, <1>5, <1>6, <1>7

(* Only the sizes weigh.                                                   *)
LEMMA WeightSame ==
    ASSUME NEW held, NEW kept, NEW T, \A u \in T : held[u].size = kept[u].size
    PROVE  Weight(held, T) = Weight(kept, T)
<1>1. BytesOf(held, T) = BytesOf(kept, T)
  BY DEF BytesOf
<1> QED
  BY <1>1 DEF Weight

(* An order of the URLs held, each once, makes them finitely many; and the *)
(* order without one URL is an order of the others.                        *)
LEMMA OrderWithout ==
    ASSUME order \in Seq(Url), IsInjective(order), NEW u
    PROVE  /\ IsFiniteSet(Range(order))
           /\ Dequeued(u) \in Seq(Url) /\ IsInjective(Dequeued(u))
           /\ Range(Dequeued(u)) = Range(order) \ {u}
<1> DEFINE I == {i \in DOMAIN order : order[i] # u}
           d == At(order, I)
<1>1. Dequeued(u) = d /\ I \in SUBSET DOMAIN order
  BY DEF Dequeued
<1>2. \A i, j \in DOMAIN order : order[i] = order[j] => i = j
  BY DEF IsInjective
<1>3. d \in Seq(Url)
  BY <1>1, Kept
<1>4. \A k, l \in DOMAIN d : d[k] = d[l] => k = l
  BY <1>1, <1>2, KeptDistinct
<1>5. Members(d) = {order[i] : i \in I}
  BY <1>1, KeptMembers
<1>6. {order[i] : i \in I} = Range(order) \ {u}
  BY DEF Range
<1>7. Members(d) = Range(d) /\ Members(order) = Range(order)
  BY DEF Members, Range
<1>8. IsFiniteSet(Members(order))
  BY <1>2, MembersCount
<1> HIDE DEF I, d
<1> QED
  BY <1>1, <1>3, <1>4, <1>5, <1>6, <1>7, <1>8 DEF IsInjective

LEMMA GetKeeps ==
    ASSUME NEW sizes \in SUBSET Nat, NEW ends, NEW u, NEW now,
           CacheTypeOK(sizes, ends), CacheAccounted, Get(u, now)
    PROVE  CacheTypeOK(sizes, ends)' /\ CacheAccounted'
<1> DEFINE D == DOMAIN entries
           rest == D \ {u}
           kept == Restrict(entries, rest)
<1>1. CASE ~(Held(u) /\ ~Fresh(u, now))
  <2>1. entries' = entries /\ order' = order /\ bytes' = bytes
    BY <1>1 DEF Get, cacheVars
  <2> QED
    BY <2>1 DEF CacheTypeOK, CacheAccounted, Weight, BytesOf
<1>2. CASE Held(u) /\ ~Fresh(u, now)
  <2>1. /\ entries' = kept /\ order' = Dequeued(u) /\ bytes' = bytes - entries[u].size
        /\ u \in D
    BY <1>2 DEF Get, Held
  <2>2. /\ D \subseteq Url /\ \A v \in D : entries[v] \in [size : sizes, expiresAt : ends]
        /\ order \in Seq(Url) /\ IsInjective(order) /\ Range(order) = D
        /\ bytes = Weight(entries, D) /\ bytes <= MaxBytes
    BY DEF CacheTypeOK, CacheAccounted
  <2>3. \A v \in D : entries[v].size \in Nat
    BY <2>2
  <2>4. /\ IsFiniteSet(D) /\ Dequeued(u) \in Seq(Url) /\ IsInjective(Dequeued(u))
        /\ Range(Dequeued(u)) = rest
    BY <2>2, OrderWithout
  <2>5. IsFiniteSet(rest) /\ IsFiniteSet({u}) /\ rest \cap {u} = {} /\ rest \cup {u} = D
    BY ZenonT(60), <2>1, <2>4, FS_Subset, FS_Singleton
  <2>6. /\ Weight(entries, rest) \in Nat /\ Weight(entries, {u}) \in Nat
        /\ Weight(entries, rest \cup {u}) = Weight(entries, rest) + Weight(entries, {u})
    BY <2>3, <2>5, WeightSum
  <2>7. Weight(entries, {u}) = entries[u].size
    BY <2>1, <2>3, WeightOne
  <2>8. DOMAIN kept = rest /\ \A v \in rest : kept[v] = entries[v]
    BY DEF Restrict
  <2>9. Weight(kept, rest) = Weight(entries, rest)
    <3>1. \A v \in rest : kept[v].size = entries[v].size
      BY <2>8
    <3> HIDE DEF kept, rest
    <3> QED
      BY <3>1, WeightSame
  <2> HIDE DEF kept
  <2>10. bytes' = Weight(entries', DOMAIN entries') /\ bytes' \in Nat /\ bytes' <= MaxBytes
    <3>1. bytes' = Weight(entries, rest)
      BY <2>1, <2>2, <2>5, <2>6, <2>7
    <3>2. MaxBytes \in Nat /\ Weight(entries, rest) <= Weight(entries, D)
      BY <2>5, <2>6, ResponseCacheAssumption
    <3>3. Weight(entries, D) \in Nat
      BY <2>5, <2>6
    <3> QED
      BY <2>1, <2>2, <2>6, <2>8, <2>9, <3>1, <3>2, <3>3
  <2>11. CacheTypeOK(sizes, ends)'
    BY <2>1, <2>2, <2>4, <2>8, <2>10 DEF CacheTypeOK
  <2>12. CacheAccounted'
    BY <2>1, <2>4, <2>8, <2>10 DEF CacheAccounted
  <2> QED
    BY <2>11, <2>12
<1> QED
  BY <1>1, <1>2

(* The queue of a store names every entry once, the new one last; what the *)
(* loop leaves of it names the entries it leaves.                          *)
LEMMA QueueLeft ==
    ASSUME NEW q \in Seq(Url), IsInjective(q), NEW n \in 0..Len(q)
    PROVE  /\ SubSeq(q, n + 1, Len(q)) \in Seq(Url)
           /\ IsInjective(SubSeq(q, n + 1, Len(q)))
           /\ Range(SubSeq(q, n + 1, Len(q))) = Range(q) \ {q[i] : i \in 1..n}
           /\ n = Len(q) => {q[i] : i \in 1..n} = Range(q)
           /\ {q[i] : i \in 1..n} \subseteq Range(q)
<1> DEFINE s == SubSeq(q, n + 1, Len(q))
           l == Len(q)
<1>1. /\ l \in Nat /\ DOMAIN q = 1..l /\ n \in Nat /\ n <= l
  OBVIOUS
<1>2. s \in Seq(Url) /\ Len(s) = l - n /\ \A i \in 1..(l - n) : s[i] = q[n + i]
  <2>1. s = [i \in 1..(l - n) |-> q[n + i]]
    <3>1. s = [i \in 1..(l - (n + 1) + 1) |-> q[i + (n + 1) - 1]]
      BY <1>1
    <3>2. l - (n + 1) + 1 = l - n /\ \A i \in 1..(l - n) : i + (n + 1) - 1 = n + i
      BY <1>1
    <3> QED
      BY <3>1, <3>2
  <2>2. l - n \in Nat /\ \A i \in 1..(l - n) : q[n + i] \in Url
    BY <1>1
  <2> HIDE DEF s
  <2> QED
    BY <2>1, <2>2
<1>3. DOMAIN s = 1..(l - n)
  BY <1>2
<1> HIDE DEF s, l
<1>4. \A i \in 1..(l - n) : n + i \in 1..l /\ n + i \notin 1..n
  BY <1>1
<1>5. \A j \in 1..l : j \notin 1..n => j - n \in 1..(l - n) /\ n + (j - n) = j
  BY <1>1
<1>6. IsInjective(s)
  <2> SUFFICES ASSUME NEW i \in 1..(l - n), NEW j \in 1..(l - n), s[i] = s[j] PROVE i = j
    BY <1>3 DEF IsInjective
  <2>1. n + i = n + j
    BY <1>1, <1>2, <1>4 DEF IsInjective
  <2> QED
    BY <1>1, <2>1
<1>7. Range(s) = Range(q) \ {q[i] : i \in 1..n}
  <2>1. \A i \in 1..(l - n) : s[i] \in Range(q) \ {q[k] : k \in 1..n}
    <3>1. TAKE i \in 1..(l - n)
    <3>2. s[i] = q[n + i] /\ n + i \in 1..l /\ n + i \notin 1..n
      BY <1>2, <1>4
    <3>3. \A k \in 1..n : k \in 1..l
      BY <1>1
    <3> QED
      BY <1>1, <3>2, <3>3 DEF Range, IsInjective
  <2>2. \A j \in 1..l : j \notin 1..n => q[j] \in Range(s)
    BY ZenonT(60), <1>2, <1>3, <1>5 DEF Range
  <2> QED
    BY <1>1, <1>3, <2>1, <2>2 DEF Range
<1>8. /\ {q[i] : i \in 1..n} \subseteq Range(q)
      /\ n = l => {q[i] : i \in 1..n} = Range(q)
  <2>1. \A k \in 1..n : k \in 1..l
    BY <1>1
  <2> QED
    BY <1>1, <2>1 DEF Range
<1> QED
  BY <1>2, <1>6, <1>7, <1>8 DEF s, l

(* The queue of a store names each entry it holds once, the new one last.   *)
LEMMA QueueNames ==
    ASSUME NEW u \in Url, order \in Seq(Url), IsInjective(order), Range(order) = DOMAIN entries
    PROVE  LET queue == Append(Dequeued(u), u)
           IN  queue \in Seq(Url) /\ IsInjective(queue) /\ Range(queue) = DOMAIN entries \cup {u}
<1> DEFINE d == Dequeued(u)
           queue == Append(d, u)
<1>1. /\ d \in Seq(Url) /\ IsInjective(d) /\ Range(d) = DOMAIN entries \ {u}
  BY OrderWithout
<1> HIDE DEF d
<1>2. /\ queue \in Seq(Url) /\ Len(d) \in Nat /\ DOMAIN d = 1..Len(d)
      /\ DOMAIN queue = 1..(Len(d) + 1) /\ queue[Len(d) + 1] = u
      /\ \A i \in DOMAIN d : queue[i] = d[i]
  BY <1>1
<1> HIDE DEF queue
<1>3. \A i \in DOMAIN queue : i = Len(d) + 1 \/ i \in DOMAIN d
  BY <1>2
<1>4. Len(d) + 1 \in DOMAIN queue /\ \A i \in DOMAIN d : i \in DOMAIN queue
  BY <1>2
<1>5. \A i \in DOMAIN d : d[i] # u
  BY <1>1 DEF Range
<1>6. IsInjective(queue)
  BY <1>1, <1>2, <1>3, <1>5 DEF IsInjective
<1>7. Range(queue) = (DOMAIN entries \ {u}) \cup {u}
  BY <1>1, <1>2, <1>3, <1>4 DEF Range
<1> QED
  BY <1>2, <1>6, <1>7 DEF queue, d

LEMMA InsertKeeps ==
    ASSUME NEW sizes \in SUBSET Nat, NEW ends, NEW u \in Url, NEW size \in sizes,
           NEW lifetime, NEW now, now + lifetime \in ends,
           CacheTypeOK(sizes, ends), CacheAccounted, Insert(u, size, lifetime, now)
    PROVE  CacheTypeOK(sizes, ends)' /\ CacheAccounted'
<1> DEFINE D == DOMAIN entries
           rest == D \ {u}
           stored == [v \in D \cup {u} |->
                        IF v = u THEN [size |-> size, expiresAt |-> now + lifetime]
                        ELSE entries[v]]
           queue == Append(Dequeued(u), u)
           Victims(n) == {queue[i] : i \in 1..n}
           Size(n) == Weight(stored, Victims(n))
           enough == {n \in 0..Len(queue) :
                        n = Len(queue) \/ Counted(u, size) - Size(n) <= MaxBytes}
           drop == CHOOSE n \in enough : \A m \in enough : n <= m
           left == (D \cup {u}) \ Victims(drop)
<1>1. /\ entries' = Restrict(stored, DOMAIN stored \ Victims(drop))
      /\ order' = SubSeq(queue, drop + 1, Len(queue))
      /\ bytes' = Counted(u, size) - Size(drop)
  BY DEF Insert
<1>2. /\ D \subseteq Url /\ \A v \in D : entries[v] \in [size : sizes, expiresAt : ends]
      /\ order \in Seq(Url) /\ IsInjective(order) /\ Range(order) = D
      /\ bytes = Weight(entries, D) /\ bytes <= MaxBytes
  BY DEF CacheTypeOK, CacheAccounted
<1>3. /\ IsFiniteSet(D) /\ Dequeued(u) \in Seq(Url) /\ IsInjective(Dequeued(u))
      /\ Range(Dequeued(u)) = rest
  BY <1>2, OrderWithout
(* What is stored: the new entry and the others as they were. *)
<1>4. /\ DOMAIN stored = D \cup {u} /\ stored[u] = [size |-> size, expiresAt |-> now + lifetime]
      /\ \A v \in rest : stored[v] = entries[v]
  OBVIOUS
<1>5. \A v \in D \cup {u} : stored[v] \in [size : sizes, expiresAt : ends]
  BY <1>2
<1> HIDE DEF stored
<1>6. \A v \in D \cup {u} : stored[v].size \in Nat
  BY <1>5
<1>7. \A v \in D : entries[v].size \in Nat
  BY <1>2
(* The count with the new entry in is what it and the others weigh. *)
<1>8. IsFiniteSet(rest) /\ IsFiniteSet({u}) /\ rest \cap {u} = {} /\ rest \cup {u} = D \cup {u}
  BY <1>3, FS_Subset, FS_Singleton
<1>9. Weight(stored, rest) = Weight(entries, rest) /\ Weight(stored, rest) \in Nat
  <2>1. \A v \in rest : stored[v].size = entries[v].size /\ stored[v].size \in Nat
    BY <1>4, <1>6
  <2>2. IsFiniteSet(rest)
    BY <1>8
  <2> HIDE DEF rest
  <2> QED
    BY <2>1, <2>2, WeightSame, WeightFinite
<1>10. Counted(u, size) = Weight(stored, D \cup {u})
  <2>1. Weight(stored, rest \cup {u}) = Weight(stored, rest) + Weight(stored, {u})
    BY <1>6, <1>8, WeightSum
  <2>2. Weight(stored, {u}) = size
    <3>1. stored[u].size = size /\ size \in Nat
      BY <1>4
    <3> QED
      BY <3>1, WeightOne
  <2>3. Weight(stored, D \cup {u}) = Weight(stored, rest) + size
    BY <1>8, <2>1, <2>2
  <2>4. CASE Held(u)
    <3>1. u \in D /\ rest \cup {u} = D
      BY <2>4 DEF Held
    <3>2. Weight(entries, rest \cup {u}) = Weight(entries, rest) + Weight(entries, {u})
      BY <1>7, <1>8, <3>1, WeightSum
    <3>3. Weight(entries, {u}) = entries[u].size /\ entries[u].size \in Nat
      BY <1>7, <3>1, WeightOne
    <3>4. bytes = Weight(stored, rest) + entries[u].size
      BY <1>2, <1>9, <3>1, <3>2, <3>3
    <3>5. Counted(u, size) = bytes - entries[u].size + size
      BY <2>4 DEF Counted
    <3>6. size \in Nat
      OBVIOUS
    <3> QED
      BY <1>9, <2>3, <3>3, <3>4, <3>5, <3>6
  <2>5. CASE ~Held(u)
    <3>1. rest = D
      BY <2>5 DEF Held
    <3>2. Counted(u, size) = bytes - 0 + size
      BY <2>5 DEF Counted
    <3>3. size \in Nat /\ bytes = Weight(stored, rest)
      BY <1>2, <1>9, <3>1
    <3> QED
      BY <1>9, <2>3, <3>2, <3>3
  <2> QED
    BY <2>4, <2>5
(* The queue names what is stored, the new entry last. *)
<1>11. queue \in Seq(Url) /\ IsInjective(queue) /\ Range(queue) = D \cup {u}
  BY <1>2, QueueNames
<1> HIDE DEF queue
(* The loop stops: with nothing left the count is 0. *)
<1>12. drop \in enough
  <2>1. Len(queue) \in Nat
    BY <1>11
  <2>2. enough \in SUBSET Nat /\ Len(queue) \in enough
    BY <2>1
  <2> HIDE DEF enough
  <2>3. \E n \in enough : \A m \in enough : n <= m
    BY <2>2, LeastNumber
  <2> QED
    BY <2>3
<1>13. /\ drop \in 0..Len(queue)
       /\ drop = Len(queue) \/ Counted(u, size) - Size(drop) <= MaxBytes
  BY <1>12
<1> HIDE DEF drop
<1>14. /\ order' \in Seq(Url) /\ IsInjective(order') /\ Range(order') = left
       /\ drop = Len(queue) => Victims(drop) = D \cup {u}
       /\ Victims(drop) \subseteq D \cup {u}
  <2>1. /\ SubSeq(queue, drop + 1, Len(queue)) \in Seq(Url)
        /\ IsInjective(SubSeq(queue, drop + 1, Len(queue)))
        /\ Range(SubSeq(queue, drop + 1, Len(queue))) = Range(queue) \ Victims(drop)
        /\ drop = Len(queue) => Victims(drop) = Range(queue)
        /\ Victims(drop) \subseteq Range(queue)
    BY <1>11, <1>13, QueueLeft
  <2> HIDE DEF Victims
  <2> QED
    BY <1>1, <1>11, <2>1
<1> HIDE DEF Victims
<1>15. /\ DOMAIN entries' = left /\ \A v \in left : entries'[v] = stored[v]
  BY <1>1, <1>4 DEF Restrict
(* What stays weighs the count less what was dropped. *)
<1>16. /\ Weight(stored, left) \in Nat /\ Weight(stored, Victims(drop)) \in Nat
       /\ Weight(stored, D \cup {u}) = Weight(stored, left) + Weight(stored, Victims(drop))
       /\ drop = Len(queue) => Weight(stored, left) = 0
  <2>1. IsFiniteSet(D \cup {u})
    BY <1>3, FS_AddElement
  <2>2. /\ left \cup Victims(drop) = D \cup {u} /\ left \cap Victims(drop) = {}
        /\ left \subseteq D \cup {u}
    BY <1>14
  <2>3. IsFiniteSet(left) /\ IsFiniteSet(Victims(drop))
    BY <1>14, <2>1, <2>2, FS_Subset
  <2>4. drop = Len(queue) => left = {}
    BY <1>14
  <2> HIDE DEF left
  <2>5. \A v \in left \cup Victims(drop) : stored[v].size \in Nat
    BY <1>6, <2>2
  <2>6. /\ Weight(stored, left) \in Nat /\ Weight(stored, Victims(drop)) \in Nat
        /\ Weight(stored, left \cup Victims(drop))
             = Weight(stored, left) + Weight(stored, Victims(drop))
    BY <2>2, <2>3, <2>5, WeightSum
  <2>7. Weight(stored, {}) = 0
    <3>1. BytesOf(stored, {}) = {}
      BY DEF BytesOf
    <3> QED
      BY <3>1, FS_EmptySet DEF Weight
  <2> QED
    BY <2>2, <2>4, <2>6, <2>7
<1> HIDE DEF left
<1>17. bytes' = Weight(stored, left)
  BY <1>1, <1>10, <1>16
<1>18. bytes' <= MaxBytes /\ bytes' \in Nat
  BY <1>1, <1>13, <1>16, <1>17, ResponseCacheAssumption
<1>19. Weight(entries', left) = Weight(stored, left)
  <2>1. \A v \in left : entries'[v].size = stored[v].size
    BY <1>15
  <2> QED
    BY <2>1, WeightSame
<1>20. CacheTypeOK(sizes, ends)'
  <2>1. left \subseteq D \cup {u}
    BY DEF left
  <2> QED
    BY <1>2, <1>5, <1>14, <1>15, <1>18, <2>1 DEF CacheTypeOK
<1>21. CacheAccounted'
  BY <1>14, <1>15, <1>17, <1>18, <1>19 DEF CacheAccounted
<1> QED
  BY <1>20, <1>21
-----------------------------------------------------------------------------
(* The client. *)

Ends == {t + l : t \in Start..MaxClock, l \in Lifetimes \ {0}}

JarGood   == jar \in Seq(Cookie) /\ Alone(jar) /\ Bounded(jar)
CacheGood == CacheTypeOK(Sizes, Ends) /\ CacheAccounted
Flight    == /\ inFlight \in [Req -> Url \cup {Idle, Unkept}]
             /\ clock \in Start..MaxClock /\ restarts \in 0..MaxRestarts

(* The invariant in its three parts. *)
LEMMA ClientParts == ClientInv <=> JarGood /\ CacheGood /\ Flight
<1>1. JarTypeOK(Expiries) <=> jar \in Seq(Cookie)
  BY DEF JarTypeOK, Cookie
<1>2. OneCookieEach <=> Alone(jar)
  BY DEF OneCookieEach, Alone
<1>3. JarWithinLimits <=> Bounded(jar)
  BY DEF JarWithinLimits, Bounded, Within
<1> QED
  BY <1>1, <1>2, <1>3 DEF ClientInv, TypeOK, JarGood, CacheGood, Flight, Ends

LEMMA ClientPartsNext == ClientInv' <=> JarGood' /\ CacheGood' /\ Flight'
BY ClientParts, PTL

(* What a host may set is a cookie. *)
LEMMA CookiesTyped == Cookies \subseteq Cookie
BY DEF Cookies, Settable, Cookie, Domain

LEMMA NoCacheChange ==
    CacheGood /\ entries' = entries /\ order' = order /\ bytes' = bytes => CacheGood'
BY DEF CacheGood, CacheTypeOK, CacheAccounted, Weight, BytesOf

LEMMA NoJarChange == JarGood /\ jar' = jar => JarGood'
BY DEF JarGood

LEMMA GetGood ==
    ASSUME CacheGood, NEW u, Get(u, clock)
    PROVE  CacheGood'
<1>1. CacheTypeOK(Sizes, Ends) /\ CacheAccounted /\ Sizes \in SUBSET Nat
  BY HTTPClientAssumption DEF CacheGood
<1>2. CacheTypeOK(Sizes, Ends)' /\ CacheAccounted'
  BY <1>1, GetKeeps
<1> QED
  BY <1>2 DEF CacheGood

LEMMA KeepGood ==
    ASSUME CacheGood, clock \in Start..MaxClock, NEW u \in Url, NEW size \in Sizes,
           NEW lifetime \in Lifetimes, Keep(u, size, lifetime, clock)
    PROVE  CacheGood'
<1>1. CASE lifetime = 0
  BY <1>1, NoCacheChange DEF Keep, cacheVars
<1>2. CASE lifetime # 0
  <2>1. Insert(u, size, lifetime, clock)
    BY <1>2 DEF Keep
  <2>2. clock + lifetime \in Ends
    BY <1>2 DEF Ends
  <2>3. CacheTypeOK(Sizes, Ends) /\ CacheAccounted /\ Sizes \in SUBSET Nat
    BY HTTPClientAssumption DEF CacheGood
  <2>4. CacheTypeOK(Sizes, Ends)' /\ CacheAccounted'
    BY <2>1, <2>2, <2>3, InsertKeeps
  <2> QED
    BY <2>4 DEF CacheGood
<1> QED
  BY <1>1, <1>2

LEMMA EmptyCache ==
    ASSUME NEW e, e = <<>>
    PROVE  /\ Weight(e, DOMAIN e) = 0 /\ DOMAIN e = {} /\ Range(e) = {}
           /\ IsInjective(e) /\ e \in Seq(Url)
<1>1. DOMAIN e = {}
  OBVIOUS
<1>2. BytesOf(e, {}) = {}
  BY DEF BytesOf
<1>3. Weight(e, {}) = 0
  BY <1>2, FS_EmptySet DEF Weight
<1> QED
  BY <1>1, <1>3 DEF Range, IsInjective

LEMMA EmptyJar == Alone(<<>>) /\ Bounded(<<>>) /\ <<>> \in Seq(Cookie)
<1>1. \A h : HeldBy(<<>>, h) = {}
  BY DEF HeldBy
<1>2. 0 <= MaxPerHost /\ 0 <= MaxTotal /\ Len(<<>>) = 0
  BY CookieJarAssumption
<1> QED
  BY <1>1, <1>2, FS_EmptySet DEF Alone, Bounded, Within

LEMMA ClientStart == Init => ClientInv
<1> SUFFICES ASSUME Init PROVE JarGood /\ CacheGood /\ Flight
  BY ClientParts
<1>1. JarGood
  BY EmptyJar DEF Init, JarGood
<1>2. CacheGood
  <2>1. entries = <<>> /\ order = <<>> /\ bytes = 0
    BY DEF Init, CacheInit
  <2> QED
    BY <2>1, EmptyCache, ResponseCacheAssumption DEF CacheGood, CacheTypeOK, CacheAccounted
<1>3. Flight
  BY HTTPClientAssumption DEF Init, Flight, Start
<1> QED
  BY <1>1, <1>2, <1>3

(* One step per action: each changes the jar, the cache or neither.        *)
LEMMA ClientStep == ClientInv /\ [Next]_vars => ClientInv'
<1> SUFFICES ASSUME JarGood, CacheGood, Flight, [Next]_vars
             PROVE  JarGood' /\ CacheGood' /\ Flight'
  BY ClientParts, ClientPartsNext
<1> USE DEF JarGood
<1>1. ASSUME NEW r \in Req, NEW kind \in Kind, NEW u \in Url, Send(r, kind, u)
      PROVE  JarGood' /\ CacheGood' /\ Flight'
  <2>1. JarGood'
    BY <1>1 DEF Send
  <2>2. CacheGood'
    BY <1>1, GetGood, NoCacheChange DEF Send, cacheVars
  <2>3. Flight'
    BY <1>1 DEF Send, Flight
  <2> QED
    BY <2>1, <2>2, <2>3
<1>2. ASSUME NEW r \in Req, NEW c \in Cookies, ReceiveCookie(r, c)
      PROVE  JarGood' /\ CacheGood' /\ Flight'
  <2>1. JarGood'
    <3>1. c \in Cookie /\ jar' = Put(jar, c, clock)
      BY <1>2, CookiesTyped DEF ReceiveCookie, Store
    <3> QED
      BY <3>1, PutKeeps
  <2>2. CacheGood'
    BY <1>2, NoCacheChange DEF ReceiveCookie, cacheVars
  <2>3. Flight'
    BY <1>2 DEF ReceiveCookie, Done, Flight
  <2> QED
    BY <2>1, <2>2, <2>3
<1>3. ASSUME NEW r \in Req, NEW size \in Sizes, NEW lifetime \in Lifetimes,
             Receive(r, size, lifetime)
      PROVE  JarGood' /\ CacheGood' /\ Flight'
  <2>1. JarGood'
    BY <1>3 DEF Receive
  <2>2. CacheGood'
    <3>1. CASE inFlight[r] # Unkept /\ Keep(inFlight[r], size, lifetime, clock)
      <4>1. inFlight[r] \in Url /\ clock \in Start..MaxClock
        BY <1>3, <3>1 DEF Receive, Done, Flight
      <4> QED
        BY <3>1, <4>1, KeepGood
    <3>2. CASE UNCHANGED cacheVars
      BY <3>2, NoCacheChange DEF cacheVars
    <3> QED
      BY <1>3, <3>1, <3>2 DEF Receive
  <2>3. Flight'
    BY <1>3 DEF Receive, Done, Flight
  <2> QED
    BY <2>1, <2>2, <2>3
<1>4. ASSUME NEW c \in Cookies, SetFromScript(c)
      PROVE  JarGood' /\ CacheGood' /\ Flight'
  <2>1. JarGood'
    <3>1. c \in Cookie /\ jar' = Scripted(jar, c, clock)
      BY <1>4, CookiesTyped DEF SetFromScript, SetCookieFromDocument
    <3> QED
      BY <3>1, ScriptedKeeps
  <2>2. CacheGood'
    BY <1>4, NoCacheChange DEF SetFromScript, cacheVars
  <2>3. Flight'
    BY <1>4 DEF SetFromScript, Flight
  <2> QED
    BY <2>1, <2>2, <2>3
<1>5. ASSUME ClearCookies PROVE JarGood' /\ CacheGood' /\ Flight'
  <2>1. JarGood'
    BY <1>5, EmptyJar DEF ClearCookies, Clear
  <2>2. CacheGood'
    BY <1>5, NoCacheChange DEF ClearCookies, cacheVars
  <2>3. Flight'
    BY <1>5 DEF ClearCookies, Flight
  <2> QED
    BY <2>1, <2>2, <2>3
<1>6. ASSUME Tick PROVE JarGood' /\ CacheGood' /\ Flight'
  <2>1. JarGood'
    BY <1>6 DEF Tick
  <2>2. CacheGood'
    BY <1>6, NoCacheChange DEF Tick, cacheVars
  <2>3. Flight'
    <3>1. MaxClock \in Nat /\ clock \in Start..MaxClock /\ clock < MaxClock /\ clock' = clock + 1
      BY <1>6, HTTPClientAssumption DEF Tick, Flight
    <3>2. clock' \in Start..MaxClock
      BY <3>1 DEF Start
    <3> QED
      BY <1>6, <3>2 DEF Tick, Flight
  <2> QED
    BY <2>1, <2>2, <2>3
<1>7. ASSUME Reopen PROVE JarGood' /\ CacheGood' /\ Flight'
  <2>1. JarGood'
    <3>1. jar' \in Loaded(Persistent(clock), clock) /\ Persistent(clock) \in SUBSET Range(jar)
      BY <1>7 DEF Reopen, SaveAndLoad, Persistent
    <3> QED
      BY <3>1, LoadedKeeps
  <2>2. CacheGood'
    <3>1. entries' = <<>> /\ order' = <<>> /\ bytes' = 0
      BY <1>7 DEF Reopen
    <3> QED
      BY <3>1, EmptyCache, ResponseCacheAssumption DEF CacheGood, CacheTypeOK, CacheAccounted
  <2>3. Flight'
    <3>1. MaxRestarts \in Nat /\ restarts' \in 0..MaxRestarts
      BY <1>7, HTTPClientAssumption DEF Reopen, Flight
    <3> QED
      BY <1>7, <3>1 DEF Reopen, Flight
  <2> QED
    BY <2>1, <2>2, <2>3
<1>8. CASE UNCHANGED vars
  <2>1. CacheGood'
    BY <1>8, NoCacheChange DEF vars, cacheVars
  <2> QED
    BY <1>8, <2>1 DEF vars, Flight
<1> QED
  BY <1>1, <1>2, <1>3, <1>4, <1>5, <1>6, <1>7, <1>8 DEF Next

LEMMA ClientInvariant == Spec => []ClientInv
BY ClientStart, ClientStep, PTL DEF Spec

(* Every variable of the client, the jar and the cache has its type.       *)
THEOREM ClientTypeCorrect == Spec => []TypeOK
BY ClientInvariant, PTL DEF ClientInv

(* A name, a path and a domain identify a cookie whatever host stored it,  *)
(* in this run or an earlier one: a request never sends two.               *)
THEOREM CookiesStoredOnce == Spec => []OneCookieEach
BY ClientInvariant, PTL DEF ClientInv

(* No host and no jar holds more cookies than its limit, after any call, a *)
(* load of a file that holds more included.                                *)
THEOREM LimitsHold == Spec => []JarWithinLimits
BY ClientInvariant, PTL DEF ClientInv

(* The cache's byte count is what its entries weigh and within its bound,  *)
(* and its order names every entry once, in every interleaving of requests *)
(* in flight together.                                                     *)
THEOREM BytesAccounted == Spec => []CacheAccounted
BY ClientInvariant, PTL DEF ClientInv

(* In every state a script's step leaves no readable cookie under the      *)
(* identity of one it cannot read, whichever host stored either.           *)
THEOREM ScriptsKeepHttpOnly == Spec => []HttpOnlyKept
<1>1. ClientInv => HttpOnlyKept
  <2> SUFFICES ASSUME ClientInv, NEW c \in Cookies, NEW d \in Range(jar),
                      NEW e \in Range(Scripted(jar, c, clock)), Same(d, e), d.httpOnly
               PROVE  e.httpOnly
    BY DEF HttpOnlyKept
  <2>1. jar \in Seq(Cookie) /\ Alone(jar) /\ Bounded(jar) /\ c \in Cookie
    BY ClientParts, CookiesTyped DEF JarGood
  <2>2. \A x \in Range(jar), y \in Range(Scripted(jar, c, clock)) :
          Same(x, y) /\ x.httpOnly => y.httpOnly
    BY <2>1, ScriptedKeeps
  <2> QED
    BY <2>2
<1> QED
  BY <1>1, ClientInvariant, PTL

(* In every state a session cookie a host sets is in the jar afterwards,   *)
(* however full the jar is: the eviction that the limits demand takes the  *)
(* others first and always finds a jar within them that still has it.      *)
THEOREM NewestSurvives == Spec => []NewestStays
<1>1. ClientInv => NewestStays
  <2> SUFFICES ASSUME ClientInv, NEW c \in Cookies, c.exp = Session
               PROVE  c \in Range(Put(jar, c, clock))
    BY DEF NewestStays
  <2>1. jar \in Seq(Cookie) /\ Alone(jar) /\ Bounded(jar) /\ c \in Cookie
    BY ClientParts, CookiesTyped DEF JarGood
  <2> QED
    BY <2>1, PutKeeps
<1> QED
  BY <1>1, ClientInvariant, PTL
-----------------------------------------------------------------------------
(* What a deletion reaches.  test/net/cookie_test.go:138-144 expects it to  *)
(* reach every cookie of its name, path and domain; the model checker shows *)
(* that it does not (DeletedIsGone), and here is exactly what it misses.    *)

(* A cookie is stored under the host that set it or, once it was read from  *)
(* the file, under its domain: only a parent's cookie has another key.      *)
Keyed(s) == \A d \in Range(s) : d.domain \in {d.by, Parent}

JarKeyed == Keyed(jar)

(* A deletion adds nothing and takes the cookie it names and no other one,  *)
(* except that it leaves a parent domain's cookie that is stored under      *)
(* another key: another host's, or one read back from the file.             *)
DeletionReach ==
    \A c \in {d \in Cookies : d.exp = Past} :
        Range(Put(jar, c, clock)) =
            {d \in Range(jar) : Same(c, d) => d.domain = Parent /\ d.by # c.by}

(* A host sets cookies for itself and for the parent. *)
LEMMA SetsOwn ==
    ASSUME NEW c \in Cookies
    PROVE  c \in Cookie /\ c.by \in Host /\ c.domain \in {c.by, Parent}
<1>1. c \in Cookie
  BY CookiesTyped
<1> QED
  BY <1>1 DEF Cookies, Settable

(* The keys stay so in every step. *)
LEMMA KeyedStep == ClientInv /\ JarKeyed /\ [Next]_vars => JarKeyed'
<1> SUFFICES ASSUME ClientInv, JarKeyed, [Next]_vars PROVE Keyed(jar')
  BY DEF JarKeyed, Keyed
<1>0. jar \in Seq(Cookie) /\ Alone(jar) /\ Bounded(jar)
  BY ClientParts DEF JarGood
<1>1. ASSUME NEW r \in Req, NEW c \in Cookies, ReceiveCookie(r, c) PROVE Keyed(jar')
  <2>1. Range(jar') \subseteq Range(jar) \cup {c}
    BY <1>0, <1>1, SetsOwn, PutKeeps DEF ReceiveCookie, Store
  <2> QED
    BY <2>1, SetsOwn DEF JarKeyed, Keyed
<1>2. ASSUME NEW c \in Cookies, SetFromScript(c) PROVE Keyed(jar')
  <2>1. Range(jar') \subseteq Range(jar) \cup {[c EXCEPT !.httpOnly = FALSE]}
    BY <1>0, <1>2, SetsOwn, ScriptedKeeps DEF SetFromScript, SetCookieFromDocument
  <2>2. c \in Cookie /\ c.domain \in {c.by, Parent}
    BY SetsOwn
  <2>3. [c EXCEPT !.httpOnly = FALSE].domain \in {[c EXCEPT !.httpOnly = FALSE].by, Parent}
    BY <2>2 DEF Cookie
  <2> QED
    BY <2>1, <2>3 DEF JarKeyed, Keyed
<1>3. ASSUME Reopen PROVE Keyed(jar')
  <2>1. jar' \in Loaded(Persistent(clock), clock) /\ Persistent(clock) \in SUBSET Range(jar)
    BY <1>3 DEF Reopen, SaveAndLoad, Persistent
  <2>2. \A d \in Range(jar') : d.by = d.domain
    BY <1>0, <2>1, LoadedKeeps
  <2> QED
    BY <2>2 DEF Keyed
<1>4. ASSUME ClearCookies PROVE Keyed(jar')
  BY <1>4 DEF ClearCookies, Clear, Keyed, Range
<1>5. ASSUME jar' = jar PROVE Keyed(jar')
  BY <1>5 DEF JarKeyed
<1>6. CASE \/ \E r \in Req, kind \in Kind, u \in Url : Send(r, kind, u)
           \/ \E r \in Req, size \in Sizes, lifetime \in Lifetimes : Receive(r, size, lifetime)
           \/ Tick \/ UNCHANGED vars
  BY <1>5, <1>6 DEF Send, Receive, Tick, vars
<1> QED
  BY <1>1, <1>2, <1>3, <1>4, <1>6 DEF Next

(* In every state a deletion removes the cookie it names and no other one,  *)
(* whoever sends it; only a cookie of the parent domain can survive one, if *)
(* it is stored under another host's key or under the domain's.  A host's   *)
(* own cookies are always gone.                                             *)
THEOREM DeletionIsExact == Spec => []DeletionReach
<1>1. Init => JarKeyed
  BY DEF Init, JarKeyed, Keyed, Range
<1>2. Spec => [](ClientInv /\ JarKeyed)
  BY <1>1, ClientStart, ClientStep, KeyedStep, PTL DEF Spec
<1>3. ClientInv /\ JarKeyed => DeletionReach
  <2> SUFFICES ASSUME ClientInv, JarKeyed, NEW c \in Cookies, c.exp = Past
               PROVE  Range(Put(jar, c, clock)) =
                        {d \in Range(jar) : Same(c, d) => d.domain = Parent /\ d.by # c.by}
    BY DEF DeletionReach
  <2> DEFINE I == {i \in DOMAIN jar : ~(Same(c, jar[i]) /\ jar[i].by = c.by)}
  <2>1. jar \in Seq(Cookie) /\ clock \in Start..MaxClock
    BY ClientParts DEF JarGood, Flight
  <2>2. Expired(c, clock)
    BY <2>1, HTTPClientAssumption DEF Expired, Session, Past, Start
  <2>3. Put(jar, c, clock) = At(jar, I) /\ I \in SUBSET DOMAIN jar
    BY <2>2 DEF Put
  <2>4. Range(Put(jar, c, clock)) = {jar[i] : i \in I}
    <3> HIDE DEF I
    <3> QED
      BY <2>1, <2>3, JarKept
  <2>5. {jar[i] : i \in I} = {d \in Range(jar) : ~(Same(c, d) /\ d.by = c.by)}
    BY DEF Range
  <2>6. ASSUME NEW d \in Range(jar), Same(c, d), d.by # c.by PROVE d.domain = Parent
    <3>1. d.domain \in {d.by, Parent} /\ c.domain = d.domain
      BY <2>6 DEF JarKeyed, Keyed, Same
    <3>2. c.domain \in {c.by, Parent}
      BY SetsOwn
    <3> QED
      BY <2>6, <3>1, <3>2
  <2> QED
    BY <2>4, <2>5, <2>6
<1> QED
  BY <1>2, <1>3, PTL
-----------------------------------------------------------------------------
(* What is lost for want of room.  Evictions lose cookies and responses     *)
(* that are still good; the limits are the only reason to.                  *)

(* The other cookies that a call finds good. *)
Others(c) == {d \in Range(jar) : ~Same(c, d) /\ ~Expired(d, clock)}

(* The end of the session counts as later than any date. *)
Sooner(e, d) == e.exp # Session /\ (d.exp = Session \/ e.exp < d.exp)

(* A call that stores a cookie loses another, good one only if the jar is   *)
(* full of good ones, or the host that sets it has all it may; and what the *)
(* jar keeps does not expire sooner than what it loses.                     *)
CookiesLostForRoom ==
    \A c \in {d \in Cookies : ~Expired(d, clock)} :
        \A d \in Others(c) \ Range(Put(jar, c, clock)) :
            /\ \/ Cardinality(Others(c)) >= MaxTotal
               \/ Cardinality({e \in Others(c) : e.by = c.by}) >= MaxPerHost
            /\ \A e \in Range(Put(jar, c, clock)) : ~Sooner(e, d)

(* When the cache keeps a response and drops others, or this one, then one  *)
(* of those it dropped would not fit with what is left.                     *)
EntriesLostForRoom ==
    [][\A u \in Url, size \in Sizes, lifetime \in Lifetimes :
          /\ Insert(u, size, lifetime, clock)
          /\ DOMAIN entries' # DOMAIN entries \cup {u}
          => \E v \in (DOMAIN entries \cup {u}) \ DOMAIN entries' :
                bytes' + (IF v = u THEN size ELSE entries[v].size) > MaxBytes]_vars

(* Cookies that are told apart are as many as their places. *)
LEMMA PlacesAreCookies ==
    ASSUME NEW t \in Seq(Cookie), Alone(t), NEW V
    PROVE  /\ IsFiniteSet({d \in Range(t) : d \in V})
           /\ Cardinality({d \in Range(t) : d \in V}) \in Nat
           /\ Cardinality({i \in DOMAIN t : t[i] \in V}) = Cardinality({d \in Range(t) : d \in V})
<1> DEFINE I == {i \in DOMAIN t : t[i] \in V}
           C == {d \in Range(t) : d \in V}
           f == [i \in I |-> t[i]]
<1>1. IsFiniteSet(I)
  <2>1. Len(t) \in Nat /\ DOMAIN t = 1..Len(t)
    OBVIOUS
  <2>2. IsFiniteSet(DOMAIN t) /\ I \in SUBSET DOMAIN t
    BY <2>1, SegmentCount
  <2> QED
    BY <2>2, FS_Subset
<1>2. f \in Surjection(I, C)
  BY DEF Surjection, Range
<1>3. f \in Injection(I, C)
  <2>1. \A i, j \in I : t[i] = t[j] => i = j
    BY DEF Alone, Same
  <2>2. f \in [I -> C]
    BY DEF Range
  <2> QED
    BY <2>1, <2>2 DEF Injection, IsInjective
<1>4. ExistsBijection(I, C)
  BY <1>2, <1>3 DEF ExistsBijection, Bijection
<1> HIDE DEF I, C
<1>5. IsFiniteSet(C) /\ Cardinality(C) = Cardinality(I)
  BY <1>1, <1>4, FS_Bijection
<1>6. Cardinality(C) \in Nat
  BY <1>5, FS_CardinalityType
<1> QED
  BY <1>5, <1>6 DEF I, C

(* To take cookies out never breaks a limit. *)
LEMMA FewerFit ==
    ASSUME NEW s \in Seq(Cookie), NEW I \in SUBSET DOMAIN s, NEW hosts, Within(s, hosts)
    PROVE  Within(At(s, I), hosts)
<1> DEFINE r == At(s, I)
<1>1. /\ r \in Seq(Cookie) /\ Len(r) <= Len(s)
      /\ \A h : /\ Cardinality(HeldBy(s, h)) \in Nat /\ Cardinality(HeldBy(r, h)) \in Nat
                /\ Cardinality(HeldBy(r, h)) <= Cardinality(HeldBy(s, h))
  BY JarKept
<1> HIDE DEF r
<1>2. Len(r) \in Nat /\ Len(s) \in Nat /\ MaxTotal \in Nat /\ MaxPerHost \in Nat
  BY <1>1, CookieJarAssumption
<1>3. Len(r) <= MaxTotal
  BY <1>1, <1>2 DEF Within
<1>4. ASSUME NEW h \in hosts PROVE Cardinality(HeldBy(r, h)) <= MaxPerHost
  <2>1. Cardinality(HeldBy(s, h)) <= MaxPerHost
    BY DEF Within
  <2> QED
    BY <1>1, <1>2, <2>1
<1> QED
  BY <1>3, <1>4 DEF Within, r

Good(s, now) == At(s, {i \in DOMAIN s : ~Expired(s[i], now)})

(* A good cookie is evicted only from a jar that is past its limits with    *)
(* the good ones alone, and never before one that expires sooner: whatever  *)
(* goes before that one goes before it, too.                                *)
LEMMA EvictedForRoom ==
    ASSUME NEW s \in Seq(Cookie), NEW hosts, NEW now, NEW d \in Range(s),
           ~Expired(d, now), d \notin Range(Evict(s, hosts, now))
    PROVE  /\ ~Within(Good(s, now), hosts)
           /\ \A e \in Range(Evict(s, hosts, now)) : ~Sooner(e, d)
<1> DEFINE J == {i \in DOMAIN s : ~Expired(s[i], now)}
           live == At(s, J)
           Before(i) == {j \in DOMAIN live : GoesBefore(live, j, i)}
           n == CHOOSE k \in 0..Len(live) :
                  /\ Within(Without(live, k), hosts)
                  /\ k > 0 => ~ Within(Without(live, k - 1), hosts)
           K == {i \in DOMAIN live : Cardinality(Before(i)) >= n}
           L == {i \in DOMAIN live : Cardinality(Before(i)) >= n - 1}
           left == At(live, K)
<1>1. /\ Evict(s, hosts, now) = left /\ Good(s, now) = live
      /\ Without(live, n - 1) = At(live, L)
  BY DEF Evict, Without, Good
<1>2. J \in SUBSET DOMAIN s /\ K \in SUBSET DOMAIN live /\ L \in SUBSET DOMAIN live
  OBVIOUS
<1>3. \E j \in J : d = s[j]
  BY DEF Range
<1> HIDE DEF J
<1>4. live \in Seq(Cookie) /\ Range(live) = {s[i] : i \in J}
  BY <1>2, JarKept
<1> HIDE DEF live
<1>5. PICK i \in DOMAIN live : live[i] = d
  <2>1. d \in Range(live)
    BY <1>3, <1>4
  <2> QED
    BY <2>1 DEF Range
<1>6. /\ n \in 0..Len(live)
      /\ n > 0 => ~ Within(Without(live, n - 1), hosts)
  BY <1>4, EvictStops
<1> HIDE DEF n
<1>7. Len(live) \in Nat /\ DOMAIN live = 1..Len(live) /\ n \in Nat
  BY <1>4, <1>6
<1>8. \A k \in DOMAIN live : IsFiniteSet(Before(k)) /\ Cardinality(Before(k)) \in Nat
  <2>1. TAKE k \in DOMAIN live
  <2>2. IsFiniteSet(DOMAIN live) /\ Before(k) \in SUBSET DOMAIN live
    BY <1>7, SegmentCount
  <2> HIDE DEF Before
  <2> QED
    BY <2>2, FS_Subset, FS_CardinalityType
<1>9. left \in Seq(Cookie) /\ Range(left) = {live[k] : k \in K}
  <2> HIDE DEF K
  <2> QED
    BY <1>2, <1>4, JarKept
<1>10. Cardinality(Before(i)) < n
  <2>1. i \notin K
    BY <1>1, <1>5, <1>9
  <2> HIDE DEF Before
  <2> QED
    BY <1>5, <1>7, <1>8, <2>1
<1>11. ~Within(live, hosts)
  <2>1. n > 0
    <3> HIDE DEF Before
    <3> QED
      BY <1>5, <1>7, <1>8, <1>10
  <2>2. ~Within(At(live, L), hosts)
    BY <1>1, <1>6, <2>1
  <2> HIDE DEF L
  <2> QED
    BY <1>2, <1>4, <2>2, FewerFit
<1>12. ASSUME NEW e \in Range(left), Sooner(e, d) PROVE FALSE
  <2>1. PICK k \in K : live[k] = e
    BY <1>9
  <2>2. k \in DOMAIN live /\ Cardinality(Before(k)) >= n
    BY <2>1
  <2>3. \A j \in DOMAIN live : j \in Nat /\ live[j].exp \in Int
    <3>1. TAKE j \in DOMAIN live
    <3>2. j \in Nat /\ live[j] \in Cookie
      BY <1>4, <1>7
    <3> QED
      BY <3>2, HTTPClientAssumption DEF Cookie, Expiries, Session, Past, Start
  <2>4. Before(k) \in SUBSET Before(i)
    <3> SUFFICES ASSUME NEW j \in DOMAIN live, GoesBefore(live, j, k)
                 PROVE  GoesBefore(live, j, i)
      OBVIOUS
    <3>1. /\ live[k].exp # Session
          /\ live[i].exp = Session \/ live[k].exp < live[i].exp
      BY <1>5, <1>12, <2>1 DEF Sooner
    <3>2. /\ live[j].exp \in Int /\ live[k].exp \in Int /\ live[i].exp \in Int
      BY <1>5, <2>2, <2>3
    <3>3. live[j].exp # Session /\ live[j].exp <= live[k].exp
      BY <3>1, <3>2 DEF GoesBefore
    <3> QED
      BY <3>1, <3>2, <3>3 DEF GoesBefore
  <2> HIDE DEF Before
  <2>5. Cardinality(Before(k)) <= Cardinality(Before(i))
    BY <1>5, <1>8, <2>4, FS_Subset
  <2> QED
    BY <1>5, <1>7, <1>8, <1>10, <2>2, <2>5
<1> QED
  BY <1>1, <1>11, <1>12

(* In every state a cookie still good is lost to a new one only if its      *)
(* host or the jar is full of good cookies, and nothing that expires sooner *)
(* is kept in its place.                                                    *)
THEOREM CookiesNotLostNeedlessly == Spec => []CookiesLostForRoom
<1>1. ClientInv => CookiesLostForRoom
  <2> SUFFICES ASSUME ClientInv, NEW c \in Cookies, ~Expired(c, clock),
                      NEW d \in Others(c), d \notin Range(Put(jar, c, clock))
               PROVE  /\ \/ Cardinality(Others(c)) >= MaxTotal
                         \/ Cardinality({e \in Others(c) : e.by = c.by}) >= MaxPerHost
                      /\ \A e \in Range(Put(jar, c, clock)) : ~Sooner(e, d)
    BY DEF CookiesLostForRoom
  <2> DEFINE I == {i \in DOMAIN jar : ~Same(c, jar[i])}
             q == At(jar, I)
             a == Append(q, c)
             live == Good(a, clock)
  <2>1. /\ jar \in Seq(Cookie) /\ Alone(jar) /\ c \in Cookie
        /\ d \in Range(jar) /\ ~Same(c, d) /\ ~Expired(d, clock)
    BY ClientParts, CookiesTyped DEF JarGood, Others
  <2>2. Put(jar, c, clock) = Evict(a, {c.by}, clock) /\ I \in SUBSET DOMAIN jar
    BY DEF Put, Replace
  <2>3. q \in Seq(Cookie) /\ Range(q) = {x \in Range(jar) : ~Same(c, x)} /\ Alone(q)
    <3>1. {jar[i] : i \in I} = {x \in Range(jar) : ~Same(c, x)}
      BY DEF Range
    <3> HIDE DEF I
    <3>2. q \in Seq(Cookie) /\ Range(q) = {jar[i] : i \in I} /\ Alone(q)
      BY <2>1, <2>2, JarKept
    <3> QED
      BY <3>1, <3>2
  <2> HIDE DEF q
  <2>4. /\ a \in Seq(Cookie) /\ Len(q) \in Nat /\ DOMAIN q = 1..Len(q)
        /\ DOMAIN a = 1..(Len(q) + 1) /\ a[Len(q) + 1] = c /\ \A k \in DOMAIN q : a[k] = q[k]
    BY <2>1, <2>3
  <2> HIDE DEF a
  <2>5. \A k \in DOMAIN a : k = Len(q) + 1 \/ (k \in DOMAIN q /\ a[k] \in Range(q))
    BY <2>4 DEF Range
  <2>6. Len(q) + 1 \in DOMAIN a /\ \A k \in DOMAIN q : k \in DOMAIN a
    BY <2>4
  <2>7. Range(a) = Range(q) \cup {c}
    BY <2>4, <2>5, <2>6 DEF Range
  <2>8. Alone(a)
    <3> SUFFICES ASSUME NEW k \in DOMAIN a, NEW l \in DOMAIN a, Same(a[k], a[l]) PROVE k = l
      BY DEF Alone
    <3>1. CASE k \in DOMAIN q /\ l \in DOMAIN q
      BY <2>3, <2>4, <3>1 DEF Alone
    <3>2. CASE k = Len(q) + 1 /\ l # Len(q) + 1
      BY <2>3, <2>4, <2>5, <3>2
    <3>3. CASE l = Len(q) + 1 /\ k # Len(q) + 1
      <4>1. Same(c, a[k]) /\ a[k] \in Range(q)
        BY <2>4, <2>5, <3>3 DEF Same
      <4> QED
        BY <2>3, <4>1
    <3> QED
      BY <2>5, <3>1, <3>2, <3>3
  <2>9. live \in Seq(Cookie) /\ Alone(live) /\ Range(live) = {x \in Range(a) : ~Expired(x, clock)}
    <3> DEFINE J == {i \in DOMAIN a : ~Expired(a[i], clock)}
    <3>1. {a[i] : i \in J} = {x \in Range(a) : ~Expired(x, clock)}
      BY DEF Range
    <3>2. J \in SUBSET DOMAIN a /\ live = At(a, J)
      BY DEF Good
    <3> HIDE DEF J, live
    <3>3. live \in Seq(Cookie) /\ Range(live) = {a[i] : i \in J} /\ Alone(live)
      BY <2>4, <2>8, <3>2, JarKept
    <3> QED
      BY <3>1, <3>3
  <2>10. Range(live) = Others(c) \cup {c} /\ c \notin Others(c)
    BY <2>3, <2>7, <2>9 DEF Others, Same
  <2>11. ~Within(live, {c.by}) /\ \A e \in Range(Put(jar, c, clock)) : ~Sooner(e, d)
    <3>1. d \in Range(a)
      BY <2>1, <2>3, <2>7
    <3> QED
      BY <2>1, <2>2, <2>4, <3>1, EvictedForRoom
  <2> HIDE DEF live
  (* Every place of the good ones is one of the others or the new one. *)
  <2>12. /\ IsFiniteSet(Others(c)) /\ Cardinality(Others(c)) \in Nat
         /\ Len(live) = Cardinality(Others(c)) + 1
    <3>1. /\ {x \in Range(live) : x \in Cookie} = Range(live)
          /\ {i \in DOMAIN live : live[i] \in Cookie} = DOMAIN live
      <4>1. \A i \in DOMAIN live : live[i] \in Cookie
        BY <2>9
      <4> QED
        BY <4>1 DEF Range
    <3>2. IsFiniteSet(Range(live)) /\ Cardinality(DOMAIN live) = Cardinality(Range(live))
      BY <2>9, <3>1, PlacesAreCookies
    <3>3. Len(live) \in Nat /\ DOMAIN live = 1..Len(live)
      BY <2>9
    <3>4. Len(live) = Cardinality(Range(live))
      BY <3>2, <3>3, SegmentCount
    <3>5. IsFiniteSet(Others(c))
      BY <2>10, <3>2, FS_Subset
    <3>6. Cardinality(Range(live)) = Cardinality(Others(c)) + 1
      BY <2>10, <3>5, FS_AddElement
    <3> QED
      BY <3>4, <3>5, <3>6, FS_CardinalityType
  <2>13. LET own == {e \in Others(c) : e.by = c.by}
         IN  Cardinality(own) \in Nat /\ Cardinality(HeldBy(live, c.by)) = Cardinality(own) + 1
    <3> DEFINE V == {x \in Cookie : x.by = c.by}
               own == {e \in Others(c) : e.by = c.by}
    <3>1. HeldBy(live, c.by) = {i \in DOMAIN live : live[i] \in V}
      BY <2>9 DEF HeldBy
    <3>2. {x \in Range(live) : x \in V} = own \cup {c} /\ c \notin own
      <4>1. Range(live) \subseteq Cookie
        BY <2>9 DEF Range
      <4> QED
        BY <2>10, <4>1
    <3> HIDE DEF V
    <3>3. Cardinality(HeldBy(live, c.by)) = Cardinality(own \cup {c})
      BY <2>9, <3>1, <3>2, PlacesAreCookies
    <3>4. IsFiniteSet(own)
      BY <2>12, FS_Subset
    <3> HIDE DEF own
    <3>5. Cardinality(own \cup {c}) = Cardinality(own) + 1 /\ Cardinality(own) \in Nat
      BY <3>2, <3>4, FS_AddElement, FS_CardinalityType
    <3> QED
      BY <3>3, <3>5 DEF own
  <2>14. Len(live) > MaxTotal \/ Cardinality(HeldBy(live, c.by)) > MaxPerHost
    <3>1. \/ \E h \in {c.by} : ~(Cardinality(HeldBy(live, h)) <= MaxPerHost)
          \/ ~(Len(live) <= MaxTotal)
      BY <2>11 DEF Within
    <3>2. Len(live) \in Nat /\ Cardinality(HeldBy(live, c.by)) \in Nat
      BY <2>12, <2>13
    <3> QED
      BY <3>1, <3>2, CookieJarAssumption
  <2>15. \/ Cardinality(Others(c)) >= MaxTotal
         \/ Cardinality({e \in Others(c) : e.by = c.by}) >= MaxPerHost
    BY <2>12, <2>13, <2>14, CookieJarAssumption
  <2> QED
    BY <2>11, <2>15
<1> QED
  BY <1>1, ClientInvariant, PTL

(* What a store drops last did not fit: the loop stops at the first count   *)
(* within the bound, and with that entry in, the count is the one before.   *)
LEMMA InsertDropsForRoom ==
    ASSUME CacheGood, NEW u \in Url, NEW size \in Sizes, NEW lifetime,
           Insert(u, size, lifetime, clock), DOMAIN entries' # DOMAIN entries \cup {u}
    PROVE  \E v \in (DOMAIN entries \cup {u}) \ DOMAIN entries' :
              bytes' + (IF v = u THEN size ELSE entries[v].size) > MaxBytes
<1> DEFINE D == DOMAIN entries
           stored == [v \in D \cup {u} |->
                        IF v = u THEN [size |-> size, expiresAt |-> clock + lifetime]
                        ELSE entries[v]]
           queue == Append(Dequeued(u), u)
           Victims(n) == {queue[i] : i \in 1..n}
           Size(n) == Weight(stored, Victims(n))
           enough == {n \in 0..Len(queue) :
                        n = Len(queue) \/ Counted(u, size) - Size(n) <= MaxBytes}
           drop == CHOOSE n \in enough : \A m \in enough : n <= m
           SizeOf(v) == IF v = u THEN size ELSE entries[v].size
<1>1. /\ entries' = Restrict(stored, DOMAIN stored \ Victims(drop))
      /\ bytes' = Counted(u, size) - Size(drop)
  BY DEF Insert
<1>2. /\ \A v \in D : entries[v].size \in Nat
      /\ order \in Seq(Url) /\ IsInjective(order) /\ Range(order) = D
      /\ bytes \in Nat /\ size \in Nat /\ MaxBytes \in Nat
  BY HTTPClientAssumption, ResponseCacheAssumption
  DEF CacheGood, CacheTypeOK, CacheAccounted
<1>3. DOMAIN stored = D \cup {u} /\ \A v \in D \cup {u} : stored[v].size = SizeOf(v)
  OBVIOUS
<1>4. \A v \in D \cup {u} : SizeOf(v) \in Nat
  BY <1>2
<1> HIDE DEF stored
<1>5. Counted(u, size) \in Int
  BY <1>2 DEF Counted, Held
<1>6. queue \in Seq(Url) /\ IsInjective(queue) /\ Range(queue) = D \cup {u}
  BY <1>2, QueueNames
<1> HIDE DEF queue, SizeOf
<1>7. Len(queue) \in Nat /\ DOMAIN queue = 1..Len(queue)
  BY <1>6
<1>8. drop \in enough /\ \A m \in enough : drop <= m
  <2>1. enough \in SUBSET Nat /\ Len(queue) \in enough
    BY <1>7
  <2> HIDE DEF enough
  <2>2. \E n \in enough : \A m \in enough : n <= m
    BY <2>1, LeastNumber
  <2> QED
    BY <2>2
<1>9. drop \in 0..Len(queue)
  BY <1>8
<1> HIDE DEF drop
<1>10. DOMAIN entries' = (D \cup {u}) \ Victims(drop)
  BY <1>1, <1>3 DEF Restrict
<1>11. drop > 0
  <2>1. SUFFICES ASSUME drop = 0 PROVE FALSE
    BY <1>7, <1>9
  <2>2. Victims(drop) = {}
    BY <2>1
  <2> QED
    BY <1>10, <2>2
<1> DEFINE v == queue[drop]
           m == drop - 1
<1>12. drop \in Nat /\ drop \in 1..Len(queue) /\ m \in 0..Len(queue) /\ m < drop /\ m # Len(queue)
  BY <1>7, <1>9, <1>11
<1>13. Counted(u, size) - Size(m) > MaxBytes
  <2>1. m \notin enough
    <3>1. drop \in Int /\ m \in Int /\ ~(drop <= m)
      BY <1>7, <1>12
    <3> HIDE DEF enough, m
    <3> QED
      BY <1>8, <3>1
  <2>2. ~(Counted(u, size) - Size(m) <= MaxBytes)
    BY <1>12, <2>1
  <2>3. Size(m) \in Nat
    <3>1. Victims(m) \subseteq D \cup {u} /\ IsFiniteSet(Victims(m))
      <4>1. Victims(m) \subseteq Range(queue)
        BY <1>6, <1>12, QueueLeft
      <4>2. IsFiniteSet(D)
        BY <1>2, OrderWithout
      <4>3. IsFiniteSet(D \cup {u})
        BY <4>2, FS_AddElement
      <4> HIDE DEF Victims
      <4> QED
        BY <1>6, <4>1, <4>3, FS_Subset
    <3>2. \A x \in Victims(m) : stored[x].size \in Nat
      BY <1>3, <1>4, <3>1
    <3> HIDE DEF Victims
    <3> QED
      BY <3>1, <3>2, WeightFinite
  <2> HIDE DEF Size
  <2> QED
    BY <1>2, <1>5, <2>2, <2>3
<1>14. /\ Size(drop) = Size(m) + SizeOf(v) /\ Size(m) \in Nat /\ SizeOf(v) \in Nat
       /\ v \in D \cup {u} /\ v \in Victims(drop)
  <2>1. v \in Victims(drop) /\ v \notin Victims(m) /\ Victims(drop) = Victims(m) \cup {v}
    <3>1. \A i \in 1..drop : i \in 1..m \/ i = drop
      BY <1>12
    <3>2. \A i \in 1..m : i \in 1..drop /\ i \in DOMAIN queue /\ i # drop
      BY <1>7, <1>12
    <3>3. drop \in 1..drop /\ drop \in DOMAIN queue
      BY <1>7, <1>12
    <3>4. v \notin Victims(m)
      BY <1>6, <3>2, <3>3 DEF IsInjective
    <3> HIDE DEF m
    <3> QED
      BY <3>1, <3>2, <3>3, <3>4
  <2>2. Victims(drop) \subseteq Range(queue)
    BY <1>6, <1>9, QueueLeft
  <2>3. IsFiniteSet(D \cup {u})
    BY <1>2, OrderWithout, FS_AddElement
  <2> HIDE DEF Victims, v, m
  <2>4. IsFiniteSet(Victims(m)) /\ IsFiniteSet({v}) /\ Victims(m) \cap {v} = {}
    BY <1>6, <2>1, <2>2, <2>3, FS_Subset, FS_Singleton
  <2>5. \A x \in Victims(m) \cup {v} : stored[x].size \in Nat
    BY <1>3, <1>4, <1>6, <2>1, <2>2
  <2>6. /\ Weight(stored, Victims(m)) \in Nat
        /\ Weight(stored, Victims(m) \cup {v}) = Weight(stored, Victims(m)) + Weight(stored, {v})
    BY <2>4, <2>5, WeightSum
  <2>7. Weight(stored, {v}) = SizeOf(v) /\ SizeOf(v) \in Nat /\ v \in D \cup {u}
    BY <1>3, <1>4, <1>6, <2>1, <2>2, <2>5, WeightOne
  <2> QED
    BY <2>1, <2>6, <2>7
<1>15. bytes' + SizeOf(v) > MaxBytes
  <2> HIDE DEF Size, v, m
  <2> QED
    BY <1>1, <1>2, <1>5, <1>13, <1>14
<1>16. v \notin DOMAIN entries'
  BY <1>10, <1>14
<1> HIDE DEF v
<1> QED
  BY <1>14, <1>15, <1>16 DEF SizeOf

(* The cache drops what is fresh, or refuses what is new, only when the     *)
(* bytes it may hold are used up: no response is dropped needlessly.        *)
THEOREM EntriesNotDroppedNeedlessly == Spec => EntriesLostForRoom
<1>1. ClientInv => CacheGood
  BY ClientParts
<1>2. ClientInv =>
        \A u \in Url, size \in Sizes, lifetime \in Lifetimes :
          /\ Insert(u, size, lifetime, clock)
          /\ DOMAIN entries' # DOMAIN entries \cup {u}
          => \E v \in (DOMAIN entries \cup {u}) \ DOMAIN entries' :
                bytes' + (IF v = u THEN size ELSE entries[v].size) > MaxBytes
  BY <1>1, InsertDropsForRoom
<1> QED
  BY <1>2, ClientInvariant, PTL DEF EntriesLostForRoom
=============================================================================
