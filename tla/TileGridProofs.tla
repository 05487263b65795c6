--------------------------- MODULE TileGridProofs ---------------------------
(***************************************************************************)
(* Proofs about the tile grid, for any tiles, buffers, budgets and bounds. *)
(*                                                                         *)
(* The inductive invariant IInv is TypeOK, OneOwner and Accounted together. *)
(* Ownership is proved about three arguments, the two buffer maps and the  *)
(* free list, because one step often moves several buffers in turn.  They  *)
(* need only that evicted tiles are distinct holders, not which ones they  *)
(* are; the recency list has an invariant of its own (Threaded).           *)
(***************************************************************************)
EXTENDS TileGrid, SubsequenceProofs, TLAPS

Map == [Tile -> Buffer \cup {NoBuffer}]

OneToOne(m) == \A t, u \in Tile : m[t] # NoBuffer /\ m[t] = m[u] => t = u

Owned(pix, pnt, s) ==
    /\ OneToOne(pix) /\ OneToOne(pnt)
    /\ \A t, u \in Tile : pix[t] # NoBuffer => pix[t] # pnt[u]
    /\ \A i, j \in DOMAIN s : s[i] = s[j] => i = j
    /\ \A i \in DOMAIN s, t \in Tile : pix[t] # s[i] /\ pnt[t] # s[i]

Emptying(pix, v) == [t \in Tile |-> IF t \in Elems(v) THEN NoBuffer ELSE pix[t]]

(* The invariant: what is said of the buffers, and the types of the rest.  *)
Ledger ==
    /\ pixels \in Map /\ painting \in Map
    /\ idle \in Seq(Buffer) /\ Len(idle) <= MaxIdle
    /\ Owned(pixels, painting, idle)
    /\ Accounted

RestOK ==
    /\ state \in [Tile -> {"empty", "valid", "stale", "failed"}]
    /\ version \in [Tile -> Nat]
    /\ attempts \in [Tile -> 0..MaxTileAttempts]
    /\ order \in [Tile -> [ver : Nat, rev : Nat]]
    /\ budget \in Budgets
    /\ layerVer \in Nat
    /\ suspect \in Tile \cup {NoTile}
    /\ rev \in Nat /\ changed \in [Tile -> Nat] /\ drawn \in [Tile -> Nat]

IInv == Ledger /\ RestOK
-----------------------------------------------------------------------------
(* What moving buffers does to ownership. *)

(* Trimming the free list loses buffers but gives none a second owner. *)
LEMMA RetainOwned ==
    ASSUME NEW pix \in Map, NEW pnt \in Map, NEW s \in Seq(Buffer), Owned(pix, pnt, s)
    PROVE  /\ Retain(s) \in Seq(Buffer) /\ Len(Retain(s)) <= MaxIdle
           /\ Owned(pix, pnt, Retain(s))
<1> DEFINE n == Lesser(Len(s), MaxIdle)
<1>1. n \in 0..Len(s) /\ n <= MaxIdle
  BY GridAssumption DEF Lesser
<1>2. Retain(s) = SubSeq(s, 1, n)
  BY DEF Retain
<1> HIDE DEF n
<1>3. /\ Retain(s) \in Seq(Buffer) /\ Len(Retain(s)) = n
      /\ \A i \in 1..n : Retain(s)[i] = s[i]
  BY <1>1, <1>2
<1>4. DOMAIN Retain(s) = 1..n /\ DOMAIN s = 1..Len(s)
  BY <1>3
<1>5. Owned(pix, pnt, Retain(s))
  BY <1>1, <1>3, <1>4 DEF Owned
<1> QED
  BY <1>1, <1>3, <1>5

(* Evicted pixels change hands from their tiles to the free list. *)
LEMMA DropOwned ==
    ASSUME NEW pix \in Map, NEW pnt \in Map, NEW s \in Seq(Buffer), Owned(pix, pnt, s),
           NEW n \in Nat, NEW v \in [1..n -> Tile],
           \A i \in 1..n : pix[v[i]] # NoBuffer,
           \A i, j \in 1..n : i < j => v[i] # v[j],
           NEW r, r = [i \in DOMAIN v |-> pix[v[i]]]
    PROVE  /\ Emptying(pix, v) \in Map
           /\ s \o r \in Seq(Buffer)
           /\ Owned(Emptying(pix, v), pnt, s \o r)
<1> DEFINE p2 == Emptying(pix, v)
           s2 == s \o r
<1>1. r \in Seq(Buffer) /\ Len(r) = n /\ DOMAIN r = 1..n
  BY DEF Map
<1>2. \A i \in 1..n : r[i] = pix[v[i]] /\ r[i] \in Buffer
  BY <1>1 DEF Map
<1>3. s2 \in Seq(Buffer) /\ DOMAIN s2 = 1..(Len(s) + n)
  BY <1>1
<1>4. \A i \in 1..(Len(s) + n) : s2[i] = IF i <= Len(s) THEN s[i] ELSE r[i - Len(s)]
  BY <1>1
<1>5. \A t \in Tile : p2[t] = IF t \in Elems(v) THEN NoBuffer ELSE pix[t]
  BY DEF Emptying
<1>6. p2 \in Map
  BY DEF Emptying, Map
<1>7. \A i, j \in 1..n : v[i] = v[j] => i = j
  OBVIOUS
<1>8. \A i, j \in 1..n : r[i] = r[j] => i = j
  BY <1>2, <1>7 DEF Owned, OneToOne
<1>9. \A i \in 1..Len(s) : s[i] \in Buffer /\ \A t \in Tile : pix[t] # s[i] /\ pnt[t] # s[i]
  BY DEF Owned
<1>10. \A i \in 1..Len(s), j \in 1..n : s[i] # r[j]
  BY <1>2, <1>9
<1>11. \A i, j \in 1..Len(s) : s[i] = s[j] => i = j
  BY DEF Owned
<1> HIDE DEF p2, s2
<1>12. \A i, j \in DOMAIN s2 : s2[i] = s2[j] => i = j
  <2> SUFFICES ASSUME NEW i \in 1..(Len(s) + n), NEW j \in 1..(Len(s) + n), s2[i] = s2[j]
               PROVE  i = j
    BY <1>3
  <2>1. CASE i <= Len(s) /\ j <= Len(s)
    BY <2>1, <1>4, <1>11
  <2>2. CASE i <= Len(s) /\ j > Len(s)
    <3>1. j - Len(s) \in 1..n /\ i \in 1..Len(s)
      BY <2>2
    <3> QED
      BY <2>2, <3>1, <1>4, <1>10
  <2>3. CASE i > Len(s) /\ j <= Len(s)
    <3>1. i - Len(s) \in 1..n /\ j \in 1..Len(s)
      BY <2>3
    <3> QED
      BY <2>3, <3>1, <1>4, <1>10
  <2>4. CASE i > Len(s) /\ j > Len(s)
    <3>1. i - Len(s) \in 1..n /\ j - Len(s) \in 1..n
      BY <2>4
    <3>2. i - Len(s) = j - Len(s)
      BY <2>4, <3>1, <1>4, <1>8
    <3> QED
      BY <3>2
  <2> QED
    BY <2>1, <2>2, <2>3, <2>4
<1>13. \A i \in DOMAIN s2, t \in Tile : p2[t] # s2[i] /\ pnt[t] # s2[i]
  <2> SUFFICES ASSUME NEW i \in 1..(Len(s) + n), NEW t \in Tile
               PROVE  p2[t] # s2[i] /\ pnt[t] # s2[i]
    BY <1>3
  <2>0. NoBuffer \notin Buffer
    BY GridAssumption
  <2>1. CASE i <= Len(s)
    BY <2>0, <2>1, <1>4, <1>5, <1>9
  <2>2. CASE i > Len(s)
    <3> DEFINE k == i - Len(s)
    <3>1. k \in 1..n /\ s2[i] = r[k]
      BY <2>2, <1>4
    <3> HIDE DEF k
    <3>2. pnt[t] # r[k]
      BY <3>1, <1>2 DEF Owned
    <3>3. pix[t] = r[k] => t = v[k]
      BY <3>1, <1>2 DEF Owned, OneToOne
    <3>4. v[k] \in Elems(v)
      BY <3>1 DEF Elems
    <3>5. p2[t] # r[k]
      BY <2>0, <3>1, <3>3, <3>4, <1>2, <1>5
    <3> QED
      BY <3>1, <3>2, <3>5
  <2> QED
    BY <2>1, <2>2
<1>14. OneToOne(p2) /\ \A t, u \in Tile : p2[t] # NoBuffer => p2[t] # pnt[u]
  BY <1>5 DEF Owned, OneToOne
<1>15. Owned(p2, pnt, s2)
  BY <1>12, <1>13, <1>14 DEF Owned
<1> QED
  BY <1>3, <1>6, <1>15 DEF p2, s2

(* The pool hands out a buffer that is its own, or one that is nobody's. *)
LEMMA PopOwned ==
    ASSUME NEW pix \in Map, NEW pnt \in Map, NEW s \in Seq(Buffer), Owned(pix, pnt, s),
           NEW c \in Tile, pnt[c] = NoBuffer, NEW b \in Buffer, NEW s2,
           \/ s = <<>> /\ s2 = s /\ \A t \in Tile : pix[t] # b /\ pnt[t] # b
           \/ s # <<>> /\ b = s[Len(s)] /\ s2 = SubSeq(s, 1, Len(s) - 1)
    PROVE  /\ s2 \in Seq(Buffer) /\ Len(s2) <= Len(s)
           /\ Owned(pix, [pnt EXCEPT ![c] = b], s2)
<1>0. NoBuffer \notin Buffer
  BY GridAssumption
<1>1. \A t \in Tile : [pnt EXCEPT ![c] = b][t] = IF t = c THEN b ELSE pnt[t]
  BY DEF Map
<1>2. CASE s = <<>> /\ s2 = s /\ \A t \in Tile : pix[t] # b /\ pnt[t] # b
  <2>1. DOMAIN s2 = {}
    BY <1>2
  <2> QED
    BY <1>0, <1>1, <1>2, <2>1 DEF Owned, OneToOne
<1>3. CASE s # <<>> /\ b = s[Len(s)] /\ s2 = SubSeq(s, 1, Len(s) - 1)
  <2> DEFINE m == Len(s) - 1
  <2>1. m \in 0..Len(s) /\ Len(s) = m + 1 /\ DOMAIN s = 1..(m + 1)
    BY <1>3
  <2>a. s2 = SubSeq(s, 1, m) /\ b = s[m + 1]
    BY <1>3, <2>1
  <2> HIDE DEF m
  <2>2. s2 \in Seq(Buffer) /\ Len(s2) = m /\ DOMAIN s2 = 1..m
    BY <2>1, <2>a
  <2>3. \A i \in 1..m : s2[i] = s[i]
    BY <2>1, <2>a
  <2>b. m \in Nat
    BY <2>1
  <2>4. \A t \in Tile : pix[t] # b /\ pnt[t] # b
    BY <2>1, <2>a, <2>b DEF Owned
  <2>5. \A i \in 1..m : s2[i] # b
    BY <2>1, <2>3, <2>a, <2>b DEF Owned
  <2>6. OneToOne([pnt EXCEPT ![c] = b])
    BY <1>0, <1>1, <2>4 DEF Owned, OneToOne
  <2>7. \A i, j \in DOMAIN s2 : s2[i] = s2[j] => i = j
    BY <2>1, <2>2, <2>3, <2>b DEF Owned
  <2>8. \A i \in DOMAIN s2, t \in Tile : pix[t] # s2[i] /\ [pnt EXCEPT ![c] = b][t] # s2[i]
    BY <1>1, <2>1, <2>2, <2>3, <2>5, <2>b DEF Owned
  <2>9. \A t, u \in Tile : pix[t] # NoBuffer => pix[t] # [pnt EXCEPT ![c] = b][u]
    BY <1>1, <2>4 DEF Owned
  <2> QED
    BY <2>1, <2>2, <2>6, <2>7, <2>8, <2>9 DEF Owned
<1> QED
  BY <1>2, <1>3

(* Pushing a buffer that no tile holds any more onto the free list. *)
LEMMA PushOwned ==
    ASSUME NEW pix \in Map, NEW pnt \in Map, NEW s \in Seq(Buffer), Owned(pix, pnt, s),
           NEW b \in Buffer, \A t \in Tile : pix[t] # b /\ pnt[t] # b,
           \A i \in DOMAIN s : s[i] # b
    PROVE  Append(s, b) \in Seq(Buffer) /\ Owned(pix, pnt, Append(s, b))
<1> DEFINE a == Append(s, b)
<1>1. a \in Seq(Buffer) /\ DOMAIN a = 1..(Len(s) + 1) /\ DOMAIN s = 1..Len(s)
  OBVIOUS
<1>2. \A i \in 1..(Len(s) + 1) : a[i] = IF i <= Len(s) THEN s[i] ELSE b
  OBVIOUS
<1> HIDE DEF a
<1>3. Len(s) \in Nat
  OBVIOUS
<1>4. \A i, j \in DOMAIN a : a[i] = a[j] => i = j
  BY <1>1, <1>2, <1>3 DEF Owned
<1>5. \A i \in DOMAIN a, t \in Tile : pix[t] # a[i] /\ pnt[t] # a[i]
  BY <1>1, <1>2, <1>3 DEF Owned
<1> QED
  BY <1>1, <1>4, <1>5 DEF Owned, a

(* A painting buffer goes back to the free list. *)
LEMMA ReturnOwned ==
    ASSUME NEW pix \in Map, NEW pnt \in Map, NEW s \in Seq(Buffer), Owned(pix, pnt, s),
           NEW c \in Tile, pnt[c] # NoBuffer
    PROVE  /\ Append(s, pnt[c]) \in Seq(Buffer)
           /\ Owned(pix, [pnt EXCEPT ![c] = NoBuffer], Append(s, pnt[c]))
<1> DEFINE q == [pnt EXCEPT ![c] = NoBuffer]
           b == pnt[c]
<1>0. NoBuffer \notin Buffer /\ b \in Buffer /\ q \in Map
  BY GridAssumption DEF Map
<1>1. \A t \in Tile : q[t] = IF t = c THEN NoBuffer ELSE pnt[t]
  BY DEF Map
<1>2. \A i \in DOMAIN s : s[i] # b /\ s[i] # NoBuffer
  BY <1>0 DEF Owned
<1>3. \A t \in Tile : pix[t] # b /\ q[t] # b
  BY <1>0, <1>1 DEF Owned, OneToOne
<1>4. Owned(pix, q, s)
  BY <1>1, <1>2 DEF Owned, OneToOne
<1> HIDE DEF q, b
<1>5. Append(s, b) \in Seq(Buffer) /\ Owned(pix, q, Append(s, b))
  BY <1>0, <1>2, <1>3, <1>4, PushOwned
<1> QED
  BY <1>5 DEF q, b

(* The pixels of a tile are let go of, with nothing in their place. *)
LEMMA ForgetOwned ==
    ASSUME NEW pix \in Map, NEW pnt \in Map, NEW s \in Seq(Buffer), Owned(pix, pnt, s),
           NEW c \in Tile, pix[c] # NoBuffer
    PROVE  /\ Append(s, pix[c]) \in Seq(Buffer)
           /\ Owned([pix EXCEPT ![c] = NoBuffer], pnt, Append(s, pix[c]))
<1> DEFINE p == [pix EXCEPT ![c] = NoBuffer]
           b == pix[c]
<1>0. NoBuffer \notin Buffer /\ b \in Buffer /\ p \in Map
  BY GridAssumption DEF Map
<1>1. \A t \in Tile : p[t] = IF t = c THEN NoBuffer ELSE pix[t]
  BY DEF Map
<1>2. \A i \in DOMAIN s : s[i] # b /\ s[i] # NoBuffer
  BY <1>0 DEF Owned
<1>3. \A t \in Tile : p[t] # b /\ pnt[t] # b
  BY <1>0, <1>1 DEF Owned, OneToOne
<1>4. Owned(p, pnt, s)
  BY <1>1, <1>2 DEF Owned, OneToOne
<1> HIDE DEF p, b
<1>5. Append(s, b) \in Seq(Buffer) /\ Owned(p, pnt, Append(s, b))
  BY <1>0, <1>2, <1>3, <1>4, PushOwned
<1> QED
  BY <1>5 DEF p, b

(* A finished raster moves from the painting buffer to the pixels. *)
LEMMA InstallOwned ==
    ASSUME NEW pix \in Map, NEW pnt \in Map, NEW s \in Seq(Buffer), Owned(pix, pnt, s),
           NEW c \in Tile, pix[c] = NoBuffer, pnt[c] # NoBuffer
    PROVE  Owned([pix EXCEPT ![c] = pnt[c]], [pnt EXCEPT ![c] = NoBuffer], s)
<1> DEFINE p == [pix EXCEPT ![c] = pnt[c]]
           q == [pnt EXCEPT ![c] = NoBuffer]
<1>0. NoBuffer \notin Buffer
  BY GridAssumption
<1>1. \A t \in Tile : p[t] = IF t = c THEN pnt[c] ELSE pix[t]
  BY DEF Map
<1>2. \A t \in Tile : q[t] = IF t = c THEN NoBuffer ELSE pnt[t]
  BY DEF Map
<1> HIDE DEF p, q
<1>3. OneToOne(p) /\ OneToOne(q)
  BY <1>1, <1>2 DEF Owned, OneToOne
<1>4. \A t, u \in Tile : p[t] # NoBuffer => p[t] # q[u]
  BY <1>1, <1>2 DEF Owned, OneToOne
<1>5. \A i \in DOMAIN s, t \in Tile : p[t] # s[i] /\ q[t] # s[i]
  BY <1>0, <1>1, <1>2 DEF Owned
<1>6. Owned(p, q, s)
  BY <1>3, <1>4, <1>5 DEF Owned
<1> QED
  BY <1>6 DEF p, q
-----------------------------------------------------------------------------
(* Counting. *)

(* The tiles that show pixels, and those being painted, are finitely many. *)
LEMMA Counts ==
    /\ IsFiniteSet(Holders) /\ Cardinality(Holders) \in Nat
    /\ IsFiniteSet(Painters) /\ Cardinality(Painters) \in Nat
<1>1. IsFiniteSet(Tile) /\ Holders \in SUBSET Tile /\ Painters \in SUBSET Tile
  BY GridAssumption DEF Holders, Painters
<1>2. IsFiniteSet(Holders) /\ IsFiniteSet(Painters)
  BY <1>1, FS_Subset
<1> QED
  BY <1>2, FS_CardinalityType

(* Walking the recency list visits distinct tiles. *)
LEMMA Walk ==
    ASSUME NEW S \in SUBSET Holders, NEW n \in Nat, NEW v \in OldestFirst(S, n)
    PROVE  /\ v \in [1..n -> Tile] /\ Elems(v) \subseteq S
           /\ \A i \in 1..n : v[i] \in S /\ pixels[v[i]] # NoBuffer
           /\ \A i, j \in 1..n : i < j => v[i] # v[j]
<1>1. v \in [1..n -> S] /\ \A i, j \in 1..n : i < j => v[i] # v[j]
  BY DEF OldestFirst
<1>2. \A t \in S : t \in Tile /\ pixels[t] # NoBuffer
  BY DEF Holders
<1> QED
  BY <1>1, <1>2 DEF Elems

(* It visits as many tiles as it takes steps. *)
LEMMA WalkCount ==
    ASSUME NEW S, IsFiniteSet(S), NEW n \in Nat, NEW v \in [1..n -> S],
           \A i, j \in 1..n : i < j => v[i] # v[j]
    PROVE  Cardinality(S \ Elems(v)) = Cardinality(S) - n
<1>1. \A i, j \in 1..n : v[i] = v[j] => i = j
  OBVIOUS
<1>2. Elems(v) \in SUBSET S /\ S \cap Elems(v) = Elems(v)
  BY DEF Elems
<1>3. v \in Surjection(1..n, Elems(v)) /\ v \in Injection(1..n, Elems(v))
  <2>1. DOMAIN v = 1..n /\ v \in [1..n -> Elems(v)]
    BY DEF Elems
  <2>2. \A x \in Elems(v) : \E i \in 1..n : v[i] = x
    BY <2>1 DEF Elems
  <2>3. v \in Surjection(1..n, Elems(v))
    BY <2>1, <2>2 DEF Surjection
  <2>4. v \in Injection(1..n, Elems(v))
    BY <2>1, <1>1 DEF Injection, IsInjective
  <2> QED
    BY <2>3, <2>4
<1>4. IsFiniteSet(1..n) /\ Cardinality(1..n) = n
  BY FS_Interval
<1>5. Cardinality(Elems(v)) = n
  BY <1>3, <1>4, FS_Surjection
<1> QED
  BY <1>2, <1>5, FS_Difference
-----------------------------------------------------------------------------
(* The ledger survives each operation. *)

(* An eviction of any tiles, followed by trimming. *)
LEMMA EvictLedger ==
    ASSUME Ledger, NEW S \in SUBSET Holders, NEW n \in Nat, NEW v \in OldestFirst(S, n)
    PROVE  /\ Emptying(pixels, v) \in Map
           /\ Retain(idle \o Released(v)) \in Seq(Buffer)
           /\ Len(Retain(idle \o Released(v))) <= MaxIdle
           /\ Owned(Emptying(pixels, v), painting, Retain(idle \o Released(v)))
<1>1. v \in [1..n -> Tile] /\ (\A i \in 1..n : pixels[v[i]] # NoBuffer)
      /\ (\A i, j \in 1..n : i < j => v[i] # v[j])
  BY Walk
<1>2. Released(v) = [i \in DOMAIN v |-> pixels[v[i]]]
  BY DEF Released
<1> DEFINE r == Released(v)
<1>3. /\ Emptying(pixels, v) \in Map /\ idle \o r \in Seq(Buffer)
      /\ Owned(Emptying(pixels, v), painting, idle \o r)
  <2> HIDE DEF r
  <2>1. r = [i \in DOMAIN v |-> pixels[v[i]]]
    BY <1>2 DEF r
  <2> QED
    BY <1>1, <2>1, DropOwned DEF Ledger
<1>4. painting \in Map
  BY DEF Ledger
<1> QED
  BY <1>3, <1>4, RetainOwned

(* What is left of the holders after an eviction. *)
LEMMA EvictHolders ==
    ASSUME NEW S \in SUBSET Holders, NEW n \in Nat, NEW v \in OldestFirst(S, n), DropAll(v)
    PROVE  /\ pixels' = Emptying(pixels, v)
           /\ Holders' = Holders \ Elems(v)
           /\ Cardinality(Holders') = Cardinality(Holders) - n
<1>1. pixels' = Emptying(pixels, v)
  BY DEF DropAll, Emptying
<1>2. Holders' = Holders \ Elems(v)
  BY <1>1 DEF Holders, Emptying
<1>3. v \in [1..n -> Holders] /\ \A i, j \in 1..n : i < j => v[i] # v[j]
  BY Walk DEF OldestFirst
<1>4. Cardinality(Holders \ Elems(v)) = Cardinality(Holders) - n
  BY <1>3, Counts, WalkCount
<1> QED
  BY <1>1, <1>2, <1>4

(* A step that moves no buffer. *)
LEMMA QuietLedger ==
    ASSUME Ledger, UNCHANGED bufferVars
    PROVE  Ledger'
<1>1. Holders' = Holders /\ Painters' = Painters
  BY DEF bufferVars, Holders, Painters
<1> QED
  BY <1>1 DEF Ledger, bufferVars, Accounted

(* Acquire: evict, trim, pop and paint. *)
LEMMA AcquireLedger ==
    ASSUME Ledger, RestOK, NEW c \in Tile, Acquire(c)
    PROVE  Ledger'
<1> DEFINE S == Evictable(c)
           n == Greater(0, Lesser(Cardinality(S), used + 1 - budget))
<1>1. PICK v \in OldestFirst(S, n), b \in Buffer :
         /\ DropAll(v)
         /\ Pop(Retain(idle \o Released(v)), b)
         /\ painting' = [painting EXCEPT ![c] = b]
         /\ used' = used - n + 1
  BY DEF Acquire
<1>2. painting[c] = NoBuffer /\ onOrder' = onOrder + 1
  BY DEF Acquire
<1>3. S \in SUBSET Holders /\ IsFiniteSet(S) /\ Cardinality(S) \in Nat
  <2>1. S \in SUBSET Holders
    BY DEF Evictable
  <2> QED
    BY <2>1, Counts, FS_Subset, FS_CardinalityType
<1>4. n \in Nat
  <2>1. used \in Int /\ budget \in Nat
    BY Counts, GridAssumption DEF Ledger, Accounted, RestOK
  <2> QED
    BY <1>3, <2>1 DEF Greater, Lesser
<1> HIDE DEF S, n
<1> DEFINE p == Emptying(pixels, v)
           s == Retain(idle \o Released(v))
<1>5. /\ p \in Map /\ s \in Seq(Buffer) /\ Len(s) <= MaxIdle
      /\ Owned(p, painting, s)
  BY <1>1, <1>3, <1>4, EvictLedger
<1>6. pixels' = p /\ Cardinality(Holders') = Cardinality(Holders) - n
  BY <1>1, <1>3, <1>4, EvictHolders
<1>7. \/ s = <<>> /\ idle' = s /\ \A t \in Tile : p[t] # b /\ painting[t] # b
      \/ s # <<>> /\ b = s[Len(s)] /\ idle' = SubSeq(s, 1, Len(s) - 1)
  <2>1. ASSUME b \in Buffer \ InUse
        PROVE  \A t \in Tile : p[t] # b /\ painting[t] # b
    <3>1. NoBuffer # b
      BY GridAssumption
    <3> QED
      BY <2>1, <3>1 DEF InUse, Holders, Painters, Emptying
  <2> QED
    BY <1>1, <2>1 DEF Pop
<1>8. painting \in Map
  BY DEF Ledger
<1> HIDE DEF p, s
<1>9. /\ idle' \in Seq(Buffer) /\ Len(idle') <= Len(s)
      /\ Owned(p, [painting EXCEPT ![c] = b], idle')
  BY <1>2, <1>5, <1>7, <1>8, PopOwned
<1>10. painting' \in Map
  BY <1>1, <1>8 DEF Map
<1>11. Len(idle') <= MaxIdle
  BY <1>5, <1>9, GridAssumption
<1>12. Accounted'
  <2>1. b # NoBuffer
    BY GridAssumption
  <2>2. Painters' = Painters \cup {c} /\ c \notin Painters
    BY <1>1, <1>2, <1>8, <2>1 DEF Painters, Map
  <2>3. Cardinality(Painters') = Cardinality(Painters) + 1
    BY <2>2, Counts, FS_AddElement
  <2> QED
    BY <1>1, <1>2, <1>4, <1>6, <2>3, Counts DEF Accounted, Ledger
<1> QED
  BY <1>1, <1>5, <1>6, <1>9, <1>10, <1>11, <1>12 DEF Ledger

(* Release: the painting buffer returns. *)
LEMMA ReleaseLedger ==
    ASSUME Ledger, NEW c \in Tile, Release(c)
    PROVE  Ledger'
<1> DEFINE a == Append(idle, painting[c])
           q == [painting EXCEPT ![c] = NoBuffer]
<1>1. /\ painting[c] # NoBuffer /\ painting' = q /\ idle' = Retain(a)
      /\ pixels' = pixels /\ used' = used - 1 /\ onOrder' = onOrder - 1
  BY DEF Release
<1>2. q \in Map /\ pixels \in Map
  BY DEF Ledger, Map
<1>3. a \in Seq(Buffer) /\ Owned(pixels, q, a)
  BY <1>1, ReturnOwned DEF Ledger
<1> HIDE DEF a, q
<1>4. /\ Retain(a) \in Seq(Buffer) /\ Len(Retain(a)) <= MaxIdle
      /\ Owned(pixels, q, Retain(a))
  BY <1>2, <1>3, RetainOwned
<1>5. Accounted'
  <2>1. Holders' = Holders /\ Painters' = Painters \ {c} /\ c \in Painters
    BY <1>1 DEF Holders, Painters, Ledger, Map, q
  <2>2. Cardinality(Painters') = Cardinality(Painters) - 1
    BY <2>1, Counts, FS_RemoveElement
  <2> QED
    BY <1>1, <2>1, <2>2, Counts DEF Accounted, Ledger
<1> QED
  BY <1>1, <1>2, <1>4, <1>5 DEF Ledger

(* MarkValid: the old pixels, if any, return and the raster replaces them. *)
LEMMA MarkValidLedger ==
    ASSUME Ledger, NEW c \in Tile, MarkValid(c)
    PROVE  Ledger'
<1> DEFINE p == [pixels EXCEPT ![c] = NoBuffer]
           q == [painting EXCEPT ![c] = NoBuffer]
           r == [pixels EXCEPT ![c] = painting[c]]
<1>1. /\ painting[c] # NoBuffer /\ pixels' = r /\ painting' = q
      /\ onOrder' = onOrder - 1 /\ Retire(c)
  BY DEF MarkValid
<1>2. /\ pixels \in Map /\ painting \in Map /\ p \in Map /\ q \in Map /\ r \in Map
      /\ p[c] = NoBuffer /\ r = [p EXCEPT ![c] = painting[c]]
  BY DEF Ledger, Map
<1>3. /\ idle' \in Seq(Buffer) /\ Len(idle') <= MaxIdle
      /\ Owned(p, painting, idle')
  <2>1. CASE pixels[c] = NoBuffer
    <3>1. p = pixels /\ idle' = idle
      BY <1>1, <1>2, <2>1 DEF Map, Retire
    <3> QED
      BY <3>1 DEF Ledger
  <2>2. CASE pixels[c] # NoBuffer
    <3> DEFINE a == Append(idle, pixels[c])
    <3>1. idle' = Retain(a)
      BY <1>1, <2>2 DEF Retire
    <3>2. a \in Seq(Buffer) /\ Owned(p, painting, a)
      BY <2>2, ForgetOwned DEF Ledger
    <3> HIDE DEF a, p
    <3> QED
      BY <1>2, <3>1, <3>2, RetainOwned
  <2> QED
    BY <2>1, <2>2
<1> HIDE DEF p
<1>4. Owned(r, q, idle')
  BY <1>1, <1>2, <1>3, InstallOwned
<1>5. Accounted'
  <2>1. Painters' = Painters \ {c} /\ c \in Painters
    BY <1>1, <1>2 DEF Painters, Map
  <2>2. Holders' = Holders \cup {c}
    BY <1>1, <1>2 DEF Holders, Map
  <2>3. Cardinality(Painters') = Cardinality(Painters) - 1
    BY <2>1, Counts, FS_RemoveElement
  <2>4. Cardinality(Holders') = IF pixels[c] = NoBuffer THEN Cardinality(Holders) + 1
                                                       ELSE Cardinality(Holders)
    BY <2>2, Counts, FS_AddElement DEF Holders
  <2>5. used' = IF pixels[c] = NoBuffer THEN used ELSE used - 1
    BY <1>1 DEF Retire
  <2> QED
    BY <1>1, <2>3, <2>4, <2>5, Counts DEF Accounted, Ledger
<1> QED
  BY <1>1, <1>2, <1>3, <1>4, <1>5 DEF Ledger

(* MarkFailed: the tile's pixels, if any, return. *)
LEMMA MarkFailedLedger ==
    ASSUME Ledger, NEW c \in Tile, MarkFailed(c)
    PROVE  Ledger'
<1>1. painting' = painting /\ onOrder' = onOrder /\ Retire(c)
  BY DEF MarkFailed
<1>2. CASE pixels[c] = NoBuffer
  BY <1>1, <1>2, QuietLedger DEF MarkFailed, Retire, bufferVars
<1>3. CASE pixels[c] # NoBuffer
  <2> DEFINE p == [pixels EXCEPT ![c] = NoBuffer]
             a == Append(idle, pixels[c])
  <2>1. idle' = Retain(a) /\ used' = used - 1
    BY <1>1, <1>3 DEF Retire
  <2>2. pixels \in Map /\ painting \in Map /\ p \in Map
    BY DEF Ledger, Map
  <2>3. pixels' = p
    <3>1. Elems(<<c>>) = {c}
      BY DEF Elems
    <3>2. DropAll(<<c>>)
      BY <1>3 DEF MarkFailed
    <3> QED
      BY <2>2, <3>1, <3>2 DEF DropAll, Map
  <2>4. a \in Seq(Buffer) /\ Owned(p, painting, a)
    BY <1>3, ForgetOwned DEF Ledger
  <2>5. Accounted'
    <3>1. Painters' = Painters /\ Holders' = Holders \ {c} /\ c \in Holders
      BY <1>1, <1>3, <2>2, <2>3 DEF Painters, Holders, Map
    <3>2. Cardinality(Holders') = Cardinality(Holders) - 1
      BY <3>1, Counts, FS_RemoveElement
    <3> QED
      BY <1>1, <2>1, <3>1, <3>2, Counts DEF Accounted, Ledger
  <2> HIDE DEF p, a
  <2>6. /\ Retain(a) \in Seq(Buffer) /\ Len(Retain(a)) <= MaxIdle
        /\ Owned(p, painting, Retain(a))
    BY <2>2, <2>4, RetainOwned
  <2> QED
    BY <1>1, <2>1, <2>2, <2>3, <2>5, <2>6 DEF Ledger
<1> QED
  BY <1>2, <1>3

(* SetBudget: any holder may go. *)
LEMMA SetBudgetLedger ==
    ASSUME Ledger, NEW b \in Budgets, SetBudget(b)
    PROVE  Ledger' /\ used' <= used
<1> DEFINE n == Greater(0, Lesser(Cardinality(Holders), used - b))
<1>1. PICK v \in OldestFirst(Holders, n) :
         DropAll(v) /\ idle' = Retain(idle \o Released(v)) /\ used' = used - n
  BY DEF SetBudget
<1>2. painting' = painting /\ onOrder' = onOrder
  BY DEF SetBudget
<1>3. n \in Nat
  <2>1. used \in Int /\ b \in Nat
    BY Counts, GridAssumption DEF Ledger, Accounted
  <2> QED
    BY <2>1, Counts DEF Greater, Lesser
<1> HIDE DEF n
<1>4. /\ Emptying(pixels, v) \in Map /\ idle' \in Seq(Buffer) /\ Len(idle') <= MaxIdle
      /\ Owned(Emptying(pixels, v), painting, idle')
  BY <1>1, <1>3, EvictLedger
<1>5. pixels' = Emptying(pixels, v) /\ Cardinality(Holders') = Cardinality(Holders) - n
  BY <1>1, <1>3, EvictHolders
<1>6. Painters' = Painters
  BY <1>2 DEF Painters
<1>7. Accounted' /\ used' <= used
  BY <1>1, <1>2, <1>3, <1>5, <1>6, Counts DEF Accounted, Ledger
<1> QED
  BY <1>2, <1>4, <1>5, <1>7 DEF Ledger
-----------------------------------------------------------------------------
(* Every step keeps the types of everything that is not a buffer. *)
LEMMA RestStep ==
    ASSUME RestOK, [Next]_vars
    PROVE  RestOK'
<1> USE DEF RestOK
<1>0. 0 \in 0..MaxTileAttempts /\ \A a \in 0..MaxTileAttempts : Lesser(a + 1, MaxTileAttempts) \in 0..MaxTileAttempts
  BY DEF Lesser, MaxTileAttempts
<1>1. ASSUME NEW c \in Tile, Submit(c) PROVE RestOK'
  <2>1. Acquire(c)
    BY <1>1 DEF Submit
  <2>2. PICK v : DropAll(v) /\ state' = [Emptied(v) EXCEPT ![c] = "stale"]
    BY <2>1 DEF Acquire
  <2>3. /\ UNCHANGED <<budget, contentVars, suspect>>
        /\ attempts' = [attempts EXCEPT ![c] = Lesser(@ + 1, MaxTileAttempts)]
        /\ order' = [order EXCEPT ![c] = [ver |-> layerVer, rev |-> changed[c]]]
    BY <2>1 DEF Acquire
  <2> QED
    BY <1>0, <2>2, <2>3 DEF DropAll, Emptied, contentVars
<1>2. ASSUME NEW c \in Tile, Install(c) PROVE RestOK'
  BY <1>0, <1>2 DEF Install, MarkValid, contentVars
<1>3. ASSUME NEW c \in Tile, Discard(c) PROVE RestOK'
  BY <1>3 DEF Discard, ReleaseUnpainted, Release, contentVars
<1>4. ASSUME NEW c \in Tile, Fail(c) PROVE RestOK'
  BY <1>0, <1>4 DEF Fail, ReleaseFailed, Release, contentVars
<1>5. ASSUME NEW c \in Tile, GiveUp(c) PROVE RestOK'
  BY <1>5 DEF GiveUp, MarkFailed, DropAll, contentVars
<1>6. ASSUME NEW ts, Touch(ts) PROVE RestOK'
  BY <1>6 DEF Touch, contentVars
<1>7. ASSUME NEW b \in Budgets, SetBudget(b) PROVE RestOK'
  <2>1. PICK v : DropAll(v) /\ state' = Emptied(v)
    BY <1>7 DEF SetBudget
  <2>2. budget' = b /\ UNCHANGED <<attempts, order, contentVars, suspect>>
    BY <1>7 DEF SetBudget
  <2> QED
    BY <2>1, <2>2 DEF DropAll, Emptied, contentVars
<1>8. ASSUME NEW D, NEW v \in {layerVer, layerVer + 1}, Replace(D, v) PROVE RestOK'
  BY <1>0, <1>8 DEF Replace, Swap, NewRevision
<1>9. ASSUME NEW D, Bump(D) PROVE RestOK'
  BY <1>0, <1>9 DEF Bump, NewRevision
<1>10. ASSUME UNCHANGED vars PROVE RestOK'
  BY <1>10 DEF vars, contentVars
<1> QED
  BY <1>1, <1>2, <1>3, <1>4, <1>5, <1>6, <1>7, <1>8, <1>9, <1>10 DEF Next
-----------------------------------------------------------------------------
(* An empty grid satisfies the invariant. *)
LEMMA InitInv == Init => IInv
<1> SUFFICES ASSUME Init PROVE IInv
  OBVIOUS
<1>1. Holders = {} /\ Painters = {}
  BY DEF Init, Holders, Painters
<1>2. Accounted
  BY <1>1, FS_EmptySet DEF Accounted, Init
<1>3. idle \in Seq(Buffer) /\ Len(idle) = 0 /\ DOMAIN idle = {}
  BY DEF Init
<1>4. Owned(pixels, painting, idle)
  BY <1>3 DEF Owned, OneToOne, Init
<1>5. Ledger
  BY <1>2, <1>3, <1>4, GridAssumption DEF Ledger, Init, Map
<1>6. RestOK
  BY DEF RestOK, Init, MaxTileAttempts
<1> QED
  BY <1>5, <1>6 DEF IInv

(* Every action moves buffers by one of the calls above, or not at all. *)
LEMMA LedgerStep ==
    ASSUME IInv, [Next]_vars
    PROVE  Ledger'
<1> USE DEF IInv
<1>1. ASSUME NEW c \in Tile, Submit(c) PROVE Ledger'
  BY <1>1, AcquireLedger DEF Submit
<1>2. ASSUME NEW c \in Tile, Install(c) PROVE Ledger'
  BY <1>2, MarkValidLedger DEF Install
<1>3. ASSUME NEW c \in Tile, Discard(c) PROVE Ledger'
  BY <1>3, ReleaseLedger DEF Discard, ReleaseUnpainted
<1>4. ASSUME NEW c \in Tile, Fail(c) PROVE Ledger'
  BY <1>4, ReleaseLedger DEF Fail, ReleaseFailed
<1>5. ASSUME NEW c \in Tile, GiveUp(c) PROVE Ledger'
  BY <1>5, MarkFailedLedger DEF GiveUp
<1>6. ASSUME NEW ts, Touch(ts) PROVE Ledger'
  BY <1>6, QuietLedger DEF Touch
<1>7. ASSUME NEW b \in Budgets, SetBudget(b) PROVE Ledger'
  BY <1>7, SetBudgetLedger
<1>8. ASSUME NEW D, NEW v, Replace(D, v) PROVE Ledger'
  BY <1>8, QuietLedger DEF Replace, Swap
<1>9. ASSUME NEW D, Bump(D) PROVE Ledger'
  BY <1>9, QuietLedger DEF Bump
<1>10. ASSUME UNCHANGED vars PROVE Ledger'
  BY <1>10, QuietLedger DEF vars
<1> QED
  BY <1>1, <1>2, <1>3, <1>4, <1>5, <1>6, <1>7, <1>8, <1>9, <1>10 DEF Next

(* The inductive invariant: types, one owner per buffer, exact counts. *)
THEOREM Invariance == Spec => []IInv
<1>1. IInv /\ [Next]_vars => IInv'
  BY LedgerStep, RestStep DEF IInv
<1> QED
  BY InitInv, <1>1, PTL DEF Spec

(* Every variable keeps its type, and the free list its bound. *)
THEOREM TypeCorrect == Spec => []TypeOK
<1>1. IInv => TypeOK
  <2> SUFFICES ASSUME IInv PROVE TypeOK
    OBVIOUS
  <2>1. used \in Int /\ onOrder \in Int
    BY Counts DEF IInv, Ledger, Accounted
  <2> QED
    BY <2>1 DEF IInv, Ledger, RestOK, Map, TypeOK
<1> QED
  BY Invariance, <1>1, PTL

(* A buffer is shown by one tile, painted for one tile, or free. *)
THEOREM EveryBufferHasOneOwner == Spec => []OneOwner
<1>1. IInv => OneOwner
  <2> SUFFICES ASSUME IInv PROVE OneOwner
    OBVIOUS
  <2>1. NoBuffer \notin Buffer /\ \A i \in DOMAIN idle : idle[i] \in Buffer
    BY GridAssumption DEF IInv, Ledger
  <2>2. Owned(pixels, painting, idle)
    BY DEF IInv, Ledger
  <2> QED
    BY <2>1, <2>2 DEF Owned, OneToOne, OneOwner, Holders, Painters
<1> QED
  BY Invariance, <1>1, PTL

(* used and painting are what the tiles really hold. *)
THEOREM BytesAreAccounted == Spec => []Accounted
<1>1. IInv => Accounted
  BY DEF IInv, Ledger
<1> QED
  BY Invariance, <1>1, PTL
-----------------------------------------------------------------------------
(* The memory plateau: the cache grows only by ordering a tile, and goes    *)
(* past its budget that way in one case, by one tile.  Then the whole budget *)
(* is on order, and the only pixels left are those of a tile that is being  *)
(* drawn anew, which eviction spares (grid.go:401-420).  Scheduler.Submit's *)
(* comment says that its admission keeps used <= budget true; it does in    *)
(* every other case.                                                        *)
Plateau ==
    [][/\ used' > used => onOrder' > onOrder
       /\ onOrder' > onOrder /\ used' > budget' =>
            /\ used' = budget' + 1 /\ onOrder' = budget'
            /\ \E c \in Tile : Holders' = {c} /\ painting'[c] # NoBuffer]_vars

(* An admitted acquire evicts until the new buffer fits, or until nothing is *)
(* left but buffers on order, which the admission test bounds, and the       *)
(* tile's own pixels.                                                       *)
LEMMA AcquirePlateau ==
    ASSUME IInv, NEW c \in Tile, Acquire(c), onOrder + 1 <= budget, used' > budget'
    PROVE  /\ used' = budget' + 1 /\ onOrder' = budget'
           /\ Holders' = {c} /\ painting'[c] # NoBuffer
<1> DEFINE S == Evictable(c)
           n == Greater(0, Lesser(Cardinality(S), used + 1 - budget))
<1>1. used' = used - n + 1 /\ onOrder' = onOrder + 1 /\ budget' = budget
  BY DEF Acquire
<1>2. /\ used = Cardinality(Holders) + Cardinality(Painters)
      /\ onOrder = Cardinality(Painters)
      /\ budget \in Nat
  BY GridAssumption DEF IInv, Ledger, Accounted, RestOK
<1>3. /\ Cardinality(S) \in Nat
      /\ Cardinality(S) = IF c \in Holders THEN Cardinality(Holders) - 1
                                           ELSE Cardinality(Holders)
  <2>1. S = Holders \ {c}
    BY DEF Evictable
  <2>2. IsFiniteSet(S)
    BY <2>1, Counts, FS_RemoveElement
  <2> QED
    BY <2>1, <2>2, Counts, FS_RemoveElement, FS_CardinalityType
<1>4. PICK v \in OldestFirst(S, n), b \in Buffer :
        /\ DropAll(v)
        /\ painting' = [painting EXCEPT ![c] = b]
  BY DEF Acquire
<1>5. Elems(v) \subseteq Holders \ {c}
  BY <1>4 DEF OldestFirst, Elems, Evictable
<1> HIDE DEF S
<1>6. n \in Nat /\ (n >= used + 1 - budget \/ n >= Cardinality(S))
  BY <1>2, <1>3, Counts DEF Greater, Lesser
<1> HIDE DEF n
<1>7. /\ used' = budget + 1 /\ onOrder' = budget /\ c \in Holders
  BY <1>1, <1>2, <1>3, <1>6, Counts
<1>8. /\ IsFiniteSet(Holders') /\ Cardinality(Holders') \in Nat
      /\ IsFiniteSet(Painters') /\ Cardinality(Painters') \in Nat
  <2>1. Holders' \in SUBSET Tile /\ Painters' \in SUBSET Tile /\ IsFiniteSet(Tile)
    BY GridAssumption DEF Holders, Painters
  <2> QED
    BY <2>1, FS_Subset, FS_CardinalityType
<1>9. Cardinality(Holders') = 1
  <2>1. Ledger'
    BY AcquireLedger DEF IInv
  <2>2. used' = Cardinality(Holders') + Cardinality(Painters') /\ onOrder' = Cardinality(Painters')
    BY <2>1 DEF Ledger, Accounted
  <2> QED
    BY <1>2, <1>7, <1>8, <2>2
<1>10. c \in Holders'
  BY <1>4, <1>5, <1>7 DEF DropAll, Holders
<1>11. painting'[c] # NoBuffer
  BY <1>4, GridAssumption DEF IInv, Ledger, Map
<1>12. Holders' = {c}
  BY <1>8, <1>9, <1>10, FS_Singleton
<1> QED
  BY <1>1, <1>7, <1>11, <1>12

(* The cache stays on that plateau, whatever its budget is set to.          *)
THEOREM CacheStaysOnItsPlateau == Spec => Plateau
<1> DEFINE Grows == /\ used' > used => onOrder' > onOrder
                    /\ onOrder' > onOrder /\ used' > budget' =>
                         /\ used' = budget' + 1 /\ onOrder' = budget'
                         /\ \E c \in Tile : Holders' = {c} /\ painting'[c] # NoBuffer
<1>1. IInv /\ [Next]_vars => [Grows]_vars
  <2> SUFFICES ASSUME IInv, [Next]_vars PROVE Grows \/ UNCHANGED vars
    OBVIOUS
  <2>0. used \in Int /\ onOrder \in Int
    BY Counts DEF IInv, Ledger, Accounted
  <2>1. ASSUME NEW c \in Tile, Submit(c) PROVE Grows
    <3>1. Acquire(c) /\ onOrder + 1 <= budget
      BY <2>1 DEF Submit
    <3>2. onOrder' > onOrder
      BY <2>0, <3>1 DEF Acquire
    <3> QED
      BY <3>1, <3>2, AcquirePlateau
  <2>2. ASSUME NEW c \in Tile, Install(c) PROVE Grows
    BY <2>0, <2>2 DEF Install, MarkValid, Retire
  <2>3. ASSUME NEW c \in Tile, Discard(c) PROVE Grows
    BY <2>0, <2>3 DEF Discard, ReleaseUnpainted, Release
  <2>4. ASSUME NEW c \in Tile, Fail(c) PROVE Grows
    BY <2>0, <2>4 DEF Fail, ReleaseFailed, Release
  <2>5. ASSUME NEW c \in Tile, GiveUp(c) PROVE Grows
    BY <2>0, <2>5 DEF GiveUp, MarkFailed, Retire
  <2>6. ASSUME NEW b \in Budgets, SetBudget(b) PROVE Grows
    <3>1. used' <= used
      BY <2>6, SetBudgetLedger DEF IInv
    <3>2. onOrder' = onOrder
      BY <2>6 DEF SetBudget
    <3>3. used' \in Int
      <4>1. Ledger'
        BY <2>6, SetBudgetLedger DEF IInv
      <4>2. Holders' \in SUBSET Tile /\ Painters' \in SUBSET Tile /\ IsFiniteSet(Tile)
        BY GridAssumption DEF Holders, Painters
      <4>3. Cardinality(Holders') \in Nat /\ Cardinality(Painters') \in Nat
        BY <4>2, FS_Subset, FS_CardinalityType
      <4> QED
        BY <4>1, <4>3 DEF Ledger, Accounted
    <3> QED
      BY <2>0, <3>1, <3>2, <3>3
  <2>7. ASSUME UNCHANGED bufferVars PROVE Grows
    BY <2>0, <2>7 DEF bufferVars
  <2>8. ASSUME NEW ts, Touch(ts) PROVE Grows
    BY <2>7, <2>8 DEF Touch
  <2>9. ASSUME NEW D, NEW v, Replace(D, v) PROVE Grows
    BY <2>7, <2>9 DEF Replace, Swap
  <2>10. ASSUME NEW D, Bump(D) PROVE Grows
    BY <2>7, <2>10 DEF Bump
  <2> QED
    BY <2>1, <2>2, <2>3, <2>4, <2>5, <2>6, <2>8, <2>9, <2>10 DEF Next
<1> QED
  BY Invariance, <1>1, PTL DEF Spec, Plateau
-----------------------------------------------------------------------------
(* What dropping the pixels of evicted tiles does to one tile. *)
LEMMA DropTile ==
    ASSUME NEW v, DropAll(v), NEW t \in Tile
    PROVE  /\ pixels'[t] = IF t \in Elems(v) THEN NoBuffer ELSE pixels[t]
           /\ drawn'[t] = IF t \in Elems(v) THEN 0 ELSE drawn[t]
           /\ Emptied(v)[t] = IF t \in Elems(v) THEN "empty" ELSE state[t]
BY DEF DropAll, Emptied

(* Evicted tiles are empty and failed ones hold nothing; only an install   *)
(* or a promotion of pixels makes a tile valid.                            *)
THEOREM StatesFitPixels == Spec => []StateFitsPixels
<1> DEFINE Fits(t) == /\ state[t] = "valid" => pixels[t] # NoBuffer
                      /\ state[t] \in {"empty", "failed"} => pixels[t] = NoBuffer
           Fit == \A t \in Tile : Fits(t)
<1>1. Init => Fit
  BY DEF Init
<1>2. IInv /\ Fit /\ [Next]_vars => Fit'
  <2> SUFFICES ASSUME IInv, Fit, [Next]_vars PROVE Fit'
    OBVIOUS
  <2>0. /\ state \in [Tile -> {"empty", "valid", "stale", "failed"}]
        /\ pixels \in Map /\ painting \in Map /\ NoBuffer \notin Buffer
    BY GridAssumption DEF IInv, RestOK, Ledger
  <2>1. ASSUME NEW c \in Tile, Submit(c) PROVE Fit'
    <3>1. PICK v : DropAll(v) /\ state' = [Emptied(v) EXCEPT ![c] = "stale"]
      BY <2>1 DEF Submit, Acquire
    <3>2. \A t \in Tile : state'[t] = IF t = c THEN "stale" ELSE Emptied(v)[t]
      BY <3>1 DEF Emptied
    <3> QED
      BY <3>1, <3>2, DropTile
  <2>2. ASSUME NEW c \in Tile, Install(c) PROVE Fit'
    BY <2>0, <2>2 DEF Install, MarkValid, Map
  <2>3. ASSUME NEW c \in Tile, Discard(c) \/ Fail(c) PROVE Fit'
    BY <2>3 DEF Discard, ReleaseUnpainted, Fail, ReleaseFailed, Release
  <2>4. ASSUME NEW c \in Tile, GiveUp(c) PROVE Fit'
    <3>1. state' = [state EXCEPT ![c] = "failed"]
      BY <2>4 DEF GiveUp, MarkFailed
    <3>2. Elems(<<c>>) = {c}
      BY DEF Elems
    <3>3. \A t \in Tile : pixels'[t] = IF t = c THEN NoBuffer ELSE pixels[t]
      BY <2>4, <3>2, DropTile DEF GiveUp, MarkFailed
    <3> QED
      BY <2>0, <3>1, <3>3
  <2>5. ASSUME NEW b \in Budgets, SetBudget(b) PROVE Fit'
    <3>1. PICK v : DropAll(v) /\ state' = Emptied(v)
      BY <2>5 DEF SetBudget
    <3> QED
      BY <3>1, DropTile
  <2>6. ASSUME NEW D, NEW v, Replace(D, v) PROVE Fit'
    BY <2>0, <2>6 DEF Replace, Swap, bufferVars
  <2>7. ASSUME NEW D, Bump(D) PROVE Fit'
    BY <2>0, <2>7 DEF Bump, bufferVars, Promotes
  <2>8. ASSUME NEW ts, Touch(ts) PROVE Fit'
    BY <2>8 DEF Touch, bufferVars
  <2>9. ASSUME UNCHANGED vars PROVE Fit'
    BY <2>9 DEF vars, bufferVars
  <2> QED
    BY <2>1, <2>2, <2>3, <2>4, <2>5, <2>6, <2>7, <2>8, <2>9 DEF Next
<1>3. Fit => StateFitsPixels
  BY DEF StateFitsPixels, Holders
<1> HIDE DEF Fit
<1> QED
  BY Invariance, <1>1, <1>2, <1>3, PTL DEF Spec

(* Without Layer.Bump, a tile the layer asks no raster for shows its       *)
(* newest content.  Replacing content only where nothing is on order is    *)
(* what keeps the revision on order equal to the tile's newest.            *)
THEOREM ValidTilesAreCurrent ==
    ASSUME ~Bumps
    PROVE  Spec => []CurrentWhenValid
<1> DEFINE Fresh == \A t \in Tile : /\ state[t] = "valid" => drawn[t] = changed[t]
                                    /\ painting[t] # NoBuffer => order[t].rev = changed[t]
<1>1. Init => Fresh
  BY DEF Init
<1>2. IInv /\ Fresh /\ [Next]_vars => Fresh'
  <2> SUFFICES ASSUME IInv, Fresh, [Next]_vars PROVE Fresh'
    OBVIOUS
  <2>0. /\ state \in [Tile -> {"empty", "valid", "stale", "failed"}]
        /\ painting \in Map /\ NoBuffer \notin Buffer
        /\ drawn \in [Tile -> Nat] /\ order \in [Tile -> [ver : Nat, rev : Nat]]
    BY GridAssumption DEF IInv, RestOK, Ledger
  <2>1. ASSUME NEW c \in Tile, Submit(c) PROVE Fresh'
    <3>1. PICK v, b : /\ DropAll(v) /\ state' = [Emptied(v) EXCEPT ![c] = "stale"]
                      /\ painting' = [painting EXCEPT ![c] = b]
      BY <2>1 DEF Submit, Acquire
    <3>2. \A t \in Tile : state'[t] = IF t = c THEN "stale" ELSE Emptied(v)[t]
      BY <3>1 DEF Emptied
    <3>3. changed' = changed /\ order' = [order EXCEPT ![c] = [ver |-> layerVer, rev |-> changed[c]]]
      BY <2>1 DEF Submit, Acquire, contentVars
    <3>4. \A t \in Tile : painting'[t] # NoBuffer => order'[t].rev = changed'[t]
      BY <2>0, <3>1, <3>3 DEF Map
    <3>5. \A t \in Tile : state'[t] = "valid" => drawn'[t] = changed'[t]
      BY <3>1, <3>2, <3>3, DropTile
    <3> QED
      BY <3>4, <3>5
  <2>2. ASSUME NEW c \in Tile, Install(c) PROVE Fresh'
    BY <2>0, <2>2 DEF Install, MarkValid, Map, contentVars
  <2>3. ASSUME NEW c \in Tile, Discard(c) \/ Fail(c) PROVE Fresh'
    BY <2>0, <2>3 DEF Discard, ReleaseUnpainted, Fail, ReleaseFailed, Release, Map, contentVars
  <2>4. ASSUME NEW c \in Tile, GiveUp(c) PROVE Fresh'
    <3>1. state' = [state EXCEPT ![c] = "failed"] /\ UNCHANGED <<painting, order, changed>>
      BY <2>4 DEF GiveUp, MarkFailed, contentVars
    <3>2. Elems(<<c>>) = {c}
      BY DEF Elems
    <3>3. \A t \in Tile : t # c => drawn'[t] = drawn[t]
      BY <2>4, <3>2, DropTile DEF GiveUp, MarkFailed
    <3> QED
      BY <2>0, <3>1, <3>3
  <2>5. ASSUME NEW b \in Budgets, SetBudget(b) PROVE Fresh'
    <3>1. PICK v : DropAll(v) /\ state' = Emptied(v)
      BY <2>5 DEF SetBudget
    <3>2. UNCHANGED <<painting, order, changed>>
      BY <2>5 DEF SetBudget, contentVars
    <3> QED
      BY <3>1, <3>2, DropTile
  <2>6. ASSUME NEW D, NEW v, Replace(D, v) PROVE Fresh'
    <3>1. /\ \A t \in D : painting[t] = NoBuffer
          /\ UNCHANGED <<painting, order, drawn>>
      BY <2>6 DEF Replace, Swap, InFlight, bufferVars
    <3>2. \A t \in Tile : t \notin D => changed'[t] = changed[t]
      BY <2>6 DEF Replace, Swap, NewRevision
    <3>3. \A t \in Tile : state'[t] = "valid" => t \notin D /\ state[t] = "valid"
      BY <2>0, <2>6 DEF Replace, Swap
    <3>4. ASSUME NEW t \in Tile, state'[t] = "valid" PROVE drawn'[t] = changed'[t]
      <4>1. t \notin D /\ state[t] = "valid"
        BY <3>3, <3>4
      <4>2. drawn'[t] = drawn[t] /\ changed'[t] = changed[t]
        BY <3>1, <3>2, <4>1
      <4> QED
        BY <4>1, <4>2
    <3>5. ASSUME NEW t \in Tile PROVE painting'[t] # NoBuffer => order'[t].rev = changed'[t]
      <4>1. painting'[t] = painting[t] /\ order'[t] = order[t]
        BY <3>1
      <4> QED
        BY <3>1, <3>2, <4>1
    <3> QED
      BY <3>4, <3>5
  <2>7. ASSUME NEW D, Bump(D) PROVE Fresh'
    BY <2>7 DEF Bump
  <2>8. ASSUME NEW ts, Touch(ts) PROVE Fresh'
    BY <2>8 DEF Touch, bufferVars, contentVars
  <2>9. ASSUME UNCHANGED vars PROVE Fresh'
    BY <2>9 DEF vars, bufferVars, contentVars
  <2> QED
    BY <2>1, <2>2, <2>3, <2>4, <2>5, <2>6, <2>7, <2>8, <2>9 DEF Next
<1>3. Fresh => CurrentWhenValid
  BY DEF CurrentWhenValid, Needs, ValidAt
<1> HIDE DEF Fresh
<1> QED
  BY Invariance, <1>1, <1>2, <1>3, PTL DEF Spec
-----------------------------------------------------------------------------
(* The recency list.  It names the tiles of a set, each once; eviction     *)
(* takes a tile out of the list and of the set, an install puts one first. *)
Lists(l, S) ==
    /\ l \in Seq(Tile) /\ Elems(l) = S
    /\ \A i, j \in DOMAIN l : l[i] = l[j] => i = j

Threaded == Lists(lru, Holders)

(* Taking tiles out of a list takes them out of what it names. *)
LEMMA ListWithout ==
    ASSUME NEW l, NEW S, Lists(l, S), NEW X
    PROVE  Lists(Without(l, X), S \ X)
<1> DEFINE I == {i \in DOMAIN l : l[i] \notin X}
<1>1. /\ l \in Seq(Tile) /\ Elems(l) = S /\ I \in SUBSET DOMAIN l
      /\ \A i, j \in DOMAIN l : l[i] = l[j] => i = j
  BY DEF Lists
<1>2. S \ X = {l[i] : i \in I}
  BY <1>1 DEF Elems
<1>3. Without(l, X) = At(l, I)
  BY DEF Without
<1> HIDE DEF I
<1>4. At(l, I) \in Seq(Tile)
  BY <1>1, Kept
<1>5. Elems(At(l, I)) = {l[i] : i \in I}
  <2>1. Members(At(l, I)) = {l[i] : i \in I}
    BY <1>1, KeptMembers
  <2> QED
    BY <2>1 DEF Members, Elems
<1>6. \A j, k \in DOMAIN At(l, I) : At(l, I)[j] = At(l, I)[k] => j = k
  BY <1>1, KeptDistinct
<1> QED
  BY <1>2, <1>3, <1>4, <1>5, <1>6 DEF Lists

(* Putting a tile first adds it to them. *)
LEMMA ListFirst ==
    ASSUME NEW l, NEW S, Lists(l, S), NEW t \in Tile
    PROVE  Lists(<<t>> \o Without(l, {t}), S \cup {t})
<1> DEFINE r == Without(l, {t})
           q == <<t>> \o r
<1>1. Lists(r, S \ {t})
  BY ListWithout
<1> HIDE DEF r
<1>2. /\ r \in Seq(Tile) /\ Len(r) \in Nat /\ DOMAIN r = 1..Len(r)
      /\ Elems(r) = S \ {t}
      /\ \A i, j \in DOMAIN r : r[i] = r[j] => i = j
  BY <1>1 DEF Lists
<1>3. /\ q \in Seq(Tile) /\ Len(q) = Len(r) + 1 /\ DOMAIN q = 1..(Len(r) + 1)
      /\ q[1] = t /\ \A i \in 2..(Len(r) + 1) : q[i] = r[i - 1]
  BY <1>2
<1> HIDE DEF q
<1>4. \A i \in 1..Len(r) : q[i + 1] = r[i]
  BY <1>2, <1>3
<1>5. Elems(q) = S \cup {t}
  <2>1. ASSUME NEW i \in DOMAIN q PROVE q[i] \in Elems(r) \cup {t}
    <3>1. i = 1 \/ i - 1 \in DOMAIN r
      BY <1>2, <1>3
    <3> QED
      BY <1>2, <1>3, <3>1 DEF Elems
  <2>2. \A i \in DOMAIN r : r[i] \in Elems(q)
    BY <1>2, <1>3, <1>4 DEF Elems
  <2>3. t \in Elems(q)
    BY <1>2, <1>3 DEF Elems
  <2>4. Elems(q) = Elems(r) \cup {t}
    BY <2>1, <2>2, <2>3 DEF Elems
  <2> QED
    BY <1>2, <2>4
<1>6. \A i \in DOMAIN r : r[i] # t
  BY <1>2 DEF Elems
<1>7. ASSUME NEW i \in DOMAIN q, NEW j \in DOMAIN q, q[i] = q[j] PROVE i = j
  <2>1. CASE i = 1 /\ j = 1
    BY <2>1
  <2>2. CASE i # 1 /\ j # 1
    <3>1. i - 1 \in DOMAIN r /\ j - 1 \in DOMAIN r /\ r[i - 1] = r[j - 1]
      BY <1>2, <1>3, <1>7, <2>2
    <3> QED
      BY <1>2, <1>3, <3>1
  <2>3. CASE i = 1 /\ j # 1
    BY <1>2, <1>3, <1>6, <1>7, <2>3
  <2>4. CASE i # 1 /\ j = 1
    BY <1>2, <1>3, <1>6, <1>7, <2>4
  <2> QED
    BY <2>1, <2>2, <2>3, <2>4
<1> QED
  BY <1>3, <1>5, <1>7 DEF Lists, q, r

(* The tiles of S come first in l. *)
Leading(l, S) == \A i, j \in DOMAIN l : l[i] \in S /\ l[j] \notin S => i < j

(* They still do when some are taken out, ... *)
LEMMA LeadingWithout ==
    ASSUME NEW l \in Seq(Tile), NEW S, Leading(l, S), NEW X
    PROVE  Leading(Without(l, X), S)
<1> DEFINE I == {i \in DOMAIN l : l[i] \notin X}
           n == Cardinality(I)
           r == At(l, I)
<1>1. Without(l, X) = r /\ I \in SUBSET DOMAIN l
  BY DEF Without
<1> HIDE DEF I
<1>2. /\ n \in Nat /\ DOMAIN r = 1..n
      /\ \A k \in 1..n : Place(I, k) \in I /\ r[k] = l[Place(I, k)]
      /\ \A j, k \in 1..n : j < k <=> Place(I, j) < Place(I, k)
  BY <1>1, Kept
<1> HIDE DEF n, r
<1> SUFFICES ASSUME NEW i \in 1..n, NEW j \in 1..n, r[i] \in S, r[j] \notin S PROVE i < j
  BY <1>1, <1>2 DEF Leading
<1>3. Place(I, i) < Place(I, j)
  BY <1>1, <1>2 DEF Leading
<1> QED
  BY <1>2, <1>3

(* ... and when another one is put first. *)
LEMMA LeadingFirst ==
    ASSUME NEW l \in Seq(Tile), NEW S, Leading(l, S), NEW t \in Tile,
           \A i \in DOMAIN Without(l, {t}) : Without(l, {t})[i] # t
    PROVE  Leading(<<t>> \o Without(l, {t}), S \cup {t})
<1> DEFINE r == Without(l, {t})
           q == <<t>> \o r
<1>1. Leading(r, S)
  BY LeadingWithout
<1>2. r \in Seq(Tile)
  <2>1. {i \in DOMAIN l : l[i] \notin {t}} \in SUBSET DOMAIN l
    OBVIOUS
  <2> QED
    BY <2>1, Kept DEF Without
<1>3. \A i \in DOMAIN r : r[i] # t
  OBVIOUS
<1> HIDE DEF r
<1>4. /\ Len(r) \in Nat /\ DOMAIN r = 1..Len(r) /\ DOMAIN q = 1..(Len(r) + 1)
      /\ q[1] = t /\ \A i \in 2..(Len(r) + 1) : q[i] = r[i - 1]
  BY <1>2
<1> HIDE DEF q
<1> SUFFICES ASSUME NEW i \in DOMAIN q, NEW j \in DOMAIN q,
                    q[i] \in S \cup {t}, q[j] \notin S \cup {t}
             PROVE  i < j
  BY DEF Leading, q, r
<1>5. j # 1 /\ j - 1 \in DOMAIN r /\ q[j] = r[j - 1]
  BY <1>4
<1>6. CASE i = 1
  BY <1>4, <1>5, <1>6
<1>7. CASE i # 1
  <2>1. i - 1 \in DOMAIN r /\ q[i] = r[i - 1]
    BY <1>4, <1>7
  <2>2. r[i - 1] \in S /\ r[j - 1] \notin S
    BY <1>3, <1>5, <2>1
  <2>3. i - 1 < j - 1
    BY <1>1, <1>5, <2>1, <2>2 DEF Leading
  <2> QED
    BY <1>4, <2>3
<1> QED
  BY <1>6, <1>7

(* Touching the tiles of a frame one after the other: the recursion has a  *)
(* value, ...                                                              *)
LEMMA TouchedInTurn ==
    ASSUME NEW ts \in Seq(Tile)
    PROVE  \E after : /\ after[0] = lru /\ TouchedBy(ts) = after[Len(ts)]
                     /\ \A i \in 1..Len(ts) : after[i] = Touched(after[i - 1], ts[i])
<1> DEFINE Passes(f, n) ==
               f = [i \in 0..n |-> IF i = 0 THEN lru ELSE Touched(f[i - 1], ts[i])]
           Stuck == {n \in Nat : ~ \E f : Passes(f, n)}
           after == CHOOSE f : Passes(f, Len(ts))
<1>1. Len(ts) \in Nat /\ DOMAIN ts = 1..Len(ts) /\ \A i \in 1..Len(ts) : ts[i] \in Tile
  OBVIOUS
<1>2. ASSUME NEW n \in Stuck, \A m \in Stuck : n <= m PROVE FALSE
  <2>1. n \in Nat /\ ~ \E f : Passes(f, n)
    OBVIOUS
  <2>2. CASE n = 0
    <3> DEFINE g == [i \in 0..0 |-> lru]
    <3>1. g = [i \in 0..0 |-> IF i = 0 THEN lru ELSE Touched(g[i - 1], ts[i])]
      OBVIOUS
    <3> QED
      BY <2>1, <2>2, <3>1
  <2>3. CASE n # 0
    <3>1. n - 1 \in Nat /\ n - 1 \notin Stuck
      BY <1>2, <2>1, <2>3
    <3>2. PICK f : Passes(f, n - 1)
      BY <3>1
    <3> DEFINE g == [i \in 0..n |-> IF i = 0 THEN lru ELSE Touched(f[i - 1], ts[i])]
    <3>3. \A i \in 0..(n - 1) : g[i] = f[i]
      BY <2>1, <3>2
    <3>4. \A i \in 0..n : i # 0 => g[i - 1] = f[i - 1]
      <4>1. \A i \in 0..n : i # 0 => i - 1 \in 0..(n - 1)
        BY <2>1
      <4> HIDE DEF g
      <4> QED
        BY <3>3, <4>1
    <3>5. g = [i \in 0..n |-> IF i = 0 THEN lru ELSE Touched(g[i - 1], ts[i])]
      BY <3>4
    <3> QED
      BY <2>1, <3>5
  <2> QED
    BY <2>2, <2>3
<1>3. Passes(after, Len(ts))
  <2>1. Stuck \in SUBSET Nat
    OBVIOUS
  <2>2. Stuck = {}
    <3> HIDE DEF Stuck
    <3> QED
      BY <1>2, <2>1, LeastNumber
  <2>3. \E f : Passes(f, Len(ts))
    BY <1>1, <2>2
  <2> HIDE DEF Passes
  <2> QED
    BY <2>3
<1>4. TouchedBy(ts) = after[Len(ts)]
  BY DEF TouchedBy
<1> HIDE DEF after
<1>5. /\ after[0] = lru
      /\ \A i \in 1..Len(ts) : after[i] = Touched(after[i - 1], ts[i])
  BY <1>1, <1>3
<1> QED
  BY <1>4, <1>5

(* ... and every step of it only reorders the tiles, those it has touched  *)
(* so far ahead of the others.                                             *)
LEMMA ListTouched ==
    ASSUME Threaded, NEW ts \in Seq(Tile)
    PROVE  Lists(TouchedBy(ts), Holders) /\ Leading(TouchedBy(ts), Elems(ts))
<1> DEFINE Front(i) == {ts[k] : k \in 1..i}
<1>1. Len(ts) \in Nat /\ DOMAIN ts = 1..Len(ts) /\ \A i \in 1..Len(ts) : ts[i] \in Tile
  OBVIOUS
<1>2. PICK after : /\ after[0] = lru /\ TouchedBy(ts) = after[Len(ts)]
                   /\ \A i \in 1..Len(ts) : after[i] = Touched(after[i - 1], ts[i])
  BY TouchedInTurn
<1> DEFINE Good(i) == Lists(after[i], Holders) /\ Leading(after[i], Front(i))
           Lost == {i \in Nat : i <= Len(ts) /\ ~ Good(i)}
<1> HIDE DEF Good
<1>3. ASSUME NEW i \in Lost, \A j \in Lost : i <= j PROVE FALSE
  <2>1. i \in Nat /\ i <= Len(ts) /\ ~ Good(i)
    OBVIOUS
  <2>2. i # 0
    <3>1. Good(0)
      BY <1>2 DEF Good, Threaded, Leading
    <3> QED
      BY <2>1, <3>1
  <2>3. i - 1 \in Nat /\ i - 1 <= Len(ts) /\ i - 1 \notin Lost /\ i \in 1..Len(ts)
    BY <1>1, <1>3, <2>1, <2>2
  <2> DEFINE l == after[i - 1]
             t == ts[i]
  <2>4. Lists(l, Holders) /\ Leading(l, Front(i - 1)) /\ after[i] = Touched(l, t) /\ t \in Tile
    BY <1>1, <1>2, <2>3 DEF Good
  <2>5. Front(i) = Front(i - 1) \cup {t}
    <3>1. \A k \in 1..i : k = i \/ k \in 1..(i - 1)
      BY <2>3
    <3>2. i \in 1..i /\ \A k \in 1..(i - 1) : k \in 1..i
      BY <2>3
    <3> QED
      BY <3>1, <3>2
  <2>6. l \in Seq(Tile) /\ Elems(l) = Holders
    BY <2>4 DEF Lists
  <2> HIDE DEF l, t, Front
  <2>7. CASE Listed(t)
    <3>1. t \in Holders
      BY <2>7 DEF Listed, Threaded, Lists, Elems
    <3>2. Lists(after[i], Holders \cup {t})
      BY <2>4, <2>7, ListFirst DEF Touched
    <3>3. Holders \cup {t} = Holders
      BY <3>1
    <3>4. Lists(Without(l, {t}), Holders \ {t})
      BY <2>4, ListWithout
    <3>5. \A j \in DOMAIN Without(l, {t}) : Without(l, {t})[j] # t
      BY <3>4 DEF Lists, Elems
    <3>6. Leading(after[i], Front(i))
      BY <2>4, <2>5, <2>6, <2>7, <3>5, LeadingFirst DEF Touched
    <3> QED
      BY <2>1, <3>2, <3>3, <3>6 DEF Good
  <2>8. CASE ~ Listed(t)
    <3>1. \A j \in DOMAIN l : l[j] # t
      BY <2>6, <2>8 DEF Listed, Threaded, Lists, Elems
    <3>2. Leading(l, Front(i))
      BY <2>4, <2>5, <3>1 DEF Leading
    <3> QED
      BY <2>1, <2>4, <2>8, <3>2 DEF Touched, Good
  <2> QED
    BY <2>7, <2>8
<1>4. Lost = {}
  <2>1. Lost \in SUBSET Nat
    OBVIOUS
  <2> HIDE DEF Lost
  <2> QED
    BY <1>3, <2>1, LeastNumber
<1>5. Good(Len(ts))
  BY <1>1, <1>4
<1>6. Front(Len(ts)) = Elems(ts)
  BY <1>1 DEF Elems
<1> QED
  BY <1>2, <1>5, <1>6 DEF Good

(* An eviction keeps the list and the holders together. *)
LEMMA EvictThreaded ==
    ASSUME Threaded, NEW v, DropAll(v)
    PROVE  Threaded'
<1>1. Holders' = Holders \ Elems(v)
  BY DEF DropAll, Holders
<1>2. Lists(lru', Holders \ Elems(v))
  BY ListWithout DEF Threaded, DropAll
<1> QED
  BY <1>1, <1>2 DEF Threaded, Lists, Elems

(* So does every step. *)
LEMMA ThreadedStep ==
    ASSUME IInv, Threaded, [Next]_vars
    PROVE  Threaded'
<1>1. ASSUME UNCHANGED lru, UNCHANGED pixels PROVE Threaded'
  BY <1>1 DEF Threaded, Lists, Elems, Holders
<1>2. ASSUME NEW c \in Tile, Submit(c) PROVE Threaded'
  BY <1>2, EvictThreaded DEF Submit, Acquire
<1>3. ASSUME NEW c \in Tile, Install(c) PROVE Threaded'
  <2>1. /\ lru' = <<c>> \o Without(lru, {c})
        /\ pixels' = [pixels EXCEPT ![c] = painting[c]] /\ painting[c] # NoBuffer
    BY <1>3 DEF Install, MarkValid
  <2>2. pixels \in Map
    BY DEF IInv, Ledger
  <2>3. Holders' = Holders \cup {c}
    BY <2>1, <2>2 DEF Holders, Map
  <2>4. Lists(lru', Holders \cup {c})
    BY <2>1, ListFirst DEF Threaded
  <2> QED
    BY <2>3, <2>4 DEF Threaded, Lists, Elems
<1>4. ASSUME NEW c \in Tile, Discard(c) \/ Fail(c) PROVE Threaded'
  BY <1>1, <1>4 DEF Discard, ReleaseUnpainted, Fail, ReleaseFailed, Release
<1>5. ASSUME NEW c \in Tile, GiveUp(c) PROVE Threaded'
  BY <1>1, <1>5, EvictThreaded DEF GiveUp, MarkFailed
<1>6. ASSUME NEW ts \in TouchLists, Touch(ts) PROVE Threaded'
  <2>1. ts \in Seq(Tile)
    BY GridAssumption
  <2>2. Lists(lru', Holders)
    BY <1>6, <2>1, ListTouched DEF Touch
  <2>3. Holders' = Holders
    BY <1>6 DEF Touch, bufferVars, Holders
  <2> QED
    BY <2>2, <2>3 DEF Threaded, Lists, Elems
<1>7. ASSUME NEW b \in Budgets, SetBudget(b) PROVE Threaded'
  BY <1>7, EvictThreaded DEF SetBudget
<1>8. ASSUME NEW D, NEW v, Replace(D, v) PROVE Threaded'
  BY <1>1, <1>8 DEF Replace, Swap, bufferVars
<1>9. ASSUME NEW D, Bump(D) PROVE Threaded'
  BY <1>1, <1>9 DEF Bump, bufferVars
<1>10. ASSUME UNCHANGED vars PROVE Threaded'
  BY <1>1, <1>10 DEF vars, bufferVars
<1> QED
  BY <1>2, <1>3, <1>4, <1>5, <1>6, <1>7, <1>8, <1>9, <1>10 DEF Next

LEMMA ThreadedInvariance == Spec => []Threaded
<1>1. Init => Threaded
  <2> SUFFICES ASSUME Init PROVE Threaded
    OBVIOUS
  <2>1. lru = <<>> /\ Holders = {}
    BY DEF Init, Holders
  <2>2. <<>> \in Seq(Tile) /\ DOMAIN <<>> = {}
    OBVIOUS
  <2>3. Elems(lru) = {} /\ lru \in Seq(Tile) /\ DOMAIN lru = {}
    BY <2>1, <2>2 DEF Elems
  <2> QED
    BY <2>1, <2>3 DEF Threaded, Lists
<1>2. IInv /\ Threaded /\ [Next]_vars => Threaded'
  BY ThreadedStep
<1> QED
  BY <1>1, <1>2, Invariance, PTL DEF Spec

(* The recency list threads exactly the tiles with pixels, each once,      *)
(* through every mixture of installs, touches, failures and evictions.     *)
THEOREM RecencyListsHolders == Spec => []LruListsHolders
<1>1. Threaded => LruListsHolders
  <2> SUFFICES ASSUME Threaded PROVE LruListsHolders
    OBVIOUS
  <2>1. Cardinality(Elems(lru)) = Len(lru)
    BY MembersCount DEF Threaded, Lists, Members, Elems
  <2> QED
    BY <2>1 DEF Threaded, Lists, LruListsHolders
<1> QED
  BY <1>1, ThreadedInvariance, PTL
-----------------------------------------------------------------------------
(* Room for an order. *)

(* As many victims as are asked for, oldest first: the last of the          *)
(* candidates in the recency list.                                          *)
LEMMA VictimsAreFound ==
    ASSUME Threaded, NEW S \in SUBSET Holders, NEW n \in 0..Cardinality(S)
    PROVE  OldestFirst(S, n) # {}
<1> DEFINE I == {i \in DOMAIN lru : lru[i] \in S}
           q == At(lru, I)
           m == Cardinality(I)
           v == [k \in 1..n |-> lru[Place(I, m + 1 - k)]]
<1>1. /\ lru \in Seq(Tile) /\ Elems(lru) = Holders
      /\ \A i, j \in DOMAIN lru : lru[i] = lru[j] => i = j
  BY DEF Threaded, Lists
<1>2. I \in SUBSET DOMAIN lru /\ DOMAIN lru \in SUBSET Nat
  BY <1>1
<1>3. \A t \in S : \E i \in I : lru[i] = t
  BY <1>1 DEF Elems
<1>4. \A i \in I : lru[i] \in S
  OBVIOUS
<1> HIDE DEF I
<1>5. /\ m \in Nat /\ q \in Seq(Tile) /\ Len(q) = m
      /\ \A k \in 1..m : Place(I, k) \in I
      /\ \A i \in I : Rank(I, i) \in 1..m /\ Place(I, Rank(I, i)) = i
      /\ \A k, l \in 1..m : k < l <=> Place(I, k) < Place(I, l)
  BY <1>1, <1>2, Kept
<1>6. Members(q) = S
  <2>1. {lru[i] : i \in I} = S
    BY <1>3, <1>4
  <2>2. Members(At(lru, I)) = {lru[i] : i \in I}
    BY <1>1, <1>2, KeptMembers
  <2> QED
    BY <2>1, <2>2
<1>7. Cardinality(S) = m
  <2>1. \A k, l \in DOMAIN q : q[k] = q[l] => k = l
    BY <1>1, <1>2, KeptDistinct
  <2> QED
    BY <1>5, <1>6, <2>1, MembersCount
<1> HIDE DEF q, m
<1>8. \A k \in 1..n : m + 1 - k \in 1..m
  BY <1>5, <1>7
<1>9. v \in [1..n -> S] /\ \A k \in 1..n : v[k] = lru[Place(I, m + 1 - k)]
  BY <1>4, <1>5, <1>8
<1> HIDE DEF v
<1>10. ASSUME NEW i \in 1..n, NEW j \in 1..n, i < j
       PROVE  v[i] # v[j] /\ Older(v[i], v[j])
  <2>1. m + 1 - j < m + 1 - i
    BY <1>5, <1>10
  <2>2. Place(I, m + 1 - j) < Place(I, m + 1 - i)
    BY <1>5, <1>8, <2>1
  <2>3. Place(I, m + 1 - i) \in DOMAIN lru /\ Place(I, m + 1 - j) \in DOMAIN lru
    BY <1>2, <1>5, <1>8
  <2>4. v[i] = lru[Place(I, m + 1 - i)] /\ v[j] = lru[Place(I, m + 1 - j)]
    BY <1>9
  <2>5. Place(I, m + 1 - i) # Place(I, m + 1 - j)
    BY <1>2, <2>2, <2>3
  <2> QED
    BY <1>1, <2>2, <2>3, <2>4, <2>5 DEF Older
<1>11. ASSUME NEW t \in S, \A i \in 1..n : v[i] # t
       PROVE  \A i \in 1..n : Older(v[i], t)
  <2>1. PICK p \in I : lru[p] = t
    BY <1>3
  <2>2. Rank(I, p) \in 1..m /\ Place(I, Rank(I, p)) = p
    BY <1>5
  <2>3. SUFFICES ASSUME NEW i \in 1..n PROVE Older(v[i], t)
    OBVIOUS
  <2>4. Rank(I, p) < m + 1 - i
    <3>1. SUFFICES ASSUME Rank(I, p) >= m + 1 - i PROVE FALSE
      BY <1>5, <2>2
    <3>2. m + 1 - Rank(I, p) \in 1..n
      BY <1>5, <1>7, <2>2, <3>1
    <3>3. m + 1 - (m + 1 - Rank(I, p)) = Rank(I, p)
      BY <1>5, <2>2
    <3>4. v[m + 1 - Rank(I, p)] = t
      BY <1>9, <2>1, <2>2, <3>2, <3>3
    <3> QED
      BY <1>11, <3>2, <3>4
  <2>5. p < Place(I, m + 1 - i)
    BY <1>5, <1>8, <2>2, <2>4
  <2>6. p \in DOMAIN lru /\ Place(I, m + 1 - i) \in DOMAIN lru
    BY <1>2, <1>5, <1>8
  <2> QED
    BY <1>9, <2>1, <2>5, <2>6 DEF Older
<1> QED
  BY <1>9, <1>10, <1>11 DEF OldestFirst

(* How many tiles Acquire evicts for c. *)
Excess(c) == Greater(0, Lesser(Cardinality(Evictable(c)), used + 1 - budget))

(* The room an order finds: victims to evict, and then a buffer to reuse or *)
(* one that is in use nowhere.                                              *)
FindsRoom(c) ==
    \E v \in OldestFirst(Evictable(c), Excess(c)) :
       Retain(idle \o Released(v)) # <<>> \/ Buffer \ InUse # {}

(* An order that the budget admits can be carried out. *)
AdmittedOrdersFit ==
    \A c \in Tile : ~InFlight(c) /\ onOrder + 1 <= budget => FindsRoom(c)

(* No more buffers are in use than are counted and free. *)
LEMMA InUseCount ==
    ASSUME Ledger, idle = <<>>
    PROVE  IsFiniteSet(InUse) /\ Cardinality(InUse) \in Nat /\ Cardinality(InUse) <= used
<1> DEFINE P == {pixels[t] : t \in Holders}
           W == {painting[t] : t \in Painters}
           f == [t \in Holders |-> pixels[t]]
           g == [t \in Painters |-> painting[t]]
<1>1. f \in Surjection(Holders, P) /\ g \in Surjection(Painters, W)
  BY DEF Surjection
<1>2. InUse = P \cup W
  BY DEF InUse, Elems, Ledger
<1> HIDE DEF P, W, f, g
<1>3. IsFiniteSet(P) /\ Cardinality(P) <= Cardinality(Holders)
  BY <1>1, Counts, FS_Surjection
<1>4. IsFiniteSet(W) /\ Cardinality(W) <= Cardinality(Painters)
  BY <1>1, Counts, FS_Surjection
<1>5. IsFiniteSet(P \cap W)
  BY <1>3, FS_Subset
<1>6. /\ Cardinality(P) \in Nat /\ Cardinality(W) \in Nat /\ Cardinality(P \cap W) \in Nat
      /\ IsFiniteSet(P \cup W)
      /\ Cardinality(P \cup W) = Cardinality(P) + Cardinality(W) - Cardinality(P \cap W)
  BY <1>3, <1>4, <1>5, FS_CardinalityType, FS_Union
<1>7. used = Cardinality(Holders) + Cardinality(Painters)
  BY DEF Ledger, Accounted
<1> QED
  BY <1>2, <1>3, <1>4, <1>6, <1>7, Counts, FS_CardinalityType

(* Where nothing has to be evicted and no buffer is free to be reused, the  *)
(* cache is within its budget.                                              *)
LEMMA NoExcess ==
    ASSUME IInv, NEW c \in Tile, onOrder + 1 <= budget
    PROVE  /\ Excess(c) \in 0..Cardinality(Evictable(c))
           /\ Excess(c) = 0 => used <= budget
<1> DEFINE S == Evictable(c)
<1>1. /\ used = Cardinality(Holders) + Cardinality(Painters)
      /\ onOrder = Cardinality(Painters)
      /\ budget \in Nat
  BY GridAssumption DEF IInv, Ledger, Accounted, RestOK
<1>2. Cardinality(S) \in Nat /\ Cardinality(S) >= Cardinality(Holders) - 1
  <2>1. S = Holders \ {c}
    BY DEF Evictable
  <2>2. IsFiniteSet(S)
    BY <2>1, Counts, FS_RemoveElement
  <2>3. Cardinality(S) = IF c \in Holders THEN Cardinality(Holders) - 1
                                         ELSE Cardinality(Holders)
    BY <2>1, Counts, FS_RemoveElement
  <2> QED
    BY <2>2, <2>3, Counts, FS_CardinalityType
<1>3. Excess(c) = Greater(0, Lesser(Cardinality(S), used + 1 - budget))
  BY DEF Excess
<1> HIDE DEF S
<1>4. /\ Excess(c) \in 0..Cardinality(S)
      /\ Excess(c) = 0 => Cardinality(S) = 0 \/ used + 1 - budget <= 0
  BY <1>1, <1>2, <1>3, Counts DEF Greater, Lesser
<1>5. Cardinality(S) = 0 => used <= budget
  BY <1>1, <1>2, Counts
<1>6. used + 1 - budget <= 0 => used <= budget
  BY <1>1, Counts
<1> QED
  BY <1>4, <1>5, <1>6 DEF S

(* Whatever the budget admits, Acquire finds victims for and a buffer       *)
(* (evictFor, BitmapPool.Acquire): there are more buffers than the largest  *)
(* budget admits, as a process that allocates them on demand has.           *)
THEOREM OrdersFindRoom ==
    ASSUME \A b \in Budgets : b < Cardinality(Buffer)
    PROVE  Spec => []AdmittedOrdersFit
<1>1. IInv /\ Threaded => AdmittedOrdersFit
  <2> SUFFICES ASSUME IInv, Threaded, NEW c \in Tile, onOrder + 1 <= budget
               PROVE  FindsRoom(c)
    BY DEF AdmittedOrdersFit
  <2> DEFINE S == Evictable(c)
             n == Excess(c)
  <2>1. n \in 0..Cardinality(S) /\ (n = 0 => used <= budget)
    BY NoExcess
  <2>2. S \in SUBSET Holders
    BY DEF Evictable
  <2> HIDE DEF S, n
  <2>3. PICK v \in OldestFirst(S, n) : TRUE
    BY <2>1, <2>2, VictimsAreFound
  <2>4. SUFFICES ASSUME Retain(idle \o Released(v)) = <<>>
                 PROVE  Buffer \ InUse # {}
    BY <2>3 DEF FindsRoom, S, n
  <2>5. idle \in Seq(Buffer) /\ n \in Nat
    BY <2>1, FS_CardinalityType DEF IInv, Ledger
  <2>6. v \in [1..n -> Tile] /\ \A i \in 1..n : pixels[v[i]] \in Buffer
    <3>1. v \in [1..n -> Tile] /\ \A i \in 1..n : pixels[v[i]] # NoBuffer
      BY <2>2, <2>3, <2>5, Walk
    <3> QED
      BY <3>1 DEF IInv, Ledger, Map
  <2>7. Released(v) \in Seq(Buffer) /\ Len(Released(v)) = n
    BY <2>5, <2>6 DEF Released
  <2>8. /\ idle \o Released(v) \in Seq(Buffer)
        /\ Len(idle \o Released(v)) = Len(idle) + n /\ Len(idle) \in Nat
    BY <2>5, <2>7
  <2>9. Len(idle) + n = 0
    <3> DEFINE q == idle \o Released(v)
               k == Lesser(Len(q), MaxIdle)
    <3>1. k \in 0..Len(q) /\ (k = 0 => Len(q) = 0)
      BY <2>5, <2>8, GridAssumption DEF Lesser
    <3>2. Retain(q) = SubSeq(q, 1, k)
      BY DEF Retain
    <3>3. q \in Seq(Buffer)
      BY <2>8
    <3> HIDE DEF q, k
    <3>4. Len(SubSeq(q, 1, k)) = k
      BY <3>1, <3>3
    <3>5. k = 0
      <4>1. Len(<<>>) = 0
        OBVIOUS
      <4> QED
        BY <2>4, <3>2, <3>4, <4>1 DEF q
    <3> QED
      BY <2>8, <3>1, <3>5 DEF q
  <2>10. idle = <<>> /\ n = 0
    BY <2>5, <2>8, <2>9
  <2>11. IsFiniteSet(InUse) /\ Cardinality(InUse) \in Nat /\ Cardinality(InUse) <= used
    BY <2>10, InUseCount DEF IInv
  <2>12. used <= budget /\ budget < Cardinality(Buffer) /\ budget \in Nat /\ used \in Int
    BY <2>1, <2>10, GridAssumption, Counts DEF IInv, Ledger, Accounted, RestOK
  <2>13. SUFFICES ASSUME Buffer \subseteq InUse PROVE FALSE
    OBVIOUS
  <2>14. Cardinality(Buffer) \in Nat /\ Cardinality(Buffer) <= Cardinality(InUse)
    BY <2>11, <2>13, FS_Subset, FS_CardinalityType
  <2> QED
    BY <2>11, <2>12, <2>14
<1> QED
  BY <1>1, Invariance, ThreadedInvariance, PTL
=============================================================================
