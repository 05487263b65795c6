--------------------------- MODULE SessionProofs ---------------------------
(***************************************************************************)
(* Proofs about the tabs and the saved sessions, for any tabs, pages,      *)
(* limits and number of runs.                                              *)
(*                                                                         *)
(* The inductive invariant says of every session that is kept somewhere,   *)
(* in a file or on its way to one, that it is good: it has a tab, no more  *)
(* than the limit, one of them active, and no page of a private tab.       *)
(* Saving and loading then change nothing of it, and that is why a journal *)
(* found after a crash is still the one that was left.                     *)
(***************************************************************************)
EXTENDS SessionJournal, SubsequenceProofs, TLAPS

Lasts == Page \ Secret

(* A tab that shows a page of the private kind is private. *)
TabRecord == [id : Tab, page : Page \cup {NoPage}, incognito : BOOLEAN, pinned : BOOLEAN]
GoodTab   == {t \in TabRecord : t.page \in Secret => t.incognito}

Once(s) == \A i, j \in DOMAIN s : s[i].id = s[j].id => i = j

Shown(s, a) == a \in DOMAIN s \/ (s = <<>> /\ a = 1)

StripInv ==
    /\ strip \in Seq(GoodTab) /\ Once(strip) /\ Shown(strip, active)
    /\ closed \in Seq(Lasts) /\ Len(closed) <= MaxClosed

Good(st) ==
    /\ st \in [tabs : Seq(Lasts \cup {NoPage}), active : Nat \ {0}]
    /\ Len(st.tabs) \in 1..MaxTabs /\ st.active \in 1..Len(st.tabs)

Kind(st) == st = None \/ Good(st)

SessionInv ==
    /\ StripInv
    /\ Kind(journal) /\ Kind(crashed) /\ Kind(late) /\ Kind(restoring)
    /\ file = Nothing \/ Good(file)
    /\ crashed # None => late = None /\ journal = crashed
    /\ answering \in Tab \cup {NoTab} /\ runs \in 0..MaxRuns /\ edits \in 0..MaxEdits
-----------------------------------------------------------------------------
(* The operators on lists. *)

(* Taking out the element at i moves the later ones down by one.           *)
LEMMA Removed ==
    ASSUME NEW S, NEW s \in Seq(S), NEW i \in DOMAIN s
    PROVE  /\ RemoveAt(s, i) \in Seq(S) /\ Len(s) \in Nat /\ i \in 1..Len(s)
           /\ DOMAIN s = 1..Len(s)
           /\ Len(RemoveAt(s, i)) = Len(s) - 1 /\ DOMAIN RemoveAt(s, i) = 1..(Len(s) - 1)
           /\ \A k \in 1..(Len(s) - 1) :
                RemoveAt(s, i)[k] = IF k < i THEN s[k] ELSE s[k + 1]
<1> DEFINE n == Len(s)
           p == [k \in 1..(i - 1) |-> s[k]]
           q == [k \in 1..(n - i) |-> s[i + k]]
<1>1. n \in Nat /\ i \in 1..n /\ DOMAIN s = 1..n
    OBVIOUS
<1>2. SubSeq(s, 1, i - 1) = p
    BY <1>1
<1>3. SubSeq(s, i + 1, n) = q
    BY <1>1
<1>4. p \in Seq(S) /\ Len(p) = i - 1
    BY <1>1
<1>5. q \in Seq(S) /\ Len(q) = n - i
    BY <1>1
<1>6. RemoveAt(s, i) = p \o q
    BY <1>2, <1>3 DEF RemoveAt
<1>7. \A k \in 1..(i - 1) : p[k] = s[k]
    OBVIOUS
<1>8. \A k \in 1..(n - i) : q[k] = s[i + k]
    OBVIOUS
<1> HIDE DEF p, q, n
<1>9. p \o q \in Seq(S) /\ Len(p \o q) = n - 1
    BY <1>1, <1>4, <1>5
<1>10. \A k \in 1..(n - 1) : (p \o q)[k] = IF k < i THEN s[k] ELSE s[k + 1]
    <2>1. TAKE k \in 1..(n - 1)
    <2>2. (p \o q)[k] = IF k <= Len(p) THEN p[k] ELSE q[k - Len(p)]
        BY <1>1, <1>4, <1>5, <2>1
    <2>3. k < i => (p \o q)[k] = s[k]
        BY <1>1, <1>4, <1>7, <2>2
    <2>4. ~ (k < i) => (p \o q)[k] = s[k + 1]
        <3>1. HAVE ~ (k < i)
        <3>2. k - (i - 1) \in 1..(n - i) /\ i + (k - (i - 1)) = k + 1 BY <1>1, <3>1
        <3>3. (p \o q)[k] = q[k - (i - 1)] BY <1>1, <1>4, <2>2, <3>1
        <3> QED BY <1>8, <3>2, <3>3
    <2> QED BY <2>3, <2>4
<1>11. DOMAIN (p \o q) = 1..(n - 1)
    BY <1>9
<1> QED BY <1>1, <1>6, <1>9, <1>10, <1>11 DEF n

(* Putting in an element at i moves the later ones up by one.              *)
LEMMA Inserted ==
    ASSUME NEW S, NEW s \in Seq(S), NEW i \in 1..(Len(s) + 1), NEW e \in S
    PROVE  /\ InsertAt(s, i, e) \in Seq(S) /\ Len(s) \in Nat
           /\ Len(InsertAt(s, i, e)) = Len(s) + 1
           /\ DOMAIN InsertAt(s, i, e) = 1..(Len(s) + 1)
           /\ \A k \in 1..(Len(s) + 1) :
                InsertAt(s, i, e)[k] = IF k < i THEN s[k] ELSE IF k = i THEN e ELSE s[k - 1]
<1> DEFINE n == Len(s)
           p == [k \in 1..(i - 1) |-> s[k]]
           q == [k \in 1..(n - (i - 1)) |-> s[i - 1 + k]]
<1>1. n \in Nat /\ i \in 1..(n + 1) /\ DOMAIN s = 1..n
    OBVIOUS
<1>2. SubSeq(s, 1, i - 1) = p
    BY <1>1
<1>3. SubSeq(s, i, n) = q
    BY <1>1
<1>4. p \in Seq(S) /\ Len(p) = i - 1
    BY <1>1
<1>5. q \in Seq(S) /\ Len(q) = n - (i - 1)
    BY <1>1
<1>6. \A k \in 1..(i - 1) : p[k] = s[k]
    OBVIOUS
<1>7. \A k \in 1..(n - (i - 1)) : q[k] = s[i - 1 + k]
    OBVIOUS
<1> DEFINE r == p \o <<e>>
<1>8. InsertAt(s, i, e) = r \o q
    BY <1>2, <1>3 DEF InsertAt
<1> HIDE DEF p, q, n
<1>9. r \in Seq(S) /\ Len(r) = i
    BY <1>1, <1>4
<1>10. \A k \in 1..i : r[k] = IF k < i THEN s[k] ELSE e
    BY <1>1, <1>4, <1>6
<1> HIDE DEF r
<1>11. r \o q \in Seq(S) /\ Len(r \o q) = n + 1 /\ DOMAIN (r \o q) = 1..(n + 1)
    BY <1>1, <1>5, <1>9
<1>12. \A k \in 1..(n + 1) :
          (r \o q)[k] = IF k < i THEN s[k] ELSE IF k = i THEN e ELSE s[k - 1]
    <2>1. TAKE k \in 1..(n + 1)
    <2>2. (r \o q)[k] = IF k <= Len(r) THEN r[k] ELSE q[k - Len(r)]
        BY <1>1, <1>5, <1>9, <2>1
    <2>3. k <= i => (r \o q)[k] = IF k < i THEN s[k] ELSE e
        BY <1>1, <1>9, <1>10, <2>2
    <2>4. k > i => (r \o q)[k] = s[k - 1]
        <3>1. HAVE k > i
        <3>2. k - i \in 1..(n - (i - 1)) /\ i - 1 + (k - i) = k - 1 BY <1>1, <3>1
        <3>3. (r \o q)[k] = q[k - i] BY <1>1, <1>9, <2>2, <3>1
        <3>4. q[k - i] = s[i - 1 + (k - i)] BY <1>7, <3>2
        <3> QED BY <3>2, <3>3, <3>4
    <2>5. k \in Int /\ i \in Int BY <1>1
    <2>6. k < i => k <= i BY <2>5
    <2>7. k = i => k <= i /\ ~ (k < i) BY <2>5
    <2>8. ~ (k < i) /\ k # i => k > i BY <2>5
    <2> QED BY <2>3, <2>4, <2>6, <2>7, <2>8
<1> QED BY <1>1, <1>8, <1>11, <1>12 DEF n

(* The larger of two numbers, and the largest of the positions in a list.  *)
LEMMA LargerOf ==
    ASSUME NEW a \in Int, NEW b \in Int
    PROVE  Max({a, b}) = IF a >= b THEN a ELSE b
<1>1. \E x \in {a, b} : \A y \in {a, b} : x >= y
    OBVIOUS
<1>2. Max({a, b}) \in {a, b} /\ \A y \in {a, b} : Max({a, b}) >= y
    BY <1>1 DEF Max
<1> QED BY <1>2

LEMMA LargestOf ==
    ASSUME NEW n \in Nat, NEW I \in SUBSET 1..n, I # {}
    PROVE  Max(I) \in I
<1> DEFINE T == {n - i : i \in I}
<1>1. T \in SUBSET Nat /\ T # {}
    <2>1. \A i \in I : i \in 1..n /\ n - i \in Nat OBVIOUS
    <2>2. PICK i \in I : TRUE OBVIOUS
    <2>3. n - i \in T OBVIOUS
    <2> QED BY <2>1, <2>3
<1>2. PICK m \in T : \A t \in T : m <= t
    BY <1>1, LeastNumber
<1>3. n - m \in I /\ \A y \in I : n - m >= y
    BY <1>2
<1> HIDE DEF T
<1>4. \E x \in I : \A y \in I : x >= y
    BY <1>3
<1> QED BY <1>4 DEF Max
-----------------------------------------------------------------------------
(* The strip. *)

(* A tab that is there is found.                                           *)
LEMMA Found ==
    ASSUME NEW s, NEW k \in DOMAIN s, NEW id, s[k].id = id
    PROVE  IndexOf(s, id) \in DOMAIN s /\ s[IndexOf(s, id)].id = id
<1>1. \E i \in DOMAIN s : s[i].id = id OBVIOUS
<1> QED BY <1>1 DEF IndexOf

(* A part of the strip, in any order, names each tab once.                 *)
LEMMA OnceRemoved ==
    ASSUME NEW s \in Seq(GoodTab), Once(s), NEW i \in DOMAIN s
    PROVE  /\ Once(RemoveAt(s, i))
           /\ \A k \in DOMAIN RemoveAt(s, i) : RemoveAt(s, i)[k].id # s[i].id
           /\ \A m \in DOMAIN s : m # i =>
                \E k \in DOMAIN RemoveAt(s, i) : RemoveAt(s, i)[k] = s[m]
<1> DEFINE r == RemoveAt(s, i)
           n == Len(s)
           from(k) == IF k < i THEN k ELSE k + 1
<1>1. /\ n \in Nat /\ i \in 1..n /\ DOMAIN s = 1..n /\ DOMAIN r = 1..(n - 1)
      /\ \A k \in 1..(n - 1) : r[k] = IF k < i THEN s[k] ELSE s[k + 1]
    BY Removed
<1> HIDE DEF r, n
<1>2. \A k \in 1..(n - 1) : from(k) \in 1..n /\ from(k) # i /\ r[k] = s[from(k)]
    BY <1>1
<1>3. \A k, l \in 1..(n - 1) : from(k) = from(l) => k = l
    BY <1>1
<1>4. ASSUME NEW m \in 1..n, m # i PROVE \E k \in 1..(n - 1) : r[k] = s[m]
    <2>1. CASE m < i BY <1>1, <2>1
    <2>2. CASE ~ (m < i)
        <3>1. m - 1 \in 1..(n - 1) /\ ~ (m - 1 < i) /\ (m - 1) + 1 = m
            BY <1>1, <1>4, <2>2
        <3> QED BY <1>1, <3>1
    <2> QED BY <2>1, <2>2
<1> HIDE DEF from
<1>5. ASSUME NEW k \in 1..(n - 1) PROVE r[k].id # s[i].id
    BY <1>1, <1>2 DEF Once
<1>6. ASSUME NEW k \in 1..(n - 1), NEW l \in 1..(n - 1), r[k].id = r[l].id PROVE k = l
    BY <1>1, <1>2, <1>3, <1>6 DEF Once
<1> QED BY <1>1, <1>4, <1>5, <1>6 DEF Once, r, n

(* So does the strip with a new tab in it.                                 *)
LEMMA OnceInserted ==
    ASSUME NEW s \in Seq(GoodTab), Once(s), NEW i \in 1..(Len(s) + 1), NEW e \in GoodTab,
           \A k \in DOMAIN s : s[k].id # e.id
    PROVE  /\ Once(InsertAt(s, i, e)) /\ InsertAt(s, i, e)[i] = e
           /\ \A m \in DOMAIN s : \E k \in DOMAIN InsertAt(s, i, e) : InsertAt(s, i, e)[k] = s[m]
<1> DEFINE r == InsertAt(s, i, e)
           n == Len(s)
           from(k) == IF k < i THEN k ELSE k - 1
<1>1. /\ n \in Nat /\ i \in 1..(n + 1) /\ DOMAIN s = 1..n /\ DOMAIN r = 1..(n + 1)
      /\ \A k \in 1..(n + 1) : r[k] = IF k < i THEN s[k] ELSE IF k = i THEN e ELSE s[k - 1]
    BY Inserted
<1> HIDE DEF r, n
<1>2. \A k \in 1..(n + 1) : k # i => from(k) \in 1..n /\ r[k] = s[from(k)]
    BY <1>1
<1>3. \A k, l \in 1..(n + 1) : k # i /\ l # i /\ from(k) = from(l) => k = l
    BY <1>1
<1>4. ASSUME NEW m \in 1..n PROVE \E k \in 1..(n + 1) : r[k] = s[m]
    <2>1. CASE m < i BY <1>1, <2>1
    <2>2. CASE ~ (m < i)
        <3>1. /\ m + 1 \in 1..(n + 1) /\ ~ (m + 1 < i) /\ m + 1 # i /\ (m + 1) - 1 = m
            BY <1>1, <2>2
        <3> QED BY <1>1, <3>1
    <2> QED BY <2>1, <2>2
<1>5. r[i] = e
    BY <1>1
<1> HIDE DEF from
<1>6. ASSUME NEW k \in 1..(n + 1), NEW l \in 1..(n + 1), r[k].id = r[l].id PROVE k = l
    <2>1. CASE k # i /\ l # i BY <1>1, <1>2, <1>3, <1>6, <2>1 DEF Once
    <2>2. CASE k = i /\ l # i BY <1>1, <1>2, <1>5, <1>6, <2>2
    <2>3. CASE k # i /\ l = i BY <1>1, <1>2, <1>5, <1>6, <2>3
    <2> QED BY <2>1, <2>2, <2>3
<1> QED BY <1>1, <1>4, <1>5, <1>6 DEF Once, r, n

(* And with one at the end.                                                *)
LEMMA OnceAppended ==
    ASSUME NEW s \in Seq(GoodTab), Once(s), NEW e \in GoodTab, \A k \in DOMAIN s : s[k].id # e.id
    PROVE  Append(s, e) \in Seq(GoodTab) /\ Once(Append(s, e)) /\ Len(s) + 1 \in DOMAIN Append(s, e)
<1>1. /\ Len(s) \in Nat /\ DOMAIN s = 1..Len(s) /\ DOMAIN Append(s, e) = 1..(Len(s) + 1)
      /\ Append(s, e)[Len(s) + 1] = e /\ \A k \in DOMAIN s : Append(s, e)[k] = s[k]
      /\ Append(s, e) \in Seq(GoodTab)
    OBVIOUS
<1> DEFINE n == Len(s)
           r == Append(s, e)
<1> HIDE DEF n, r
<1>2. ASSUME NEW k \in 1..(n + 1), NEW l \in 1..(n + 1), r[k].id = r[l].id PROVE k = l
    <2>1. \A j \in 1..(n + 1) : j = n + 1 \/ j \in 1..n BY <1>1 DEF n
    <2>2. /\ r[n + 1] = e /\ \A j \in 1..n : r[j] = s[j] /\ s[j].id # e.id
          /\ \A i, j \in 1..n : s[i].id = s[j].id => i = j
        BY <1>1 DEF n, r, Once
    <2> QED BY <1>2, <2>1, <2>2
<1> QED BY <1>1, <1>2 DEF n, r, Once

(* The tabs kept of a list are tabs of it, each once, in the same order.   *)
LEMMA OnceKept ==
    ASSUME NEW s \in Seq(GoodTab), Once(s), NEW I \in SUBSET DOMAIN s
    PROVE  /\ At(s, I) \in Seq(GoodTab) /\ Once(At(s, I))
           /\ \A i \in I : \E k \in DOMAIN At(s, I) : At(s, I)[k] = s[i]
<1> DEFINE n == Cardinality(I)
           r == At(s, I)
<1>1. /\ n \in Nat /\ r \in Seq(GoodTab) /\ DOMAIN r = 1..n
      /\ \A k \in 1..n : Place(I, k) \in I /\ r[k] = s[Place(I, k)]
      /\ \A i \in I : Rank(I, i) \in 1..n /\ r[Rank(I, i)] = s[i]
      /\ \A k, l \in 1..n : k < l <=> Place(I, k) < Place(I, l)
    BY Kept
<1>2. \A i \in I : i \in Int /\ i \in DOMAIN s
    OBVIOUS
<1> HIDE DEF n, r
<1>3. ASSUME NEW k \in 1..n, NEW l \in 1..n, r[k].id = r[l].id PROVE k = l
    <2>1. Place(I, k) \in I /\ Place(I, l) \in I /\ Place(I, k) = Place(I, l)
        BY <1>1, <1>2, <1>3 DEF Once
    <2>2. ~ (k < l) /\ ~ (l < k)
        BY <1>1, <1>2, <2>1
    <2> QED BY <1>1, <2>2
<1> QED BY <1>1, <1>3 DEF Once, r, n

(* The stack of closed tabs keeps to its limit and takes no private page.  *)
LEMMA ArchivedKeeps ==
    ASSUME closed \in Seq(Lasts), NEW s \in Seq(GoodTab)
    PROVE  Archived(s) \in Seq(Lasts) /\ Len(Archived(s)) <= MaxClosed
<1> DEFINE I == {i \in DOMAIN s : ~s[i].incognito /\ s[i].page # NoPage}
           kept == At(s, I)
           pages == [i \in DOMAIN kept |-> kept[i].page]
           stack == closed \o pages
           from == Max({1, Len(stack) - MaxClosed + 1})
<1>1. MaxClosed \in Nat
    BY TabStripAssumption
<1>2. \A i \in I : s[i].page \in Lasts
    <2>1. \A i \in I : s[i] \in GoodTab OBVIOUS
    <2> QED BY <2>1 DEF GoodTab, TabRecord, Lasts
<1>3. /\ Cardinality(I) \in Nat /\ DOMAIN kept = 1..Cardinality(I)
      /\ \A k \in 1..Cardinality(I) : Place(I, k) \in I /\ kept[k] = s[Place(I, k)]
    <2>1. I \in SUBSET DOMAIN s OBVIOUS
    <2> HIDE DEF I
    <2> QED BY <2>1, Kept
<1>4. pages \in Seq(Lasts)
    <2>1. \A k \in DOMAIN kept : kept[k].page \in Lasts BY <1>2, <1>3
    <2> HIDE DEF kept, I
    <2> QED BY <1>3, <2>1
<1> HIDE DEF pages
<1>5. stack \in Seq(Lasts) /\ Len(stack) \in Nat
    BY <1>4
<1> HIDE DEF stack
<1>6. from = IF 1 >= Len(stack) - MaxClosed + 1 THEN 1 ELSE Len(stack) - MaxClosed + 1
    <2>1. Len(stack) - MaxClosed + 1 \in Int BY <1>1, <1>5
    <2> QED BY <2>1, LargerOf
<1>7. from \in Nat /\ from >= 1 /\ Len(stack) - from + 1 <= MaxClosed
    BY <1>1, <1>5, <1>6
<1> HIDE DEF from
<1> DEFINE m == Len(stack)
<1>8. SubSeq(stack, from, m) = [k \in 1..(m - from + 1) |-> stack[from - 1 + k]]
    BY <1>5, <1>7
<1>9. \A k \in 1..(m - from + 1) : from - 1 + k \in 1..m
    BY <1>5, <1>7
<1>10. \A k \in 1..(m - from + 1) : stack[from - 1 + k] \in Lasts
    BY <1>5, <1>9
<1>11. SubSeq(stack, from, m) \in Seq(Lasts) /\ Len(SubSeq(stack, from, m)) <= MaxClosed
    <2>1. CASE from <= m
        <3>1. m - from + 1 \in Nat BY <1>5, <1>7, <2>1
        <3> HIDE DEF m
        <3> QED BY <1>7, <1>8, <1>10, <3>1 DEF m
    <2>2. CASE ~ (from <= m)
        <3>1. 1..(m - from + 1) = {} BY <1>5, <1>7, <2>2
        <3>2. SubSeq(stack, from, m) = <<>> BY <1>5, <1>7, <2>2
        <3> QED BY <1>1, <3>2
    <2> QED BY <2>1, <2>2
<1> QED BY <1>11 DEF Archived, from, stack, pages, m
-----------------------------------------------------------------------------
(* A new tab is a good one: it shows nothing yet. *)
LEMMA BlankGood ==
    ASSUME NEW id \in Tab, NEW private \in BOOLEAN
    PROVE  /\ Blank(id, private) \in GoodTab /\ Blank(id, private).id = id
           /\ \A p \in Lasts : /\ [Blank(id, private) EXCEPT !.page = p] \in GoodTab
                               /\ [Blank(id, private) EXCEPT !.page = p].id = id
BY TabStripAssumption, SessionAssumption DEF Blank, GoodTab, TabRecord, Lasts

(* What is kept of the strip, with the others archived.                    *)
LEMMA KeepOnlyKeeps ==
    ASSUME StripInv, NEW I \in SUBSET Open, KeepOnly(I)
    PROVE  /\ strip' \in Seq(GoodTab) /\ Once(strip')
           /\ closed' \in Seq(Lasts) /\ Len(closed') <= MaxClosed
           /\ \A i \in I : /\ IndexOf(strip', strip[i].id) \in DOMAIN strip'
                           /\ strip'[IndexOf(strip', strip[i].id)].id = strip[i].id
<1>1. strip \in Seq(GoodTab) /\ Once(strip) /\ closed \in Seq(Lasts) /\ I \in SUBSET DOMAIN strip
    BY DEF StripInv, Open
<1>2. /\ strip' = At(strip, I) /\ closed' = Archived(At(strip, Open \ I))
    BY DEF KeepOnly
<1>3. /\ At(strip, I) \in Seq(GoodTab) /\ Once(At(strip, I))
      /\ \A i \in I : \E k \in DOMAIN At(strip, I) : At(strip, I)[k] = strip[i]
    BY <1>1, OnceKept
<1>4. At(strip, Open \ I) \in Seq(GoodTab)
    <2>1. Open \ I \in SUBSET DOMAIN strip BY DEF Open
    <2> QED BY <1>1, <2>1, Kept
<1>5. Archived(At(strip, Open \ I)) \in Seq(Lasts) /\ Len(Archived(At(strip, Open \ I))) <= MaxClosed
    BY <1>1, <1>4, ArchivedKeeps
<1>6. ASSUME NEW i \in I
      PROVE  /\ IndexOf(strip', strip[i].id) \in DOMAIN strip'
             /\ strip'[IndexOf(strip', strip[i].id)].id = strip[i].id
    <2>1. PICK k \in DOMAIN strip' : strip'[k] = strip[i] BY <1>2, <1>3
    <2>2. strip'[k].id = strip[i].id BY <2>1
    <2> QED BY <2>2, Found
<1> QED BY <1>2, <1>3, <1>5, <1>6

(* A tab taken from one place and put at another.                          *)
LEMMA MovedKeeps ==
    ASSUME StripInv, NEW i \in Open, NEW j \in Open
    PROVE  /\ Moved(i, j) \in Seq(GoodTab) /\ Once(Moved(i, j))
           /\ DOMAIN Moved(i, j) = Open /\ Moved(i, j)[j] = strip[i]
           /\ \A m \in Open : \E k \in DOMAIN Moved(i, j) : Moved(i, j)[k] = strip[m]
<1> DEFINE r == RemoveAt(strip, i)
           n == Len(strip)
<1>1. /\ strip \in Seq(GoodTab) /\ Once(strip) /\ i \in DOMAIN strip /\ strip[i] \in GoodTab
      /\ n \in Nat /\ DOMAIN strip = 1..n
    BY DEF StripInv, Open
<1>2. r \in Seq(GoodTab) /\ Len(r) = n - 1 /\ DOMAIN r = 1..(n - 1)
    BY <1>1, Removed
<1>3. /\ Once(r) /\ \A k \in DOMAIN r : r[k].id # strip[i].id
      /\ \A m \in DOMAIN strip : m # i => \E k \in DOMAIN r : r[k] = strip[m]
    BY <1>1, OnceRemoved
<1>4. j \in 1..(Len(r) + 1) /\ Len(r) + 1 = n
    BY <1>1, <1>2 DEF Open
<1> HIDE DEF r, n
<1> DEFINE q == InsertAt(r, j, strip[i])
<1>5. q \in Seq(GoodTab) /\ DOMAIN q = 1..(Len(r) + 1)
    BY <1>1, <1>2, <1>4, Inserted
<1>6. /\ Once(q) /\ q[j] = strip[i]
      /\ \A m \in DOMAIN r : \E k \in DOMAIN q : q[k] = r[m]
    BY <1>1, <1>2, <1>3, <1>4, OnceInserted
<1>7. j \in DOMAIN q
    BY <1>4, <1>5
<1>8. Moved(i, j) = q
    BY DEF Moved, r
<1> HIDE DEF q
<1>9. ASSUME NEW m \in Open PROVE \E k \in DOMAIN q : q[k] = strip[m]
    <2>1. CASE m = i BY <1>6, <1>7, <2>1
    <2>2. CASE m # i BY <1>3, <1>6, <2>2 DEF Open
    <2> QED BY <2>1, <2>2
<1> QED BY <1>1, <1>4, <1>5, <1>6, <1>8, <1>9 DEF Open

(* A tab changed in place keeps its name.                                  *)
LEMMA ChangedKeeps ==
    ASSUME NEW s \in Seq(GoodTab), Once(s), NEW i \in DOMAIN s, NEW t \in GoodTab, t.id = s[i].id
    PROVE  /\ [s EXCEPT ![i] = t] \in Seq(GoodTab) /\ Once([s EXCEPT ![i] = t])
           /\ DOMAIN [s EXCEPT ![i] = t] = DOMAIN s
BY DEF Once

LEMMA PinnedGood ==
    ASSUME NEW t \in GoodTab, NEW b \in BOOLEAN
    PROVE  [t EXCEPT !.pinned = b] \in GoodTab /\ [t EXCEPT !.pinned = b].id = t.id
BY DEF GoodTab, TabRecord
-----------------------------------------------------------------------------
(* Each operation of the tab manager keeps the strip's part. *)

LEMMA NewTabKeeps == StripInv /\ (\E private \in BOOLEAN : NewTab(private)) => StripInv'
<1> SUFFICES ASSUME StripInv, NEW private \in BOOLEAN, NewTab(private) PROVE StripInv'
    OBVIOUS
<1>1. PICK id \in Fresh : strip' = Append(strip, Blank(id, private))
    BY DEF NewTab
<1>2. id \in Tab /\ \A k \in DOMAIN strip : strip[k].id # id
    BY <1>1 DEF Fresh, Ids
<1>3. Blank(id, private) \in GoodTab /\ Blank(id, private).id = id
    BY <1>2, BlankGood
<1>4. strip' \in Seq(GoodTab) /\ Once(strip') /\ Len(strip) + 1 \in DOMAIN strip'
    BY <1>1, <1>2, <1>3, OnceAppended DEF StripInv
<1> QED BY <1>4 DEF StripInv, NewTab, Shown

LEMMA ReopenTabKeeps == StripInv /\ ReopenTab => StripInv'
<1> SUFFICES ASSUME StripInv, ReopenTab PROVE StripInv'
    OBVIOUS
<1>1. PICK id \in Fresh : strip' = Append(strip, [Blank(id, FALSE) EXCEPT !.page = Last(closed)])
    BY DEF ReopenTab
<1>2. id \in Tab /\ \A k \in DOMAIN strip : strip[k].id # id
    BY <1>1 DEF Fresh, Ids
<1>3. closed \in Seq(Lasts) /\ closed # <<>> /\ Len(closed) \in Nat /\ Len(closed) <= MaxClosed
    BY DEF StripInv, ReopenTab
<1>4. Last(closed) \in Lasts
    BY <1>3 DEF Last
<1> DEFINE t == [Blank(id, FALSE) EXCEPT !.page = Last(closed)]
<1>5. t \in GoodTab /\ t.id = id
    BY <1>2, <1>4, BlankGood
<1> HIDE DEF t
<1>6. strip' = Append(strip, t)
    BY <1>1 DEF t
<1>7. strip' \in Seq(GoodTab) /\ Once(strip') /\ Len(strip) + 1 \in DOMAIN strip'
    BY <1>2, <1>5, <1>6, OnceAppended DEF StripInv
<1>8. Front(closed) \in Seq(Lasts) /\ Len(Front(closed)) <= MaxClosed
    <2>1. Front(closed) \in Seq(Lasts) /\ Len(Front(closed)) = Len(closed) - 1
        BY SMTT(30), <1>3 DEF Front
    <2>2. MaxClosed \in Nat BY TabStripAssumption
    <2> QED BY <1>3, <2>1, <2>2
<1> QED BY <1>7, <1>8 DEF StripInv, ReopenTab, Shown

LEMMA CloseTabKeeps == StripInv /\ (\E i \in Open : CloseTab(i)) => StripInv'
<1> SUFFICES ASSUME StripInv, NEW i \in Open, CloseTab(i) PROVE StripInv'
    OBVIOUS
<1> DEFINE n == Len(strip)
<1>1. /\ strip \in Seq(GoodTab) /\ Once(strip) /\ i \in DOMAIN strip /\ active \in DOMAIN strip
      /\ closed \in Seq(Lasts) /\ <<strip[i]>> \in Seq(GoodTab)
    BY DEF StripInv, Open, Shown
<1>2. /\ strip' = RemoveAt(strip, i) /\ closed' = Archived(<<strip[i]>>)
      /\ active' = IF n = 1 THEN 1 ELSE AfterClose(i)
    BY DEF CloseTab
<1>3. closed' \in Seq(Lasts) /\ Len(closed') <= MaxClosed
    BY <1>1, <1>2, ArchivedKeeps
<1>4. /\ strip' \in Seq(GoodTab) /\ Len(strip') = n - 1 /\ DOMAIN strip' = 1..(n - 1)
      /\ n \in Nat /\ i \in 1..n /\ active \in 1..n
    BY <1>1, <1>2, Removed
<1>5. Once(strip')
    BY <1>1, <1>2, OnceRemoved
<1>6. Shown(strip', active')
    <2>1. CASE n = 1
        <3>1. strip' = <<>> BY <1>4, <2>1
        <3> QED BY <1>2, <2>1, <3>1 DEF Shown
    <2>2. CASE n # 1
        <3>1. active' = IF active > n - 1 THEN n - 1 ELSE IF active > i THEN active - 1 ELSE active
            BY <1>2, <2>2 DEF AfterClose
        <3> HIDE DEF n
        <3>2. active' \in 1..(n - 1) BY <1>4, <2>2, <3>1
        <3> QED BY <1>4, <3>2 DEF Shown
    <2> QED BY <2>1, <2>2
<1> QED BY <1>3, <1>4, <1>5, <1>6 DEF StripInv

LEMMA DuplicateTabKeeps == StripInv /\ (\E i \in Open : DuplicateTab(i)) => StripInv'
<1> SUFFICES ASSUME StripInv, NEW i \in Open, DuplicateTab(i) PROVE StripInv'
    OBVIOUS
<1>1. PICK id \in Fresh : strip' = InsertAt(strip, i + 1, CopyOf(strip[i], id))
    BY DEF DuplicateTab
<1>2. id \in Tab /\ \A k \in DOMAIN strip : strip[k].id # id
    BY <1>1 DEF Fresh, Ids
<1>3. /\ strip \in Seq(GoodTab) /\ Once(strip) /\ strip[i] \in GoodTab
      /\ i + 1 \in 1..(Len(strip) + 1)
    BY DEF StripInv, Open
<1> DEFINE t == CopyOf(strip[i], id)
<1>4. t \in GoodTab /\ t.id = id
    BY <1>2, <1>3 DEF CopyOf, GoodTab, TabRecord
<1> HIDE DEF t
<1>5. strip' = InsertAt(strip, i + 1, t)
    BY <1>1 DEF t
<1>6. strip' \in Seq(GoodTab) /\ DOMAIN strip' = 1..(Len(strip) + 1)
    BY <1>3, <1>4, <1>5, Inserted
<1>7. Once(strip')
    BY <1>2, <1>3, <1>4, <1>5, OnceInserted
<1> QED BY <1>3, <1>6, <1>7 DEF StripInv, DuplicateTab, Shown

LEMMA CloseOtherTabsKeeps == StripInv /\ (\E i \in Open : CloseOtherTabs(i)) => StripInv'
<1> SUFFICES ASSUME StripInv, NEW i \in Open, CloseOtherTabs(i) PROVE StripInv'
    OBVIOUS
<1> DEFINE I == Pinned \cup {i}
<1>1. I \in SUBSET Open /\ i \in I /\ KeepOnly(I) /\ active' = IndexOf(strip', strip[i].id)
    BY DEF CloseOtherTabs, Pinned
<1> HIDE DEF I
<1> QED BY <1>1, KeepOnlyKeeps DEF StripInv, Shown

LEMMA CloseTabsToRightKeeps == StripInv /\ (\E i \in Open : CloseTabsToRight(i)) => StripInv'
<1> SUFFICES ASSUME StripInv, NEW i \in Open, CloseTabsToRight(i) PROVE StripInv'
    OBVIOUS
<1> DEFINE I == Pinned \cup 1..i
<1>1. Len(strip) \in Nat /\ Open = 1..Len(strip) /\ i \in 1..Len(strip)
    BY DEF StripInv, Open
<1>2. /\ I \in SUBSET Open /\ KeepOnly(I)
      /\ active' = IF active \in I THEN IndexOf(strip', strip[active].id) ELSE i
    BY <1>1 DEF CloseTabsToRight, Pinned
<1>3. 1..i \subseteq I
    OBVIOUS
<1> HIDE DEF I
<1>4. /\ strip' \in Seq(GoodTab) /\ Once(strip')
      /\ closed' \in Seq(Lasts) /\ Len(closed') <= MaxClosed
      /\ \A m \in I : IndexOf(strip', strip[m].id) \in DOMAIN strip'
    BY <1>2, KeepOnlyKeeps
<1>5. i \in DOMAIN strip'
    <2>1. strip' = At(strip, I) /\ strip \in Seq(GoodTab) /\ I \in SUBSET DOMAIN strip
        BY <1>2 DEF KeepOnly, StripInv, Open
    <2>2. IsFiniteSet(I) /\ Cardinality(I) \in Nat /\ DOMAIN strip' = 1..Cardinality(I)
        BY <2>1, Kept
    <2>3. IsFiniteSet(1..i) /\ Cardinality(1..i) = i
        BY <1>1, SegmentCount
    <2>4. Cardinality(1..i) <= Cardinality(I)
        BY <1>3, <2>2, FS_Subset
    <2> QED BY <1>1, <2>2, <2>3, <2>4
<1> QED BY <1>2, <1>4, <1>5 DEF StripInv, Shown

LEMMA PinTabKeeps == StripInv /\ (\E i \in Open : PinTab(i)) => StripInv'
<1> SUFFICES ASSUME StripInv, NEW i \in Open, PinTab(i) PROVE StripInv'
    OBVIOUS
<1> DEFINE others == Pinned \ {i}
           target == IF others = {} THEN 1 ELSE Max(others) + 1
           m == Moved(i, target)
<1>1. Len(strip) \in Nat /\ Open = 1..Len(strip) /\ strip \in Seq(GoodTab) /\ Once(strip)
    BY DEF StripInv, Open
<1>2. IF target < i
      THEN strip' = [m EXCEPT ![target].pinned = TRUE] /\ active' = target
      ELSE strip' = [strip EXCEPT ![i].pinned = TRUE] /\ UNCHANGED active
    BY DEF PinTab
<1>3. UNCHANGED closed
    BY DEF PinTab
<1>4. target \in Nat \ {0}
    <2>1. others \in SUBSET 1..Len(strip) BY <1>1 DEF Pinned
    <2> HIDE DEF others
    <2>2. CASE others = {} BY <2>2
    <2>3. CASE others # {}
        <3>1. Max(others) \in others BY <1>1, <2>1, <2>3, LargestOf
        <3>2. Max(others) \in 1..Len(strip) BY <2>1, <3>1
        <3> QED BY <2>3, <3>2
    <2> QED BY <2>2, <2>3
<1> HIDE DEF target
<1>5. CASE target < i
    <2>1. target \in Open BY <1>1, <1>4, <1>5
    <2>2. m \in Seq(GoodTab) /\ Once(m) /\ DOMAIN m = Open
        BY <2>1, MovedKeeps
    <2> HIDE DEF m
    <2> DEFINE t == [m[target] EXCEPT !.pinned = TRUE]
    <2>3. m[target] \in GoodTab BY <2>1, <2>2
    <2>4. t \in GoodTab /\ t.id = m[target].id BY <2>3, PinnedGood
    <2>5. strip' = [m EXCEPT ![target] = t] BY <1>2, <1>5
    <2> HIDE DEF t
    <2>6. strip' \in Seq(GoodTab) /\ Once(strip') /\ DOMAIN strip' = Open
        BY <2>1, <2>2, <2>4, <2>5, ChangedKeeps
    <2> QED BY <1>2, <1>3, <1>5, <2>1, <2>6 DEF StripInv, Shown
<1>6. CASE ~ (target < i)
    <2> DEFINE t == [strip[i] EXCEPT !.pinned = TRUE]
    <2>1. strip[i] \in GoodTab BY <1>1
    <2>2. t \in GoodTab /\ t.id = strip[i].id BY <2>1, PinnedGood
    <2>3. strip' = [strip EXCEPT ![i] = t] /\ active' = active BY <1>2, <1>6
    <2> HIDE DEF t
    <2>4. i \in DOMAIN strip BY DEF Open
    <2>5. strip' \in Seq(GoodTab) /\ Once(strip') /\ DOMAIN strip' = DOMAIN strip
        BY <1>1, <2>2, <2>3, <2>4, ChangedKeeps
    <2>6. active \in DOMAIN strip BY <2>4 DEF StripInv, Shown
    <2> QED BY <1>3, <2>3, <2>5, <2>6 DEF StripInv, Shown
<1> QED BY <1>5, <1>6

LEMMA UnpinTabKeeps == StripInv /\ (\E i \in Open : UnpinTab(i)) => StripInv'
<1> SUFFICES ASSUME StripInv, NEW i \in Open, UnpinTab(i) PROVE StripInv'
    OBVIOUS
<1> DEFINE t == [strip[i] EXCEPT !.pinned = FALSE]
<1>1. strip \in Seq(GoodTab) /\ Once(strip) /\ i \in DOMAIN strip /\ strip[i] \in GoodTab
    BY DEF StripInv, Open
<1>2. t \in GoodTab /\ t.id = strip[i].id BY <1>1, PinnedGood
<1>3. strip' = [strip EXCEPT ![i] = t] /\ UNCHANGED <<active, closed>> BY DEF UnpinTab
<1> HIDE DEF t
<1>4. strip' \in Seq(GoodTab) /\ Once(strip') /\ DOMAIN strip' = DOMAIN strip
    BY <1>1, <1>2, <1>3, ChangedKeeps
<1>5. active \in DOMAIN strip BY <1>1 DEF StripInv, Shown
<1> QED BY <1>3, <1>4, <1>5 DEF StripInv, Shown

LEMMA MoveTabKeeps == StripInv /\ (\E i, j \in Open : MoveTab(i, j)) => StripInv'
<1> SUFFICES ASSUME StripInv, NEW i \in Open, NEW j \in Open, MoveTab(i, j) PROVE StripInv'
    OBVIOUS
<1>1. active \in Open
    BY DEF StripInv, Shown, Open
<1>2. /\ strip' = Moved(i, j) /\ active' = IndexOf(strip', strip[active].id) /\ UNCHANGED closed
    BY DEF MoveTab
<1>3. /\ strip' \in Seq(GoodTab) /\ Once(strip')
      /\ \E k \in DOMAIN strip' : strip'[k] = strip[active]
    BY ZenonT(60), <1>1, <1>2, MovedKeeps
<1>4. active' \in DOMAIN strip'
    <2>1. PICK k \in DOMAIN strip' : strip'[k] = strip[active] BY <1>3
    <2>2. strip'[k].id = strip[active].id BY <2>1
    <2> QED BY <1>2, <2>2, Found
<1> QED BY <1>2, <1>3, <1>4 DEF StripInv, Shown

LEMMA EditKeeps == StripInv /\ Edit => StripInv'
<1>1. StripInv /\ (\E i \in Open : SwitchTo(i)) => StripInv'
    BY DEF StripInv, SwitchTo, Open, Shown
<1> QED
    BY <1>1, NewTabKeeps, CloseTabKeeps, DuplicateTabKeeps, CloseOtherTabsKeeps,
       CloseTabsToRightKeeps, PinTabKeeps, UnpinTabKeeps, ReopenTabKeeps, MoveTabKeeps
    DEF Edit
-----------------------------------------------------------------------------
(* The saved session. *)

PublicPages == Lasts \cup {NoPage}

(* What clamp keeps of a session.                                          *)
LEMMA Clamped ==
    ASSUME NEW st \in [tabs : Seq(PublicPages), active : Nat \ {0}], st.tabs # <<>>
    PROVE  LET n == IF Len(st.tabs) > MaxTabs THEN MaxTabs ELSE Len(st.tabs)
           IN  /\ n \in 1..MaxTabs /\ n <= Len(st.tabs) /\ Len(st.tabs) \in Nat
               /\ Clamp(st).tabs = SubSeq(st.tabs, 1, n)
               /\ Len(Clamp(st).tabs) = n /\ DOMAIN Clamp(st).tabs = 1..n
               /\ \A k \in 1..n : Clamp(st).tabs[k] = st.tabs[k]
               /\ Clamp(st).active = IF st.active > n THEN n ELSE st.active
               /\ Good(Clamp(st))
<1> DEFINE q == st.tabs
           n == IF Len(q) > MaxTabs THEN MaxTabs ELSE Len(q)
           r == SubSeq(q, 1, n)
           a == IF st.active > n THEN n ELSE st.active
<1>1. q \in Seq(PublicPages) /\ Len(q) \in Nat /\ Len(q) # 0 /\ st.active \in Nat \ {0}
    OBVIOUS
<1>2. n \in 1..MaxTabs /\ n <= Len(q)
    BY <1>1, SessionAssumption
<1>3. Clamp(st) = [tabs |-> r, active |-> IF n = 0 THEN 1 ELSE a]
    BY DEF Clamp
<1> HIDE DEF n, q
<1>4. r = [k \in 1..n |-> q[k]]
    BY <1>1, <1>2
<1>5. r \in Seq(PublicPages) /\ Len(r) = n /\ DOMAIN r = 1..n /\ \A k \in 1..n : r[k] = q[k]
    <2>1. n \in Nat /\ \A k \in 1..n : q[k] \in PublicPages BY <1>1, <1>2
    <2> HIDE DEF r
    <2> QED BY <1>4, <2>1
<1>6. a \in 1..n /\ n # 0
    BY <1>1, <1>2
<1>7. Clamp(st).tabs = r /\ Clamp(st).active = a
    <2> HIDE DEF r, a
    <2> QED BY <1>3, <1>6
<1>8. Clamp(st) \in [tabs : Seq(PublicPages), active : Nat \ {0}]
    <2>1. a \in Nat \ {0} BY <1>6
    <2> HIDE DEF a, r
    <2> QED BY <1>3, <1>5, <1>6, <2>1
<1> HIDE DEF r, a
<1>9. Good(Clamp(st))
    BY <1>2, <1>5, <1>6, <1>7, <1>8 DEF Good, PublicPages
<1> QED BY <1>1, <1>2, <1>5, <1>7, <1>9 DEF n, q, r, a

(* A good session is saved and loaded as it is.                            *)
LEMMA ClampSame ==
    ASSUME NEW st, Good(st)
    PROVE  Clamp(st) = st
<1>1. /\ st \in [tabs : Seq(PublicPages), active : Nat \ {0}]
      /\ Len(st.tabs) \in 1..MaxTabs /\ st.active \in 1..Len(st.tabs)
    BY DEF Good, PublicPages
<1> DEFINE q == st.tabs
<1>2. q \in Seq(PublicPages) /\ Len(q) \in Nat /\ MaxTabs \in Nat
    BY <1>1, SessionAssumption
<1>3. ~ (Len(q) > MaxTabs) /\ Len(q) # 0 /\ ~ (st.active > Len(q))
    BY <1>1, <1>2
<1>4. SubSeq(q, 1, Len(q)) = q
    BY <1>2
<1> HIDE DEF q
<1>5. Clamp(st) = [tabs |-> q, active |-> st.active]
    BY <1>3, <1>4 DEF Clamp, q
<1> QED BY <1>1, <1>5 DEF q

(* The snapshot has the pages of the tabs that are not private, and the    *)
(* active tab's page if it is one of them.                                 *)
LEMMA SnapshotGood ==
    ASSUME NEW s \in Seq(GoodTab), NEW a \in DOMAIN s, Lasting(s) # {}
    PROVE  /\ Snapshot(s, a) \in [tabs : Seq(PublicPages), active : Nat \ {0}]
           /\ Snapshot(s, a).tabs = Pages(Public(s)) /\ Snapshot(s, a).tabs # <<>>
           /\ Len(Pages(Public(s))) = Len(Public(s)) /\ Len(Public(s)) \in Nat
           /\ Snapshot(s, a).active \in 1..Len(Public(s))
           /\ a \in Lasting(s) =>
                /\ Public(s)[Snapshot(s, a).active] = s[a]
                /\ Pages(Public(s))[Snapshot(s, a).active] = s[a].page
           /\ Good(Clamp(Snapshot(s, a)))
<1> DEFINE I == Lasting(s)
           n == Cardinality(I)
           r == At(s, I)
           q == Pages(r)
           b == IF a \in I THEN Rank(I, a) ELSE 1
<1>1. I \in SUBSET DOMAIN s
    BY DEF Lasting
<1>2. \A i \in I : s[i].page \in PublicPages
    <2>1. \A i \in I : s[i] \in GoodTab /\ ~s[i].incognito BY DEF Lasting
    <2> QED BY <2>1 DEF GoodTab, TabRecord, PublicPages, Lasts
<1>3. I # {}
    OBVIOUS
<1> HIDE DEF I
<1>4. /\ IsFiniteSet(I) /\ n \in Nat /\ r \in Seq(GoodTab) /\ Len(r) = n /\ DOMAIN r = 1..n
      /\ \A k \in 1..n : Place(I, k) \in I /\ r[k] = s[Place(I, k)]
      /\ \A i \in I : Rank(I, i) \in 1..n /\ r[Rank(I, i)] = s[i]
    BY <1>1, Kept
<1>5. n # 0
    <2>1. PICK i \in I : TRUE BY <1>3
    <2>2. Rank(I, i) \in 1..n BY <1>4
    <2> QED BY <1>4, <2>2
<1> HIDE DEF n, r
<1>6. q = [k \in 1..n |-> r[k].page] /\ \A k \in 1..n : r[k].page \in PublicPages
    BY <1>2, <1>4 DEF Pages
<1>7. q \in Seq(PublicPages) /\ Len(q) = n /\ DOMAIN q = 1..n /\ \A k \in 1..n : q[k] = r[k].page
    <2> HIDE DEF q
    <2> QED BY <1>4, <1>6
<1> HIDE DEF q
<1>8. b \in 1..n /\ (a \in I => r[b] = s[a])
    BY <1>4, <1>5
<1> HIDE DEF b
<1>9. Snapshot(s, a) = [tabs |-> q, active |-> b]
    BY DEF Snapshot, Public, I, b, q, r
<1> DEFINE z == Snapshot(s, a)
<1>10. z.tabs = q /\ z.active = b
    BY <1>9
<1>11. z \in [tabs : Seq(PublicPages), active : Nat \ {0}] /\ z.tabs # <<>>
    <2>1. b \in Nat \ {0} BY <1>4, <1>8
    <2>2. q # <<>> BY <1>5, <1>7
    <2> QED BY <1>7, <1>9, <2>1, <2>2
<1> HIDE DEF z
<1>12. Good(Clamp(z))
    BY <1>11, Clamped
<1>13. a \in I => q[b] = s[a].page
    BY <1>7, <1>8
<1> QED BY <1>4, <1>7, <1>8, <1>10, <1>11, <1>12, <1>13 DEF z, q, r, I, Public

(* With private tabs only there is nothing to save.                        *)
LEMMA SnapshotNothing ==
    ASSUME NEW s \in Seq(GoodTab), Lasting(s) = {}, NEW a
    PROVE  Clamp(Snapshot(s, a)) = Nothing /\ Public(s) = <<>>
<1>1. At(s, {}) = <<>>
    <2>1. Cardinality({}) = 0 BY FS_EmptySet
    <2>2. 1..0 = {} OBVIOUS
    <2> QED BY <2>1, <2>2 DEF At
<1>2. Pages(<<>>) = <<>>
    BY DEF Pages
<1>3. Snapshot(s, a) = Nothing
    BY <1>1, <1>2 DEF Snapshot, Public, Nothing
<1>4. Clamp(Nothing) = Nothing
    <2>1. Len(<<>>) = 0 /\ SubSeq(<<>>, 1, 0) = <<>> /\ MaxTabs \in Nat /\ ~ (0 > MaxTabs)
        BY SessionAssumption
    <2> QED BY <2>1 DEF Clamp, Nothing
<1> QED BY <1>1, <1>3, <1>4 DEF Public

(* The tabs opened for saved pages show them in their order.               *)
LEMMA Opened ==
    ASSUME NEW pages \in Seq(PublicPages), NEW ids \in SUBSET Tab, NEW s \in TabsFor(pages, ids)
    PROVE  /\ s \in Seq(GoodTab) /\ Once(s) /\ DOMAIN s = 1..Len(pages) /\ Len(pages) \in Nat
           /\ Len(s) = Len(pages) /\ Pages(s) = pages
           /\ \A k \in DOMAIN s : s[k].id \in ids /\ ~s[k].incognito /\ s[k].page = pages[k]
<1>1. PICK f \in [DOMAIN pages -> ids] :
          /\ IsInjective(f)
          /\ s = [i \in DOMAIN pages |-> [Blank(f[i], FALSE) EXCEPT !.page = pages[i]]]
    BY DEF TabsFor
<1>2. Len(pages) \in Nat /\ DOMAIN pages = 1..Len(pages) /\ pages = [k \in 1..Len(pages) |-> pages[k]]
    OBVIOUS
<1> DEFINE n == Len(pages)
<1> HIDE DEF n
<1>3. ASSUME NEW k \in 1..n
      PROVE  /\ s[k] \in GoodTab /\ s[k].id = f[k] /\ f[k] \in ids /\ ~s[k].incognito
             /\ s[k].page = pages[k]
    <2>1. f[k] \in ids /\ pages[k] \in PublicPages BY <1>1, <1>2 DEF n
    <2>2. s[k] = [Blank(f[k], FALSE) EXCEPT !.page = pages[k]] BY <1>1, <1>2 DEF n
    <2>3. s[k] = [id |-> f[k], page |-> pages[k], incognito |-> FALSE, pinned |-> FALSE]
        BY <2>2 DEF Blank
    <2>4. pages[k] \in Page \cup {NoPage} /\ pages[k] \notin Secret
        BY <2>1, TabStripAssumption, SessionAssumption DEF PublicPages, Lasts
    <2> QED BY <2>1, <2>3, <2>4 DEF GoodTab, TabRecord
<1>4. DOMAIN s = 1..n /\ s = [k \in 1..n |-> s[k]]
    BY <1>1, <1>2 DEF n
<1>5. s \in Seq(GoodTab) /\ Len(s) = n
    <2>1. n \in Nat BY <1>2 DEF n
    <2> QED BY <1>3, <1>4, <2>1
<1>6. \A k, l \in 1..n : f[k] = f[l] => k = l
    BY <1>1, <1>2 DEF IsInjective, n
<1>7. Once(s)
    BY <1>3, <1>4, <1>6 DEF Once
<1>8. Pages(s) = [k \in 1..n |-> pages[k]]
    BY <1>3, <1>4 DEF Pages
<1> QED BY <1>2, <1>3, <1>4, <1>5, <1>7, <1>8 DEF n

(* Tabs put after others that have other names.                            *)
LEMMA Joined ==
    ASSUME NEW s \in Seq(GoodTab), NEW t \in Seq(GoodTab), Once(s), Once(t),
           \A k \in DOMAIN s, l \in DOMAIN t : s[k].id # t[l].id
    PROVE  s \o t \in Seq(GoodTab) /\ Once(s \o t) /\ DOMAIN (s \o t) = 1..(Len(s) + Len(t))
<1> DEFINE m == Len(s)
           n == Len(t)
           r == s \o t
<1>1. m \in Nat /\ n \in Nat /\ DOMAIN s = 1..m /\ DOMAIN t = 1..n
    OBVIOUS
<1>2. r \in Seq(GoodTab) /\ Len(r) = m + n
    OBVIOUS
<1>3. \A k \in 1..(m + n) : r[k] = IF k <= m THEN s[k] ELSE t[k - m]
    OBVIOUS
<1>4. DOMAIN r = 1..(m + n)
    BY <1>2
<1> HIDE DEF m, n, r
<1>5. ASSUME NEW k \in 1..(m + n), NEW l \in 1..(m + n), r[k].id = r[l].id PROVE k = l
    <2>1. \A j \in 1..(m + n) : /\ j <= m => j \in 1..m /\ r[j] = s[j]
                                /\ ~ (j <= m) => j - m \in 1..n /\ r[j] = t[j - m]
        BY <1>1, <1>3
    <2>2. CASE k <= m /\ l <= m BY <1>1, <1>5, <2>1, <2>2 DEF Once
    <2>3. CASE ~ (k <= m) /\ ~ (l <= m)
        <3>1. k - m = l - m BY <1>1, <1>5, <2>1, <2>3 DEF Once
        <3> QED BY <1>1, <3>1
    <2>4. ~ (k <= m /\ ~ (l <= m)) /\ ~ (~ (k <= m) /\ l <= m) BY <1>1, <1>5, <2>1
    <2> QED BY <2>2, <2>3, <2>4
<1> QED BY <1>2, <1>4, <1>5 DEF Once, m, n, r
-----------------------------------------------------------------------------
(* Each step keeps the invariant. *)

(* A shown strip has an active tab, unless it is empty.                    *)
LEMMA ActiveShown ==
    ASSUME NEW s \in Seq(GoodTab), NEW a, Shown(s, a), Lasting(s) # {}
    PROVE  a \in DOMAIN s
<1>1. DOMAIN s # {}
    BY DEF Lasting
<1>2. s # <<>>
    BY <1>1
<1> QED BY <1>2 DEF Shown

(* What is saved of a strip.                                               *)
LEMMA WrittenGood ==
    ASSUME NEW s \in Seq(GoodTab), NEW a, Shown(s, a), Writes(s)
    PROVE  Good(Clamp(Snapshot(s, a))) /\ crashed = None
<1>1. Lasting(s) # {} /\ crashed = None
    BY DEF Writes
<1>2. a \in DOMAIN s
    BY <1>1, ActiveShown
<1> QED BY <1>1, <1>2, SnapshotGood

LEMMA SavedKeeps ==
    ASSUME Kind(journal), StripInv', Saved
    PROVE  Kind(journal') /\ (crashed # None => journal' = journal)
<1>1. CASE Writes(strip')
    <2>1. Good(Clamp(Snapshot(strip', active'))) /\ crashed = None
        BY <1>1, WrittenGood DEF StripInv
    <2> QED BY <1>1, <2>1 DEF Saved, Kind
<1>2. CASE ~ Writes(strip')
    BY <1>2 DEF Saved
<1> QED BY <1>1, <1>2

(* A page shown where it may be, and the snapshot taken of it.             *)
LEMMA ShowsKeeps ==
    ASSUME StripInv, NEW i \in Open, NEW p \in Page \cup {NoPage},
           p \in Secret => strip[i].incognito, Shows(i, p)
    PROVE  StripInv' /\ Kind(late') /\ (crashed # None => late' = None)
<1>1. strip \in Seq(GoodTab) /\ Once(strip) /\ i \in DOMAIN strip /\ strip[i] \in GoodTab
    BY DEF StripInv, Open
<1> DEFINE t == [strip[i] EXCEPT !.page = p]
<1>2. t \in GoodTab /\ t.id = strip[i].id
    BY <1>1 DEF GoodTab, TabRecord
<1>3. strip' = [strip EXCEPT ![i] = t] /\ UNCHANGED <<active, closed>>
    BY DEF Shows
<1> HIDE DEF t
<1>4. strip' \in Seq(GoodTab) /\ Once(strip') /\ DOMAIN strip' = DOMAIN strip
    BY <1>1, <1>2, <1>3, ChangedKeeps
<1>5. active \in DOMAIN strip
    BY <1>1 DEF StripInv, Shown
<1>6. StripInv' /\ Shown(strip', active)
    BY <1>3, <1>4, <1>5 DEF StripInv, Shown
<1>7. late' = IF Writes(strip') THEN Clamp(Snapshot(strip', active)) ELSE None
    BY DEF Shows
<1>8. CASE Writes(strip')
    <2>1. Good(Clamp(Snapshot(strip', active))) /\ crashed = None
        BY <1>4, <1>6, <1>8, WrittenGood
    <2> QED BY <1>6, <1>7, <1>8, <2>1 DEF Kind
<1>9. CASE ~ Writes(strip')
    BY <1>6, <1>7, <1>9 DEF Kind
<1> QED BY <1>8, <1>9

(* What a run starts with is good.                                         *)
LEMMA BegunGood ==
    ASSUME file' = Nothing \/ Good(file'), NEW address \in Web \cup {NoPage}, NEW restore \in BOOLEAN
    PROVE  LET begun == Begun(address, restore)
           IN  /\ begun.tabs \in Seq(PublicPages) /\ Len(begun.tabs) \in Nat
               /\ begun.active \in 1..Len(begun.tabs)
               /\ address = NoPage /\ crashed' = None /\ restore /\ file' # Nothing
                    => begun = file'
<1> DEFINE b == Begun(address, restore)
<1>1. \A p \in PublicPages : <<p>> \in Seq(PublicPages) /\ Len(<<p>>) = 1 /\ 1 \in 1..1
    OBVIOUS
<1>2. Restore \in PublicPages /\ NoPage \in PublicPages /\ address \in PublicPages
    BY SessionAssumption DEF PublicPages, Lasts, Web
<1>3. CASE address # NoPage
    <2>1. b = [tabs |-> <<address>>, active |-> 1] BY <1>3 DEF Begun
    <2> QED BY <1>1, <1>2, <1>3, <2>1
<1>4. CASE address = NoPage /\ crashed' # None
    <2>1. b = [tabs |-> <<Restore>>, active |-> 1] BY <1>4 DEF Begun
    <2> QED BY <1>1, <1>2, <1>4, <2>1
<1>5. CASE address = NoPage /\ crashed' = None /\ ~ (restore /\ file'.tabs # <<>>)
    <2>1. b = [tabs |-> <<NoPage>>, active |-> 1] BY <1>5 DEF Begun
    <2>2. restore => file' = Nothing
        <3>1. Good(file') => file'.tabs # <<>>
            BY SessionAssumption DEF Good
        <3> QED BY <1>5, <3>1
    <2> QED BY <1>1, <1>2, <1>5, <2>1, <2>2
<1>6. CASE address = NoPage /\ crashed' = None /\ restore /\ file'.tabs # <<>>
    <2>1. b = Clamp(file') BY <1>6 DEF Begun
    <2>2. file' # Nothing BY <1>6 DEF Nothing
    <2>3. Good(file') /\ b = file' BY <2>1, <2>2, ClampSame
    <2> QED BY <2>3 DEF Good, PublicPages
<1> QED BY <1>3, <1>4, <1>5, <1>6

LEMMA StartKeeps ==
    ASSUME NEW j, Kind(j), file' = Nothing \/ Good(file'),
           NEW address \in Web \cup {NoPage}, NEW restore \in BOOLEAN, Start(j, address, restore)
    PROVE  /\ StripInv' /\ Kind(journal') /\ Kind(crashed')
           /\ late' = None /\ restoring' = None /\ answering' = NoTab /\ edits' = edits
           /\ crashed' # None => journal' = crashed'
           /\ Pages(strip') = Begun(address, restore).tabs
           /\ Len(strip') = Len(Begun(address, restore).tabs)
           /\ DOMAIN strip' = 1..Len(strip') /\ active' = Begun(address, restore).active
           /\ \A k \in DOMAIN strip' : strip'[k].page = Begun(address, restore).tabs[k]
<1> DEFINE begun == Begun(address, restore)
<1>1. /\ begun.tabs \in Seq(PublicPages) /\ Len(begun.tabs) \in Nat
      /\ begun.active \in 1..Len(begun.tabs)
    BY BegunGood
<1>2. /\ crashed' = IF j = None THEN None ELSE Clamp(j)
      /\ strip' \in TabsFor(begun.tabs, Tab)
      /\ active' = begun.active /\ closed' = <<>>
      /\ journal' = IF crashed' = None /\ begun.tabs # <<Restore>>
                    THEN Clamp(Snapshot(strip', active')) ELSE j
      /\ late' = None /\ restoring' = None /\ answering' = NoTab /\ edits' = edits
    BY DEF Start
<1> HIDE DEF begun
<1>3. crashed' = j
    BY <1>2, ClampSame DEF Kind
<1>4. /\ strip' \in Seq(GoodTab) /\ Once(strip') /\ DOMAIN strip' = 1..Len(begun.tabs)
      /\ Len(strip') = Len(begun.tabs) /\ Pages(strip') = begun.tabs
      /\ \A k \in DOMAIN strip' : ~strip'[k].incognito /\ strip'[k].page = begun.tabs[k]
    BY <1>1, <1>2, Opened
<1>5. active' \in DOMAIN strip'
    BY <1>1, <1>2, <1>4
<1>6. StripInv'
    <2>1. closed' \in Seq(Lasts) /\ Len(closed') <= MaxClosed
        BY <1>2, TabStripAssumption
    <2> QED BY <1>4, <1>5, <2>1 DEF StripInv, Shown
<1>7. Good(Clamp(Snapshot(strip', active')))
    <2>1. active' \in Lasting(strip') BY <1>4, <1>5 DEF Lasting
    <2>2. Lasting(strip') # {} BY <2>1
    <2> QED BY <1>4, <1>5, <2>2, SnapshotGood
<1>8. Kind(journal')
    BY <1>2, <1>7 DEF Kind
<1> QED BY <1>2, <1>3, <1>4, <1>6, <1>8 DEF begun

(* The session a clean exit saves.                                         *)
LEMMA QuitSaves ==
    ASSUME StripInv, file' = Clamp(Snapshot(strip, active))
    PROVE  file' = Nothing \/ Good(file')
<1>1. CASE Lasting(strip) = {}
    BY <1>1, SnapshotNothing DEF StripInv
<1>2. CASE Lasting(strip) # {}
    <2>1. active \in DOMAIN strip BY <1>2, ActiveShown DEF StripInv
    <2> QED BY <1>2, <2>1, SnapshotGood DEF StripInv
<1> QED BY <1>1, <1>2

(* The tabs of a crashed session opened in a run.                          *)
LEMMA ReopenedKeeps ==
    ASSUME StripInv, strip # <<>>, Good(restoring), Reopened, UNCHANGED closed
    PROVE  StripInv'
<1> DEFINE pages  == restoring.tabs
           prompt == Pages(strip) = <<Restore>>
           head   == [strip[1] EXCEPT !.page = pages[1]]
<1>1. /\ pages \in Seq(PublicPages) /\ Len(pages) \in Nat /\ Len(pages) # 0
      /\ restoring.active \in 1..Len(pages)
    BY SessionAssumption DEF Good, PublicPages
<1>2. strip \in Seq(GoodTab) /\ Once(strip) /\ Len(strip) \in Nat /\ DOMAIN strip = 1..Len(strip)
    BY DEF StripInv
<1>3. PICK more \in TabsFor(IF prompt THEN Tail(pages) ELSE pages, Fresh) :
          /\ strip' = (IF prompt THEN <<head>> ELSE strip) \o more
          /\ active' = (IF prompt THEN 0 ELSE Len(strip)) + restoring.active
    BY DEF Reopened
<1>4. Fresh \in SUBSET Tab /\ \A id \in Fresh : \A k \in DOMAIN strip : strip[k].id # id
    BY DEF Fresh, Ids
<1>5. CASE prompt
    <2>1. Len(strip) = 1
        <3>1. DOMAIN Pages(strip) = DOMAIN strip BY DEF Pages
        <3>2. DOMAIN strip = 1..1 BY <1>5, <3>1
        <3>3. 1 \in DOMAIN strip /\ 2 \notin DOMAIN strip BY <3>2
        <3>4. 1 <= Len(strip) /\ ~ (2 <= Len(strip)) BY <1>2, <3>3
        <3> QED BY <1>2, <3>4
    <2>2. head \in GoodTab /\ head.id = strip[1].id
        <3>1. strip[1] \in GoodTab BY <1>2, <2>1
        <3>2. pages[1] \in PublicPages BY <1>1
        <3>3. pages[1] \in Page \cup {NoPage} /\ pages[1] \notin Secret
            BY <3>2, TabStripAssumption, SessionAssumption DEF PublicPages, Lasts
        <3> HIDE DEF pages, prompt
        <3> QED BY <3>1, <3>3 DEF GoodTab, TabRecord
    <2>3. Tail(pages) \in Seq(PublicPages) /\ Len(Tail(pages)) = Len(pages) - 1
        BY <1>1
    <2> HIDE DEF head, pages
    <2>4. more \in TabsFor(Tail(pages), Fresh) BY <1>3, <1>5
    <2>5. /\ more \in Seq(GoodTab) /\ Once(more) /\ Len(more) = Len(pages) - 1
          /\ \A k \in DOMAIN more : more[k].id \in Fresh
        BY <1>4, <2>3, <2>4, Opened
    <2>6. <<head>> \in Seq(GoodTab) /\ Once(<<head>>) /\ Len(<<head>>) = 1
        BY <2>2 DEF Once
    <2>7. \A k \in DOMAIN <<head>>, l \in DOMAIN more : <<head>>[k].id # more[l].id
        <3>1. 1 \in DOMAIN strip BY <1>2, <2>1
        <3> QED BY <1>4, <2>2, <2>5, <3>1
    <2>8. strip' = <<head>> \o more /\ active' = restoring.active
        <3>1. restoring.active \in Nat BY <1>1 DEF pages
        <3>2. active' = 0 + restoring.active BY <1>3, <1>5 DEF pages
        <3> QED BY <1>3, <1>5, <3>1, <3>2 DEF pages
    <2>9. strip' \in Seq(GoodTab) /\ Once(strip') /\ DOMAIN strip' = 1..(1 + Len(more))
        BY <2>5, <2>6, <2>7, <2>8, Joined
    <2>10. active' \in DOMAIN strip'
        BY <1>1, <2>5, <2>8, <2>9 DEF pages
    <2> QED BY <2>9, <2>10 DEF StripInv, Shown
<1>6. CASE ~ prompt
    <2>1. more \in TabsFor(pages, Fresh) BY <1>3, <1>6
    <2>2. /\ more \in Seq(GoodTab) /\ Once(more) /\ Len(more) = Len(pages)
          /\ \A k \in DOMAIN more : more[k].id \in Fresh
        BY <1>1, <1>4, <2>1, Opened
    <2>3. \A k \in DOMAIN strip, l \in DOMAIN more : strip[k].id # more[l].id
        BY <1>4, <2>2
    <2>4. strip' = strip \o more /\ active' = Len(strip) + restoring.active
        BY <1>3, <1>6
    <2>5. strip' \in Seq(GoodTab) /\ Once(strip') /\ DOMAIN strip' = 1..(Len(strip) + Len(more))
        BY <1>2, <2>2, <2>3, <2>4, Joined
    <2>6. active' \in DOMAIN strip'
        BY <1>1, <1>2, <2>2, <2>4, <2>5
    <2> QED BY <2>5, <2>6 DEF StripInv, Shown
<1> QED BY <1>5, <1>6

LEMMA InitKeeps == Init => SessionInv
<1> SUFFICES ASSUME Init PROVE SessionInv
    OBVIOUS
<1>1. PICK id \in Tab : strip = <<Blank(id, FALSE)>>
    BY DEF Init
<1>2. Blank(id, FALSE) \in GoodTab
    BY BlankGood
<1> DEFINE t == Blank(id, FALSE)
<1>3. /\ strip \in Seq(GoodTab) /\ Once(strip) /\ DOMAIN strip = 1..1 /\ 1 \in DOMAIN strip
      /\ strip[1] = Blank(id, FALSE)
    <2> HIDE DEF t
    <2>1. strip = <<t>> /\ t \in GoodTab BY <1>1, <1>2 DEF t
    <2>2. strip \in Seq(GoodTab) /\ DOMAIN strip = 1..1 /\ strip[1] = t BY <2>1
    <2>3. \A i, j \in 1..1 : i = j OBVIOUS
    <2> QED BY <2>2, <2>3 DEF Once, t
<1>4. StripInv
    <2>1. active = 1 /\ closed = <<>> BY DEF Init
    <2>2. closed \in Seq(Lasts) /\ Len(closed) <= MaxClosed BY <2>1, TabStripAssumption
    <2> QED BY <1>3, <2>1, <2>2 DEF StripInv, Shown
<1>5. 1 \in Lasting(strip)
    BY <1>3 DEF Lasting, Blank
<1>6. Good(journal)
    <2>1. journal = Clamp(Snapshot(strip, 1)) BY DEF Init
    <2>2. Lasting(strip) # {} BY <1>5
    <2> QED BY <1>3, <2>1, <2>2, SnapshotGood
<1> QED BY <1>4, <1>6, SessionAssumption DEF Init, SessionInv, Kind, Nothing

LEMMA EditTabsKeeps == SessionInv /\ EditTabs => SessionInv'
<1> SUFFICES ASSUME SessionInv, EditTabs PROVE SessionInv'
    OBVIOUS
<1>1. StripInv'
    BY EditKeeps DEF SessionInv, EditTabs
<1>2. Kind(journal') /\ (crashed # None => journal' = journal)
    BY <1>1, SavedKeeps DEF SessionInv, EditTabs
<1>3. edits' \in 0..MaxEdits
    BY SessionAssumption DEF SessionInv, EditTabs
<1> QED BY <1>1, <1>2, <1>3 DEF SessionInv, EditTabs, Kind

LEMMA NavigateKeeps ==
    SessionInv /\ (\E i \in Open, p \in Page : Navigate(i, p)) => SessionInv'
<1> SUFFICES ASSUME SessionInv, NEW i \in Open, NEW p \in Page, Navigate(i, p) PROVE SessionInv'
    OBVIOUS
<1>1. p \in Secret => strip[i].incognito
    BY SessionAssumption DEF Navigate, Web
<1>2. StripInv' /\ Kind(late') /\ (crashed # None => late' = None)
    BY <1>1, ShowsKeeps DEF Navigate, SessionInv
<1> QED BY <1>2 DEF SessionInv, Navigate, diskVars, Kind

LEMMA SaveLateKeeps == SessionInv /\ SaveLate => SessionInv'
BY DEF SessionInv, SaveLate, stripVars, Kind, StripInv

LEMMA AnswerKeeps == SessionInv /\ (TakeCrashed \/ Dismiss) => SessionInv'
<1> SUFFICES ASSUME SessionInv, Answer, restoring' \in {restoring, crashed} PROVE SessionInv'
    BY DEF TakeCrashed, Dismiss
<1>1. PICK i \in Open : strip[i].page = Restore /\ answering' = strip[i].id
    BY DEF Answer
<1>2. strip[i].id \in Tab
    <2>1. strip[i] \in GoodTab BY DEF SessionInv, StripInv, Open
    <2> QED BY <2>1 DEF GoodTab, TabRecord
<1> QED BY <1>1, <1>2 DEF SessionInv, Answer, stripVars, Kind, StripInv

LEMMA RestoreCrashedKeeps == SessionInv /\ RestoreCrashed => SessionInv'
<1> SUFFICES ASSUME SessionInv, RestoreCrashed PROVE SessionInv'
    OBVIOUS
<1>1. StripInv'
    BY ReopenedKeeps DEF SessionInv, RestoreCrashed, Kind
<1>2. Kind(journal') /\ (crashed # None => journal' = journal)
    BY <1>1, SavedKeeps DEF SessionInv, RestoreCrashed
<1>3. answering' \in Tab \cup {NoTab}
    BY DEF SessionInv, RestoreCrashed, Answers
<1> QED BY <1>1, <1>2, <1>3 DEF SessionInv, RestoreCrashed, Kind

LEMMA ShowAnswerKeeps == SessionInv /\ ShowAnswer => SessionInv'
<1> SUFFICES ASSUME SessionInv, ShowAnswer PROVE SessionInv'
    OBVIOUS
<1>1. StripInv' /\ Kind(late') /\ (crashed # None => late' = None)
    <2>1. CASE answering \in Ids(strip)
        <3>1. PICK k \in DOMAIN strip : strip[k].id = answering BY <2>1 DEF Ids
        <3> DEFINE m == IndexOf(strip, answering)
        <3>2. m \in DOMAIN strip BY <3>1, Found
        <3>3. Shows(m, Restore) BY <2>1 DEF ShowAnswer
        <3> HIDE DEF m
        <3>4. PICK i \in Open : i = m BY <3>2 DEF Open
        <3>5. Shows(i, Restore) BY <3>3, <3>4
        <3>6. Restore \in Page /\ Restore \notin Secret BY SessionAssumption
        <3> QED BY <3>5, <3>6, ShowsKeeps DEF SessionInv
    <2>2. CASE answering \notin Ids(strip)
        BY <2>2 DEF ShowAnswer, SessionInv, stripVars, StripInv, Kind
    <2> QED BY <2>1, <2>2
<1> QED BY <1>1 DEF SessionInv, ShowAnswer, diskVars, Kind

LEMMA RunKeeps ==
    ASSUME SessionInv, NEW address \in Web \cup {NoPage}, NEW restore \in BOOLEAN,
           Quit(address, restore) \/ Crash(address, restore)
    PROVE  SessionInv'
<1>1. PICK j \in {None, late, journal} : Start(j, address, restore)
    BY DEF Quit, Crash
<1>2. Kind(j)
    BY <1>1 DEF SessionInv, Kind
<1>3. file' = Nothing \/ Good(file')
    BY QuitSaves DEF Quit, Crash, SessionInv
<1>4. /\ StripInv' /\ Kind(journal') /\ Kind(crashed')
      /\ late' = None /\ restoring' = None /\ answering' = NoTab /\ edits' = edits
      /\ crashed' # None => journal' = crashed'
    BY <1>1, <1>2, <1>3, StartKeeps
<1>5. runs' \in 0..MaxRuns
    BY SessionAssumption DEF Quit, Crash, NextRun, SessionInv
<1> QED BY <1>3, <1>4, <1>5 DEF SessionInv, Kind

LEMMA StepKeeps == SessionInv /\ [Next]_vars => SessionInv'
<1> SUFFICES ASSUME SessionInv, [Next]_vars PROVE SessionInv'
    OBVIOUS
<1>1. CASE UNCHANGED vars
    BY <1>1 DEF vars, stripVars, diskVars, SessionInv, StripInv, Kind
<1>2. CASE \E address \in Web \cup {NoPage}, restore \in BOOLEAN :
             Quit(address, restore) \/ Crash(address, restore)
    BY <1>2, RunKeeps
<1> QED
    BY <1>1, <1>2, EditTabsKeeps, NavigateKeeps, SaveLateKeeps, AnswerKeeps,
       RestoreCrashedKeeps, ShowAnswerKeeps
    DEF Next

LEMMA SessionInvariance == Spec => []SessionInv
BY InitKeeps, StepKeeps, PTL DEF Spec
-----------------------------------------------------------------------------
(* The theorems. *)

(* The types of the strip and of the saved sessions (tabs/manager.go:14-44, *)
(* session.go:30-33): every tab's name is used once, and the active index  *)
(* is one of the strip's whatever list surgery moved it.                   *)
THEOREM SessionTypeCorrect == Spec => []SessionTypeOK
<1>1. SessionInv => SessionTypeOK
    <2> SUFFICES ASSUME SessionInv PROVE SessionTypeOK
        OBVIOUS
    <2>1. strip \in Seq(TabRecord) /\ closed \in Seq(Page)
        BY DEF SessionInv, StripInv, GoodTab, Lasts
    <2>2. StripTypeOK
        BY <2>1 DEF SessionInv, StripInv, StripTypeOK, Shown, Once, Open, TabRecord
    <2>3. \A st : Good(st) => st \in Sessions
        BY DEF Good, Sessions, Lasts
    <2>4. Nothing \in Sessions
        BY DEF Nothing, Sessions
    <2>5. None \in Sessions
        BY DEF Sessions
    <2>6. {journal, file, crashed, late, restoring} \subseteq Sessions
        BY <2>3, <2>4, <2>5 DEF SessionInv, Kind
    <2> QED BY <2>2, <2>6 DEF SessionTypeOK, SessionInv
<1> QED BY <1>1, SessionInvariance, PTL

(* A page seen in a private tab is nowhere kept (navigation.go:673-676,    *)
(* manager.go:84-87), whatever tabs are duplicated, moved, closed,         *)
(* reopened or restored, in any number of runs.                            *)
THEOREM PrivatePagesForgotten == Spec => []PrivateStaysPrivate
<1>1. SessionInv => PrivateStaysPrivate
    <2> SUFFICES ASSUME SessionInv PROVE PrivateStaysPrivate
        OBVIOUS
    <2>1. \A st : Good(st) => Range(st.tabs) \cap Secret = {}
        <3>1. ASSUME NEW st, Good(st), NEW k \in DOMAIN st.tabs PROVE st.tabs[k] \notin Secret
            <4>1. st.tabs[k] \in Lasts \cup {NoPage} BY <3>1 DEF Good
            <4> QED BY <4>1, TabStripAssumption, SessionAssumption DEF Lasts
        <3> QED BY <3>1 DEF Range
    <2>2. Range(Nothing.tabs) = {}
        BY DEF Nothing, Range
    <2>3. Secret \cap SavedPages = {}
        <3>1. \A st \in {journal, file, crashed, late, restoring} \ {None} :
                Range(st.tabs) \cap Secret = {}
            BY <2>1, <2>2 DEF SessionInv, Kind
        <3> QED BY <3>1 DEF SavedPages
    <2>4. Secret \cap Range(closed) = {}
        <3>1. \A k \in DOMAIN closed : closed[k] \in Lasts BY DEF SessionInv, StripInv
        <3> QED BY <3>1 DEF Range, Lasts
    <2>5. \A i \in Open : strip[i].page \in Secret => strip[i].incognito
        <3>1. \A i \in Open : strip[i] \in GoodTab BY DEF SessionInv, StripInv, Open
        <3> QED BY <3>1 DEF GoodTab
    <2> QED BY <2>3, <2>4, <2>5 DEF PrivateStaysPrivate
<1> QED BY <1>1, SessionInvariance, PTL

(* While the prompt of the last crash is not answered, the journal it      *)
(* left is still in place (navigation.go:704-707), also after a second     *)
(* crash.                                                                  *)
THEOREM CrashStaysOnDisk == Spec => []CrashedUntilAnswered
<1>1. SessionInv => CrashedUntilAnswered
    BY DEF SessionInv, CrashedUntilAnswered
<1> QED BY <1>1, SessionInvariance, PTL

(* The step of the next theorem: the index moves with its tab.             *)
LEMMA FollowsStep == SessionInv /\ [Next]_vars =>
    [(\/ \E i \in Open \ {active} : CloseTab(i)
      \/ \E i \in Open : active <= i /\ CloseTabsToRight(i)
      \/ \E i, j \in Open : MoveTab(i, j))
     => strip'[active'].id = strip[active].id]_stripVars
<1> SUFFICES ASSUME StripInv,
                    \/ \E i \in Open \ {active} : CloseTab(i)
                    \/ \E i \in Open : active <= i /\ CloseTabsToRight(i)
                    \/ \E i, j \in Open : MoveTab(i, j)
             PROVE  strip'[active'].id = strip[active].id
    BY DEF SessionInv
<1>1. /\ strip \in Seq(GoodTab) /\ Len(strip) \in Nat /\ DOMAIN strip = 1..Len(strip)
      /\ active \in 1..Len(strip) /\ Open = 1..Len(strip)
    <2>1. Open # {} OBVIOUS
    <2>2. strip # <<>> BY <2>1 DEF Open
    <2> QED BY <2>2 DEF StripInv, Shown, Open
<1>2. ASSUME NEW i \in Open \ {active}, CloseTab(i) PROVE strip'[active'].id = strip[active].id
    <2> DEFINE n == Len(strip)
    <2>1. \A k \in 1..(n - 1) : strip'[k] = IF k < i THEN strip[k] ELSE strip[k + 1]
        BY <1>1, <1>2, Removed DEF CloseTab
    <2>2. n # 1
        BY <1>1
    <2>3. active' = IF active > n - 1 THEN n - 1 ELSE IF active > i THEN active - 1 ELSE active
        BY <1>2, <2>2 DEF CloseTab, AfterClose
    <2> HIDE DEF n
    <2>4. n \in Nat /\ active \in 1..n /\ i \in 1..n /\ i # active
        BY <1>1 DEF n
    <2>5. CASE active > i
        <3>1. active' = active - 1 /\ active' \in 1..(n - 1) /\ ~ (active' < i) /\ active' + 1 = active
            BY <2>3, <2>4, <2>5
        <3> QED BY <2>1, <3>1
    <2>6. CASE ~ (active > i)
        <3>1. active' = active /\ active' \in 1..(n - 1) /\ active' < i
            BY <2>3, <2>4, <2>6
        <3> QED BY <2>1, <3>1
    <2> QED BY <2>5, <2>6
<1>3. ASSUME NEW i \in Open, active <= i, CloseTabsToRight(i)
      PROVE  strip'[active'].id = strip[active].id
    <2> DEFINE I == Pinned \cup 1..i
    <2>1. I \in SUBSET Open /\ active \in I
        BY <1>1, <1>3 DEF Pinned
    <2>2. KeepOnly(I) /\ active' = IndexOf(strip', strip[active].id)
        BY <1>3, <2>1 DEF CloseTabsToRight
    <2> HIDE DEF I
    <2>3. strip'[IndexOf(strip', strip[active].id)].id = strip[active].id
        BY <2>1, <2>2, KeepOnlyKeeps
    <2> QED BY <2>2, <2>3
<1>4. ASSUME NEW i \in Open, NEW j \in Open, MoveTab(i, j)
      PROVE  strip'[active'].id = strip[active].id
    <2>1. strip' = Moved(i, j) /\ active' = IndexOf(strip', strip[active].id)
        BY <1>4 DEF MoveTab
    <2>2. \E k \in DOMAIN strip' : strip'[k] = strip[active]
        BY <1>1, <2>1, MovedKeeps
    <2>3. PICK k \in DOMAIN strip' : strip'[k] = strip[active] BY <2>2
    <2>4. strip'[k].id = strip[active].id BY <2>3
    <2> QED BY <2>1, <2>4, Found
<1> QED BY <1>2, <1>3, <1>4

(* The active tab stays the active one when other tabs are closed or any   *)
(* is moved (manager.go:135-139, 235-271, 485-490).                        *)
THEOREM ActiveTabFollows == Spec => ActiveFollows
BY SessionInvariance, FollowsStep, PTL DEF Spec, ActiveFollows

(* The step of a clean exit: what is saved is what the next run starts     *)
(* with, since a good session is saved and loaded as it is.                *)
LEMMA SurvivesStep == SessionInv /\ [Next]_vars =>
    [Quit(NoPage, TRUE) /\ crashed' = None /\ Public(strip) # <<>>
       => LET n == Len(strip')
          IN  /\ Pages(strip') = SubSeq(Pages(Public(strip)), 1, n)
              /\ n \in {Len(Public(strip)), MaxTabs}
              /\ ~strip[active].incognito
                   => \/ strip'[active'].page = strip[active].page
                      \/ \E i \in (n + 1)..Len(Public(strip)) :
                           Public(strip)[i] = strip[active]]_vars
<1> SUFFICES ASSUME SessionInv, Quit(NoPage, TRUE), crashed' = None, Public(strip) # <<>>
             PROVE  LET n == Len(strip')
                    IN  /\ Pages(strip') = SubSeq(Pages(Public(strip)), 1, n)
                        /\ n \in {Len(Public(strip)), MaxTabs}
                        /\ ~strip[active].incognito
                             => \/ strip'[active'].page = strip[active].page
                                \/ \E i \in (n + 1)..Len(Public(strip)) :
                                     Public(strip)[i] = strip[active]
    OBVIOUS
<1>1. strip \in Seq(GoodTab) /\ Shown(strip, active) /\ StripInv
    BY DEF SessionInv, StripInv
<1>2. Lasting(strip) # {}
    BY <1>1, SnapshotNothing
<1>3. active \in DOMAIN strip
    BY <1>1, <1>2, ActiveShown
<1> DEFINE z == Snapshot(strip, active)
           pub == Public(strip)
           m == IF Len(z.tabs) > MaxTabs THEN MaxTabs ELSE Len(z.tabs)
<1>4. /\ z \in [tabs : Seq(PublicPages), active : Nat \ {0}] /\ z.tabs = Pages(pub) /\ z.tabs # <<>>
      /\ Len(z.tabs) = Len(pub) /\ Len(pub) \in Nat /\ z.active \in 1..Len(pub)
      /\ active \in Lasting(strip) =>
           pub[z.active] = strip[active] /\ z.tabs[z.active] = strip[active].page
    BY <1>1, <1>2, <1>3, SnapshotGood
<1> HIDE DEF z, pub
<1>5. /\ m \in 1..MaxTabs /\ m <= Len(z.tabs)
      /\ Clamp(z).tabs = SubSeq(z.tabs, 1, m) /\ Len(Clamp(z).tabs) = m
      /\ \A k \in 1..m : Clamp(z).tabs[k] = z.tabs[k]
      /\ Clamp(z).active = IF z.active > m THEN m ELSE z.active
      /\ Good(Clamp(z))
    BY <1>4, Clamped
<1>6. file' = Clamp(z)
    BY DEF Quit, z
<1>7. file' # Nothing
    <2>1. Len(<<>>) = 0 /\ Nothing.tabs = <<>> BY DEF Nothing
    <2>2. Len(file'.tabs) # 0 BY <1>5, <1>6, SessionAssumption
    <2> QED BY <2>1, <2>2
<1>8. PICK j \in {None, late} : Start(j, NoPage, TRUE)
    BY DEF Quit
<1>9. Kind(j)
    BY DEF SessionInv, Kind
<1> DEFINE begun == Begun(NoPage, TRUE)
<1>10. begun = file'
    <2>1. file' = Nothing \/ Good(file') BY <1>5, <1>6
    <2> QED BY <1>7, <2>1, BegunGood
<1>11. /\ Pages(strip') = begun.tabs /\ Len(strip') = Len(begun.tabs)
       /\ DOMAIN strip' = 1..Len(strip') /\ active' = begun.active
       /\ \A k \in DOMAIN strip' : strip'[k].page = begun.tabs[k]
    <2>1. file' = Nothing \/ Good(file') BY <1>5, <1>6
    <2>2. NoPage \in Web \cup {NoPage} OBVIOUS
    <2> HIDE DEF m
    <2> QED BY <1>8, <1>9, <2>1, <2>2, StartKeeps
<1> HIDE DEF begun
<1>12. Len(strip') = m /\ Pages(strip') = SubSeq(Pages(pub), 1, m)
    BY <1>4, <1>5, <1>6, <1>10, <1>11
<1>13. m \in {Len(pub), MaxTabs}
    BY <1>4
<1> HIDE DEF m
<1>14. ASSUME ~strip[active].incognito
       PROVE  \/ strip'[active'].page = strip[active].page
              \/ \E i \in (m + 1)..Len(pub) : pub[i] = strip[active]
    <2>1. active \in Lasting(strip) BY <1>3, <1>14 DEF Lasting
    <2>2. m \in Nat /\ z.active \in Nat /\ z.active \in 1..Len(pub)
        BY <1>4, <1>5, SessionAssumption
    <2>3. CASE z.active > m
        <3>1. z.active \in (m + 1)..Len(pub) BY <1>4, <2>2, <2>3
        <3> QED BY <1>4, <2>1, <3>1
    <2>4. CASE ~ (z.active > m)
        <3>1. z.active \in 1..m BY <1>4, <2>2, <2>4
        <3>2. active' = z.active BY <1>5, <1>6, <1>10, <1>11, <2>4
        <3>3. strip'[active'].page = z.tabs[z.active]
            BY <1>5, <1>6, <1>10, <1>11, <3>1, <3>2
        <3> QED BY <1>4, <2>1, <3>3
    <2> QED BY <2>3, <2>4
<1> QED BY <1>12, <1>13, <1>14 DEF pub

(* What a clean exit saves is what the next run shows, and the same tab is *)
(* active if it is not private, as far as the limit on tabs allows.        *)
THEOREM SessionIsRestored == Spec => SessionSurvives
BY SessionInvariance, SurvivesStep, PTL DEF Spec, SessionSurvives
=============================================================================
