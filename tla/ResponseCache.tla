---------------------------- MODULE ResponseCache ----------------------------
(***************************************************************************)
(* The HTTP cache (internal/net/cache.go): entries by URL, the order they  *)
(* were stored in, and the count of their bytes, kept by hand next to each *)
(* other.  A response is the size of its entry and its freshness lifetime, *)
(* 0 when its headers forbid storing it.                                   *)
(***************************************************************************)
EXTENDS Subsequence, SequencesExt

CONSTANTS Url,
          MaxBytes   \* maxCacheBytes

ASSUME ResponseCacheAssumption == MaxBytes \in Nat

VARIABLES
    entries,   \* responseCache.entries: size and expiresAt of each URL held
    order,     \* responseCache.order
    bytes      \* responseCache.bytes

cacheVars == <<entries, order, bytes>>

CacheInit == entries = <<>> /\ order = <<>> /\ bytes = 0

(* The bytes of the entries that held has for urls, told apart, and their   *)
(* number: what the entries weigh together.                                *)
BytesOf(held, urls) == UNION {{u} \X (1..held[u].size) : u \in urls}
Weight(held, urls)  == Cardinality(BytesOf(held, urls))

Dequeued(u)   == At(order, {i \in DOMAIN order : order[i] # u})
Held(u)       == u \in DOMAIN entries
Fresh(u, now) == Held(u) /\ now < entries[u].expiresAt

(* get drops an expired entry, and leaves any other alone.                  *)
Get(u, now) ==
    IF Held(u) /\ ~Fresh(u, now)
    THEN /\ entries' = Restrict(entries, DOMAIN entries \ {u})
         /\ order' = Dequeued(u)
         /\ bytes' = bytes - entries[u].size
    ELSE UNCHANGED cacheVars

(* Faulty variant: the size of the entry that is replaced stays counted.    *)
CountedKeeping(u, size) == bytes + size

(* The count with the new entry in and the one it replaces out.             *)
Counted(u, size) == bytes - (IF Held(u) THEN entries[u].size ELSE 0) + size

(* store puts the new entry last and drops from the front until the count   *)
(* is within its bound, the new entry itself if it alone is too large.      *)
Insert(u, size, lifetime, now) ==
    LET stored == [v \in DOMAIN entries \cup {u} |->
                     IF v = u THEN [size |-> size, expiresAt |-> now + lifetime]
                     ELSE entries[v]]
        queue  == Append(Dequeued(u), u)
        Victims(n) == {queue[i] : i \in 1..n}
        Size(n)  == Weight(stored, Victims(n))
        enough == {n \in 0..Len(queue) :
                     n = Len(queue) \/ Counted(u, size) - Size(n) <= MaxBytes}
        drop   == CHOOSE n \in enough : \A m \in enough : n <= m
    IN  /\ entries' = Restrict(stored, DOMAIN stored \ Victims(drop))
        /\ order' = SubSeq(queue, drop + 1, Len(queue))
        /\ bytes' = Counted(u, size) - Size(drop)

Keep(u, size, lifetime, now) ==
    IF lifetime = 0 THEN UNCHANGED cacheVars ELSE Insert(u, size, lifetime, now)
-----------------------------------------------------------------------------
CacheTypeOK(sizes, ends) ==
    /\ DOMAIN entries \subseteq Url
    /\ \A u \in DOMAIN entries : entries[u] \in [size : sizes, expiresAt : ends]
    /\ order \in Seq(Url)
    /\ bytes \in Nat

(* The count is what the entries weigh and within its bound, and the order  *)
(* names every entry once, under expiry, eviction and the replacement that  *)
(* two requests for one URL in flight together bring (cache.go:77-92).      *)
CacheAccounted ==
    /\ bytes = Weight(entries, DOMAIN entries) /\ bytes <= MaxBytes
    /\ Range(order) = DOMAIN entries
    /\ IsInjective(order)
=============================================================================
