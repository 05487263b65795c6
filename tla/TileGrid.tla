------------------------------ MODULE TileGrid ------------------------------
(***************************************************************************)
(* The retained tile cache of one layer: the grid (internal/frame/grid.go, *)
(* tile.go), the buffer pool it draws from (pool.go) and the layer whose   *)
(* content it depicts (layer.go), under the calls the frame thread makes.  *)
(*                                                                         *)
(* Every tile costs the same, so bytes are counted in tiles.  A tile       *)
(* record that was never created and an empty one behave alike and are     *)
(* both "empty".  LastUsed and the counters that are only reported are     *)
(* left out.                                                               *)
(***************************************************************************)
EXTENDS Subsequence

CONSTANTS Tile,          \* the coordinates inside the layer's extent
          Buffer,        \* tile buffers; more than are ever alive at once
          NoBuffer, NoTile,
          Budgets,       \* byte budgets SetBudget may choose, in tiles
          MaxIdle,       \* idle buffers the pool retains
          TouchLists,    \* the visible lists a frame may touch, in order
          MaxRev,        \* bound: content revisions
          Bumps          \* whether content also changes through Layer.Bump

MaxTileAttempts == 2

ASSUME GridAssumption ==
    /\ IsFiniteSet(Tile) /\ NoTile \notin Tile
    /\ NoBuffer \notin Buffer
    /\ Budgets \subseteq Nat \ {0} /\ Budgets # {}
    /\ MaxIdle \in Nat \ {0}
    /\ TouchLists \subseteq Seq(Tile)
    /\ MaxRev \in Nat
    /\ Bumps \in BOOLEAN

VARIABLES
    state,      \* Tile.State
    version,    \* Tile.Version
    pixels,     \* Tile.Pixels: what the compositor shows
    painting,   \* Tile.painting: the buffer a worker fills
    attempts,   \* Tile.Attempts, saturated at MaxTileAttempts
    order,      \* the version on order and the revision of the tile it depicts
    lru,        \* the recency list, most recent first
    idle,       \* the pool's free list, a stack
    used,       \* Grid.used
    onOrder,    \* Grid.painting
    budget,     \* Grid.budget
    layerVer,   \* Layer.ContentVersion
    suspect,    \* the tile whose failure HandleDone is about to judge
    rev,        \* history: how often the layer's content has changed
    changed,    \* history: the revision that last changed a tile
    drawn       \* history: the revision a tile's pixels depict

bufferVars  == <<pixels, painting, idle, used, onOrder>>
contentVars == <<layerVer, rev, changed>>
vars == <<state, version, attempts, order, lru, bufferVars, budget, contentVars,
          suspect, drawn>>

Lesser(a, b)  == IF a < b THEN a ELSE b
Greater(a, b) == IF a > b THEN a ELSE b
Elems(s)      == {s[i] : i \in DOMAIN s}

Holders  == {t \in Tile : pixels[t] # NoBuffer}
Painters == {t \in Tile : painting[t] # NoBuffer}
InUse    == {pixels[t] : t \in Holders} \cup {painting[t] : t \in Painters}
                \cup Elems(idle)

ValidAt(t, v) == state[t] = "valid" /\ version[t] >= v /\ pixels[t] # NoBuffer
Needs(t)      == ~ValidAt(t, layerVer)
InFlight(t)   == painting[t] # NoBuffer
Blittable(t)  == pixels[t] # NoBuffer /\ state[t] # "failed"

(* The filter of BeginFrame: worth submitting. *)
WantedIfFresh(t)  == Needs(t) /\ ~InFlight(t) /\ state[t] # "failed" /\ attempts[t] = 0
Wanted(t)         == Needs(t) /\ ~InFlight(t) /\ state[t] # "failed"

TypeOK ==
    /\ state \in [Tile -> {"empty", "valid", "stale", "failed"}]
    /\ version \in [Tile -> Nat]
    /\ pixels \in [Tile -> Buffer \cup {NoBuffer}]
    /\ painting \in [Tile -> Buffer \cup {NoBuffer}]
    /\ attempts \in [Tile -> 0..MaxTileAttempts]
    /\ order \in [Tile -> [ver : Nat, rev : Nat]]
    /\ idle \in Seq(Buffer) /\ Len(idle) <= MaxIdle
    /\ used \in Int /\ onOrder \in Int
    /\ budget \in Budgets
    /\ layerVer \in Nat
    /\ suspect \in Tile \cup {NoTile}
    /\ rev \in Nat /\ changed \in [Tile -> Nat] /\ drawn \in [Tile -> Nat]

(* A layer whose content is already at version 1, as list.Build(1) makes it. *)
Init ==
    /\ state = [t \in Tile |-> "empty"]
    /\ version = [t \in Tile |-> 0]
    /\ pixels = [t \in Tile |-> NoBuffer] /\ painting = [t \in Tile |-> NoBuffer]
    /\ attempts = [t \in Tile |-> 0]
    /\ order = [t \in Tile |-> [ver |-> 0, rev |-> 0]]
    /\ lru = <<>> /\ idle = <<>>
    /\ used = 0 /\ onOrder = 0
    /\ budget \in Budgets
    /\ layerVer = 1
    /\ suspect = NoTile
    /\ rev = 1 /\ changed = [t \in Tile |-> 1] /\ drawn = [t \in Tile |-> 0]
-----------------------------------------------------------------------------
(* The pool.  Release pushes while there is room and lets go of the rest;  *)
(* Acquire pops, or allocates a buffer that is nowhere in use.             *)

Retain(s)    == SubSeq(s, 1, Lesser(Len(s), MaxIdle))

PopPeeking(idle0, b) ==
    /\ b \in IF idle0 = <<>> THEN Buffer \ InUse ELSE {idle0[Len(idle0)]}
    /\ idle' = idle0

(* The stack idle0 supplies buffer b and becomes idle'. *)
Pop(idle0, b) ==
    IF idle0 = <<>>
    THEN b \in Buffer \ InUse /\ idle' = idle0
    ELSE b = idle0[Len(idle0)] /\ idle' = SubSeq(idle0, 1, Len(idle0) - 1)

Listed(t)       == \E i \in DOMAIN lru : lru[i] = t
Older(t, u)     == \E i, j \in DOMAIN lru : i < j /\ lru[i] = u /\ lru[j] = t
Without(s, S)   == At(s, {i \in DOMAIN s : s[i] \notin S})

(* The sequences of n distinct tiles of S, oldest first, that leave younger *)
(* ones behind: what walking the recency list from its tail visits.        *)
OldestFirst(S, n) ==
    {v \in [1..n -> S] :
        /\ \A i, j \in 1..n : i < j => v[i] # v[j] /\ Older(v[i], v[j])
        /\ \A t \in S : (\E i \in 1..n : v[i] = t) \/ (\A i \in 1..n : Older(v[i], t))}

(* dropPixels of the tiles in the sequence v, in that order. *)
DropListed(v) ==
    /\ pixels' = [t \in Tile |-> IF t \in Elems(v) THEN NoBuffer ELSE pixels[t]]
    /\ version' = [t \in Tile |-> IF t \in Elems(v) THEN 0 ELSE version[t]]
    /\ drawn' = [t \in Tile |-> IF t \in Elems(v) THEN 0 ELSE drawn[t]]
    /\ UNCHANGED lru

DropAll(v) ==
    /\ pixels' = [t \in Tile |-> IF t \in Elems(v) THEN NoBuffer ELSE pixels[t]]
    /\ version' = [t \in Tile |-> IF t \in Elems(v) THEN 0 ELSE version[t]]
    /\ drawn' = [t \in Tile |-> IF t \in Elems(v) THEN 0 ELSE drawn[t]]
    /\ lru' = Without(lru, Elems(v))

Released(v) == [i \in DOMAIN v |-> pixels[v[i]]]

Emptied(v) == [t \in Tile |-> IF t \in Elems(v) THEN "empty" ELSE state[t]]

(* A tile's own pixels, if it has any, go back to the pool. *)
RetireUncounted(c) ==
    /\ idle' = IF pixels[c] = NoBuffer THEN idle ELSE Retain(Append(idle, pixels[c]))
    /\ UNCHANGED used

Retire(c) ==
    IF pixels[c] = NoBuffer
    THEN UNCHANGED <<idle, used>>
    ELSE idle' = Retain(Append(idle, pixels[c])) /\ used' = used - 1

TouchForgotten(ts) == UNCHANGED vars

(* What Touch of one tile after the other, of those in ts, makes of lru; a  *)
(* tile without pixels is not in the list.                                 *)
Touched(l, t) == IF Listed(t) THEN <<t>> \o Without(l, {t}) ELSE l

TouchedBy(ts) ==
    LET after[i \in 0..Len(ts)] == IF i = 0 THEN lru ELSE Touched(after[i - 1], ts[i])
    IN  after[Len(ts)]

(* Touch of every tile on screen. *)
Touch(ts) ==
    /\ lru' = TouchedBy(ts)
    /\ UNCHANGED <<state, version, attempts, order, bufferVars, budget, contentVars,
                   suspect, drawn>>

(* Acquire of a tile that has no buffer on order: evictFor frees the       *)
(* oldest pixels until one more tile fits, sparing the tile itself, and    *)
(* the pool supplies the buffer.  The job carries the layer's content.     *)
Evictable(c)    == Holders \ {c}

Acquire(c) ==
    /\ painting[c] = NoBuffer
    /\ LET others == Evictable(c)
           n == Greater(0, Lesser(Cardinality(others), used + 1 - budget))
       IN  \E v \in OldestFirst(others, n) : \E b \in Buffer :
             /\ DropAll(v)
             /\ Pop(Retain(idle \o Released(v)), b)
             /\ painting' = [painting EXCEPT ![c] = b]
             /\ used' = used - n + 1
             /\ state' = [Emptied(v) EXCEPT ![c] = "stale"]
    /\ onOrder' = onOrder + 1
    /\ attempts' = [attempts EXCEPT ![c] = Lesser(@ + 1, MaxTileAttempts)]
    /\ order' = [order EXCEPT ![c] = [ver |-> layerVer, rev |-> changed[c]]]
    /\ UNCHANGED <<budget, contentVars, suspect>>

(* MarkValid with the buffer on order: the superseded pixels go back. *)
MarkValid(c) ==
    /\ painting[c] # NoBuffer
    /\ pixels' = [pixels EXCEPT ![c] = painting[c]]
    /\ painting' = [painting EXCEPT ![c] = NoBuffer]
    /\ onOrder' = onOrder - 1
    /\ Retire(c)
    /\ version' = [version EXCEPT ![c] = order[c].ver]
    /\ drawn' = [drawn EXCEPT ![c] = order[c].rev]
    /\ state' = [state EXCEPT ![c] = "valid"]
    /\ attempts' = [attempts EXCEPT ![c] = 0]
    /\ lru' = <<c>> \o Without(lru, {c})
    /\ UNCHANGED <<order, budget, contentVars, suspect>>

(* Release of the buffer on order: a refused submission, a result for      *)
(* content that has moved on, or a failed raster.                          *)
Release(c) ==
    /\ painting[c] # NoBuffer
    /\ painting' = [painting EXCEPT ![c] = NoBuffer]
    /\ onOrder' = onOrder - 1 /\ used' = used - 1
    /\ idle' = Retain(Append(idle, painting[c]))
    /\ UNCHANGED <<state, version, pixels, attempts, order, lru, budget, contentVars, drawn>>

(* HandleDone releases a failed raster's buffer and then judges the tile by *)
(* its attempts.                                                            *)
ReleaseFailed(c) ==
    /\ Release(c)
    /\ suspect' = IF attempts[c] >= MaxTileAttempts THEN c ELSE NoTile

ReleaseUnpainted(c) == Release(c) /\ UNCHANGED suspect

MarkFailed(c) ==
    /\ Retire(c)
    /\ IF pixels[c] = NoBuffer
       THEN UNCHANGED <<pixels, version, drawn, lru>>
       ELSE DropAll(<<c>>)
    /\ state' = [state EXCEPT ![c] = "failed"]
    /\ suspect' = NoTile
    /\ UNCHANGED <<painting, attempts, order, onOrder, budget, contentVars>>

(* SetBudget evicts at once, and spares no tile. *)
SetBudget(b) ==
    /\ budget' = b
    /\ LET n == Greater(0, Lesser(Cardinality(Holders), used - b))
       IN  \E v \in OldestFirst(Holders, n) :
             /\ DropAll(v)
             /\ idle' = Retain(idle \o Released(v))
             /\ used' = used - n
             /\ state' = Emptied(v)
    /\ UNCHANGED <<painting, attempts, order, onOrder, contentVars, suspect>>
-----------------------------------------------------------------------------
(* New content, different in the tiles of C. *)
NewRevision(C) ==
    /\ rev < MaxRev
    /\ rev' = rev + 1
    /\ changed' = [t \in Tile |-> IF t \in C THEN rev + 1 ELSE changed[t]]

(* SetContent and InvalidateRect(D).  A retained layer's content keeps its *)
(* version, or brings a newer one.                                         *)
Swap(C, D, v) ==
    /\ NewRevision(C)
    /\ v >= layerVer /\ layerVer' = v
    /\ LET hit == {t \in D : state[t] \in {"valid", "failed"}}
       IN  /\ state' = [t \in Tile |-> IF t \in hit THEN "stale" ELSE state[t]]
           /\ attempts' = [t \in Tile |-> IF t \in hit THEN 0 ELSE attempts[t]]
    /\ UNCHANGED <<version, order, lru, bufferVars, budget, suspect, drawn>>

(* Layer.Bump and Grid.Advance: the content moves to the next version,     *)
(* stale inside D and promoted in place outside it.                        *)
Promotes(t)    == pixels[t] # NoBuffer

Bump(D) ==
    /\ Bumps /\ NewRevision(D)
    /\ layerVer' = layerVer + 1
    /\ LET behind   == {t \in Tile : version[t] < layerVer'}
           staled   == {t \in behind \cap D : pixels[t] # NoBuffer /\ state[t] # "stale"}
           promoted == behind \ D
           freed    == {t \in behind \ staled : state[t] = "failed" /\ pixels[t] = NoBuffer}
       IN  /\ state' = [t \in Tile |->
                          IF t \in staled THEN "stale"
                          ELSE IF t \in freed THEN "empty"
                          ELSE IF t \in promoted /\ Promotes(t) THEN "valid"
                          ELSE state[t]]
           /\ version' = [t \in Tile |-> IF t \in promoted THEN layerVer' ELSE version[t]]
           /\ attempts' = [t \in Tile |->
                             IF t \in staled \cup freed \cup promoted THEN 0 ELSE attempts[t]]
    /\ UNCHANGED <<order, lru, bufferVars, budget, suspect, drawn>>
-----------------------------------------------------------------------------
(* What the frame thread may call next.  Submit orders a tile only while   *)
(* the buffers on order and one more fit the budget; HandleDone installs a *)
(* result only if it depicts the layer's version; applyPendingUpdate       *)
(* replaces content only while no tile it changes has a buffer on order.   *)
Submit(c)  == suspect = NoTile /\ Wanted(c) /\ onOrder + 1 <= budget /\ Acquire(c)
Install(c) == suspect = NoTile /\ order[c].ver >= layerVer /\ MarkValid(c)
Discard(c) == suspect = NoTile /\ ReleaseUnpainted(c)
Fail(c)    == suspect = NoTile /\ ReleaseFailed(c)
GiveUp(c)  == suspect = c /\ MarkFailed(c)

Replace(D, v) == (\A t \in D : ~InFlight(t)) /\ Swap(D, D, v)

Next ==
    \/ \E c \in Tile : Submit(c) \/ Install(c) \/ Discard(c) \/ Fail(c) \/ GiveUp(c)
    \/ /\ suspect = NoTile
       /\ \/ \E ts \in TouchLists : Touch(ts)
          \/ \E b \in Budgets : SetBudget(b)
          \/ \E D \in SUBSET Tile, v \in {layerVer, layerVer + 1} : Replace(D, v)
          \/ \E D \in SUBSET Tile : Bump(D)

Spec == Init /\ [][Next]_vars
-----------------------------------------------------------------------------
(* A buffer has one owner: a tile that shows it, a tile it is being        *)
(* painted for, or the free list.  A buffer in two hands is a torn tile.   *)
OneOwner ==
    /\ \A t, u \in Holders : pixels[t] = pixels[u] => t = u
    /\ \A t, u \in Painters : painting[t] = painting[u] => t = u
    /\ \A t \in Holders, u \in Painters : pixels[t] # painting[u]
    /\ \A i, j \in DOMAIN idle : idle[i] = idle[j] => i = j
    /\ \A i \in DOMAIN idle : /\ \A t \in Holders : pixels[t] # idle[i]
                              /\ \A t \in Painters : painting[t] # idle[i]

(* Grid.used and Grid.painting are what the tiles hold, after any mixture  *)
(* of evictions, refusals, failures and installs.                          *)
Accounted == /\ used = Cardinality(Holders) + Cardinality(Painters)
             /\ onOrder = Cardinality(Painters)

(* The recency list threads exactly the tiles with pixels, each once: an   *)
(* unlisted tile could never be evicted, a listed empty one would free     *)
(* nothing.                                                                *)
LruListsHolders ==
    /\ Elems(lru) = Holders
    /\ Len(lru) = Cardinality(Holders)

(* A tile's state agrees with its pixels: nothing to show in an empty or   *)
(* failed tile, something in a valid one.                                  *)
StateFitsPixels ==
    \A t \in Tile : /\ state[t] = "valid" => t \in Holders
                    /\ state[t] \in {"empty", "failed"} => t \notin Holders

(* A tile the layer no longer asks a raster for depicts the newest change  *)
(* of its content.  An old picture in a valid tile would stay on screen    *)
(* for good.                                                               *)
CurrentWhenValid == \A t \in Tile : ~Needs(t) => drawn[t] = changed[t]

=============================================================================
