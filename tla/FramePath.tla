----------------------------- MODULE FramePath -----------------------------
(***************************************************************************)
(* The frame path: one scheduler (internal/raster/scheduler.go) driving    *)
(* the tile grid of one layer, the raster pool and the composer's backing  *)
(* store (internal/surface/composer.go), vsync after vsync, while a        *)
(* producer thread replaces the layer's content (UpdateLayer).             *)
(*                                                                         *)
(* The page is one column of tiles, top to bottom, of TileRows rows each;  *)
(* the surface shows ViewRows of them.  The frame thread's calls are one   *)
(* step each, so that the workers and the producer interleave with them.   *)
(* The pool is reduced to what RasterPool shows of it: a bounded queue, so *)
(* many workers, results in order of completion, none lost.                *)
(***************************************************************************)
EXTENDS TileGrid

CONSTANTS TileRows, ViewRows,   \* geometry
          RingRows,             \* prefetch rows, in tiles; 0 switches it off
          QueueDepth, Workers,  \* the pool
          Faulty,               \* whether a raster may fail
          NoUpdate,
          MaxUpdates,           \* bound: updates the producer publishes
          Overshoot             \* bound: rows a scroll runs past either end

N          == Cardinality(Tile)
MaxOffset  == N * TileRows - ViewRows
Background == 0

TileOf(row)  == (row \div TileRows) + 1
Visible(off) == {TileOf(off + y) : y \in 0..(ViewRows - 1)}
ClampHigh(r) == Lesser(r, MaxOffset)
Clamp(r)     == Greater(0, Lesser(r, MaxOffset))

Ascending(S)  == At([i \in 1..N |-> i], S)
Descending(S) == At([i \in 1..N |-> N + 1 - i], {i \in 1..N : N + 1 - i \in S})

(* Leading edge first. *)
Downwards == [off \in 0..MaxOffset |-> Ascending(Visible(off))]
Upwards   == [off \in 0..MaxOffset |-> Descending(Visible(off))]
FrameOrder(off, d) == IF d > 0 THEN Upwards[off] ELSE Downwards[off]

(* The bands RingRows thick on both sides, the one ahead first.  Each band *)
(* is listed top to bottom, as PrefetchCoords does.                        *)
Above(off) == {t \in Tile : /\ t < TileOf(off)
                            /\ t * TileRows > off - RingRows * TileRows}
Below(off) == {t \in Tile : /\ t > TileOf(off + ViewRows - 1)
                            /\ (t - 1) * TileRows < off + ViewRows + RingRows * TileRows}
Ring(off, d) == IF d > 0 THEN Ascending(Below(off)) \o Ascending(Above(off))
                         ELSE Ascending(Above(off)) \o Ascending(Below(off))

(* A content swap: the tiles it changes, the ones it names, whether the     *)
(* damage is to be derived, and its identity.                              *)
Update == [what : SUBSET Tile, dirty : SUBSET Tile, auto : BOOLEAN, id : 1..MaxUpdates]

ASSUME FrameAssumption ==
    /\ Tile = 1..N /\ NoTile = 0
    /\ TileRows \in Nat \ {0} /\ ViewRows \in 1..(N * TileRows)
    /\ RingRows \in Nat /\ QueueDepth \in Nat \ {0} /\ Workers \in Nat \ {0}
    /\ Faulty \in BOOLEAN
    /\ MaxUpdates \in 0..(MaxRev - 1) /\ Overshoot \in Nat
    /\ NoUpdate \notin Update
    /\ \A off \in 0..MaxOffset, d \in {1, -1} : FrameOrder(off, d) \in TouchLists
    /\ Cardinality(Buffer) <= MaxIdle  \* a released buffer is never let go of

VARIABLES
    pc,         \* the frame thread: "vsync", "take", "swap", "plan", "submit",
                \* "queue", "drain", "judge", "compose"
    scroll,     \* the scroll position, not clamped
    offset,     \* the viewport's first row
    dir,        \* direction of the last scroll, 1 or -1
    need,       \* the tiles this frame still has to submit
    pending,    \* the content swap waiting for the frame thread
    applying,   \* the swap the frame thread has read
    jobs,       \* tiles queued at the pool
    running,    \* tiles a worker paints
    finished,   \* completed rasters: tile and outcome
    backing,    \* the composer's backing store, row by row
    composed,   \* the last composition: offset and pixels of each visible tile
    published,  \* updates published so far; an update's number is its identity
    installed   \* history: the number of the newest update installed

updateVars == <<pending, published>>
swapVars   == <<applying, installed>>
poolVars   == <<jobs, running, finished>>
screenVars == <<backing, composed>>
viewVars   == <<scroll, offset, dir>>
allVars    == <<vars, pc, need, viewVars, updateVars, swapVars, poolVars, screenVars>>

(* What a full repaint would put at content row r. *)
CellAt(r) == IF Blittable(TileOf(r)) THEN <<r, drawn[TileOf(r)]>> ELSE <<Background>>

NothingComposed == [offset |-> -1, shown |-> {}, pix |-> [t \in Tile |-> NoBuffer]]

FrameInit ==
    /\ Init
    /\ pc = "vsync" /\ need = <<>>
    /\ scroll = 0 /\ offset = 0 /\ dir = 1
    /\ pending = NoUpdate /\ published = 0
    /\ applying = NoUpdate /\ installed = 0
    /\ jobs = <<>> /\ running = {} /\ finished = <<>>
    /\ backing = [y \in 0..(ViewRows - 1) |-> <<Background>>]
    /\ composed = NothingComposed
-----------------------------------------------------------------------------
(* The producer.  An update names the tiles it changed, or leaves the      *)
(* damage to be derived from the two contents.  It replaces one that still *)
(* waits and takes over its damage.                                        *)
Nothing == [what |-> {}, dirty |-> {}, auto |-> FALSE]

UpdateLayerForgets(C, auto) ==
    LET old == IF pending = NoUpdate THEN Nothing ELSE pending
    IN  /\ published < MaxUpdates
        /\ published' = published + 1
        /\ pending' = [what |-> old.what \cup C, dirty |-> IF auto THEN {} ELSE C,
                       auto |-> auto, id |-> published']
        /\ UNCHANGED <<vars, pc, need, viewVars, swapVars, poolVars, screenVars>>

UpdateLayer(C, auto) ==
    LET old == IF pending = NoUpdate THEN Nothing ELSE pending
    IN  /\ published < MaxUpdates
        /\ published' = published + 1
        /\ pending' = [what  |-> old.what \cup C,
                       dirty |-> old.dirty \cup (IF auto THEN {} ELSE C),
                       auto  |-> old.auto \/ auto,
                       id    |-> published']
        /\ UNCHANGED <<vars, pc, need, viewVars, swapVars, poolVars, screenVars>>
-----------------------------------------------------------------------------
(* BeginFrame. *)

(* Coalesced input moves the scroll position; the frame draws it clamped. *)
Vsync(delta) ==
    /\ pc = "vsync"
    /\ scroll + delta \in (0 - Overshoot)..(MaxOffset + Overshoot)
    /\ scroll' = scroll + delta
    /\ offset' = Clamp(scroll')
    /\ dir' = IF delta = 0 THEN dir ELSE IF delta > 0 THEN 1 ELSE -1
    /\ pc' = "take"
    /\ UNCHANGED <<vars, need, updateVars, swapVars, poolVars, screenVars>>

(* applyPendingUpdate reads the update under its lock ... *)
TakeUpdate ==
    /\ pc = "take"
    /\ applying' = pending
    /\ pc' = IF pending = NoUpdate THEN "plan" ELSE "swap"
    /\ UNCHANGED <<vars, need, viewVars, updateVars, installed, poolVars, screenVars>>

Damage(u) == u.dirty \cup (IF u.auto THEN u.what ELSE {})

(* ... and installs it, unless a tile it would stale is being painted.     *)
HeldByDirty(u)       == \E t \in u.dirty : InFlight(t)
HeldUntilCurrent(u)  == \E t \in Damage(u) : Needs(t)
Held(u)              == \E t \in Damage(u) : InFlight(t)

(* An update published meanwhile is left alone. *)
ClearAny(u)     == pending' = NoUpdate
ClearPending(u) == pending' = IF pending = u THEN NoUpdate ELSE pending

SwapContent ==
    /\ pc = "swap"
    /\ IF Held(applying)
       THEN UNCHANGED <<vars, pending, installed>>
       ELSE /\ Swap(applying.what, Damage(applying), layerVer)
            /\ installed' = applying.id
            /\ ClearPending(applying)
    /\ applying' = NoUpdate
    /\ pc' = "plan"
    /\ UNCHANGED <<need, viewVars, published, poolVars, screenVars>>

(* Every visible tile is touched; those that need a raster come first in   *)
(* the frame's list, then the ring.                                        *)
Picked(s) ==
    LET W == {t \in Tile : t \in Elems(s) /\ Wanted(t)}
        Before(t, u) == \E i, j \in DOMAIN s : i < j /\ s[i] = t /\ s[j] = u
    IN  {q \in [1..Cardinality(W) -> W] :
            \A i, j \in 1..Cardinality(W) : i < j => Before(q[i], q[j])}

Plan ==
    /\ pc = "plan"
    /\ Touch(FrameOrder(offset, dir))
    /\ need' \in Picked(FrameOrder(offset, dir) \o Ring(offset, dir))
    /\ pc' = "submit"
    /\ UNCHANGED <<viewVars, updateVars, swapVars, poolVars, screenVars>>
-----------------------------------------------------------------------------
(* Submit. *)

(* The next tile gets a buffer while the budget admits one more on order. *)
SubmitAcquire ==
    /\ pc = "submit" /\ need # <<>> /\ onOrder + 1 <= budget
    /\ IF InFlight(Head(need))
       THEN need' = Tail(need) /\ UNCHANGED <<vars, pc>>
       ELSE Acquire(Head(need)) /\ pc' = "queue" /\ UNCHANGED need
    /\ UNCHANGED <<viewVars, updateVars, swapVars, poolVars, screenVars>>

(* The list is exhausted, or the rest of it is deferred to a later frame. *)
SubmitEnd ==
    /\ pc = "submit" /\ (need = <<>> \/ onOrder + 1 > budget)
    /\ need' = <<>> /\ pc' = "drain"
    /\ UNCHANGED <<vars, viewVars, updateVars, swapVars, poolVars, screenVars>>

RoomInPool == /\ Len(jobs) < QueueDepth
              /\ Len(jobs) + Cardinality(running) + Len(finished) < QueueDepth + Workers

(* Pool.Submit takes the job or refuses it at once, and a refused buffer   *)
(* goes straight back.                                                     *)
SubmitQueueKeeps ==
    /\ pc = "queue"
    /\ jobs' = IF RoomInPool THEN Append(jobs, Head(need)) ELSE jobs
    /\ need' = Tail(need) /\ pc' = "submit"
    /\ UNCHANGED <<vars, viewVars, updateVars, swapVars, running, finished, screenVars>>

SubmitQueue ==
    /\ pc = "queue"
    /\ IF RoomInPool
       THEN jobs' = Append(jobs, Head(need)) /\ UNCHANGED vars
       ELSE ReleaseUnpainted(Head(need)) /\ UNCHANGED jobs
    /\ need' = Tail(need) /\ pc' = "submit"
    /\ UNCHANGED <<viewVars, updateVars, swapVars, running, finished, screenVars>>

(* The drain: HandleDone of one polled result. *)
DrainOne ==
    /\ pc = "drain" /\ finished # <<>>
    /\ LET d == Head(finished) IN
         IF ~d.ok THEN ReleaseFailed(d.tile)
         ELSE IF order[d.tile].ver < layerVer THEN ReleaseUnpainted(d.tile)
         ELSE MarkValid(d.tile)
    /\ finished' = Tail(finished)
    /\ pc' = IF suspect' = NoTile THEN "drain" ELSE "judge"
    /\ UNCHANGED <<need, viewVars, updateVars, swapVars, jobs, running, screenVars>>

Judge ==
    /\ pc = "judge"
    /\ MarkFailed(suspect)
    /\ pc' = "drain"
    /\ UNCHANGED <<need, viewVars, updateVars, swapVars, poolVars, screenVars>>

DrainEnd ==
    /\ pc = "drain" /\ finished = <<>>
    /\ pc' = "compose"
    /\ UNCHANGED <<vars, need, viewVars, updateVars, swapVars, poolVars, screenVars>>
-----------------------------------------------------------------------------
(* ComposeInto: shift the rows that stay, repaint the exposed band and the *)
(* tiles that were on screen with other pixels.                            *)
ChangedIfBlank(t) == t \in composed.shown /\ composed.pix[t] = NoBuffer /\ pixels[t] # NoBuffer
Changed(t)        == t \in composed.shown /\ composed.pix[t] # pixels[t]

Compose ==
    /\ pc = "compose"
    /\ LET dy   == offset - composed.offset
           full == composed.shown = {} \/ dy >= ViewRows \/ -dy >= ViewRows
           repaint(y) == full \/ y + dy \notin 0..(ViewRows - 1) \/ Changed(TileOf(offset + y))
       IN  backing' = [y \in 0..(ViewRows - 1) |->
                          IF repaint(y) THEN CellAt(offset + y) ELSE backing[y + dy]]
    /\ composed' = [offset |-> offset, shown |-> Visible(offset),
                    pix |-> [t \in Tile |-> IF t \in Visible(offset) THEN pixels[t] ELSE NoBuffer]]
    /\ pc' = "vsync"
    /\ UNCHANGED <<vars, need, viewVars, updateVars, swapVars, poolVars>>
-----------------------------------------------------------------------------
(* The workers. *)
StartRaster ==
    /\ jobs # <<>> /\ Cardinality(running) < Workers
    /\ running' = running \cup {Head(jobs)} /\ jobs' = Tail(jobs)
    /\ UNCHANGED <<vars, pc, need, viewVars, updateVars, swapVars, finished, screenVars>>

FinishRaster(t, ok) ==
    /\ t \in running /\ (ok \/ Faulty)
    /\ running' = running \ {t}
    /\ finished' = Append(finished, [tile |-> t, ok |-> ok])
    /\ UNCHANGED <<vars, pc, need, viewVars, updateVars, swapVars, jobs, screenVars>>

FrameStep == \/ TakeUpdate \/ SwapContent \/ Plan
             \/ SubmitAcquire \/ SubmitQueue \/ SubmitEnd
             \/ DrainOne \/ Judge \/ DrainEnd \/ Compose

WorkerStep == StartRaster \/ \E t \in Tile, ok \in BOOLEAN : FinishRaster(t, ok)

Scroll == \E delta \in -1..1 : Vsync(delta)

FrameNext == \/ Scroll \/ FrameStep \/ WorkerStep
             \/ \E C \in SUBSET Tile \ {{}}, auto \in BOOLEAN : UpdateLayer(C, auto)

(* The window keeps sending vsyncs, the loop completes every frame it      *)
(* begins, and each worker goes on painting.                               *)
FrameFairness == /\ WF_allVars(Scroll)
                 /\ WF_allVars(FrameStep)
                 /\ WF_allVars(StartRaster)
                 /\ \A t \in Tile : WF_allVars(\E ok \in BOOLEAN : FinishRaster(t, ok))

FrameSafeSpec == FrameInit /\ [][FrameNext]_allVars
FrameSpec     == FrameSafeSpec /\ FrameFairness
-----------------------------------------------------------------------------
FrameTypeOK ==
    /\ TypeOK
    /\ pc \in {"vsync", "take", "swap", "plan", "submit", "queue", "drain", "judge", "compose"}
    /\ scroll \in (0 - Overshoot)..(MaxOffset + Overshoot)
    /\ offset \in 0..MaxOffset /\ dir \in {1, -1}
    /\ need \in Seq(Tile) /\ jobs \in Seq(Tile) /\ running \subseteq Tile
    /\ finished \in Seq([tile : Tile, ok : BOOLEAN])
    /\ pending \in Update \cup {NoUpdate} /\ applying \in Update \cup {NoUpdate}
    /\ published \in 0..MaxUpdates /\ installed \in 0..published

(* Every call the scheduler makes on the grid is one the grid's contract   *)
(* allows, in an order it allows.                                          *)
GridContractKept == Spec

(* The backing store that was shifted and patched is what a full repaint   *)
(* of the visible tiles would have produced.  ComposeInto: "Every shifted  *)
(* pixel is already right", and damageTiles finds the rest.                *)
BackingIsFullRepaint ==
    pc = "vsync" /\ composed.shown # {} =>
        \A y \in 0..(ViewRows - 1) : backing[y] = CellAt(offset + y)

(* Eviction picks the ring rather than the page: a tile on screen loses    *)
(* its pixels only when no tile off screen holds any but the one that is   *)
(* being ordered.                                                          *)
LosesPixels(t) == pixels[t] # NoBuffer /\ pixels'[t] = NoBuffer /\ state'[t] # "failed"
IsOrdered(t)   == painting[t] = NoBuffer /\ painting'[t] # NoBuffer

RingEvictedFirst ==
    [][\A t \in Visible(offset), u \in Tile \ Visible(offset) :
          LosesPixels(t) => pixels'[u] = NoBuffer \/ IsOrdered(u)]_allVars

(* A queued, running or finished raster is the one raster of its tile, and *)
(* its buffer is the tile's painting target until it is collected.         *)
OneRasterPerTile ==
    LET inPool == Len(jobs) + Cardinality(running) + Len(finished)
        tiles  == Elems(jobs) \cup running \cup {finished[i].tile : i \in DOMAIN finished}
    IN  /\ inPool = Cardinality(tiles)
        /\ Painters = tiles \cup (IF pc = "queue" THEN {Head(need)} ELSE {})

(* The newest update is installed or still waits: one that is published    *)
(* while the frame thread installs its predecessor is not cleared with it. *)
NewestUpdateKept ==
    IF pending = NoUpdate THEN installed = published ELSE pending.id = published

(* Once the user stops scrolling, every visible tile becomes current or is *)
(* given up on, and stays so.                                              *)
Settled     == \A t \in Visible(offset) : ~Needs(t) \/ state[t] = "failed"
PageSettles == \A o \in 0..MaxOffset : <>[](offset = o) => <>[]Settled

(* UpdateLayer: a swap waits for the tiles in flight that it would stale,  *)
(* and "a job in flight finishes within a frame or two".                   *)
UpdateInstalled == \A k \in 1..MaxUpdates : published >= k ~> installed >= k
=============================================================================
