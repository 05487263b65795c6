-------------------------- MODULE FramePathProofs --------------------------
(***************************************************************************)
(* Proofs about the frame path, for any page, ring, queue, budget and      *)
(* number of workers.                                                      *)
(*                                                                         *)
(* The frame path implements the grid's contract: every step is a step of  *)
(* TileGrid's Next or leaves the grid alone.  The inductive invariant says *)
(* what the scheduler's own state guarantees to the next grid call: a tile *)
(* in the submission list still needs its raster, a swap names every tile  *)
(* it changes, and a failure is judged before anything else happens.       *)
(* What TileGridProofs shows of the grid then holds of the frame path.     *)
(*                                                                         *)
(* The second part is about the work the frame path gives its workers: a   *)
(* tile is in one place of the pool at most - queued, being painted, or    *)
(* completed - and in one of them as long as a buffer is on order for it.  *)
(* The third part is about the backing store that the composer shifts and  *)
(* patches: it is what a full repaint would have produced, as long as the  *)
(* job queue has room for everything the budget admits.  Then what eviction *)
(* takes, and last that a frame, once begun, gets to its end.              *)
(***************************************************************************)
EXTENDS FramePath, TileGridProofs, SequenceTheorems

Done == [tile : Tile, ok : BOOLEAN]

Worthwhile(t) == Needs(t) /\ state[t] # "failed"

Faithful(u) == u # NoUpdate => u \in Update /\ u.dirty \subseteq u.what
                                            /\ (u.auto \/ u.dirty = u.what)

CallsOK ==
    /\ offset \in 0..MaxOffset /\ dir \in {1, -1}
    /\ need \in Seq(Tile)
    /\ finished \in Seq(Done)
    /\ suspect = NoTile <=> pc # "judge"
    /\ pc \in {"submit", "queue"} => \A t \in Elems(need) : Worthwhile(t)
    /\ pc = "queue" => need # <<>>
    /\ Faithful(pending) /\ Faithful(applying)
    /\ pc = "swap" => applying # NoUpdate
    /\ published \in 0..MaxUpdates

FrameInv == RestOK /\ CallsOK
-----------------------------------------------------------------------------
(* The list a frame submits holds tiles that need a raster. *)
LEMMA PickedWanted ==
    ASSUME NEW s, NEW q \in Picked(s)
    PROVE  q \in Seq(Tile) /\ \A t \in Elems(q) : Wanted(t)
<1> DEFINE W == {t \in Tile : t \in Elems(s) /\ Wanted(t)}
<1>1. q \in [1..Cardinality(W) -> W]
  BY DEF Picked
<1>2. IsFiniteSet(Tile) /\ W \subseteq Tile
  BY GridAssumption
<1>3. Cardinality(W) \in Nat
  BY <1>2, FS_Subset, FS_CardinalityType
<1>4. \A t \in W : t \in Tile /\ Wanted(t)
  OBVIOUS
<1> HIDE DEF W
<1>5. q \in Seq(W)
  BY <1>1, <1>3
<1>6. q \in Seq(Tile)
  BY <1>2, <1>5
<1>7. \A i \in DOMAIN q : q[i] \in W
  BY <1>1
<1> QED
  BY <1>4, <1>6, <1>7 DEF Elems

(* What a legal list becomes when its head is dealt with. *)
LEMMA RestOfList ==
    ASSUME NEW s \in Seq(Tile), s # <<>>
    PROVE  /\ Head(s) \in Elems(s) /\ Head(s) \in Tile
           /\ Tail(s) \in Seq(Tile) /\ Elems(Tail(s)) \subseteq Elems(s)
<1>1. Len(s) \in Nat /\ Len(s) >= 1 /\ Head(s) = s[1] /\ DOMAIN s = 1..Len(s)
  OBVIOUS
<1>2. Tail(s) \in Seq(Tile) /\ Len(Tail(s)) = Len(s) - 1
      /\ \A i \in 1..Len(Tail(s)) : Tail(s)[i] = s[i + 1]
  OBVIOUS
<1>3. DOMAIN Tail(s) = 1..Len(Tail(s))
  BY <1>2
<1>4. Elems(Tail(s)) \subseteq Elems(s)
  BY <1>1, <1>2, <1>3 DEF Elems
<1> QED
  BY <1>1, <1>2, <1>4 DEF Elems

(* A frame starts from a grid that asks for every tile and has none. *)
LEMMA FrameInitInv == FrameInit => FrameInv
<1> SUFFICES ASSUME FrameInit PROVE FrameInv
  OBVIOUS
<1>1. RestOK
  BY InitInv DEF FrameInit, IInv
<1>2. MaxOffset \in Nat
  BY FrameAssumption, GridAssumption, FS_CardinalityType DEF N, MaxOffset
<1>3. CallsOK
  BY <1>2, FrameAssumption, GridAssumption DEF FrameInit, Init, CallsOK, Faithful
<1> QED
  BY <1>1, <1>3 DEF FrameInv

(* Ordering a tile keeps every tile of the list in need of its raster: an  *)
(* evicted tile is empty, the ordered one stale.                           *)
LEMMA AcquireKeepsNeed ==
    ASSUME RestOK, NEW c \in Tile, Acquire(c), NEW t \in Tile, Worthwhile(t)
    PROVE  Worthwhile(t)'
<1>1. PICK v : DropAll(v) /\ state' = [Emptied(v) EXCEPT ![c] = "stale"]
  BY DEF Acquire
<1>2. layerVer' = layerVer
  BY DEF Acquire, contentVars
<1>3. CASE t = c
  BY <1>1, <1>3 DEF Worthwhile, Needs, ValidAt, Emptied, RestOK
<1>4. CASE t # c /\ t \in Elems(v)
  BY <1>1, <1>4 DEF Worthwhile, Needs, ValidAt, Emptied, RestOK
<1>5. CASE t # c /\ t \notin Elems(v)
  <2>1. state'[t] = state[t] /\ version'[t] = version[t] /\ pixels'[t] = pixels[t]
    BY <1>1, <1>5 DEF Emptied, DropAll, RestOK
  <2> QED
    BY <2>1, <1>2 DEF Worthwhile, Needs, ValidAt
<1> QED
  BY <1>3, <1>4, <1>5
-----------------------------------------------------------------------------
(* Every call the frame path makes on the grid is one its contract allows. *)

(* A tile is ordered only for a frame that wanted it, within the budget.   *)
LEMMA OrderAllowed ==
    ASSUME FrameInv, SubmitAcquire
    PROVE  [Next]_vars
<1>1. CASE InFlight(Head(need))
  BY <1>1 DEF SubmitAcquire
<1>2. CASE ~InFlight(Head(need))
  <2> DEFINE c == Head(need)
  <2>1. /\ pc = "submit" /\ need # <<>> /\ onOrder + 1 <= budget
        /\ Acquire(c)
    BY <1>2 DEF SubmitAcquire
  <2>2. c \in Tile /\ Worthwhile(c) /\ suspect = NoTile
    BY <2>1, RestOfList DEF FrameInv, CallsOK
  <2>3. Submit(c)
    BY <1>2, <2>1, <2>2 DEF Submit, Wanted, Worthwhile
  <2> QED
    BY <2>2, <2>3 DEF Next
<1> QED
  BY <1>1, <1>2

(* A collected result is installed, discarded or counted as a failure as   *)
(* the grid would have it.                                                 *)
LEMMA DrainAllowed ==
    ASSUME FrameInv, DrainOne
    PROVE  [Next]_vars
<1> DEFINE d == Head(finished)
<1>1. /\ suspect = NoTile
      /\ IF ~d.ok THEN ReleaseFailed(d.tile)
         ELSE IF order[d.tile].ver < layerVer THEN ReleaseUnpainted(d.tile)
         ELSE MarkValid(d.tile)
  BY DEF DrainOne, FrameInv, CallsOK
<1>2. d \in Done
  BY DEF DrainOne, FrameInv, CallsOK
<1> HIDE DEF d
<1>3. d.tile \in Tile /\ d.ok \in BOOLEAN
  BY <1>2 DEF Done
<1>4. order[d.tile].ver \in Nat /\ layerVer \in Nat
  BY <1>3 DEF FrameInv, RestOK
<1>5. Fail(d.tile) \/ Discard(d.tile) \/ Install(d.tile)
  BY <1>1, <1>4 DEF Fail, Discard, Install
<1> QED
  BY <1>3, <1>5 DEF Next

(* Content is swapped only where no buffer is on order, and every tile the *)
(* swap changes is named to the grid.                                      *)
LEMMA SwapAllowed ==
    ASSUME FrameInv, SwapContent
    PROVE  [Next]_vars
<1>1. CASE Held(applying)
  BY <1>1 DEF SwapContent
<1>2. CASE ~Held(applying)
  <2> DEFINE D == Damage(applying)
  <2>1. suspect = NoTile /\ layerVer \in Nat
        /\ applying \in Update /\ applying.dirty \subseteq applying.what
        /\ (applying.auto \/ applying.dirty = applying.what)
    BY DEF SwapContent, FrameInv, CallsOK, RestOK, Faithful
  <2>2. D = applying.what /\ D \in SUBSET Tile
    BY <2>1 DEF Damage, Update
  <2>3. Swap(D, D, layerVer)
    BY <1>2, <2>2 DEF SwapContent
  <2>4. Replace(D, layerVer)
    BY <1>2, <2>3 DEF Replace, Held
  <2> QED
    BY <2>1, <2>2, <2>4 DEF Next
<1> QED
  BY <1>1, <1>2

(* Every step of the frame path, the workers and the producer. *)
LEMMA StepAllowed ==
    ASSUME FrameInv, [FrameNext]_allVars
    PROVE  [Next]_vars
<1>1. ASSUME NEW delta \in -1..1, Vsync(delta) PROVE [Next]_vars
  BY <1>1 DEF Vsync
<1>2. CASE TakeUpdate
  BY <1>2 DEF TakeUpdate
<1>3. CASE Plan
  <2>1. suspect = NoTile /\ FrameOrder(offset, dir) \in TouchLists
    BY <1>3, FrameAssumption DEF Plan, FrameInv, CallsOK
  <2>2. Touch(FrameOrder(offset, dir))
    BY <1>3 DEF Plan
  <2> QED
    BY <2>1, <2>2 DEF Next
<1>4. CASE SubmitQueue
  <2>1. CASE RoomInPool
    BY <1>4, <2>1 DEF SubmitQueue
  <2>2. CASE ~RoomInPool
    <3>1. suspect = NoTile /\ need # <<>> /\ need \in Seq(Tile)
      BY <1>4 DEF SubmitQueue, FrameInv, CallsOK
    <3>2. Head(need) \in Tile
      BY <3>1, RestOfList
    <3>3. Discard(Head(need))
      BY <1>4, <2>2, <3>1 DEF SubmitQueue, Discard
    <3> QED
      BY <3>2, <3>3 DEF Next
  <2> QED
    BY <2>1, <2>2
<1>5. CASE Judge
  <2>1. suspect \in Tile
    BY <1>5 DEF Judge, FrameInv, CallsOK, RestOK
  <2>2. GiveUp(suspect)
    BY <1>5 DEF Judge, GiveUp
  <2> QED
    BY <2>1, <2>2 DEF Next
<1>6. CASE SubmitEnd
  BY <1>6 DEF SubmitEnd
<1>7. CASE DrainEnd
  BY <1>7 DEF DrainEnd
<1>8. CASE Compose
  BY <1>8 DEF Compose
<1>9. CASE WorkerStep
  BY <1>9 DEF WorkerStep, StartRaster, FinishRaster
<1>10. ASSUME NEW C \in SUBSET Tile, NEW auto \in BOOLEAN, UpdateLayer(C, auto)
       PROVE  [Next]_vars
  BY <1>10 DEF UpdateLayer
<1>11. CASE UNCHANGED allVars
  BY <1>11 DEF allVars
<1> QED
  BY <1>1, <1>2, <1>3, <1>4, <1>5, <1>6, <1>7, <1>8, <1>9, <1>10, <1>11,
     OrderAllowed, DrainAllowed, SwapAllowed
  DEF FrameNext, FrameStep, Scroll
-----------------------------------------------------------------------------
(* The scheduler's own part of the invariant. *)

(* Each step leaves the calls that may come next ready to be allowed. *)
LEMMA CallsStep ==
    ASSUME FrameInv, [FrameNext]_allVars
    PROVE  CallsOK'
<1> USE DEF CallsOK, FrameInv
<1>0. /\ MaxOffset \in Nat
      /\ \A r \in Int : Clamp(r) \in 0..MaxOffset
  <2>1. N \in Nat
    BY GridAssumption, FS_CardinalityType DEF N
  <2>2. MaxOffset \in Nat
    BY <2>1, FrameAssumption DEF MaxOffset
  <2> QED
    BY <2>2 DEF Clamp, Greater, Lesser
<1>1. ASSUME NEW delta \in -1..1, Vsync(delta) PROVE CallsOK'
  <2>1. scroll' \in Int /\ offset' = Clamp(scroll') /\ dir' \in {1, -1}
    BY <1>1, <1>0, FrameAssumption DEF Vsync
  <2> QED
    BY <1>0, <1>1, <2>1 DEF Vsync, updateVars, swapVars, poolVars, vars
<1>2. CASE TakeUpdate
  BY <1>2 DEF TakeUpdate, viewVars, poolVars, updateVars, vars
<1>3. CASE SwapContent
  <2>1. suspect' = suspect
    BY <1>3 DEF SwapContent, Swap, vars
  <2>2. Faithful(pending') /\ Faithful(applying')
    BY <1>3 DEF SwapContent, ClearPending, Faithful
  <2> QED
    BY <1>3, <2>1, <2>2 DEF SwapContent, viewVars, poolVars
<1>4. CASE Plan
  <2>1. /\ UNCHANGED <<state, version, pixels, layerVer, suspect>>
        /\ need' \in Picked(FrameOrder(offset, dir) \o Ring(offset, dir))
        /\ UNCHANGED <<viewVars, updateVars, swapVars, poolVars>>
        /\ pc = "plan" /\ pc' = "submit"
    BY <1>4 DEF Plan, Touch, bufferVars, contentVars
  <2>2. need' \in Seq(Tile) /\ \A t \in Elems(need') : Wanted(t)
    BY <2>1, PickedWanted
  <2>3. \A t \in Elems(need') : Worthwhile(t)'
    BY <2>1, <2>2 DEF Wanted, Worthwhile, Needs, ValidAt
  <2> QED
    BY <2>1, <2>2, <2>3 DEF viewVars, updateVars, swapVars, poolVars, Elems
<1>5. CASE SubmitAcquire
  <2>1. /\ need \in Seq(Tile) /\ need # <<>> /\ pc = "submit"
        /\ UNCHANGED <<viewVars, updateVars, swapVars, poolVars>>
        /\ \A t \in Elems(need) : Worthwhile(t)
    BY <1>5 DEF SubmitAcquire
  <2>2. CASE InFlight(Head(need))
    <3>1. need' = Tail(need) /\ UNCHANGED <<vars, pc>>
      BY <1>5, <2>2 DEF SubmitAcquire
    <3>2. need' \in Seq(Tile) /\ \A t \in Elems(need') : Worthwhile(t)
      BY <2>1, <3>1, RestOfList
    <3>3. \A t \in Elems(need') : Worthwhile(t)'
      BY <3>1, <3>2 DEF vars, bufferVars, contentVars, Worthwhile, Needs, ValidAt
    <3> QED
      BY <2>1, <3>1, <3>2, <3>3 DEF viewVars, updateVars, swapVars, poolVars, vars, Elems
  <2>3. CASE ~InFlight(Head(need))
    <3>1. Acquire(Head(need)) /\ pc' = "queue" /\ need' = need /\ Head(need) \in Tile
      BY <1>5, <2>1, <2>3, RestOfList DEF SubmitAcquire
    <3>2. suspect' = suspect
      BY <3>1 DEF Acquire
    <3>3. \A t \in Elems(need) : t \in Tile
      BY <2>1 DEF Elems
    <3>4. \A t \in Elems(need') : Worthwhile(t)'
      BY <2>1, <3>1, <3>3, AcquireKeepsNeed
    <3> QED
      BY <2>1, <3>1, <3>2, <3>4 DEF viewVars, updateVars, swapVars, poolVars, Elems
  <2> QED
    BY <2>2, <2>3
<1>6. CASE SubmitQueue
  <2>1. /\ need \in Seq(Tile) /\ need # <<>> /\ pc = "queue"
        /\ need' = Tail(need) /\ pc' = "submit"
        /\ UNCHANGED <<viewVars, updateVars, swapVars, finished>>
        /\ \A t \in Elems(need) : Worthwhile(t)
    BY <1>6 DEF SubmitQueue
  <2>2. UNCHANGED <<state, version, pixels, layerVer, suspect>>
        \/ (ReleaseUnpainted(Head(need)) /\ ~RoomInPool)
    BY <1>6 DEF SubmitQueue, vars, bufferVars, contentVars
  <2>3. UNCHANGED <<state, version, pixels, layerVer, suspect>>
    BY <2>2 DEF ReleaseUnpainted, Release, contentVars
  <2>4. need' \in Seq(Tile) /\ \A t \in Elems(need') : Worthwhile(t)
    BY <2>1, RestOfList
  <2>5. \A t \in Elems(need') : Worthwhile(t)'
    BY <2>3, <2>4 DEF Worthwhile, Needs, ValidAt
  <2> QED
    BY <2>1, <2>3, <2>4, <2>5 DEF viewVars, updateVars, swapVars, Elems
<1>7. CASE SubmitEnd
  BY <1>7 DEF SubmitEnd, viewVars, updateVars, swapVars, poolVars, vars
<1>8. CASE DrainOne
  <2>1. /\ pc = "drain" /\ finished' = Tail(finished) /\ finished # <<>>
        /\ pc' = IF suspect' = NoTile THEN "drain" ELSE "judge"
        /\ UNCHANGED <<need, viewVars, updateVars, swapVars>>
    BY <1>8 DEF DrainOne
  <2>2. finished' \in Seq(Done)
    BY <2>1
  <2> QED
    BY <2>1, <2>2 DEF viewVars, updateVars, swapVars
<1>9. CASE Judge
  <2>1. suspect' = NoTile
    BY <1>9 DEF Judge, MarkFailed
  <2> QED
    BY <1>9, <2>1 DEF Judge, viewVars, updateVars, swapVars, poolVars
<1>10. CASE DrainEnd
  BY <1>10 DEF DrainEnd, viewVars, updateVars, swapVars, poolVars, vars
<1>11. CASE Compose
  BY <1>11 DEF Compose, viewVars, updateVars, swapVars, poolVars, vars
<1>12. CASE StartRaster
  <2>1. CallsOK' <=> CallsOK
    BY <1>12 DEF StartRaster, viewVars, updateVars, swapVars, vars, bufferVars,
                 contentVars, Worthwhile, Needs, ValidAt, Elems
  <2> QED
    BY <2>1
<1>13. ASSUME NEW t \in Tile, NEW ok \in BOOLEAN, FinishRaster(t, ok) PROVE CallsOK'
  <2>1. finished' \in Seq(Done)
    BY <1>13 DEF FinishRaster, Done
  <2> QED
    BY <1>13, <2>1 DEF FinishRaster, viewVars, updateVars, swapVars, vars, bufferVars,
                 contentVars, Worthwhile, Needs, ValidAt, Elems
<1>14. ASSUME NEW C \in SUBSET Tile, NEW auto \in BOOLEAN, UpdateLayer(C, auto)
       PROVE  CallsOK'
  <2> DEFINE old == IF pending = NoUpdate THEN Nothing ELSE pending
             W == old.what \cup C
             D == old.dirty \cup (IF auto THEN {} ELSE C)
             a == old.auto \/ auto
  <2>1. /\ published' = published + 1 /\ published < MaxUpdates
        /\ pending' = [what |-> W, dirty |-> D, auto |-> a, id |-> published']
    BY <1>14 DEF UpdateLayer
  <2>2. published' \in 1..MaxUpdates
    BY <2>1, FrameAssumption, GridAssumption
  <2>3. /\ old.what \in SUBSET Tile /\ old.dirty \subseteq old.what
        /\ old.auto \in BOOLEAN /\ (old.auto \/ old.dirty = old.what)
    BY DEF Faithful, Nothing, Update
  <2> HIDE DEF old
  <2>4. /\ W \in SUBSET Tile /\ D \in SUBSET Tile /\ D \subseteq W
        /\ a \in BOOLEAN /\ (a \/ D = W)
    BY <2>3
  <2> HIDE DEF W, D, a
  <2>5. Faithful(pending')
    BY <2>1, <2>2, <2>4 DEF Faithful, Update
  <2> QED
    BY <1>14, <2>2, <2>5 DEF UpdateLayer, viewVars, swapVars, poolVars, vars, bufferVars,
                 contentVars, Worthwhile, Needs, ValidAt, Elems
<1>15. CASE UNCHANGED allVars
  BY <1>15 DEF allVars, viewVars, updateVars, swapVars, poolVars, vars, bufferVars,
               contentVars, Worthwhile, Needs, ValidAt, Elems
<1> QED
  BY <1>1, <1>2, <1>3, <1>4, <1>5, <1>6, <1>7, <1>8, <1>9, <1>10, <1>11, <1>12,
     <1>13, <1>14, <1>15
  DEF FrameNext, FrameStep, WorkerStep, Scroll

(* The invariant holds of every state of the frame path. *)
THEOREM FrameInvariance == FrameSafeSpec => []FrameInv
<1>1. FrameInv /\ [FrameNext]_allVars => FrameInv'
  BY StepAllowed, CallsStep, RestStep DEF FrameInv
<1> QED
  BY FrameInitInv, <1>1, PTL DEF FrameSafeSpec

(* The frame path implements the grid's contract. *)
THEOREM FramePathKeepsContract == FrameSafeSpec => GridContractKept
<1>1. FrameInit => Init
  BY DEF FrameInit
<1>2. FrameInv /\ [FrameNext]_allVars => [Next]_vars
  BY StepAllowed
<1> QED
  BY FrameInvariance, <1>1, <1>2, PTL DEF FrameSafeSpec, GridContractKept, Spec
(* So a buffer has one owner along the whole frame path: nothing paints a  *)
(* tile that is shown, or two tiles into one buffer.                       *)
THEOREM FrameBuffersHaveOneOwner == FrameSafeSpec => []OneOwner
<1> QED
  BY FramePathKeepsContract, EveryBufferHasOneOwner, PTL DEF GridContractKept

(* And the scheduler keeps its tile memory on the grid's plateau: what the  *)
(* comment of Submit says of its admission, up to the one tile drawn anew.  *)
THEOREM FrameStaysOnPlateau == FrameSafeSpec => Plateau
<1> QED
  BY FramePathKeepsContract, CacheStaysOnItsPlateau, PTL DEF GridContractKept

(* And so a tile the scheduler leaves alone shows the newest content.      *)
THEOREM FrameTilesAreCurrent ==
    ASSUME ~Bumps
    PROVE  FrameSafeSpec => []CurrentWhenValid
<1>1. Spec => []CurrentWhenValid
  BY ValidTilesAreCurrent
<1> QED
  BY <1>1, FramePathKeepsContract, PTL DEF GridContractKept
-----------------------------------------------------------------------------
(* The hand-over of updates.  While the frame thread installs an update,   *)
(* one still waits: the one it read, or a newer one that replaced it.      *)
Handover ==
    /\ pending = NoUpdate => installed = published
    /\ pending # NoUpdate => pending.id = published
    /\ pc = "swap" => pending # NoUpdate

(* Only the producer, TakeUpdate and SwapContent touch the hand-over.      *)
LEMMA HandoverStep ==
    ASSUME FrameInv, Handover, [FrameNext]_allVars
    PROVE  Handover'
<1> USE DEF Handover
<1>1. CASE TakeUpdate
  BY <1>1 DEF TakeUpdate, updateVars
<1>2. CASE SwapContent
  <2>1. CASE Held(applying)
    BY <1>2, <2>1 DEF SwapContent
  <2>2. CASE ~Held(applying)
    <3>1. /\ installed' = applying.id /\ published' = published
          /\ pending' = IF pending = applying THEN NoUpdate ELSE pending
          /\ pc = "swap" /\ pc' = "plan"
      BY <1>2, <2>2 DEF SwapContent, ClearPending
    <3> QED
      BY <3>1
  <2> QED
    BY <2>1, <2>2
<1>3. ASSUME NEW C \in SUBSET Tile, NEW auto \in BOOLEAN, UpdateLayer(C, auto)
      PROVE  Handover'
  <2>1. pending' # NoUpdate => pending'.id = published'
    BY <1>3 DEF UpdateLayer
  <2>2. pending' # NoUpdate
    <3> DEFINE old == IF pending = NoUpdate THEN Nothing ELSE pending
    <3>1. /\ published' = published + 1 /\ published < MaxUpdates
          /\ pending' = [what  |-> old.what \cup C,
                         dirty |-> old.dirty \cup (IF auto THEN {} ELSE C),
                         auto  |-> old.auto \/ auto,
                         id    |-> published']
      BY <1>3 DEF UpdateLayer
    <3>2. /\ old.what \in SUBSET Tile /\ old.dirty \in SUBSET Tile
          /\ old.auto \in BOOLEAN
      BY DEF FrameInv, CallsOK, Faithful, Nothing, Update
    <3>3. published' \in 1..MaxUpdates
      BY <3>1, FrameAssumption, GridAssumption DEF FrameInv, CallsOK
    <3> HIDE DEF old
    <3>4. pending' \in Update
      BY <3>1, <3>2, <3>3 DEF Update
    <3> QED
      BY <3>4, FrameAssumption
  <2> QED
    BY <2>1, <2>2
<1>4. ASSUME UNCHANGED <<pending, published, installed>>, pc' # "swap"
      PROVE  Handover'
  BY <1>4
<1>5. ASSUME UNCHANGED <<pc, pending, published, installed>>
      PROVE  Handover'
  BY <1>5
<1>6. CASE Scroll
  BY <1>4, <1>6 DEF Scroll, Vsync, updateVars, swapVars
<1>7. CASE Plan \/ SubmitAcquire \/ SubmitQueue \/ SubmitEnd
  <2>1. UNCHANGED <<pending, published, installed>>
    BY <1>7 DEF Plan, SubmitAcquire, SubmitQueue, SubmitEnd, updateVars, swapVars
  <2>2. pc' # "swap"
    BY <1>7 DEF Plan, SubmitAcquire, SubmitQueue, SubmitEnd
  <2> QED
    BY <1>4, <2>1, <2>2
<1>8. CASE DrainOne \/ Judge \/ DrainEnd \/ Compose
  <2>1. UNCHANGED <<pending, published, installed>>
    BY <1>8 DEF DrainOne, Judge, DrainEnd, Compose, updateVars, swapVars
  <2>2. pc' # "swap"
    BY <1>8 DEF DrainOne, Judge, DrainEnd, Compose
  <2> QED
    BY <1>4, <2>1, <2>2
<1>9. CASE WorkerStep
  BY <1>5, <1>9 DEF WorkerStep, StartRaster, FinishRaster, updateVars, swapVars
<1>10. CASE UNCHANGED allVars
  BY <1>5, <1>10 DEF allVars, updateVars, swapVars
<1> QED
  BY <1>1, <1>2, <1>3, <1>6, <1>7, <1>8, <1>9, <1>10 DEF FrameNext, FrameStep

(* No published update is lost between the two threads.                    *)
THEOREM NewestUpdateIsKept == FrameSafeSpec => []NewestUpdateKept
<1>1. FrameInit => Handover
  BY DEF FrameInit, Handover
<1>2. FrameInv /\ Handover /\ [FrameNext]_allVars => Handover'
  BY HandoverStep
<1>3. Handover => NewestUpdateKept
  BY DEF Handover, NewestUpdateKept
<1> QED
  BY FrameInvariance, <1>1, <1>2, <1>3, PTL DEF FrameSafeSpec
-----------------------------------------------------------------------------
(* The work on order. *)
Once(s) == \A i, j \in DOMAIN s : s[i] = s[j] => i = j

DoneTiles == [i \in DOMAIN finished |-> finished[i].tile]

InPool == Elems(jobs) \cup running \cup Elems(DoneTiles)

(* The head of the list has its buffer and is about to be queued. *)
Offered == IF pc = "queue" THEN {Head(need)} ELSE {}

Places ==
    /\ jobs \in Seq(Tile) /\ Once(jobs)
    /\ running \subseteq Tile
    /\ finished \in Seq(Done) /\ Once(DoneTiles)
    /\ Elems(jobs) \cap running = {}
    /\ Elems(jobs) \cap Elems(DoneTiles) = {}
    /\ running \cap Elems(DoneTiles) = {}

OnOrder ==
    /\ Offered \cap InPool = {}
    /\ Painters = InPool \cup Offered

WorkInv == Places /\ OnOrder
-----------------------------------------------------------------------------
(* Sequences without repetition. *)

(* Appending a new element. *)
LEMMA Pushed ==
    ASSUME NEW S, NEW s \in Seq(S), NEW e \in S, Once(s), e \notin Elems(s)
    PROVE  /\ Append(s, e) \in Seq(S) /\ Once(Append(s, e))
           /\ Elems(Append(s, e)) = Elems(s) \cup {e}
<1> DEFINE q == Append(s, e)
<1>1. /\ q \in Seq(S) /\ Len(q) = Len(s) + 1
      /\ \A i \in 1..Len(s) : q[i] = s[i]
      /\ q[Len(s) + 1] = e
  BY AppendProperties
<1>2. DOMAIN q = 1..(Len(s) + 1) /\ DOMAIN s = 1..Len(s) /\ Len(s) \in Nat
  BY <1>1, LenProperties
<1> HIDE DEF q
<1>3. Once(q)
  BY <1>1, <1>2 DEF Once, Elems
<1>4. Elems(q) \subseteq Elems(s) \cup {e}
  BY <1>1, <1>2 DEF Elems
<1>5. ASSUME NEW x \in Elems(s) PROVE x \in Elems(q)
  <2>1. PICK i \in 1..Len(s) : x = s[i]
    BY <1>2 DEF Elems
  <2> QED
    BY <1>1, <1>2, <2>1 DEF Elems
<1>6. e \in Elems(q)
  BY <1>1, <1>2 DEF Elems
<1> QED
  BY <1>1, <1>3, <1>4, <1>5, <1>6 DEF q

(* Taking the head. *)
LEMMA Popped ==
    ASSUME NEW S, NEW s \in Seq(S), s # <<>>, Once(s)
    PROVE  /\ Tail(s) \in Seq(S) /\ Once(Tail(s))
           /\ Head(s) \in S /\ Head(s) \in Elems(s)
           /\ Elems(Tail(s)) = Elems(s) \ {Head(s)}
<1>1. /\ Tail(s) \in Seq(S) /\ Len(Tail(s)) = Len(s) - 1
      /\ \A i \in 1..Len(Tail(s)) : Tail(s)[i] = s[i + 1]
      /\ Head(s) = s[1] /\ Head(s) \in S
  BY HeadTailProperties, EmptySeq, LenProperties
<1>2. Len(s) \in Nat /\ Len(s) >= 1 /\ DOMAIN s = 1..Len(s)
  BY LenProperties, EmptySeq
<1>3. DOMAIN Tail(s) = 1..(Len(s) - 1)
  BY <1>1, LenProperties
<1>4. Once(Tail(s))
  BY <1>1, <1>2, <1>3 DEF Once
<1>5. ASSUME NEW i \in 1..(Len(s) - 1)
      PROVE  Tail(s)[i] \in Elems(s) \ {Head(s)}
  BY <1>1, <1>2, <1>5 DEF Elems, Once
<1>6. ASSUME NEW x \in Elems(s) \ {Head(s)} PROVE x \in Elems(Tail(s))
  <2>1. PICK i \in 1..Len(s) : x = s[i]
    BY <1>2 DEF Elems
  <2>2. i - 1 \in 1..(Len(s) - 1) /\ Tail(s)[i - 1] = x
    BY <1>1, <1>2, <2>1
  <2> QED
    BY <1>3, <2>2 DEF Elems
<1>7. Elems(Tail(s)) \subseteq Elems(s) \ {Head(s)}
  BY <1>3, <1>5 DEF Elems
<1>8. Head(s) \in Elems(s)
  BY <1>1, <1>2 DEF Elems
<1> QED
  BY <1>1, <1>4, <1>6, <1>7, <1>8

(* Its length counts its elements. *)
LEMMA OnceCount ==
    ASSUME NEW S, NEW s \in Seq(S), Once(s)
    PROVE  IsFiniteSet(Elems(s)) /\ Cardinality(Elems(s)) = Len(s)
<1>1. Len(s) \in Nat /\ DOMAIN s = 1..Len(s) /\ s \in [1..Len(s) -> S]
  BY LenProperties
<1>2. s \in Surjection(1..Len(s), Elems(s))
  BY <1>1 DEF Surjection, Elems
<1>3. s \in Injection(1..Len(s), Elems(s))
  BY <1>1, <1>2 DEF Injection, IsInjective, Once, Surjection
<1>4. IsFiniteSet(1..Len(s)) /\ Cardinality(1..Len(s)) = Len(s)
  BY <1>1, FS_Interval
<1> QED
  BY <1>2, <1>3, <1>4, FS_Surjection

(* Disjoint sets count as their union. *)
LEMMA DisjointCount ==
    ASSUME NEW A, NEW B, NEW C, IsFiniteSet(A), IsFiniteSet(B), IsFiniteSet(C),
           A \cap B = {}, (A \cup B) \cap C = {}
    PROVE  Cardinality(A \cup B \cup C) = Cardinality(A) + Cardinality(B) + Cardinality(C)
<1>1. Cardinality({}) = 0 /\ Cardinality(A) \in Nat /\ Cardinality(B) \in Nat
      /\ Cardinality(C) \in Nat
  BY FS_EmptySet, FS_CardinalityType
<1>2. Cardinality(A \cap B) = 0 /\ Cardinality((A \cup B) \cap C) = 0
  BY <1>1
<1>3. /\ IsFiniteSet(A \cup B) /\ Cardinality(A \cup B) \in Nat
      /\ Cardinality(A \cup B) = Cardinality(A) + Cardinality(B) - Cardinality(A \cap B)
  BY FS_Union, FS_CardinalityType
<1>4. Cardinality((A \cup B) \cup C)
        = Cardinality(A \cup B) + Cardinality(C) - Cardinality((A \cup B) \cap C)
  BY <1>3, FS_Union
<1> QED
  BY <1>1, <1>2, <1>3, <1>4

(* The tiles of the completed results. *)
LEMMA DoneTilesType ==
    ASSUME finished \in Seq(Done)
    PROVE  DoneTiles \in Seq(Tile) /\ Len(DoneTiles) = Len(finished)
<1>1. Len(finished) \in Nat /\ DOMAIN finished = 1..Len(finished)
      /\ \A i \in 1..Len(finished) : finished[i] \in Done
  BY LenProperties, ElementOfSeq
<1>2. DoneTiles \in [1..Len(finished) -> Tile]
  BY <1>1 DEF DoneTiles, Done
<1> QED
  BY <1>1, <1>2, IsASeq, LenProperties

(* A result that is added or taken is its tile's. *)
LEMMA DoneTilesChange ==
    ASSUME finished \in Seq(Done)
    PROVE  /\ \A d \in Done : finished' = Append(finished, d)
                                => DoneTiles' = Append(DoneTiles, d.tile)
           /\ finished # <<>> /\ finished' = Tail(finished)
                => /\ DoneTiles # <<>> /\ DoneTiles' = Tail(DoneTiles)
                   /\ Head(DoneTiles) = Head(finished).tile
<1>1. /\ Len(finished) \in Nat /\ DOMAIN finished = 1..Len(finished)
      /\ DoneTiles \in Seq(Tile) /\ Len(DoneTiles) = Len(finished)
      /\ DOMAIN DoneTiles = 1..Len(finished)
      /\ \A i \in 1..Len(finished) : DoneTiles[i] = finished[i].tile
  BY DoneTilesType, LenProperties DEF DoneTiles
<1>2. ASSUME NEW d \in Done, finished' = Append(finished, d)
      PROVE  DoneTiles' = Append(DoneTiles, d.tile)
  <2>1. d.tile \in Tile
    BY DEF Done
  <2>2. /\ finished' \in Seq(Done) /\ Len(finished') = Len(finished) + 1
        /\ \A i \in 1..Len(finished) : finished'[i] = finished[i]
        /\ finished'[Len(finished) + 1] = d
    BY <1>2, AppendProperties
  <2>3. DOMAIN finished' = 1..(Len(finished) + 1)
    BY <2>2, LenProperties
  <2>4. DoneTiles' = [i \in 1..(Len(finished) + 1) |-> finished'[i].tile]
    BY <2>3 DEF DoneTiles
  <2> DEFINE q == Append(DoneTiles, d.tile)
  <2>5. /\ q \in Seq(Tile) /\ Len(q) = Len(finished) + 1
        /\ \A i \in 1..Len(finished) : q[i] = DoneTiles[i]
        /\ q[Len(finished) + 1] = d.tile
    BY <1>1, <2>1, AppendProperties
  <2>6. q = [i \in 1..(Len(finished) + 1) |-> q[i]]
    BY <2>5, LenProperties
  <2> HIDE DEF q
  <2>7. \A i \in 1..(Len(finished) + 1) : q[i] = finished'[i].tile
    BY <1>1, <2>2, <2>5
  <2>8. DoneTiles' = q
    BY <2>4, <2>6, <2>7
  <2> QED
    BY <2>8 DEF q
<1>3. ASSUME finished # <<>>, finished' = Tail(finished)
      PROVE  /\ DoneTiles # <<>> /\ DoneTiles' = Tail(DoneTiles)
             /\ Head(DoneTiles) = Head(finished).tile
  <2>1. Len(finished) >= 1 /\ DoneTiles # <<>>
    BY <1>1, <1>3, EmptySeq
  <2>2. /\ finished' \in Seq(Done) /\ Len(finished') = Len(finished) - 1
        /\ \A i \in 1..(Len(finished) - 1) : finished'[i] = finished[i + 1]
        /\ Head(finished) = finished[1]
    BY <1>3, HeadTailProperties
  <2>3. DOMAIN finished' = 1..(Len(finished) - 1)
    BY <2>2, LenProperties
  <2>4. DoneTiles' = [i \in 1..(Len(finished) - 1) |-> finished'[i].tile]
    BY <2>3 DEF DoneTiles
  <2> DEFINE q == Tail(DoneTiles)
  <2>5. /\ q \in Seq(Tile) /\ Len(q) = Len(finished) - 1
        /\ \A i \in 1..(Len(finished) - 1) : q[i] = DoneTiles[i + 1]
        /\ Head(DoneTiles) = DoneTiles[1]
    BY <1>1, <2>1, HeadTailProperties
  <2>6. q = [i \in 1..(Len(finished) - 1) |-> q[i]]
    BY <2>5, LenProperties
  <2> HIDE DEF q
  <2>7. \A i \in 1..(Len(finished) - 1) : q[i] = finished'[i].tile
    BY <1>1, <2>1, <2>2, <2>5
  <2>8. DoneTiles' = q
    BY <2>4, <2>6, <2>7
  <2> QED
    BY <1>1, <2>1, <2>2, <2>5, <2>8 DEF q
<1> QED
  BY <1>2, <1>3
-----------------------------------------------------------------------------
(* What each call does to the painters. *)

(* An order adds its tile, ... *)
LEMMA AcquirePainters ==
    ASSUME Ledger, NEW c \in Tile, Acquire(c)
    PROVE  c \notin Painters /\ Painters' = Painters \cup {c}
<1>1. PICK b \in Buffer : painting' = [painting EXCEPT ![c] = b]
  BY DEF Acquire
<1>2. painting[c] = NoBuffer /\ painting \in Map /\ b # NoBuffer
  BY GridAssumption DEF Acquire, Ledger
<1> QED
  BY <1>1, <1>2 DEF Painters, Map

(* ... collecting or refusing one takes it away, ... *)
LEMMA EndPainters ==
    ASSUME Ledger, NEW c \in Tile, painting' = [painting EXCEPT ![c] = NoBuffer]
    PROVE  Painters' = Painters \ {c}
BY DEF Painters, Map, Ledger

(* ... and whatever leaves the pool and the painters alone keeps the whole. *)
LEMMA WorkKept ==
    ASSUME WorkInv, UNCHANGED <<painting, poolVars>>, Offered' = Offered
    PROVE  WorkInv'
<1>1. InPool' = InPool /\ Painters' = Painters /\ DoneTiles' = DoneTiles
  BY DEF InPool, Painters, DoneTiles, poolVars, Elems
<1>2. Places'
  BY <1>1 DEF WorkInv, Places, poolVars, Once, Elems
<1>3. OnOrder'
  BY <1>1 DEF WorkInv, OnOrder
<1> QED
  BY <1>2, <1>3 DEF WorkInv
-----------------------------------------------------------------------------
(* A tile that is ordered is offered to the pool ... *)
LEMMA AcquireWork ==
    ASSUME Ledger, FrameInv, WorkInv, SubmitAcquire
    PROVE  WorkInv'
<1>1. CASE InFlight(Head(need))
  <2>1. UNCHANGED <<painting, poolVars, pc>> /\ pc = "submit"
    BY <1>1 DEF SubmitAcquire, vars, bufferVars
  <2> QED
    BY <2>1, WorkKept DEF Offered
<1>2. CASE ~InFlight(Head(need))
  <2> DEFINE c == Head(need)
  <2>1. /\ pc = "submit" /\ need # <<>> /\ Acquire(c) /\ pc' = "queue" /\ need' = need
        /\ UNCHANGED poolVars
    BY <1>2 DEF SubmitAcquire
  <2>2. c \in Tile
    BY <2>1, RestOfList DEF FrameInv, CallsOK
  <2>3. c \notin Painters /\ Painters' = Painters \cup {c}
    BY <2>1, <2>2, AcquirePainters
  <2>4. Offered = {} /\ Offered' = {c}
    BY <2>1 DEF Offered
  <2>5. InPool' = InPool /\ DoneTiles' = DoneTiles
    BY <2>1 DEF InPool, DoneTiles, poolVars, Elems
  <2>6. Places'
    BY <2>1, <2>5 DEF WorkInv, Places, poolVars, Once, Elems
  <2>7. OnOrder'
    BY <2>3, <2>4, <2>5 DEF WorkInv, OnOrder
  <2> QED
    BY <2>6, <2>7 DEF WorkInv
<1> QED
  BY <1>1, <1>2

(* ... which queues it or refuses it.                                       *)
LEMMA QueueWork ==
    ASSUME Ledger, FrameInv, WorkInv, SubmitQueue
    PROVE  WorkInv'
<1> DEFINE c == Head(need)
<1>1. /\ pc = "queue" /\ pc' = "submit" /\ UNCHANGED <<running, finished>>
      /\ need # <<>> /\ need \in Seq(Tile)
  BY DEF SubmitQueue, FrameInv, CallsOK
<1>2. c \in Tile /\ Offered = {c} /\ Offered' = {} /\ c \notin InPool
      /\ DoneTiles' = DoneTiles
  BY <1>1, RestOfList DEF Offered, WorkInv, OnOrder, DoneTiles
<1> HIDE DEF c
<1>3. CASE RoomInPool
  <2>1. jobs' = Append(jobs, c) /\ painting' = painting
    BY <1>3 DEF SubmitQueue, vars, bufferVars, c
  <2>2. jobs' \in Seq(Tile) /\ Once(jobs') /\ Elems(jobs') = Elems(jobs) \cup {c}
    BY <1>2, <2>1, Pushed DEF WorkInv, Places, InPool
  <2>3. Places'
    BY <1>1, <1>2, <2>2 DEF WorkInv, Places, InPool
  <2>4. InPool' = InPool \cup {c} /\ Painters' = Painters
    BY <1>1, <1>2, <2>1, <2>2 DEF InPool, Elems, Painters
  <2>5. OnOrder'
    BY <1>2, <2>4 DEF WorkInv, OnOrder
  <2> QED
    BY <2>3, <2>5 DEF WorkInv
<1>4. CASE ~RoomInPool
  <2>1. painting' = [painting EXCEPT ![c] = NoBuffer] /\ jobs' = jobs
    BY <1>4 DEF SubmitQueue, ReleaseUnpainted, Release, c
  <2>2. Painters' = Painters \ {c}
    BY <1>2, <2>1, EndPainters
  <2>3. InPool' = InPool
    BY <1>1, <1>2, <2>1 DEF InPool, Elems
  <2>4. Places'
    BY SMTT(30), <1>1, <1>2, <2>1 DEF WorkInv, Places, Once, Elems
  <2>5. OnOrder'
    BY <1>2, <2>2, <2>3 DEF WorkInv, OnOrder
  <2> QED
    BY <2>4, <2>5 DEF WorkInv
<1> QED
  BY <1>3, <1>4

(* A completed result is collected together with its buffer.                *)
LEMMA DrainWork ==
    ASSUME Ledger, FrameInv, WorkInv, DrainOne
    PROVE  WorkInv'
<1> DEFINE c == Head(finished).tile
<1>1. /\ pc = "drain" /\ finished # <<>> /\ finished' = Tail(finished)
      /\ pc' \in {"drain", "judge"} /\ UNCHANGED <<jobs, running>>
  BY DEF DrainOne
<1>2. DoneTiles \in Seq(Tile) /\ DoneTiles # <<>> /\ DoneTiles' = Tail(DoneTiles)
      /\ Head(DoneTiles) = c
  BY <1>1, DoneTilesType, DoneTilesChange DEF WorkInv, Places
<1>3. /\ DoneTiles' \in Seq(Tile) /\ Once(DoneTiles') /\ c \in Tile /\ c \in Elems(DoneTiles)
      /\ Elems(DoneTiles') = Elems(DoneTiles) \ {c}
  BY <1>2, Popped DEF WorkInv, Places
<1>4. painting' = [painting EXCEPT ![c] = NoBuffer]
  BY DEF DrainOne, ReleaseFailed, ReleaseUnpainted, Release, MarkValid
<1>5. finished' \in Seq(Done)
  BY <1>1, HeadTailProperties DEF WorkInv, Places
<1> HIDE DEF c
<1>6. Painters' = Painters \ {c}
  BY <1>3, <1>4, EndPainters
<1>7. Offered = {} /\ Offered' = {}
  BY <1>1 DEF Offered
<1>8. InPool' = InPool \ {c}
  BY <1>1, <1>3 DEF InPool, Elems, WorkInv, Places
<1>9. Places'
  BY <1>1, <1>3, <1>5 DEF WorkInv, Places
<1>10. OnOrder'
  BY <1>6, <1>7, <1>8 DEF WorkInv, OnOrder
<1> QED
  BY <1>9, <1>10 DEF WorkInv

(* A worker takes the head of the queue ... *)
LEMMA StartWork ==
    ASSUME WorkInv, StartRaster
    PROVE  WorkInv'
<1> DEFINE c == Head(jobs)
<1>1. /\ jobs # <<>> /\ running' = running \cup {c} /\ jobs' = Tail(jobs)
      /\ UNCHANGED <<finished, painting, pc, need>>
  BY DEF StartRaster, vars, bufferVars
<1>2. /\ jobs' \in Seq(Tile) /\ Once(jobs') /\ c \in Tile /\ c \in Elems(jobs)
      /\ Elems(jobs') = Elems(jobs) \ {c}
  BY <1>1, Popped DEF WorkInv, Places
<1> HIDE DEF c
<1>3. DoneTiles' = DoneTiles /\ Painters' = Painters /\ Offered' = Offered
  BY <1>1 DEF DoneTiles, Painters, Offered
<1>4. InPool' = InPool
  BY <1>1, <1>2, <1>3 DEF InPool, Elems
<1>5. Places'
  BY <1>1, <1>2, <1>3 DEF WorkInv, Places
<1>6. OnOrder'
  BY <1>3, <1>4 DEF WorkInv, OnOrder
<1> QED
  BY <1>5, <1>6 DEF WorkInv

(* ... and reports the tile it has painted.                                 *)
LEMMA FinishWork ==
    ASSUME WorkInv, NEW t \in Tile, NEW ok \in BOOLEAN, FinishRaster(t, ok)
    PROVE  WorkInv'
<1> DEFINE d == [tile |-> t, ok |-> ok]
<1>1. /\ t \in running /\ running' = running \ {t} /\ finished' = Append(finished, d)
      /\ UNCHANGED <<jobs, painting, pc, need>>
  BY DEF FinishRaster, vars, bufferVars
<1>2. d \in Done /\ d.tile = t
  BY DEF Done
<1>3. DoneTiles \in Seq(Tile) /\ DoneTiles' = Append(DoneTiles, t)
  BY <1>1, <1>2, DoneTilesType, DoneTilesChange DEF WorkInv, Places
<1>4. /\ Once(DoneTiles') /\ Elems(DoneTiles') = Elems(DoneTiles) \cup {t}
  BY <1>1, <1>3, Pushed DEF WorkInv, Places
<1>5. finished' \in Seq(Done)
  BY <1>1, <1>2, AppendProperties DEF WorkInv, Places
<1> HIDE DEF d
<1>6. Painters' = Painters /\ Offered' = Offered
  BY <1>1 DEF Painters, Offered
<1>7. InPool' = InPool
  BY <1>1, <1>4 DEF InPool, Elems
<1>8. Places'
  BY ZenonT(60), <1>1, <1>4, <1>5 DEF WorkInv, Places, Once, Elems
<1>9. OnOrder'
  BY <1>6, <1>7 DEF WorkInv, OnOrder
<1> QED
  BY <1>8, <1>9 DEF WorkInv

(* Every step of frame thread, workers and producer.                        *)
LEMMA WorkStep ==
    ASSUME Ledger, FrameInv, WorkInv, [FrameNext]_allVars
    PROVE  WorkInv'
<1>1. ASSUME UNCHANGED <<painting, poolVars>>, pc # "queue", pc' # "queue"
      PROVE  WorkInv'
  BY <1>1, WorkKept DEF Offered
<1>2. ASSUME UNCHANGED <<painting, poolVars, pc, need>>
      PROVE  WorkInv'
  BY <1>2, WorkKept DEF Offered
<1>3. CASE Scroll
  BY <1>1, <1>3 DEF Scroll, Vsync, vars, bufferVars
<1>4. CASE TakeUpdate
  BY <1>1, <1>4 DEF TakeUpdate, vars, bufferVars
<1>5. CASE SwapContent
  BY <1>1, <1>5 DEF SwapContent, Swap, vars, bufferVars
<1>6. CASE Plan
  BY <1>1, <1>6 DEF Plan, Touch, bufferVars
<1>7. CASE SubmitEnd
  BY <1>1, <1>7 DEF SubmitEnd, vars, bufferVars
<1>8. CASE Judge
  BY <1>1, <1>8 DEF Judge, MarkFailed
<1>9. CASE DrainEnd
  BY <1>1, <1>9 DEF DrainEnd, vars, bufferVars
<1>10. CASE Compose
  BY <1>1, <1>10 DEF Compose, vars, bufferVars
<1>11. ASSUME NEW C \in SUBSET Tile, NEW auto \in BOOLEAN, UpdateLayer(C, auto)
       PROVE  WorkInv'
  BY <1>2, <1>11 DEF UpdateLayer, vars, bufferVars
<1>12. CASE UNCHANGED allVars
  BY <1>2, <1>12 DEF allVars, vars, bufferVars
<1>13. CASE WorkerStep
  BY <1>13, StartWork, FinishWork DEF WorkerStep
<1> QED
  BY <1>3, <1>4, <1>5, <1>6, <1>7, <1>8, <1>9, <1>10, <1>11, <1>12, <1>13,
     AcquireWork, QueueWork, DrainWork
  DEF FrameNext, FrameStep

(* A frame starts with an empty pool.                                       *)
LEMMA WorkInitInv == FrameInit => WorkInv
<1> SUFFICES ASSUME FrameInit PROVE WorkInv
  OBVIOUS
<1>1. jobs = <<>> /\ running = {} /\ finished = <<>> /\ pc = "vsync" /\ Painters = {}
  BY DEF FrameInit, Init, Painters
<1>2. DoneTiles = <<>> /\ Elems(<<>>) = {}
  BY <1>1 DEF DoneTiles, Elems
<1> QED
  BY <1>1, <1>2, EmptySeq DEF WorkInv, Places, OnOrder, Offered, InPool, Once

(* The grid's ledger and the frame path's own invariant hold throughout.    *)
LEMMA FrameLedger == FrameSafeSpec => [](Ledger /\ FrameInv)
<1>1. IInv => Ledger
  BY DEF IInv
<1> QED
  BY <1>1, FramePathKeepsContract, Invariance, FrameInvariance, PTL DEF GridContractKept

(* The invariant holds of every state of the frame path.                    *)
LEMMA WorkInvariance == FrameSafeSpec => []WorkInv
<1>1. Ledger /\ FrameInv /\ WorkInv /\ [FrameNext]_allVars => WorkInv'
  BY WorkStep
<1> QED
  BY WorkInitInv, FrameLedger, <1>1, PTL DEF FrameSafeSpec

(* The pool holds as many tiles as its three parts together. *)
LEMMA PoolCount ==
    ASSUME WorkInv
    PROVE  /\ IsFiniteSet(InPool)
           /\ Cardinality(InPool) = Len(jobs) + Cardinality(running) + Len(finished)
           /\ Len(jobs) \in Nat /\ Cardinality(running) \in Nat /\ Len(finished) \in Nat
<1>1. /\ IsFiniteSet(Elems(jobs)) /\ Cardinality(Elems(jobs)) = Len(jobs)
      /\ IsFiniteSet(Elems(DoneTiles)) /\ Cardinality(Elems(DoneTiles)) = Len(finished)
  BY OnceCount, DoneTilesType DEF WorkInv, Places
<1>2. IsFiniteSet(running)
  BY GridAssumption, FS_Subset DEF WorkInv, Places
<1>3. Elems(jobs) \cap running = {} /\ (Elems(jobs) \cup running) \cap Elems(DoneTiles) = {}
  BY DEF WorkInv, Places
<1>4. Cardinality(Elems(jobs) \cup running \cup Elems(DoneTiles))
        = Cardinality(Elems(jobs)) + Cardinality(running) + Cardinality(Elems(DoneTiles))
  BY <1>1, <1>2, <1>3, DisjointCount
<1>5. IsFiniteSet(Elems(jobs) \cup running \cup Elems(DoneTiles))
  BY <1>1, <1>2, FS_Union
<1> QED
  BY <1>1, <1>2, <1>4, <1>5, FS_CardinalityType DEF InPool

(* A queued, running or finished raster is the one raster of its tile, and  *)
(* nothing else is on order (Scheduler.Submit, HandleDone).                 *)
THEOREM EachTileIsPaintedOnce == FrameSafeSpec => []OneRasterPerTile
<1>1. WorkInv => OneRasterPerTile
  <2>1. InPool = Elems(jobs) \cup running \cup {finished[i].tile : i \in DOMAIN finished}
    BY DEF InPool, DoneTiles, Elems
  <2> QED
    BY <2>1, PoolCount DEF OneRasterPerTile, WorkInv, OnOrder, Offered
<1> QED
  BY <1>1, WorkInvariance, PTL
-----------------------------------------------------------------------------
(* Types.  What is left is where the frame thread is, how far the user may *)
(* have scrolled, and that no update is installed before it is published.  *)
Progress ==
    /\ pc \in {"vsync", "take", "swap", "plan", "submit", "queue", "drain", "judge", "compose"}
    /\ scroll \in (0 - Overshoot)..(MaxOffset + Overshoot)
    /\ applying # NoUpdate => applying.id \in 1..published
    /\ installed \in 0..published

(* Steps that keep to the swap in hand. *)
LEMMA ProgressKept ==
    ASSUME Progress, UNCHANGED <<scroll, applying, installed, published>>,
           pc' \in {"vsync", "take", "swap", "plan", "submit", "queue", "drain", "judge", "compose"}
    PROVE  Progress'
BY DEF Progress

(* Scrolling stays within its bound, installing behind publishing. *)
LEMMA ProgressStep ==
    ASSUME FrameInv, Handover, Progress, [FrameNext]_allVars
    PROVE  Progress'
<1>1. CASE Scroll
  BY <1>1 DEF Scroll, Vsync, updateVars, swapVars, Progress
<1>2. CASE TakeUpdate
  <2>1. /\ applying' = pending /\ pc' \in {"plan", "swap"}
        /\ UNCHANGED <<scroll, published, installed>>
    BY <1>2 DEF TakeUpdate, viewVars, updateVars
  <2>2. pending # NoUpdate => pending.id \in 1..published
    BY DEF Handover, FrameInv, CallsOK, Faithful, Update
  <2> QED
    BY <2>1, <2>2 DEF Progress
<1>3. CASE SwapContent
  <2>1. /\ pc = "swap" /\ pc' = "plan" /\ applying' = NoUpdate
        /\ installed' \in {installed, applying.id}
        /\ UNCHANGED <<scroll, published>>
    BY <1>3 DEF SwapContent, viewVars
  <2>2. installed' \in 0..published
    BY <2>1 DEF Progress, FrameInv, CallsOK
  <2> QED
    BY <2>1, <2>2 DEF Progress
<1>4. CASE Plan \/ SubmitAcquire \/ SubmitQueue \/ SubmitEnd
  <2>1. UNCHANGED <<scroll, applying, installed, published>>
    BY <1>4 DEF Plan, SubmitAcquire, SubmitQueue, SubmitEnd, viewVars, updateVars, swapVars
  <2>2. pc' \in {"submit", "queue", "drain"}
    BY <1>4 DEF Plan, SubmitAcquire, SubmitQueue, SubmitEnd
  <2> QED
    BY <2>1, <2>2, ProgressKept
<1>5. CASE DrainOne \/ Judge \/ DrainEnd \/ Compose
  <2>1. UNCHANGED <<scroll, applying, installed, published>>
    BY <1>5 DEF DrainOne, Judge, DrainEnd, Compose, viewVars, updateVars, swapVars
  <2>2. pc' \in {"drain", "judge", "compose", "vsync"}
    BY <1>5 DEF DrainOne, Judge, DrainEnd, Compose
  <2> QED
    BY <2>1, <2>2, ProgressKept
<1>6. ASSUME UNCHANGED <<scroll, applying, installed, published, pc>> PROVE Progress'
  BY <1>6, ProgressKept DEF Progress
<1>7. CASE WorkerStep
  BY <1>6, <1>7 DEF WorkerStep, StartRaster, FinishRaster, viewVars, updateVars, swapVars
<1>8. ASSUME NEW C \in SUBSET Tile, NEW auto \in BOOLEAN, UpdateLayer(C, auto)
      PROVE  Progress'
  <2>1. published' = published + 1 /\ UNCHANGED <<scroll, applying, installed, pc>>
    BY <1>8 DEF UpdateLayer, viewVars, swapVars
  <2>2. published \in Nat
    BY DEF FrameInv, CallsOK
  <2> QED
    BY <2>1, <2>2 DEF Progress
<1>9. CASE UNCHANGED allVars
  BY <1>6, <1>9 DEF allVars, viewVars, updateVars, swapVars
<1> QED
  BY <1>1, <1>2, <1>3, <1>4, <1>5, <1>7, <1>8, <1>9 DEF FrameNext, FrameStep

LEMMA FrameProgress == FrameSafeSpec => [](Handover /\ Progress)
<1>1. FrameInit => Handover /\ Progress
  <2>1. MaxOffset \in Nat
    BY FrameAssumption, GridAssumption, FS_CardinalityType DEF N, MaxOffset
  <2> QED
    BY <2>1, FrameAssumption DEF FrameInit, Handover, Progress
<1>2. FrameInv /\ Handover /\ Progress /\ [FrameNext]_allVars => (Handover /\ Progress)'
  BY HandoverStep, ProgressStep
<1> QED
  BY FrameInvariance, <1>1, <1>2, PTL DEF FrameSafeSpec

(* Every variable of the frame path keeps its type; the scroll position is  *)
(* clamped to the document, and updates are installed after publication.    *)
THEOREM FrameTypeCorrect == FrameSafeSpec => []FrameTypeOK
<1>1. FrameSafeSpec => []TypeOK
  BY FramePathKeepsContract, TypeCorrect, PTL DEF GridContractKept
<1>2. TypeOK /\ FrameInv /\ WorkInv /\ Progress => FrameTypeOK
  BY DEF FrameInv, CallsOK, Faithful, WorkInv, Places, Progress, FrameTypeOK, Done
<1> QED
  BY FrameInvariance, WorkInvariance, FrameProgress, <1>1, <1>2, PTL
-----------------------------------------------------------------------------
(* What is on screen.  The scheduler finds the tiles that have changed by  *)
(* comparing buffers (damageTiles), so a tile must never be repainted into *)
(* the buffer the last composition took it from.  That it is not rests on  *)
(* the order of the free list: a tile evicted in this frame is ordered     *)
(* again in it only when another one is evicted for it, whose buffer is    *)
(* then on top.                                                            *)

(* The last composition, as far as it still stands. *)
Depicts ==
    composed.shown # {} =>
      /\ composed.offset \in 0..MaxOffset /\ composed.shown = Visible(composed.offset)
      /\ \A y \in 0..(ViewRows - 1) :
           LET r == composed.offset + y
               t == TileOf(r) IN
           /\ composed.pix[t] = NoBuffer => backing[y] = <<Background>>
           /\ composed.pix[t] # NoBuffer /\ pixels[t] = composed.pix[t]
                => backing[y] = <<r, drawn[t]>>

(* No tile is being painted into the buffer it was composed from. *)
Elsewhere ==
    \A t \in composed.shown : composed.pix[t] # NoBuffer => painting[t] # composed.pix[t]

(* Until the frame drains, pixels have only been evicted, by a cache that   *)
(* is full and has just taken a buffer off its free list.                  *)
Evicted(t) == pixels[t] # composed.pix[t]

OnlyEvicted ==
    pc \notin {"drain", "judge", "compose"} =>
      /\ pc = "vsync" /\ composed.shown # {} => composed.offset = offset
      /\ \A t \in composed.shown :
           /\ pixels[t] \in {composed.pix[t], NoBuffer}
           /\ composed.pix[t] # NoBuffer
                => \A u \in Tile : pixels[u] = composed.pix[t] => u = t
           /\ Evicted(t) => /\ pc \in {"submit", "queue"}
                            /\ used >= budget /\ Len(idle) < MaxIdle

Admitted == onOrder <= budget

ScreenInv ==
    /\ composed.pix \in Map /\ composed.shown \subseteq Tile
    /\ Depicts /\ Elsewhere /\ OnlyEvicted /\ Admitted
-----------------------------------------------------------------------------
(* Where a row is, and what an eviction leaves on the free list. *)

(* Every row of a view within the document is in a tile. *)
LEMMA RowsAreTiles ==
    ASSUME NEW off \in 0..MaxOffset
    PROVE  /\ \A y \in 0..(ViewRows - 1) : TileOf(off + y) \in Tile
           /\ Visible(off) \subseteq Tile /\ Visible(off) # {}
<1>1. N \in Nat /\ TileRows \in Nat /\ TileRows > 0 /\ ViewRows \in Nat /\ ViewRows > 0
  BY FrameAssumption, GridAssumption, FS_CardinalityType DEF N
<1>2. N * TileRows \in Nat /\ MaxOffset = N * TileRows - ViewRows
  BY <1>1 DEF MaxOffset
<1>3. ASSUME NEW y \in 0..(ViewRows - 1) PROVE TileOf(off + y) \in Tile
  <2> DEFINE r == off + y
             q == r \div TileRows
  <2>1. r \in Nat /\ r < N * TileRows
    BY <1>1, <1>2
  <2> HIDE DEF r
  <2>2. q \in Nat /\ TileRows * q <= r
    BY <1>1, <2>1
  <2> HIDE DEF q
  <2>3. q < N
    <3>1. SUFFICES ASSUME q >= N PROVE FALSE
      BY <1>1, <2>2
    <3>2. TileRows * q >= TileRows * N
      BY <1>1, <2>2, <3>1
    <3> QED
      BY <1>1, <2>1, <2>2, <3>2
  <2>4. q + 1 \in 1..N
    BY <1>1, <2>2, <2>3
  <2> QED
    BY <2>4, FrameAssumption DEF TileOf, q, r
<1>4. 0 \in 0..(ViewRows - 1)
  BY <1>1
<1> QED
  BY <1>3, <1>4 DEF Visible

(* A list that is not full keeps at least one of the buffers put on top. *)
LEMMA RetainsTop ==
    ASSUME NEW s \in Seq(Buffer), NEW r \in Seq(Buffer), Len(s) < MaxIdle, r # <<>>,
           NEW b, Pop(Retain(s \o r), b)
    PROVE  b \in Elems(r)
<1> DEFINE q == s \o r
           m == Lesser(Len(q), MaxIdle)
<1>1. /\ q \in Seq(Buffer) /\ Len(q) = Len(s) + Len(r)
      /\ \A i \in 1..Len(q) : q[i] = IF i <= Len(s) THEN s[i] ELSE r[i - Len(s)]
  BY ConcatProperties
<1>2. Len(s) \in Nat /\ Len(r) \in Nat /\ Len(r) >= 1 /\ DOMAIN r = 1..Len(r)
  BY LenProperties, EmptySeq
<1>3. m \in 1..Len(q) /\ m > Len(s)
  BY <1>1, <1>2, GridAssumption DEF Lesser
<1> HIDE DEF q, m
<1>4. Retain(q) = SubSeq(q, 1, m)
  BY DEF Retain, m
<1>5. /\ Retain(q) \in Seq(Buffer) /\ Len(Retain(q)) = m
      /\ \A i \in 1..m : Retain(q)[i] = q[i]
  BY <1>1, <1>3, <1>4, LenProperties, SubSeqProperties
<1>6. Retain(q) # <<>>
  BY <1>3, <1>5, EmptySeq
<1>7. b = q[m]
  <2>1. b = Retain(q)[Len(Retain(q))]
    BY <1>6 DEF Pop, q
  <2> QED
    BY <1>3, <1>5, <2>1
<1>8. m - Len(s) \in 1..Len(r) /\ b = r[m - Len(s)]
  BY <1>1, <1>2, <1>3, <1>7
<1> QED
  BY <1>2, <1>8 DEF Elems

(* Whatever is popped, the free list is not full afterwards. *)
LEMMA RoomAfterPop ==
    ASSUME NEW s \in Seq(Buffer), Len(s) <= MaxIdle, NEW b, Pop(s, b)
    PROVE  Len(idle') < MaxIdle
<1>1. Len(s) \in Nat /\ MaxIdle \in Nat /\ MaxIdle > 0
  BY LenProperties, GridAssumption
<1>2. CASE s = <<>>
  BY <1>1, <1>2, EmptySeq DEF Pop
<1>3. CASE s # <<>>
  <2>1. Len(s) >= 1 /\ idle' = SubSeq(s, 1, Len(s) - 1)
    BY <1>1, <1>3, EmptySeq DEF Pop
  <2>2. Len(idle') = Len(s) - 1
    <3> DEFINE m == Len(s) - 1
    <3>1. m \in 0..Len(s)
      BY <1>1, <2>1
    <3> HIDE DEF m
    <3>2. Len(SubSeq(s, 1, m)) = m
      BY <3>1
    <3> QED
      BY <2>1, <3>2 DEF m
  <2> QED
    BY <1>1, <2>2
<1> QED
  BY <1>2, <1>3
-----------------------------------------------------------------------------
(* The steps. *)

(* Ordering a tile evicts others, and finds a buffer none of them was       *)
(* composed from where the tile itself has been evicted before.            *)
LEMMA AcquireScreen ==
    ASSUME Ledger, Ledger', FrameInv, ScreenInv, pc = "submit", onOrder + 1 <= budget,
           NEW c \in Tile, Acquire(c), pc' = "queue", UNCHANGED <<composed, backing>>
    PROVE  ScreenInv'
<1> DEFINE S == Evictable(c)
           k == Cardinality(S)
           n == Greater(0, Lesser(k, used + 1 - budget))
<1>1. PICK v \in OldestFirst(S, n), b \in Buffer :
          /\ DropAll(v)
          /\ Pop(Retain(idle \o Released(v)), b)
          /\ painting' = [painting EXCEPT ![c] = b]
          /\ used' = used - n + 1
  BY DEF Acquire
<1>2. /\ S \in SUBSET Holders /\ k \in Nat /\ IsFiniteSet(S)
      /\ used \in Int /\ budget \in Nat /\ budget > 0
  <2>1. S \in SUBSET Holders /\ IsFiniteSet(S)
    BY Counts, FS_Subset DEF Evictable
  <2>2. budget \in Nat /\ budget > 0
    BY GridAssumption DEF FrameInv, RestOK
  <2>3. used \in Int
    BY Counts DEF Ledger, Accounted
  <2> QED
    BY <2>1, <2>2, <2>3, FS_CardinalityType
<1>3. /\ n \in Nat /\ n <= k
      /\ n >= 1 => n <= used + 1 - budget
      /\ k >= 1 /\ used >= budget => n >= 1
  BY <1>2 DEF Greater, Lesser
<1> HIDE DEF n, k
<1>4. /\ v \in [1..n -> Tile] /\ Elems(v) \subseteq S
      /\ pixels' = Emptying(pixels, v)
  BY <1>1, <1>2, <1>3, Walk, EvictHolders
<1>5. \A t \in Tile : /\ t \in Elems(v) => pixels'[t] = NoBuffer /\ n >= 1
                      /\ t \notin Elems(v) => pixels'[t] = pixels[t] /\ drawn'[t] = drawn[t]
  <2>1. \A t \in Elems(v) : \E i \in 1..n : t = v[i]
    BY <1>4 DEF Elems
  <2>2. \A t \in Elems(v) : n >= 1
    BY <1>3, <2>1
  <2> QED
    BY <1>1, <1>4, <2>2 DEF Emptying, DropAll
<1>6. Len(idle') < MaxIdle
  BY <1>1, <1>2, <1>3, EvictLedger, RoomAfterPop
<1>7. Depicts'
  <2> SUFFICES ASSUME composed.shown # {}, NEW y \in 0..(ViewRows - 1)
               PROVE  LET r == composed.offset + y
                          t == TileOf(r) IN
                      composed.pix[t] # NoBuffer /\ pixels'[t] = composed.pix[t]
                        => pixels[t] = composed.pix[t] /\ drawn'[t] = drawn[t]
    BY DEF ScreenInv, Depicts
  <2>1. TileOf(composed.offset + y) \in Tile
    BY RowsAreTiles DEF ScreenInv, Depicts
  <2> QED
    BY <1>5, <2>1
<1>8. OnlyEvicted'
  <2>1. ASSUME NEW t \in composed.shown
        PROVE  /\ t \in Tile /\ pixels[t] \in {composed.pix[t], NoBuffer}
               /\ composed.pix[t] # NoBuffer
                    => \A u \in Tile : pixels[u] = composed.pix[t] => u = t
               /\ Evicted(t) => used >= budget
    BY DEF ScreenInv, OnlyEvicted
  <2>2. ASSUME NEW t \in composed.shown
        PROVE  pixels'[t] \in {composed.pix[t], NoBuffer}
    BY <1>5, <2>1
  <2>3. ASSUME NEW t \in composed.shown, composed.pix[t] # NoBuffer,
               NEW u \in Tile, pixels'[u] = composed.pix[t]
        PROVE  u = t
    BY <1>5, <2>1, <2>3
  <2>4. ASSUME NEW t \in composed.shown, pixels'[t] # composed.pix[t]
        PROVE  used' >= budget
    <3>1. CASE t \in Elems(v)
      BY <1>1, <1>2, <1>3, <1>5, <2>1, <3>1
    <3>2. CASE t \notin Elems(v)
      <4>1. used >= budget
        BY <1>5, <2>1, <2>4, <3>2 DEF Evicted
      <4> QED
        BY <1>1, <1>2, <1>3, <4>1
    <3> QED
      BY <3>1, <3>2
  <2>5. budget' = budget /\ composed' = composed
    BY DEF Acquire
  <2> QED
    BY <1>6, <2>2, <2>3, <2>4, <2>5 DEF OnlyEvicted, Evicted
<1>9. ASSUME c \in composed.shown, composed.pix[c] # NoBuffer
      PROVE  b # composed.pix[c]
  <2>1. painting'[c] = b
    BY <1>1 DEF Ledger, Map
  <2>2. CASE pixels[c] = composed.pix[c]
    <3>1. pixels'[c] = composed.pix[c]
      BY <1>4, <1>5, <2>2 DEF Evictable
    <3>2. pixels'[c] # painting'[c]
      BY <1>9, <3>1 DEF Ledger, Owned
    <3> QED
      BY <2>1, <3>1, <3>2
  <2>3. CASE pixels[c] # composed.pix[c]
    <3>1. /\ pixels[c] = NoBuffer /\ used >= budget /\ Len(idle) < MaxIdle
          /\ \A u \in Tile : pixels[u] = composed.pix[c] => u = c
      BY <1>9, <2>3 DEF ScreenInv, OnlyEvicted, Evicted
    <3>2. S = Holders
      BY <3>1 DEF Evictable, Holders
    <3>3. k >= 1
      <4>1. used = k + onOrder /\ onOrder \in Nat
        BY <3>2, Counts DEF Ledger, Accounted, k
      <4> QED
        BY <1>2, <3>1, <4>1
    <3>4. n >= 1
      BY <1>3, <3>1, <3>3
    <3> DEFINE w == Released(v)
    <3>5. w = [i \in 1..n |-> pixels[v[i]]]
      BY <1>4 DEF Released
    <3>6. \A i \in 1..n : v[i] \in Tile /\ v[i] # c /\ pixels[v[i]] \in Buffer
      <4>1. \A i \in 1..n : v[i] \in S
        BY <1>4 DEF Elems
      <4> QED
        BY <4>1 DEF Evictable, Holders, Ledger, Map
    <3> HIDE DEF w
    <3>7. w \in Seq(Buffer) /\ w # <<>>
      <4>1. w \in [1..n -> Buffer]
        BY <3>5, <3>6
      <4>2. w \in Seq(Buffer) /\ Len(w) = n
        BY <1>3, <4>1, IsASeq, LenProperties
      <4> QED
        BY <1>3, <3>4, <4>2, EmptySeq
    <3>8. b \in Elems(w)
      <4>1. Pop(Retain(idle \o w), b) /\ idle \in Seq(Buffer)
        BY <1>1 DEF w, Ledger
      <4> QED
        BY <3>1, <3>7, <4>1, RetainsTop
    <3>9. PICK i \in 1..n : b = pixels[v[i]]
      BY <3>5, <3>8 DEF Elems
    <3> QED
      BY <3>1, <3>6, <3>9
  <2> QED
    BY <2>2, <2>3
<1>10. Elsewhere'
  <2>1. painting \in Map
    BY DEF Ledger
  <2> QED
    BY <1>1, <1>9, <2>1 DEF Elsewhere, ScreenInv, Map
<1>11. Admitted'
  <2>1. onOrder' = onOrder + 1 /\ budget' = budget
    BY DEF Acquire
  <2> QED
    BY <2>1 DEF Admitted
<1> QED
  BY <1>7, <1>8, <1>10, <1>11 DEF ScreenInv

(* Steps that move no buffer of the grid and leave the screen alone. *)
LEMMA ScreenKept ==
    ASSUME ScreenInv, UNCHANGED <<bufferVars, budget, drawn, screenVars>>,
           \/ pc' \in {"drain", "judge", "compose"}
           \/ /\ pc \notin {"drain", "judge", "compose"}
              /\ pc \in {"submit", "queue"} => pc' \in {"submit", "queue"}
              /\ pc' = "vsync" => pc = "vsync" /\ offset' = offset
    PROVE  ScreenInv'
<1>1. Depicts' /\ Elsewhere' /\ Admitted'
  BY DEF ScreenInv, Depicts, Elsewhere, Admitted, bufferVars, screenVars
<1>2. OnlyEvicted'
  BY DEF ScreenInv, OnlyEvicted, Evicted, bufferVars, screenVars
<1> QED
  BY <1>1, <1>2 DEF ScreenInv, screenVars

(* A queue as deep as the budget takes every job that is offered. *)
LEMMA NeverRefused ==
    ASSUME \A b \in Budgets : b <= QueueDepth,
           Ledger, FrameInv, WorkInv, ScreenInv, pc = "queue"
    PROVE  RoomInPool
<1> DEFINE c == Head(need)
<1>1. c \notin InPool /\ Painters = InPool \cup {c}
  BY DEF WorkInv, OnOrder, Offered
<1> HIDE DEF c
<1>2. /\ Cardinality(InPool) \in Nat
      /\ Cardinality(Painters) = Cardinality(InPool) + 1
  BY <1>1, PoolCount, FS_CardinalityType, FS_AddElement
<1>3. Cardinality(Painters) <= QueueDepth
  <2>1. onOrder <= budget /\ onOrder = Cardinality(Painters) /\ onOrder \in Nat
    BY Counts DEF ScreenInv, Admitted, Ledger, Accounted
  <2>2. budget \in Nat /\ budget <= QueueDepth /\ QueueDepth \in Nat
    BY FrameAssumption, GridAssumption DEF FrameInv, RestOK
  <2> QED
    BY <2>1, <2>2
<1> QED
  BY <1>2, <1>3, PoolCount, FrameAssumption DEF RoomInPool

(* Collecting a result changes the picture of its tile only, and never in   *)
(* the buffer that is on screen.                                            *)
LEMMA DrainScreen ==
    ASSUME Ledger, FrameInv, ScreenInv, DrainOne
    PROVE  ScreenInv'
<1> DEFINE c == Head(finished).tile
<1>1. /\ pc' \in {"drain", "judge"} /\ UNCHANGED <<composed, backing>> /\ c \in Tile
  <2>1. Head(finished) \in Done
    BY HeadTailProperties DEF DrainOne, FrameInv, CallsOK
  <2> QED
    BY <2>1 DEF DrainOne, screenVars, Done
<1>2. \/ Release(c)
      \/ MarkValid(c)
  BY DEF DrainOne, ReleaseFailed, ReleaseUnpainted
<1> HIDE DEF c
<1>3. /\ painting' = [painting EXCEPT ![c] = NoBuffer] /\ painting[c] # NoBuffer
      /\ onOrder' = onOrder - 1 /\ budget' = budget
      /\ \A t \in Tile \ {c} : pixels'[t] = pixels[t] /\ drawn'[t] = drawn[t]
      /\ \/ pixels'[c] = pixels[c] /\ drawn'[c] = drawn[c]
         \/ pixels'[c] = painting[c]
  BY <1>1, <1>2 DEF Release, MarkValid, Ledger, Map, FrameInv, RestOK
<1>4. Elsewhere' /\ Admitted' /\ OnlyEvicted'
  <2>1. onOrder \in Nat /\ budget \in Nat /\ painting \in Map
    BY Counts, GridAssumption DEF Ledger, Accounted, FrameInv, RestOK
  <2> QED
    BY <1>1, <1>3, <2>1 DEF ScreenInv, Elsewhere, Admitted, OnlyEvicted, Map
<1>5. Depicts'
  <2> SUFFICES ASSUME composed.shown # {}, NEW y \in 0..(ViewRows - 1)
               PROVE  LET r == composed.offset + y
                          t == TileOf(r) IN
                      composed.pix[t] # NoBuffer /\ pixels'[t] = composed.pix[t]
                        => pixels[t] = composed.pix[t] /\ drawn'[t] = drawn[t]
    BY <1>1 DEF ScreenInv, Depicts
  <2> DEFINE t == TileOf(composed.offset + y)
  <2>1. t \in Tile /\ t \in composed.shown
    BY RowsAreTiles DEF ScreenInv, Depicts, Visible
  <2>2. composed.pix[t] # NoBuffer => painting[t] # composed.pix[t]
    BY <2>1 DEF ScreenInv, Elsewhere
  <2> HIDE DEF t
  <2>3. composed.pix[t] # NoBuffer /\ pixels'[t] = composed.pix[t]
          => pixels[t] = composed.pix[t] /\ drawn'[t] = drawn[t]
    BY <1>3, <2>1, <2>2
  <2> QED
    BY <2>3 DEF t
<1> QED
  BY <1>1, <1>4, <1>5 DEF ScreenInv

(* Giving a tile up takes its pixels away. *)
LEMMA JudgeScreen ==
    ASSUME Ledger, FrameInv, ScreenInv, Judge
    PROVE  ScreenInv'
<1>1. /\ pc' = "drain" /\ UNCHANGED <<composed, backing, painting, onOrder, budget>>
  BY DEF Judge, MarkFailed, screenVars
<1>2. \A t \in Tile : \/ pixels'[t] = NoBuffer
                      \/ pixels'[t] = pixels[t] /\ drawn'[t] = drawn[t]
  BY DEF Judge, MarkFailed, DropAll
<1>3. Elsewhere' /\ Admitted' /\ OnlyEvicted'
  BY <1>1 DEF ScreenInv, Elsewhere, Admitted, OnlyEvicted
<1>4. Depicts'
  <2> SUFFICES ASSUME composed.shown # {}, NEW y \in 0..(ViewRows - 1)
               PROVE  LET r == composed.offset + y
                          t == TileOf(r) IN
                      composed.pix[t] # NoBuffer /\ pixels'[t] = composed.pix[t]
                        => pixels[t] = composed.pix[t] /\ drawn'[t] = drawn[t]
    BY <1>1 DEF ScreenInv, Depicts
  <2>1. TileOf(composed.offset + y) \in Tile
    BY RowsAreTiles DEF ScreenInv, Depicts
  <2> QED
    BY <1>2, <2>1
<1> QED
  BY <1>1, <1>3, <1>4 DEF ScreenInv

(* A row composed from the pixels its tile still has is what a repaint      *)
(* would put there.                                                         *)
LEMMA RowStands ==
    ASSUME ScreenInv, StateFitsPixels, composed.shown # {}, NEW y \in 0..(ViewRows - 1),
           composed.pix[TileOf(composed.offset + y)] = pixels[TileOf(composed.offset + y)]
    PROVE  backing[y] = CellAt(composed.offset + y)
<1> DEFINE r == composed.offset + y
           t == TileOf(r)
<1>1. t \in Tile
  BY RowsAreTiles DEF ScreenInv, Depicts
<1>2. /\ composed.pix[t] = NoBuffer => backing[y] = <<Background>>
      /\ composed.pix[t] # NoBuffer => backing[y] = <<r, drawn[t]>>
  BY DEF ScreenInv, Depicts
<1>3. Blittable(t) <=> pixels[t] # NoBuffer
  BY <1>1 DEF Blittable, StateFitsPixels, Holders
<1> QED
  BY <1>2, <1>3 DEF CellAt

(* Composing repaints what a shift cannot have brought.                     *)
LEMMA ComposeScreen ==
    ASSUME Ledger, FrameInv, StateFitsPixels, ScreenInv, Compose
    PROVE  ScreenInv'
<1> DEFINE dy == offset - composed.offset
           full == composed.shown = {} \/ dy >= ViewRows \/ -dy >= ViewRows
           repaint(y) == \/ full \/ y + dy \notin 0..(ViewRows - 1)
                         \/ Changed(TileOf(offset + y))
<1>1. /\ backing' = [y \in 0..(ViewRows - 1) |->
                       IF repaint(y) THEN CellAt(offset + y) ELSE backing[y + dy]]
      /\ composed' = [offset |-> offset, shown |-> Visible(offset),
                      pix |-> [t \in Tile |-> IF t \in Visible(offset) THEN pixels[t]
                                                                      ELSE NoBuffer]]
      /\ pc' = "vsync" /\ UNCHANGED <<vars, offset>>
  BY DEF Compose, viewVars
<1>2. offset \in 0..MaxOffset /\ MaxOffset \in Nat /\ ViewRows \in Nat
  <2>1. ViewRows \in Nat /\ MaxOffset \in Int
    BY FrameAssumption, GridAssumption, FS_CardinalityType DEF N, MaxOffset
  <2> QED
    BY <2>1 DEF FrameInv, CallsOK
<1>3. \A y \in 0..(ViewRows - 1) : TileOf(offset + y) \in Tile /\ TileOf(offset + y) \in Visible(offset)
  BY <1>2, RowsAreTiles DEF Visible
<1>4. Visible(offset) \subseteq Tile
  BY <1>2, RowsAreTiles
<1>5. ASSUME NEW y \in 0..(ViewRows - 1)
      PROVE  backing'[y] = CellAt(offset + y)
  <2>1. CASE repaint(y)
    BY <1>1, <2>1
  <2>2. CASE ~repaint(y)
    <3> DEFINE z == y + dy
    <3>1. composed.shown # {} /\ z \in 0..(ViewRows - 1) /\ ~Changed(TileOf(offset + y))
      BY <2>2
    <3>2. composed.offset \in 0..MaxOffset /\ composed.shown = Visible(composed.offset)
      BY <3>1 DEF ScreenInv, Depicts
    <3>3. composed.offset + z = offset + y
      BY <1>2, <3>2
    <3>4. backing'[y] = backing[z]
      BY <1>1, <2>2
    <3> HIDE DEF z, dy, full, repaint
    <3>5. TileOf(offset + y) \in composed.shown
      BY <3>1, <3>2, <3>3 DEF Visible
    <3>6. composed.pix[TileOf(composed.offset + z)] = pixels[TileOf(composed.offset + z)]
      BY <3>1, <3>3, <3>5 DEF Changed
    <3>7. backing[z] = CellAt(composed.offset + z)
      BY <3>1, <3>6, RowStands
    <3> QED
      BY <3>3, <3>4, <3>7
  <2> QED
    BY <2>1, <2>2
<1> HIDE DEF dy, full, repaint
<1>6. /\ composed'.offset = offset /\ composed'.shown = Visible(offset)
      /\ composed'.pix \in Map
      /\ \A t \in Visible(offset) : composed'.pix[t] = pixels[t]
  BY <1>1, <1>4 DEF Ledger, Map
<1>7. /\ UNCHANGED <<pixels, painting, drawn, onOrder, budget>>
  BY <1>1 DEF vars, bufferVars
<1>8. Depicts'
  <2>1. ASSUME NEW y \in 0..(ViewRows - 1)
        PROVE  LET r == offset + y
                   t == TileOf(r) IN
               /\ composed'.pix[t] = NoBuffer => backing'[y] = <<Background>>
               /\ composed'.pix[t] # NoBuffer /\ pixels[t] = composed'.pix[t]
                    => backing'[y] = <<r, drawn[t]>>
    <3> DEFINE r == offset + y
               t == TileOf(r)
    <3>1. t \in Tile /\ composed'.pix[t] = pixels[t] /\ backing'[y] = CellAt(r)
      BY <1>3, <1>5, <1>6
    <3>2. Blittable(t) <=> pixels[t] # NoBuffer
      BY <3>1 DEF Blittable, StateFitsPixels, Holders
    <3> QED
      BY <3>1, <3>2 DEF CellAt
  <2> QED
    BY <1>2, <1>6, <1>7, <2>1 DEF Depicts
<1>9. Elsewhere'
  BY <1>4, <1>6, <1>7 DEF Elsewhere, Ledger, Owned
<1>10. OnlyEvicted'
  <2>1. \A t \in Visible(offset) : pixels[t] # NoBuffer
          => \A u \in Tile : pixels[u] = pixels[t] => u = t
    BY <1>4 DEF Ledger, Owned, OneToOne
  <2> QED
    BY <1>1, <1>6, <1>7, <2>1 DEF OnlyEvicted, Evicted
<1>11. Admitted'
  BY <1>7 DEF ScreenInv, Admitted
<1> QED
  BY <1>4, <1>6, <1>8, <1>9, <1>10, <1>11 DEF ScreenInv

(* Every step of frame thread, workers and producer. *)
LEMMA ScreenStep ==
    ASSUME \A b \in Budgets : b <= QueueDepth,
           Ledger, Ledger', FrameInv, WorkInv, StateFitsPixels, ScreenInv,
           [FrameNext]_allVars
    PROVE  ScreenInv'
<1>1. CASE Scroll
  BY <1>1, ScreenKept DEF Scroll, Vsync, vars
<1>2. CASE TakeUpdate
  BY <1>2, ScreenKept DEF TakeUpdate, vars
<1>3. CASE SwapContent
  BY <1>3, ScreenKept DEF SwapContent, Swap, vars
<1>4. CASE Plan
  BY <1>4, ScreenKept DEF Plan, Touch
<1>5. CASE SubmitAcquire
  <2>1. CASE InFlight(Head(need))
    BY <1>5, <2>1, ScreenKept DEF SubmitAcquire, vars
  <2>2. CASE ~InFlight(Head(need))
    <3>1. /\ pc = "submit" /\ onOrder + 1 <= budget /\ need # <<>>
          /\ Acquire(Head(need)) /\ pc' = "queue" /\ UNCHANGED <<composed, backing>>
      BY <1>5, <2>2 DEF SubmitAcquire, screenVars
    <3>2. Head(need) \in Tile
      BY <3>1, RestOfList DEF FrameInv, CallsOK
    <3> QED
      BY <3>1, <3>2, AcquireScreen
  <2> QED
    BY <2>1, <2>2
<1>6. CASE SubmitQueue
  <2>1. RoomInPool
    BY <1>6, NeverRefused DEF SubmitQueue
  <2> QED
    BY <1>6, <2>1, ScreenKept DEF SubmitQueue, vars
<1>7. CASE SubmitEnd
  BY <1>7, ScreenKept DEF SubmitEnd, vars
<1>8. CASE DrainEnd
  BY <1>8, ScreenKept DEF DrainEnd, vars
<1>9. ASSUME UNCHANGED <<vars, pc, offset, screenVars>> PROVE ScreenInv'
  BY <1>9, ScreenKept DEF vars
<1>10. CASE WorkerStep
  BY <1>9, <1>10 DEF WorkerStep, StartRaster, FinishRaster, viewVars
<1>11. ASSUME NEW C \in SUBSET Tile, NEW auto \in BOOLEAN, UpdateLayer(C, auto)
       PROVE  ScreenInv'
  BY <1>9, <1>11 DEF UpdateLayer, viewVars
<1>12. CASE UNCHANGED allVars
  BY <1>9, <1>12 DEF allVars, viewVars
<1> QED
  BY <1>1, <1>2, <1>3, <1>4, <1>5, <1>6, <1>7, <1>8, <1>10, <1>11, <1>12,
     DrainScreen, JudgeScreen, ComposeScreen
  DEF FrameNext, FrameStep

(* Nothing has been composed when the first frame begins. *)
LEMMA ScreenInitInv == FrameInit => ScreenInv
<1> SUFFICES ASSUME FrameInit PROVE ScreenInv
  OBVIOUS
<1>1. composed.shown = {} /\ composed.pix \in Map
  BY DEF FrameInit, NothingComposed, Map
<1>2. onOrder = 0 /\ budget \in Nat
  BY GridAssumption DEF FrameInit, Init
<1> QED
  BY <1>1, <1>2 DEF ScreenInv, Depicts, Elsewhere, OnlyEvicted, Admitted

(* The backing store that ComposeInto shifts and patches is what a full     *)
(* repaint of the visible tiles would have produced, provided that the job  *)
(* queue has room for all the budget admits, as the program's has           *)
(* (main.go:73 against MaxTileCacheBytes).                                  *)
THEOREM ScreenIsFullRepaint ==
    ASSUME \A b \in Budgets : b <= QueueDepth
    PROVE  FrameSafeSpec => []BackingIsFullRepaint
<1>1. Ledger /\ Ledger' /\ FrameInv /\ WorkInv /\ StateFitsPixels /\ ScreenInv
        /\ [FrameNext]_allVars => ScreenInv'
  BY ScreenStep
<1>2. ScreenInv /\ StateFitsPixels => BackingIsFullRepaint
  <2> SUFFICES ASSUME ScreenInv, StateFitsPixels, pc = "vsync", composed.shown # {},
                      NEW y \in 0..(ViewRows - 1)
               PROVE  backing[y] = CellAt(offset + y)
    BY DEF BackingIsFullRepaint
  <2>1. composed.offset = offset /\ TileOf(offset + y) \in composed.shown
    BY DEF ScreenInv, OnlyEvicted, Depicts, Visible
  <2>2. composed.pix[TileOf(offset + y)] = pixels[TileOf(offset + y)]
    BY <2>1 DEF ScreenInv, OnlyEvicted, Evicted
  <2> QED
    BY <2>1, <2>2, RowStands
<1>3. FrameSafeSpec => []StateFitsPixels
  BY FramePathKeepsContract, StatesFitPixels, PTL DEF GridContractKept
<1> QED
  BY ScreenInitInv, FrameLedger, WorkInvariance, <1>1, <1>2, <1>3, PTL DEF FrameSafeSpec
-----------------------------------------------------------------------------
(* What eviction takes.  While the frame submits, the tiles on screen are  *)
(* ahead of all others in the recency list: Plan has touched them, and     *)
(* eviction only takes tiles out.                                          *)
PageFirst == pc \in {"submit", "queue"} => Leading(lru, Visible(offset))

(* The frame's list names exactly the tiles on screen. *)
LEMMA FrameOrderLists ==
    ASSUME NEW off \in 0..MaxOffset, NEW d \in {1, -1}
    PROVE  /\ FrameOrder(off, d) \in Seq(Tile)
           /\ Elems(FrameOrder(off, d)) = Visible(off)
<1> DEFINE V == Visible(off)
           up == [i \in 1..N |-> i]
           down == [i \in 1..N |-> N + 1 - i]
           D == {i \in 1..N : N + 1 - i \in V}
<1>1. V \subseteq 1..N /\ N \in Nat /\ Tile = 1..N
  BY RowsAreTiles, FrameAssumption, GridAssumption, FS_CardinalityType DEF N
<1>2. /\ up \in Seq(Tile) /\ DOMAIN up = 1..N
      /\ down \in Seq(Tile) /\ DOMAIN down = 1..N
  BY <1>1
<1>3. {up[i] : i \in V} = V
  BY <1>1
<1>4. {down[i] : i \in D} = V
  <2>1. \A i \in V : N + 1 - i \in D /\ down[N + 1 - i] = i
    BY <1>1
  <2>2. \A i \in D : down[i] \in V
    OBVIOUS
  <2> HIDE DEF D, down
  <2> QED
    BY <2>1, <2>2
<1>5. V \in SUBSET DOMAIN up /\ D \in SUBSET DOMAIN down
  BY <1>1, <1>2
<1>6. /\ Ascending(V) = At(up, V) /\ Descending(V) = At(down, D)
      /\ FrameOrder(off, d) \in {Ascending(V), Descending(V)}
  BY DEF Ascending, Descending, FrameOrder, Upwards, Downwards
<1> HIDE DEF V, up, down, D
<1>7. At(up, V) \in Seq(Tile) /\ At(down, D) \in Seq(Tile)
  BY <1>2, <1>5, Kept
<1>8. Members(At(up, V)) = V /\ Members(At(down, D)) = V
  <2>1. Members(At(up, V)) = {up[i] : i \in V}
    BY <1>2, <1>5, KeptMembers
  <2>2. Members(At(down, D)) = {down[i] : i \in D}
    BY <1>2, <1>5, KeptMembers
  <2> QED
    BY <1>3, <1>4, <2>1, <2>2
<1>9. Elems(At(up, V)) = V /\ Elems(At(down, D)) = V
  BY <1>8 DEF Members, Elems
<1> QED
  BY <1>6, <1>7, <1>9 DEF V

LEMMA PageFirstStep ==
    ASSUME TypeOK, Threaded, FrameInv, PageFirst, [FrameNext]_allVars
    PROVE  PageFirst'
<1>1. offset \in 0..MaxOffset /\ dir \in {1, -1}
  BY DEF FrameInv, CallsOK
<1>2. CASE Plan
  <2>1. /\ Touch(FrameOrder(offset, dir)) /\ offset' = offset
    BY <1>2 DEF Plan, viewVars
  <2>2. Leading(TouchedBy(FrameOrder(offset, dir)), Visible(offset))
    BY <1>1, FrameOrderLists, ListTouched
  <2>3. Leading(lru', Visible(offset))
    BY <2>1, <2>2 DEF Touch
  <2>4. Visible(offset') = Visible(offset)
    BY <2>1
  <2> QED
    BY <2>3, <2>4 DEF PageFirst, Leading
<1>3. CASE SubmitAcquire
  <2>1. CASE InFlight(Head(need))
    BY <1>3, <2>1 DEF SubmitAcquire, PageFirst, Leading, vars, viewVars, Visible
  <2>2. CASE ~InFlight(Head(need))
    <3>1. /\ pc = "submit" /\ Acquire(Head(need)) /\ offset' = offset
      BY <1>3, <2>2 DEF SubmitAcquire, viewVars
    <3>2. PICK X : lru' = Without(lru, X)
      BY <3>1 DEF Acquire, DropAll
    <3>3. lru \in Seq(Tile) /\ Leading(lru, Visible(offset))
      BY <3>1 DEF Threaded, Lists, PageFirst
    <3>4. Leading(lru', Visible(offset))
      BY <3>2, <3>3, LeadingWithout
    <3>5. Visible(offset') = Visible(offset)
      BY <3>1
    <3> QED
      BY <3>4, <3>5 DEF PageFirst, Leading
  <2> QED
    BY <2>1, <2>2
<1>4. ASSUME UNCHANGED <<lru, offset>>, pc \in {"submit", "queue"} \/ pc' = pc
      PROVE  PageFirst'
  BY <1>4 DEF PageFirst, Leading, Visible
<1>5. CASE SubmitQueue
  BY <1>4, <1>5 DEF SubmitQueue, ReleaseUnpainted, Release, vars, viewVars
<1>6. CASE \/ Scroll \/ TakeUpdate \/ SwapContent \/ SubmitEnd
           \/ DrainOne \/ Judge \/ DrainEnd \/ Compose
  <2>1. pc' \notin {"submit", "queue"}
    BY <1>6 DEF Scroll, Vsync, TakeUpdate, SwapContent, SubmitEnd, DrainOne, Judge,
                DrainEnd, Compose
  <2> QED
    BY <2>1 DEF PageFirst
<1>7. CASE WorkerStep
  BY <1>4, <1>7 DEF WorkerStep, StartRaster, FinishRaster, vars, viewVars
<1>8. ASSUME NEW C \in SUBSET Tile, NEW auto \in BOOLEAN, UpdateLayer(C, auto)
      PROVE  PageFirst'
  BY <1>4, <1>8 DEF UpdateLayer, vars, viewVars
<1>9. CASE UNCHANGED allVars
  BY <1>4, <1>9 DEF allVars, vars, viewVars
<1> QED
  BY <1>2, <1>3, <1>5, <1>6, <1>7, <1>8, <1>9 DEF FrameNext, FrameStep

(* A step that takes the pixels of a tile on screen orders a tile, and the *)
(* walk from the tail of the recency list has left no tile off screen      *)
(* behind but that one.                                                    *)
LEMMA RingGoesFirst ==
    ASSUME TypeOK, PageFirst, Threaded, FrameInv,
           [FrameNext]_allVars,
           NEW t \in Visible(offset), NEW u \in Tile \ Visible(offset),
           LosesPixels(t)
    PROVE  pixels'[u] = NoBuffer \/ IsOrdered(u)
<1>1. t \in Tile
  BY RowsAreTiles DEF FrameInv, CallsOK
<1>2. pixels[t] # NoBuffer /\ pixels'[t] = NoBuffer /\ state'[t] # "failed"
  BY DEF LosesPixels
<1>3. ASSUME pc = "submit", Acquire(Head(need)), Head(need) \in Tile
      PROVE  pixels'[u] = NoBuffer \/ IsOrdered(u)
  <2> DEFINE c == Head(need)
  <2> DEFINE n == Greater(0, Lesser(Cardinality(Evictable(c)), used + 1 - budget))
  <2>1. PICK v \in OldestFirst(Evictable(c), n), b \in Buffer :
          DropAll(v) /\ painting' = [painting EXCEPT ![c] = b]
    BY <1>3 DEF Acquire
  <2> HIDE DEF n
  <2>2. painting[c] = NoBuffer /\ painting'[c] # NoBuffer
    BY <1>3, <2>1, GridAssumption DEF Acquire, TypeOK
  <2>3. t \in Elems(v) /\ DOMAIN v = 1..n
    BY <1>1, <1>2, <2>1 DEF DropAll, OldestFirst
  <2>4. PICK i \in 1..n : v[i] = t
    BY <2>3 DEF Elems
  <2>5. SUFFICES ASSUME u # c, pixels'[u] # NoBuffer PROVE FALSE
    BY <2>2 DEF IsOrdered
  <2>6. u \in Evictable(c) /\ u \notin Elems(v)
    BY <2>1, <2>5 DEF DropAll, Evictable, Holders
  <2>7. ~ \E k \in 1..n : v[k] = u
    BY <2>3, <2>6 DEF Elems
  <2>8. Older(t, u)
    BY <2>1, <2>4, <2>6, <2>7 DEF OldestFirst
  <2>9. Leading(lru, Visible(offset))
    BY <1>3 DEF PageFirst
  <2>10. PICK i1, i2 \in DOMAIN lru : i1 < i2 /\ lru[i1] = u /\ lru[i2] = t
    BY <2>8 DEF Older
  <2>11. i2 < i1
    BY <2>9, <2>10 DEF Leading
  <2>12. i1 \in Int /\ i2 \in Int
    BY <2>10 DEF Threaded, Lists
  <2> QED
    BY <2>10, <2>11, <2>12
<1>4. CASE SubmitAcquire
  <2>1. need # <<>> /\ pc = "submit"
    BY <1>4 DEF SubmitAcquire
  <2>2. Head(need) \in Tile
    BY <2>1, RestOfList DEF FrameInv, CallsOK
  <2> QED
    BY <1>2, <1>3, <1>4, <2>1, <2>2 DEF SubmitAcquire, vars, bufferVars
<1>5. CASE DrainOne
  <2>1. ASSUME NEW c, MarkValid(c) PROVE FALSE
    BY <1>1, <1>2, <2>1 DEF MarkValid, TypeOK
  <2>2. ASSUME NEW c, Release(c) PROVE FALSE
    BY <1>2, <2>2 DEF Release
  <2> QED
    BY <1>5, <2>1, <2>2 DEF DrainOne, ReleaseFailed, ReleaseUnpainted
<1>6. CASE Judge
  <2>1. MarkFailed(suspect)
    BY <1>6 DEF Judge
  <2>2. DropAll(<<suspect>>) /\ state' = [state EXCEPT ![suspect] = "failed"]
    BY <1>2, <2>1 DEF MarkFailed
  <2>3. t = suspect
    BY <1>1, <1>2, <2>2 DEF DropAll, Elems
  <2> QED
    BY <1>1, <1>2, <2>2, <2>3 DEF TypeOK
<1>7. CASE SubmitQueue
  BY <1>2, <1>7 DEF SubmitQueue, ReleaseUnpainted, Release, vars, bufferVars
<1>8. CASE UNCHANGED vars
  BY <1>2, <1>8 DEF vars, bufferVars
<1>9. CASE SwapContent
  BY <1>2, <1>9 DEF SwapContent, Swap, vars, bufferVars
<1>10. CASE Plan
  BY <1>2, <1>10 DEF Plan, Touch, bufferVars
<1>11. CASE \/ Scroll \/ TakeUpdate \/ SubmitEnd \/ DrainEnd \/ Compose \/ WorkerStep
            \/ \E C \in SUBSET Tile \ {{}}, auto \in BOOLEAN : UpdateLayer(C, auto)
            \/ UNCHANGED allVars
  <2>1. UNCHANGED vars
    BY <1>11 DEF Scroll, Vsync, TakeUpdate, SubmitEnd, DrainEnd, Compose, WorkerStep,
                 StartRaster, FinishRaster, UpdateLayer, allVars
  <2> QED
    BY <1>8, <2>1
<1> QED
  BY <1>4, <1>5, <1>6, <1>7, <1>9, <1>10, <1>11 DEF FrameNext, FrameStep

(* Eviction picks the ring rather than the page: a tile on screen loses     *)
(* its pixels only when no tile off screen has any left but the one that is *)
(* being ordered.                                                           *)
THEOREM PageOutlivesRing == FrameSafeSpec => RingEvictedFirst
<1>1. FrameInit => PageFirst
  BY DEF FrameInit, PageFirst
<1>2. FrameSafeSpec => []TypeOK
  BY FramePathKeepsContract, TypeCorrect, PTL DEF GridContractKept
<1>3. FrameSafeSpec => []Threaded
  BY FramePathKeepsContract, ThreadedInvariance, PTL DEF GridContractKept
<1>4. TypeOK /\ Threaded /\ FrameInv /\ PageFirst /\ [FrameNext]_allVars => PageFirst'
  BY PageFirstStep
<1>5. TypeOK /\ PageFirst /\ Threaded /\ FrameInv /\ [FrameNext]_allVars
        => [\A t \in Visible(offset), u \in Tile \ Visible(offset) :
              LosesPixels(t) => pixels'[u] = NoBuffer \/ IsOrdered(u)]_allVars
  BY RingGoesFirst
<1> QED
  BY FrameInvariance, <1>1, <1>2, <1>3, <1>4, <1>5, PTL
  DEF FrameSafeSpec, RingEvictedFirst
-----------------------------------------------------------------------------
(* A frame ends.  The work left in it: what it still has to submit, the     *)
(* rasters in the pool, which it may collect, and the calls that follow.    *)
Ahead == [take |-> 4 * N + 8, swap |-> 4 * N + 7, plan |-> 4 * N + 6,
          submit |-> 5, queue |-> 4, judge |-> 3, drain |-> 2, compose |-> 1, vsync |-> 0]

PoolSize  == Len(jobs) + Cardinality(running) + Len(finished)
FrameWork == 4 * Len(need) + 2 * PoolSize + Ahead[pc]

(* Only the next vsync adds to it; the workers and the producer, whatever   *)
(* they do meanwhile, leave it alone; each call of the frame takes from it. *)
FrameRunsDown ==
    [][ /\ FrameStep => FrameWork' < FrameWork
        /\ FrameWork' > FrameWork => Scroll ]_allVars

(* It is a number. *)
LEMMA FrameWorkIsNumber ==
    ASSUME FrameInv, WorkInv, Progress
    PROVE  /\ N \in Nat /\ Ahead[pc] \in Nat /\ Len(need) \in Nat
           /\ Len(jobs) \in Nat /\ Cardinality(running) \in Nat /\ Len(finished) \in Nat
           /\ FrameWork \in Nat
<1>1. N \in Nat
  BY GridAssumption, FS_CardinalityType DEF N
<1>2. Ahead[pc] \in Nat
  BY <1>1 DEF Ahead, Progress
<1>3. Len(need) \in Nat
  BY DEF FrameInv, CallsOK
<1> QED
  BY <1>1, <1>2, <1>3, PoolCount DEF FrameWork, PoolSize

(* After a step as well. *)
LEMMA FrameWorkIsNumberNext ==
    FrameInv' /\ WorkInv' /\ Progress'
      => (/\ Len(need) \in Nat /\ Len(jobs) \in Nat /\ Cardinality(running) \in Nat
          /\ Len(finished) \in Nat /\ FrameWork \in Nat)'
<1>1. FrameInv /\ WorkInv /\ Progress
        => /\ Len(need) \in Nat /\ Len(jobs) \in Nat /\ Cardinality(running) \in Nat
           /\ Len(finished) \in Nat /\ FrameWork \in Nat
  BY FrameWorkIsNumber
<1> QED
  BY <1>1, PTL

(* The frame plans no more tiles than there are. *)
LEMMA PickedCount ==
    ASSUME NEW s, NEW q \in Picked(s)
    PROVE  Len(q) \in 0..N
<1> DEFINE W == {t \in Tile : t \in Elems(s) /\ Wanted(t)}
<1>1. q \in [1..Cardinality(W) -> W]
  BY DEF Picked
<1>2. IsFiniteSet(Tile) /\ W \in SUBSET Tile
  BY GridAssumption
<1> HIDE DEF W
<1>3. Cardinality(W) \in Nat /\ N \in Nat /\ Cardinality(W) <= N
  BY <1>2, FS_Subset, FS_CardinalityType DEF N
<1>4. Len(q) = Cardinality(W)
  BY <1>1, <1>3
<1> QED
  BY <1>3, <1>4

(* Steps that leave the pool alone. *)
LEMMA PoolSizeKept ==
    ASSUME UNCHANGED poolVars PROVE PoolSize' = PoolSize
BY DEF PoolSize, poolVars

(* Each call of the frame takes from the work. *)
LEMMA FrameCallsEnd ==
    ASSUME FrameInv, WorkInv, Progress, FrameInv', WorkInv', Progress', FrameStep
    PROVE  FrameWork' < FrameWork
<1>0. /\ N \in Nat /\ Len(need) \in Nat /\ Len(jobs) \in Nat
      /\ Cardinality(running) \in Nat /\ Len(finished) \in Nat
      /\ Len(need') \in Nat /\ Len(jobs') \in Nat
      /\ Cardinality(running') \in Nat /\ Len(finished') \in Nat
  BY FrameWorkIsNumber, FrameWorkIsNumberNext
<1>01. PoolSize \in Nat /\ PoolSize' \in Nat
  BY <1>0 DEF PoolSize
<1>1. CASE TakeUpdate
  <2>1. pc = "take" /\ pc' \in {"plan", "swap"} /\ need' = need /\ UNCHANGED poolVars
    BY <1>1 DEF TakeUpdate
  <2> QED
    BY <1>0, <1>01, <2>1, PoolSizeKept DEF FrameWork, Ahead
<1>2. CASE SwapContent
  <2>1. pc = "swap" /\ pc' = "plan" /\ need' = need /\ UNCHANGED poolVars
    BY <1>2 DEF SwapContent
  <2> QED
    BY <1>0, <1>01, <2>1, PoolSizeKept DEF FrameWork, Ahead
<1>3. CASE Plan
  <2>1. /\ pc = "plan" /\ pc' = "submit" /\ UNCHANGED poolVars
        /\ need' \in Picked(FrameOrder(offset, dir) \o Ring(offset, dir))
    BY <1>3 DEF Plan
  <2>2. Len(need') \in 0..N
    BY <2>1, PickedCount
  <2> QED
    BY <1>0, <1>01, <2>1, <2>2, PoolSizeKept DEF FrameWork, Ahead
<1>4. CASE SubmitAcquire
  <2>1. /\ pc = "submit" /\ need # <<>> /\ UNCHANGED poolVars
        /\ \/ need' = Tail(need) /\ pc' = pc
           \/ need' = need /\ pc' = "queue"
    BY <1>4 DEF SubmitAcquire
  <2>2. Len(Tail(need)) = Len(need) - 1
    BY <2>1 DEF FrameInv, CallsOK
  <2>3. PoolSize' = PoolSize /\ Ahead["submit"] = 5 /\ Ahead["queue"] = 4
    BY <2>1, PoolSizeKept DEF Ahead
  <2>4. CASE need' = Tail(need) /\ pc' = pc
    <3>1. Len(need') = Len(need) - 1 /\ Ahead[pc'] = Ahead[pc] /\ Ahead[pc] \in Nat
      BY <2>1, <2>2, <2>3, <2>4
    <3>2. Ahead' = Ahead
      BY DEF Ahead
    <3> QED
      BY <1>0, <1>01, <2>3, <3>1, <3>2 DEF FrameWork
  <2>5. CASE need' = need /\ pc' = "queue"
    <3>1. Len(need') = Len(need) /\ Ahead[pc'] = 4 /\ Ahead[pc] = 5
      BY <2>1, <2>3, <2>5
    <3>2. Ahead' = Ahead
      BY DEF Ahead
    <3> QED
      BY <1>0, <1>01, <2>3, <3>1, <3>2 DEF FrameWork
  <2> QED
    BY <2>1, <2>4, <2>5
<1>5. CASE SubmitQueue
  <2>1. /\ pc = "queue" /\ pc' = "submit" /\ need' = Tail(need) /\ need # <<>>
        /\ UNCHANGED <<running, finished>>
        /\ jobs' \in {jobs, Append(jobs, Head(need))}
    BY <1>5 DEF SubmitQueue, FrameInv, CallsOK
  <2>2. Len(need') = Len(need) - 1 /\ Head(need) \in Tile
    BY <2>1 DEF FrameInv, CallsOK
  <2>3. Len(jobs') <= Len(jobs) + 1
    BY <1>0, <2>1, <2>2 DEF WorkInv, Places
  <2>4. PoolSize' <= PoolSize + 1
    BY <1>0, <2>1, <2>3 DEF PoolSize
  <2> QED
    BY <1>0, <1>01, <2>1, <2>2, <2>4 DEF FrameWork, Ahead
<1>6. CASE SubmitEnd
  <2>1. /\ pc = "submit" /\ pc' = "drain" /\ need' = <<>> /\ UNCHANGED poolVars
    BY <1>6 DEF SubmitEnd
  <2>2. Len(need') = 0
    BY <2>1
  <2> QED
    BY <1>0, <1>01, <2>1, <2>2, PoolSizeKept DEF FrameWork, Ahead
<1>7. CASE DrainOne
  <2>1. /\ pc = "drain" /\ pc' \in {"drain", "judge"} /\ need' = need
        /\ finished # <<>> /\ finished' = Tail(finished) /\ UNCHANGED <<jobs, running>>
    BY <1>7 DEF DrainOne
  <2>2. Len(finished') = Len(finished) - 1
    BY <2>1 DEF FrameInv, CallsOK
  <2>3. PoolSize' = PoolSize - 1
    BY <1>0, <2>1, <2>2 DEF PoolSize
  <2> QED
    BY <1>0, <1>01, <2>1, <2>3 DEF FrameWork, Ahead
<1>8. CASE Judge
  <2>1. pc = "judge" /\ pc' = "drain" /\ need' = need /\ UNCHANGED poolVars
    BY <1>8 DEF Judge
  <2> QED
    BY <1>0, <1>01, <2>1, PoolSizeKept DEF FrameWork, Ahead
<1>9. CASE DrainEnd
  <2>1. pc = "drain" /\ pc' = "compose" /\ need' = need /\ UNCHANGED poolVars
    BY <1>9 DEF DrainEnd
  <2> QED
    BY <1>0, <1>01, <2>1, PoolSizeKept DEF FrameWork, Ahead
<1>10. CASE Compose
  <2>1. pc = "compose" /\ pc' = "vsync" /\ need' = need /\ UNCHANGED poolVars
    BY <1>10 DEF Compose
  <2> QED
    BY <1>0, <1>01, <2>1, PoolSizeKept DEF FrameWork, Ahead
<1> QED
  BY <1>1, <1>2, <1>3, <1>4, <1>5, <1>6, <1>7, <1>8, <1>9, <1>10 DEF FrameStep

(* A raster that starts or ends only changes its place in the pool. *)
LEMMA WorkersKeepWork ==
    ASSUME FrameInv, WorkInv, Progress, WorkerStep
    PROVE  FrameWork' = FrameWork
<1>1. IsFiniteSet(running) /\ Cardinality(running) \in Nat
  BY GridAssumption, FS_Subset, FS_CardinalityType DEF WorkInv, Places
<1>2. CASE StartRaster
  <2>1. /\ jobs # <<>> /\ jobs \in Seq(Tile) /\ Once(jobs)
        /\ running' = running \cup {Head(jobs)} /\ jobs' = Tail(jobs)
        /\ UNCHANGED <<finished, pc, need>>
    BY <1>2 DEF StartRaster, WorkInv, Places
  <2>2. Head(jobs) \in Elems(jobs) /\ Len(Tail(jobs)) = Len(jobs) - 1
    BY <2>1, RestOfList
  <2>3. Head(jobs) \notin running
    BY <2>2 DEF WorkInv, Places
  <2>4. Cardinality(running') = Cardinality(running) + 1
    BY <1>1, <2>1, <2>3, FS_AddElement
  <2>5. PoolSize' = PoolSize
    BY <1>1, <2>1, <2>2, <2>4, FrameWorkIsNumber DEF PoolSize
  <2> QED
    BY <2>1, <2>5 DEF FrameWork
<1>3. ASSUME NEW t \in Tile, NEW ok \in BOOLEAN, FinishRaster(t, ok)
      PROVE  FrameWork' = FrameWork
  <2>1. /\ t \in running /\ running' = running \ {t}
        /\ finished' = Append(finished, [tile |-> t, ok |-> ok])
        /\ UNCHANGED <<jobs, pc, need>>
    BY <1>3 DEF FinishRaster
  <2>2. Len(finished') = Len(finished) + 1
    BY <2>1 DEF FrameInv, CallsOK, Done
  <2>3. Cardinality(running') = Cardinality(running) - 1
    BY <1>1, <2>1, FS_RemoveElement
  <2>4. PoolSize' = PoolSize
    BY <1>1, <2>1, <2>2, <2>3, FrameWorkIsNumber DEF PoolSize
  <2> QED
    BY <2>1, <2>4 DEF FrameWork
<1> QED
  BY <1>2, <1>3 DEF WorkerStep

(* Every frame that begins comes to its end (BeginFrame): between two       *)
(* vsyncs the frame thread makes a bounded number of calls, however the     *)
(* workers and the producer interleave with them.                           *)
THEOREM FramesAreBounded == FrameSafeSpec => FrameRunsDown
<1> DEFINE Inv == FrameInv /\ WorkInv /\ Progress
<1>1. Inv /\ Inv' /\ [FrameNext]_allVars
        => [/\ FrameStep => FrameWork' < FrameWork
            /\ FrameWork' > FrameWork => Scroll]_allVars
  <2> SUFFICES ASSUME Inv, Inv', FrameNext
               PROVE  /\ FrameStep => FrameWork' < FrameWork
                      /\ FrameWork' > FrameWork => Scroll
    OBVIOUS
  <2>1. FrameStep => FrameWork' < FrameWork
    BY FrameCallsEnd
  <2>2. FrameWork \in Nat
    BY FrameWorkIsNumber
  <2>3. CASE FrameStep
    <3>1. FrameWork' \in Nat
      BY FrameWorkIsNumberNext
    <3> QED
      BY <2>1, <2>2, <2>3, <3>1
  <2>4. CASE WorkerStep
    BY <2>1, <2>2, <2>4, WorkersKeepWork
  <2>5. ASSUME NEW C \in SUBSET Tile, NEW auto \in BOOLEAN, UpdateLayer(C, auto)
        PROVE  FrameWork' = FrameWork
    BY <2>5 DEF UpdateLayer, poolVars, FrameWork, PoolSize
  <2> QED
    BY <2>1, <2>2, <2>3, <2>4, <2>5 DEF FrameNext
<1>2. FrameSafeSpec => []Inv
  BY FrameInvariance, WorkInvariance, FrameProgress, PTL
<1> QED
  BY <1>1, <1>2, PTL DEF FrameSafeSpec, FrameRunsDown
-----------------------------------------------------------------------------
(* Updates are installed in the order in which they are published.  The one *)
(* that waits, and the one that is being installed, is newer than the last  *)
(* that was; and each is one revision of the content.                       *)
InTurn ==
    /\ pending # NoUpdate => installed < pending.id
    /\ applying # NoUpdate => /\ installed < applying.id
                              /\ pending = applying \/ applying.id < published
    /\ rev <= installed + 1

(* Steps that install nothing and leave the grid's content alone. *)
LEMMA InTurnKept ==
    ASSUME InTurn, UNCHANGED <<pending, published, applying, installed, rev>>
    PROVE  InTurn'
BY DEF InTurn

(* What an install makes of it: the update that waits is this one, or newer. *)
LEMMA InstallInTurn ==
    ASSUME FrameInv, Handover, Progress, InTurn, SwapContent
    PROVE  InTurn' /\ (installed' = installed \/ installed < installed')
<1>1. /\ pc = "swap" /\ applying # NoUpdate /\ applying' = NoUpdate
      /\ installed \in Nat /\ rev \in Nat /\ applying.id \in Nat /\ published \in Nat
  BY DEF SwapContent, FrameInv, CallsOK, RestOK, Progress
<1>2. CASE Held(applying)
  <2>1. UNCHANGED <<pending, installed, rev>>
    BY <1>2 DEF SwapContent, vars, contentVars
  <2> QED
    BY <1>1, <2>1 DEF InTurn
<1>3. CASE ~Held(applying)
  <2>1. /\ installed' = applying.id /\ rev' = rev + 1
        /\ pending' = IF pending = applying THEN NoUpdate ELSE pending
    BY <1>3 DEF SwapContent, ClearPending, Swap, NewRevision
  <2>2. installed < applying.id
    BY <1>1 DEF InTurn
  <2>3. pending' # NoUpdate => applying.id < pending'.id
    BY <1>1, <2>1 DEF InTurn, Handover
  <2>4. rev' <= installed' + 1
    BY <1>1, <2>1, <2>2 DEF InTurn
  <2> QED
    BY <1>1, <2>1, <2>2, <2>3, <2>4 DEF InTurn
<1> QED
  BY <1>2, <1>3

(* Every step of frame thread, workers and producer. *)
LEMMA InTurnStep ==
    ASSUME FrameInv, Handover, Progress, InTurn, [FrameNext]_allVars
    PROVE  InTurn' /\ (installed' = installed \/ installed < installed')
<1>1. CASE TakeUpdate
  <2>1. applying' = pending /\ UNCHANGED <<pending, published, installed, rev>>
    BY <1>1 DEF TakeUpdate, updateVars, vars, contentVars
  <2> QED
    BY <2>1 DEF InTurn
<1>2. ASSUME NEW C \in SUBSET Tile, NEW auto \in BOOLEAN, UpdateLayer(C, auto)
      PROVE  InTurn' /\ installed' = installed
  <2>1. /\ published' = published + 1 /\ pending'.id = published + 1
        /\ UNCHANGED <<applying, installed, rev>>
    BY <1>2 DEF UpdateLayer, swapVars, vars, contentVars
  <2>2. /\ published \in Nat /\ installed \in Nat /\ installed <= published
        /\ applying # NoUpdate => applying.id \in Nat /\ applying.id <= published
    BY DEF FrameInv, CallsOK, Progress
  <2> QED
    BY <2>1, <2>2 DEF InTurn
<1>3. ASSUME UNCHANGED <<pending, published, applying, installed, rev>>
      PROVE  InTurn' /\ installed' = installed
  BY <1>3, InTurnKept
<1>4. CASE Scroll
  BY <1>3, <1>4 DEF Scroll, Vsync, updateVars, swapVars, vars, contentVars
<1>5. CASE Plan
  BY <1>3, <1>5 DEF Plan, Touch, updateVars, swapVars, contentVars
<1>6. CASE SubmitAcquire
  <2>1. rev' = rev
    BY <1>6 DEF SubmitAcquire, Acquire, vars, contentVars
  <2> QED
    BY <1>3, <1>6, <2>1 DEF SubmitAcquire, updateVars, swapVars
<1>7. CASE SubmitQueue
  <2>1. rev' = rev
    BY <1>7 DEF SubmitQueue, ReleaseUnpainted, Release, vars, contentVars
  <2> QED
    BY <1>3, <1>7, <2>1 DEF SubmitQueue, updateVars, swapVars
<1>8. CASE DrainOne
  <2>1. rev' = rev
    BY <1>8 DEF DrainOne, ReleaseFailed, ReleaseUnpainted, Release, MarkValid, contentVars
  <2> QED
    BY <1>3, <1>8, <2>1 DEF DrainOne, updateVars, swapVars
<1>9. CASE Judge
  BY <1>3, <1>9 DEF Judge, MarkFailed, updateVars, swapVars, contentVars
<1>10. CASE SubmitEnd \/ DrainEnd \/ Compose
  BY <1>3, <1>10 DEF SubmitEnd, DrainEnd, Compose, updateVars, swapVars, vars, contentVars
<1>11. CASE WorkerStep
  BY <1>3, <1>11 DEF WorkerStep, StartRaster, FinishRaster, updateVars, swapVars, vars,
                     contentVars
<1>12. CASE UNCHANGED allVars
  BY <1>3, <1>12 DEF allVars, updateVars, swapVars, vars, contentVars
<1> QED
  BY <1>1, <1>2, <1>4, <1>5, <1>6, <1>7, <1>8, <1>9, <1>10, <1>11, <1>12, InstallInTurn
  DEF FrameNext, FrameStep

LEMMA InTurnInvariance == FrameSafeSpec => []InTurn
<1>1. FrameInit => InTurn
  BY DEF FrameInit, Init, InTurn
<1>2. FrameInv /\ Handover /\ Progress /\ InTurn /\ [FrameNext]_allVars => InTurn'
  BY InTurnStep
<1> QED
  BY FrameInvariance, FrameProgress, <1>1, <1>2, PTL DEF FrameSafeSpec

(* What is on screen never goes back to an older publication of the layer.  *)
InstalledInOrder == [][installed' # installed => installed < installed']_allVars

(* However publishing and installing overlap, merged updates and held ones  *)
(* included (UpdateLayer, applyPendingUpdate), content only gets newer.     *)
THEOREM ContentOnlyGetsNewer == FrameSafeSpec => InstalledInOrder
<1>1. FrameInv /\ Handover /\ Progress /\ InTurn /\ [FrameNext]_allVars
        => [installed' # installed => installed < installed']_allVars
  BY InTurnStep
<1> QED
  BY FrameInvariance, FrameProgress, InTurnInvariance, <1>1, PTL
  DEF FrameSafeSpec, InstalledInOrder
-----------------------------------------------------------------------------
(* A frame never gets stuck.                                                *)

(* The tiles of a list that are wanted can be put in the list's order.      *)
LEMMA PickExists ==
    ASSUME NEW s \in Seq(Tile)
    PROVE  Picked(s) # {}
<1> DEFINE W == {t \in Tile : t \in Elems(s) /\ Wanted(t)}
           I == {i \in DOMAIN s : Wanted(s[i]) /\ \A j \in DOMAIN s : s[j] = s[i] => i <= j}
           q == At(s, I)
           Before(t, u) == \E i, j \in DOMAIN s : i < j /\ s[i] = t /\ s[j] = u
<1>1. I \in SUBSET DOMAIN s /\ DOMAIN s \in SUBSET Nat
  OBVIOUS
<1>2. \A i \in I : s[i] \in W
  BY DEF Elems
<1>3. ASSUME NEW t \in W PROVE \E i \in I : s[i] = t
  <2> DEFINE T == {i \in DOMAIN s : s[i] = t}
  <2>1. T \in SUBSET Nat /\ T # {}
    BY <1>1 DEF Elems
  <2>2. PICK i \in T : \A j \in T : i <= j
    BY <2>1, LeastNumber
  <2> QED
    BY <2>2
<1>4. \A i, j \in I : s[i] = s[j] => i = j
  <2> SUFFICES ASSUME NEW i \in I, NEW j \in I, s[i] = s[j] PROVE i = j
    OBVIOUS
  <2>1. i <= j /\ j <= i /\ i \in Nat /\ j \in Nat
    BY <1>1
  <2> QED
    BY <2>1
<1> HIDE DEF I, W
<1>5. /\ Cardinality(I) \in Nat /\ q \in Seq(Tile) /\ Len(q) = Cardinality(I)
      /\ DOMAIN q = 1..Cardinality(I)
      /\ \A k \in 1..Cardinality(I) : Place(I, k) \in I /\ q[k] = s[Place(I, k)]
      /\ \A k, l \in 1..Cardinality(I) : k < l <=> Place(I, k) < Place(I, l)
  BY <1>1, Kept
<1>6. Members(q) = W
  <2>1. {s[i] : i \in I} = W
    BY <1>2, <1>3
  <2>2. Members(At(s, I)) = {s[i] : i \in I}
    BY <1>1, KeptMembers
  <2> QED
    BY <2>1, <2>2
<1> HIDE DEF q
<1>7. \A k, l \in DOMAIN q : q[k] = q[l] => k = l
  <2> SUFFICES ASSUME NEW k \in DOMAIN q, NEW l \in DOMAIN q, q[k] = q[l] PROVE k = l
    OBVIOUS
  <2>1. Place(I, k) = Place(I, l)
    BY <1>4, <1>5
  <2>2. ~(Place(I, k) < Place(I, l)) /\ ~(Place(I, l) < Place(I, k))
    <3>1. Place(I, k) \in Nat
      BY <1>1, <1>5
    <3> QED
      BY <2>1, <3>1
  <2>3. ~(k < l) /\ ~(l < k)
    BY <1>5, <2>2
  <2> QED
    BY <1>5, <2>3
<1>8. Cardinality(W) = Cardinality(I)
  BY <1>5, <1>6, <1>7, MembersCount
<1>9. q \in [1..Cardinality(W) -> W]
  BY <1>2, <1>5, <1>8
<1>10. ASSUME NEW i \in 1..Cardinality(W), NEW j \in 1..Cardinality(W), i < j
       PROVE  Before(q[i], q[j])
  <2>1. /\ Place(I, i) \in DOMAIN s /\ Place(I, j) \in DOMAIN s
        /\ Place(I, i) < Place(I, j)
        /\ q[i] = s[Place(I, i)] /\ q[j] = s[Place(I, j)]
    BY <1>1, <1>5, <1>8, <1>10
  <2> QED
    BY <2>1
<1> QED
  BY <1>9, <1>10 DEF Picked, W

(* What a frame goes through is a list of tiles. *)
LEMMA PlannedTiles ==
    ASSUME NEW off \in 0..MaxOffset, NEW d \in {1, -1}
    PROVE  FrameOrder(off, d) \o Ring(off, d) \in Seq(Tile)
<1> DEFINE up == [i \in 1..N |-> i]
<1>1. N \in Nat /\ Tile = 1..N
  BY FrameAssumption, GridAssumption, FS_CardinalityType DEF N
<1>2. up \in Seq(Tile) /\ DOMAIN up = Tile
  BY <1>1
<1>3. Above(off) \in SUBSET Tile /\ Below(off) \in SUBSET Tile
  BY DEF Above, Below
<1> HIDE DEF up
<1>4. At(up, Above(off)) \in Seq(Tile) /\ At(up, Below(off)) \in Seq(Tile)
  BY <1>2, <1>3, Kept
<1>5. Ascending(Above(off)) \in Seq(Tile) /\ Ascending(Below(off)) \in Seq(Tile)
  BY <1>4 DEF Ascending, up
<1>6. Ring(off, d) \in Seq(Tile)
  BY <1>5 DEF Ring
<1> QED
  BY <1>6, FrameOrderLists

(* Wherever the frame thread is, the call it makes next can be made: a swap *)
(* has a revision to bring, a plan its list, an order its room, a refused   *)
(* submission and a collected result the buffer to give back or to show,    *)
(* and a judgement the tile it is on.                                        *)
FrameGoesOn ==
    /\ pc = "swap" => Held(applying) \/ rev < MaxRev
    /\ pc = "plan" => Picked(FrameOrder(offset, dir) \o Ring(offset, dir)) # {}
    /\ pc = "submit" /\ need # <<>> /\ onOrder + 1 <= budget
         => InFlight(Head(need)) \/ FindsRoom(Head(need))
    /\ pc = "queue" => need # <<>> /\ InFlight(Head(need))
    /\ pc = "drain" /\ finished # <<>> => InFlight(Head(finished).tile)
    /\ pc = "judge" => suspect \in Tile

LEMMA CallsCanBeMade ==
    ASSUME AdmittedOrdersFit, FrameInv, WorkInv, Progress, InTurn
    PROVE  FrameGoesOn
<1>1. ASSUME pc = "swap" PROVE rev < MaxRev
  <2>1. applying # NoUpdate /\ installed < applying.id /\ rev <= installed + 1
    BY <1>1 DEF InTurn, FrameInv, CallsOK
  <2>2. /\ applying.id \in 1..published /\ published \in 0..MaxUpdates
        /\ rev \in Nat /\ installed \in Nat
    BY <2>1 DEF Progress, FrameInv, CallsOK, RestOK
  <2>3. MaxUpdates \in Nat /\ MaxRev \in Nat /\ MaxUpdates <= MaxRev - 1
    BY FrameAssumption, GridAssumption
  <2> QED
    BY <2>1, <2>2, <2>3
<1>2. Picked(FrameOrder(offset, dir) \o Ring(offset, dir)) # {}
  BY PlannedTiles, PickExists DEF FrameInv, CallsOK
<1>3. ASSUME pc = "submit", need # <<>>, onOrder + 1 <= budget, ~InFlight(Head(need))
      PROVE  FindsRoom(Head(need))
  <2>1. Head(need) \in Tile
    BY <1>3, RestOfList DEF FrameInv, CallsOK
  <2> QED
    BY <1>3, <2>1 DEF AdmittedOrdersFit
<1>4. ASSUME pc = "queue" PROVE need # <<>> /\ InFlight(Head(need))
  <2>1. need # <<>> /\ Head(need) \in Painters
    BY <1>4 DEF FrameInv, CallsOK, WorkInv, OnOrder, Offered
  <2> QED
    BY <2>1 DEF Painters, InFlight
<1>5. ASSUME finished # <<>> PROVE InFlight(Head(finished).tile)
  <2>1. Len(finished) \in Nat /\ Len(finished) >= 1 /\ Head(finished) = finished[1]
        /\ 1 \in DOMAIN finished
    BY <1>5 DEF FrameInv, CallsOK
  <2>2. Head(finished).tile \in Elems(DoneTiles)
    BY <2>1 DEF DoneTiles, Elems
  <2>3. Head(finished).tile \in Painters
    BY <2>2 DEF WorkInv, OnOrder, InPool
  <2> QED
    BY <2>3 DEF Painters, InFlight
<1>6. ASSUME pc = "judge" PROVE suspect \in Tile
  BY <1>6 DEF FrameInv, CallsOK, RestOK
<1> QED
  BY <1>1, <1>2, <1>3, <1>4, <1>5, <1>6 DEF FrameGoesOn

(* The frame thread never waits for a worker, for the producer or for room  *)
(* (BeginFrame, Submit, HandleDone, ComposeInto): with FramesAreBounded,    *)
(* every frame is over after so many calls.  There are more buffers than    *)
(* the largest budget admits.                                               *)
THEOREM FrameNeverBlocked ==
    ASSUME \A b \in Budgets : b < Cardinality(Buffer)
    PROVE  FrameSafeSpec => []FrameGoesOn
<1>1. Spec => []AdmittedOrdersFit
  BY OrdersFindRoom
<1>2. FrameSafeSpec => []AdmittedOrdersFit
  BY <1>1, FramePathKeepsContract, PTL DEF GridContractKept
<1>3. AdmittedOrdersFit /\ FrameInv /\ WorkInv /\ Progress /\ InTurn => FrameGoesOn
  BY CallsCanBeMade
<1> QED
  BY <1>2, <1>3, FrameInvariance, WorkInvariance, FrameProgress, InTurnInvariance, PTL
-----------------------------------------------------------------------------
(* The frame path and its pool.  RasterPool keeps the ledger of BufferLoan; *)
(* the queue, the workers and the results that stand for it here do, too.   *)
(* The buffer lent for a tile is its painting target.                       *)
LentFor(S) == {painting[t] : t \in S}
Queued     == Elems(jobs) \cup running
Ready      == Elems(DoneTiles)

LoanOf == [b \in Buffer |-> IF b \in LentFor(Ready) THEN "reported"
                            ELSE IF b \in LentFor(Queued) THEN "lent" ELSE "home"]

Loan == INSTANCE BufferLoan WITH loan <- LoanOf, Slots <- QueueDepth + Workers

(* What two tiles of the pool never share, and what is on order has. *)
LEMMA LoansApart ==
    ASSUME Ledger, WorkInv
    PROVE  /\ InPool = Queued \cup Ready /\ Queued \cap Ready = {}
           /\ InPool \subseteq Painters /\ Painters \subseteq Tile
           /\ \A t \in Painters : painting[t] \in Buffer
           /\ \A t, u \in Painters : painting[t] = painting[u] => t = u
<1>1. InPool = Queued \cup Ready /\ Queued \cap Ready = {}
  BY DEF InPool, Queued, Ready, WorkInv, Places
<1>2. InPool \subseteq Painters
  BY DEF WorkInv, OnOrder
<1>3. painting \in Map /\ OneToOne(painting)
  BY DEF Ledger, Owned
<1> QED
  BY <1>1, <1>2, <1>3 DEF Painters, Map, OneToOne

(* No loan changes where neither the pool nor its tiles' targets do. *)
LEMMA SameLoans ==
    ASSUME Queued' = Queued, Ready' = Ready,
           \A t \in Queued \cup Ready : painting'[t] = painting[t]
    PROVE  LoanOf' = LoanOf
<1>1. LentFor(Queued)' = LentFor(Queued) /\ LentFor(Ready)' = LentFor(Ready)
  BY DEF LentFor
<1> QED
  BY <1>1 DEF LoanOf

LEMMA PoolUntouched ==
    ASSUME UNCHANGED poolVars
    PROVE  Queued' = Queued /\ Ready' = Ready
BY DEF poolVars, Queued, Ready, DoneTiles, Elems

(* As many buffers are away as there are rasters in the pool. *)
LEMMA AwayCount ==
    ASSUME Ledger, WorkInv
    PROVE  Cardinality(Loan!Away) \in Nat /\ Cardinality(Loan!Away) <= PoolSize
<1> DEFINE f == [t \in InPool |-> painting[t]]
<1>1. Loan!Away = {painting[t] : t \in InPool}
  <2>1. LentFor(Queued) \cup LentFor(Ready) = {painting[t] : t \in InPool}
    BY LoansApart DEF LentFor
  <2>2. LentFor(Queued) \cup LentFor(Ready) \subseteq Buffer
    BY LoansApart DEF LentFor
  <2>3. \A b \in Buffer :
          LoanOf[b] # "home" <=> b \in LentFor(Queued) \cup LentFor(Ready)
    BY DEF LoanOf
  <2> QED
    BY <2>1, <2>2, <2>3 DEF Loan!Away
<1>2. f \in Surjection(InPool, {painting[t] : t \in InPool})
  BY DEF Surjection
<1> QED
  BY <1>1, <1>2, PoolCount, FS_Surjection, FS_CardinalityType DEF PoolSize

(* A submission the pool takes lends the tile's new buffer. *)
LEMMA QueueLends ==
    ASSUME Ledger, FrameInv, WorkInv, SubmitQueue
    PROVE  [Loan!Next]_LoanOf
<1> DEFINE c == Head(need)
           b == painting[c]
<1>1. /\ pc = "queue" /\ UNCHANGED <<running, finished>>
      /\ need # <<>> /\ need \in Seq(Tile)
  BY DEF SubmitQueue, FrameInv, CallsOK
<1>2. c \in Tile /\ c \in Painters /\ c \notin InPool
  BY <1>1, RestOfList DEF Offered, WorkInv, OnOrder
<1>3. b \in Buffer /\ \A t \in InPool : painting[t] # b
  BY <1>2, LoansApart
<1>4. Ready' = Ready
  BY <1>1 DEF Ready, DoneTiles, Elems
<1>5. CASE RoomInPool
  <2>1. jobs' = Append(jobs, c) /\ painting' = painting
    BY <1>5 DEF SubmitQueue, vars, bufferVars
  <2>2. Elems(jobs') = Elems(jobs) \cup {c}
    BY <1>2, <2>1, Pushed DEF WorkInv, Places, InPool
  <2>3. Queued' = Queued \cup {c}
    BY <1>1, <2>2 DEF Queued, Elems
  <2>4. /\ LentFor(Queued)' = LentFor(Queued) \cup {b}
        /\ LentFor(Ready)' = LentFor(Ready)
    BY <1>4, <2>1, <2>3 DEF LentFor
  <2>5. b \notin LentFor(Queued) /\ b \notin LentFor(Ready)
    BY <1>3, LoansApart DEF LentFor
  <2>6. LoanOf[b] = "home" /\ LoanOf' = [LoanOf EXCEPT ![b] = "lent"]
    BY <1>3, <2>4, <2>5 DEF LoanOf
  <2>7. Cardinality(Loan!Away) < QueueDepth + Workers
    <3>1. PoolSize < QueueDepth + Workers
      BY <1>5 DEF RoomInPool, PoolSize
    <3>2. PoolSize \in Nat /\ QueueDepth \in Nat /\ Workers \in Nat
      BY PoolCount, FrameAssumption DEF PoolSize
    <3> QED
      BY <3>1, <3>2, AwayCount
  <2>8. Loan!Lend(b)
    <3>1. Loan!Cardinality(Loan!Away) = Cardinality(Loan!Away)
      BY DEF Loan!Cardinality, Cardinality
    <3> QED
      BY <2>6, <2>7, <3>1 DEF Loan!Lend
  <2> QED
    BY <1>3, <2>8 DEF Loan!Next
<1>6. CASE ~RoomInPool
  <2>1. painting' = [painting EXCEPT ![c] = NoBuffer] /\ jobs' = jobs
    BY <1>6 DEF SubmitQueue, ReleaseUnpainted, Release
  <2>2. Queued' = Queued
    BY <1>1, <2>1 DEF Queued, Elems
  <2>3. \A t \in Queued \cup Ready : painting'[t] = painting[t]
    <3>1. \A t \in Queued \cup Ready : t \in Tile /\ t # c
      BY <1>2, LoansApart
    <3>2. painting \in Map
      BY DEF Ledger
    <3> QED
      BY <2>1, <3>1, <3>2 DEF Map
  <2> QED
    BY <1>4, <2>2, <2>3, SameLoans
<1> QED
  BY <1>5, <1>6

(* A worker that takes a job changes no loan; one that has finished reports *)
(* the buffer it painted.                                                   *)
LEMMA WorkersReport ==
    ASSUME Ledger, FrameInv, WorkInv, WorkerStep
    PROVE  [Loan!Next]_LoanOf
<1>0. painting' = painting
  BY DEF WorkerStep, StartRaster, FinishRaster, vars, bufferVars
<1>1. CASE StartRaster
  <2> DEFINE c == Head(jobs)
  <2>1. /\ jobs # <<>> /\ running' = running \cup {c} /\ jobs' = Tail(jobs)
        /\ finished' = finished
    BY <1>1 DEF StartRaster
  <2>2. c \in Elems(jobs) /\ Elems(jobs') = Elems(jobs) \ {c}
    BY <2>1, Popped DEF WorkInv, Places
  <2> HIDE DEF c
  <2>3. Queued' = Queued /\ Ready' = Ready
    BY <2>1, <2>2 DEF Queued, Ready, DoneTiles, Elems
  <2> QED
    BY <1>0, <2>3, SameLoans
<1>2. ASSUME NEW t \in Tile, NEW ok \in BOOLEAN, FinishRaster(t, ok)
      PROVE  [Loan!Next]_LoanOf
  <2> DEFINE d == [tile |-> t, ok |-> ok]
             b == painting[t]
  <2>1. /\ t \in running /\ running' = running \ {t} /\ finished' = Append(finished, d)
        /\ jobs' = jobs
    BY <1>2 DEF FinishRaster
  <2>2. d \in Done /\ d.tile = t
    BY DEF Done
  <2>3. DoneTiles \in Seq(Tile) /\ DoneTiles' = Append(DoneTiles, t)
    BY <2>1, <2>2, DoneTilesType, DoneTilesChange DEF WorkInv, Places
  <2>4. Ready' = Ready \cup {t}
    BY <2>1, <2>3, Pushed DEF WorkInv, Places, Ready
  <2>5. Queued' = Queued \ {t} /\ t \in Queued
    BY <2>1 DEF Queued, Elems, WorkInv, Places
  <2>6. /\ b \in Buffer
        /\ \A u \in Queued \ {t} : painting[u] # b
        /\ \A u \in Ready : painting[u] # b
    BY <2>5, LoansApart
  <2>7. LentFor(Ready)' = LentFor(Ready) \cup {b}
    BY <1>0, <2>4 DEF LentFor
  <2>8. LentFor(Queued)' = LentFor(Queued) \ {b} /\ b \in LentFor(Queued)
    BY <1>0, <2>5, <2>6 DEF LentFor
  <2>9. b \notin LentFor(Ready)
    BY <2>6 DEF LentFor
  <2>10. LoanOf[b] = "lent" /\ LoanOf' = [LoanOf EXCEPT ![b] = "reported"]
    BY <2>6, <2>7, <2>8, <2>9 DEF LoanOf
  <2>11. Loan!Report(b)
    BY <2>10 DEF Loan!Report
  <2> QED
    BY <2>6, <2>11 DEF Loan!Next
<1> QED
  BY <1>1, <1>2 DEF WorkerStep

(* The drain collects a finished buffer, whatever it does with it then. *)
LEMMA DrainCollects ==
    ASSUME Ledger, FrameInv, WorkInv, DrainOne
    PROVE  [Loan!Next]_LoanOf
<1> DEFINE c == Head(finished).tile
           b == painting[c]
<1>1. finished # <<>> /\ finished' = Tail(finished) /\ UNCHANGED <<jobs, running>>
  BY DEF DrainOne
<1>2. DoneTiles \in Seq(Tile) /\ DoneTiles # <<>> /\ DoneTiles' = Tail(DoneTiles)
      /\ Head(DoneTiles) = c
  BY <1>1, DoneTilesType, DoneTilesChange DEF WorkInv, Places
<1>3. c \in Ready /\ Ready' = Ready \ {c}
  BY <1>2, Popped DEF WorkInv, Places, Ready
<1>4. painting' = [painting EXCEPT ![c] = NoBuffer]
  BY DEF DrainOne, ReleaseFailed, ReleaseUnpainted, Release, MarkValid
<1>5. Queued' = Queued
  BY <1>1 DEF Queued, Elems
<1> HIDE DEF c
<1>6. /\ b \in Buffer /\ c \notin Queued
      /\ \A u \in Queued : painting[u] # b
      /\ \A u \in Ready \ {c} : painting[u] # b
  BY <1>3, LoansApart
<1>7. \A u \in (Queued \cup Ready) \ {c} : painting'[u] = painting[u]
  <2>1. Queued \cup Ready \subseteq Tile /\ painting \in Map
    BY LoansApart DEF Ledger
  <2> QED
    BY <1>4, <2>1 DEF Map
<1>8. LentFor(Queued)' = LentFor(Queued) /\ b \notin LentFor(Queued)
  BY <1>5, <1>6, <1>7 DEF LentFor
<1>9. LentFor(Ready)' = LentFor(Ready) \ {b} /\ b \in LentFor(Ready)
  BY <1>3, <1>6, <1>7 DEF LentFor
<1>10. /\ LoanOf[b] = "reported"
       /\ LoanOf' = [a \in Buffer |-> IF a \in {b} THEN "home" ELSE LoanOf[a]]
  BY <1>6, <1>8, <1>9 DEF LoanOf
<1>11. Loan!Collect({b})
  BY <1>10 DEF Loan!Collect
<1> QED
  BY <1>6, <1>11 DEF Loan!Next

(* Every step of frame thread, workers and producer. *)
LEMMA LoanStep ==
    ASSUME Ledger, FrameInv, WorkInv, [FrameNext]_allVars
    PROVE  [Loan!Next]_LoanOf
<1>1. ASSUME UNCHANGED <<painting, poolVars>> PROVE LoanOf' = LoanOf
  BY <1>1, PoolUntouched, SameLoans
<1>2. CASE SubmitAcquire
  <2>1. CASE InFlight(Head(need))
    BY <1>1, <1>2, <2>1 DEF SubmitAcquire, vars, bufferVars
  <2>2. CASE ~InFlight(Head(need))
    <3> DEFINE c == Head(need)
    <3>1. need # <<>> /\ Acquire(c) /\ UNCHANGED poolVars
      BY <1>2, <2>2 DEF SubmitAcquire
    <3>2. c \in Tile
      BY <3>1, RestOfList DEF FrameInv, CallsOK
    <3>3. c \notin Painters
      BY <3>1, <3>2, AcquirePainters
    <3>4. PICK b : painting' = [painting EXCEPT ![c] = b]
      BY <3>1 DEF Acquire
    <3>5. painting \in Map
      BY DEF Ledger
    <3>6. \A t \in Queued \cup Ready : t \in Tile /\ t # c
      BY <3>3, LoansApart
    <3>7. \A t \in Queued \cup Ready : painting'[t] = painting[t]
      BY <3>4, <3>5, <3>6 DEF Map
    <3> QED
      BY <3>1, <3>7, PoolUntouched, SameLoans
  <2> QED
    BY <2>1, <2>2
<1>3. CASE Scroll
  BY <1>1, <1>3 DEF Scroll, Vsync, vars, bufferVars
<1>4. CASE TakeUpdate
  BY <1>1, <1>4 DEF TakeUpdate, vars, bufferVars
<1>5. CASE SwapContent
  BY <1>1, <1>5 DEF SwapContent, Swap, vars, bufferVars
<1>6. CASE Plan
  BY <1>1, <1>6 DEF Plan, Touch, bufferVars
<1>7. CASE SubmitEnd \/ DrainEnd \/ Compose
  BY <1>1, <1>7 DEF SubmitEnd, DrainEnd, Compose, vars, bufferVars
<1>8. CASE Judge
  BY <1>1, <1>8 DEF Judge, MarkFailed
<1>9. ASSUME NEW C \in SUBSET Tile, NEW auto \in BOOLEAN, UpdateLayer(C, auto)
      PROVE  LoanOf' = LoanOf
  BY <1>1, <1>9 DEF UpdateLayer, vars, bufferVars
<1>10. CASE UNCHANGED allVars
  BY <1>1, <1>10 DEF allVars, vars, bufferVars
<1> QED
  BY <1>2, <1>3, <1>4, <1>5, <1>6, <1>7, <1>8, <1>9, <1>10,
     QueueLends, WorkersReport, DrainCollects
  DEF FrameNext, FrameStep

(* The pool as the frame path uses it is the pool that RasterPool is: each  *)
(* buffer is lent, reported and collected in turn, once, and no more than   *)
(* the queue and the workers hold are away (Pool.Submit, Pool.Poll).        *)
THEOREM FramePathKeepsLedger == FrameSafeSpec => Loan!Ledger
<1>1. FrameInit => Loan!Init
  <2> SUFFICES ASSUME FrameInit PROVE Loan!Init
    OBVIOUS
  <2>1. jobs = <<>> /\ running = {} /\ finished = <<>>
    BY DEF FrameInit
  <2>2. Queued = {} /\ Ready = {}
    BY <2>1 DEF Queued, Ready, DoneTiles, Elems
  <2> QED
    BY <2>2 DEF LoanOf, LentFor, Loan!Init
<1>2. Ledger /\ FrameInv /\ WorkInv /\ [FrameNext]_allVars => [Loan!Next]_LoanOf
  BY LoanStep
<1> QED
  BY <1>1, <1>2, FrameLedger, WorkInvariance, PTL DEF FrameSafeSpec, Loan!Ledger
=============================================================================
