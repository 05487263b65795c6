# Goosie: specifications

Goosie is a small browser written in Go: its own DOM, CSS, layout and paint, and
a renderer that keeps a page as a grid of 256-pixel tiles, rasterizes them on a
pool of workers, and composes them into the window's backing store once per
vsync.  This directory holds TLA+ specifications of the parts of it where state,
concurrency and limits meet, model-checking instances for TLC, and proofs for
TLAPS.  `PROJECT.json` lists every run, the source lines each definition stands
for, the hazards, the findings and the theorems.

- [The system](#the-system)
- [The modules](#the-modules)
- [What the runs check](#what-the-runs-check)
- [Where the code and its comments disagree](#where-the-code-and-its-comments-disagree)
- [What is proved](#what-is-proved)
- [What is not modelled, and the plan](#what-is-not-modelled-and-the-plan)
- [Running it](#running-it)

## The system

```
  producer goroutines            frame thread                    workers
  (navigation, scripts,     surface.Loop: one vsync at a time
   timers, images)          +---------------------------+
        |  UpdateLayer      |  raster.Scheduler         |   Submit   +-------------+
        +------------------>|  BeginFrame               |----------->| raster.Pool |
        |  SetPlan          |  Submit  -> HandleDone    |<-----------|  N workers  |
        +------------------>|  ComposeInto              |    Poll    +-------------+
                            +------------+--------------+
                       Acquire, Touch,   |        | ShiftY, Compose
                       MarkValid, ...    v        v
                            frame.Grid / BitmapPool   surface.Composer -> Present
```

### Components

| Component | State it keeps | Operations | What makes it hard | What makes it correct |
|---|---|---|---|---|
| **Raster pool** `internal/raster/pool.go` | job and completion channels, outstanding count, closed flag, context | Start, Submit, Poll, Wait, Close | N workers, a caller and a closer; bounded channels; submissions never block | no result lost, every buffer in one place, the count exact, shutdown ends |
| **Tile grid** `internal/frame/grid.go`, `tile.go`, `pool.go`, `layer.go` | tile records, an intrusive recency list, two byte counters, a free list, the layer's version | Acquire (evicts), MarkValid, MarkFailed, Release, Touch, Invalidate, Advance, SetBudget | one owner per buffer across a dozen paths; hand-kept counts; eviction against a limit that in-flight buffers do not obey | ownership, exact counts, a memory plateau, no valid tile with old content |
| **Scheduler** `internal/raster/scheduler.go` | scroll position, need list, pending update, the last composition | BeginFrame, Submit, HandleDone, ComposeInto, UpdateLayer, SetPlan, SetViewport | results arrive frames later; producers replace content at any time; page and prefetch ring share one budget | updates neither lost nor applied under a raster in flight; the page settles |
| **Composer and loop** `internal/surface` | backing store, merged input | Compose, ShiftY, Run, draw | the backing store is patched, never redrawn | it equals a full repaint |
| **Platform windows** `internal/platform` | window, event channel | Events, Present, ScheduleFrame | threads owned by Cocoa | events keep coming |
| **Navigation, presentation** `cmd/goosie/navigation.go`, `presentation.go`, `page_load.go` | per-tab serial, cancel function, loading flag; result channels | navigate, stop, reload, traverse, apply a result, apply images, repaint | loads finish in any order; the serial is checked under a lock and the result applied after it | a superseded load changes nothing; every session is closed once; the screen shows the active tab |
| **Tab manager** `internal/tabs` | tab list, active index, closed-tab stack | New, Close, CloseOthers, CloseToRight, Pin, Move, Reopen, Duplicate | list and index edited together by a dozen calls | the index names a tab; closing or moving others keeps the active tab; private tabs are never archived |
| **History** `internal/toolbar/history.go` | entries, cursor | Push, PeekBack, PeekForward, Step | a traversal commits when its load ends | a stale commit moves nothing |
| **Downloads** `internal/download` | items, cancel functions | CreateItem, SetCancel, UpdateProgress, Complete, Fail, Cancel, ClearCompleted | network goroutine, user and subscriber race | an ended item stays as it ended; a cancelled one stops its transfer |
| **HTTP, cookies, cache** `internal/net` | cookie map, cache entries and order, HSTS | Get, Post, Store, HeaderFor, evict, get, store | limits and expiry | limits hold; a deleted cookie is gone; bytes are exact |
| **Engine, JavaScript** `internal/engine`, `internal/js` | session, style and layout trees, task queue | Reflow, events, timers, admission | size; re-entrancy through scripts | passes run only when something is dirty |
| **DOM, CSS, style, layout, paint, image, media, pdf, ax** | trees and buffers | sequential algorithms | data, not control | conformance |
| **Stored settings** `internal/session`, `bookmarks`, `history`, `preferences`, `perms`, `flags`, `userscript`, `manifest` | one small file each | Load, Save | a crash between two writes | a restored session is one that existed |
| **goja** `third_party` | - | - | - | vendored |

The frame path is the program's core: everything on screen passes through it, it
is the only part with a hard deadline, and it is where three kinds of threads
share buffers without copying them.  It is modelled first and proved about.
Around it stand the parts whose state several goroutines share: navigation with
its tabs and histories, downloads, the HTTP client with its cookies and cache,
and the session that outlives a crash.

### How its parts interact

`surface.Loop.Run` receives window events, merges input, and on each vsync calls
`draw`: `BeginFrame` moves the viewport, installs a waiting content update, and
lists the tiles that need a raster - visible ones first, then a prefetch ring.
`Submit` orders buffers for as many as the budget admits, hands them to the pool
and collects whatever has finished.  `ComposeInto` shifts the backing store by
the distance scrolled and repaints the exposed band and the tiles whose pixels
changed.  A buffer leaves `BitmapPool` in `Grid.Acquire`, is the tile's
`painting` target while it is in the pool, becomes the tile's `Pixels` in
`MarkValid`, and goes back on eviction, failure, refusal or replacement.

A navigation advances its tab's serial, cancels the load before it and starts a
goroutine that fetches and builds the document.  Its result goes over a bounded
channel to `drainNavResults`, which compares the serial, installs the document,
closes the one it replaces, commits the history and shows the page.  Images that
arrive after their page take a second channel and a second goroutine.  A load
whose response is a file becomes a download: the load's goroutine registers an
item, and the user cancels or clears it from another.  Requests share one client
with one cookie jar and one cache.  Every change of the tab strip, and every
result applied, saves the tabs to a journal; a start that finds a journal takes
it for a crash and shows a page that offers to restore it.

## The modules

| Module | Models | State and actions against the code |
|---|---|---|
| `BufferLoan` | what a caller of a worker pool may rely on | abstract: buffers are at home, lent, or reported |
| `RasterPool` | `raster.Pool` | `jobs`, `done` are the two channels; `worker`, `painting` the goroutines; `outstanding`, `closed`, `cancelled` the fields of that name; `closing` and `caller` are program counters of `Close` and of `Submit`/`Wait`, which other goroutines can interrupt.  One action per atomic step: a channel operation or an atomic load |
| `TileGrid` | `frame.Grid`, `BitmapPool`, `Layer` | one function per field of `Tile`; `lru` is the list from `head` to `tail`; `used`, `onOrder` are `Grid.used`, `Grid.painting` in tiles; `idle` the free list.  One action per call.  `evictFor` and `dropPixels` are part of the action that calls them.  `suspect` is the tile between `HandleDone`'s `Release` and its `MarkFailed`, which are two calls |
| `FramePath` | `Scheduler`, `Composer`, `Loop` over one layer | `pc` walks through `draw`; `need` is the list being submitted; `pending` and `applying` are the update slot and the copy `applyPendingUpdate` works on; `jobs`, `running`, `finished` abstract the pool; `backing` and `composed` are the backing store row by row and what `finish` records |
| `Navigation` | `navigation.go`, `presentation.go`, the tab actions of `interaction.go`, `toolbar.History` | per tab: `serial`, `loading`, `url`, `layer`, `session`, `trail` and `cursor`; `running`, `queue` the loads and `navResults`; `drain`, `chrome` and the image variables say how far each goroutine is.  `applyNavResult` is three steps (`Take`, `Install`, `Show`), because it lets go of `Nav.Mu` between its test and its effect |
| `Downloads` | `download.Manager`, `SaveStream`, `Save`, and the load around them | `pc` walks through `loadURLCtx` and the save; `listed`, `status`, `canceler` are the manager's maps; `calling` holds a cancel function that `Cancel` has taken out under the lock and calls after it; `disk` is one directory |
| `CookieJar` | `net.CookieJar` | `jar` in the order of `seq`; `Store`, `SetCookieFromDocument` and eviction are operators on it, actions where they change it |
| `ResponseCache` | `responseCache` | `entries`, `order`, `bytes` |
| `HTTPClient` | `httpClient` over the two | `inFlight` requests, which read the cache when they start and write cookies and cache when they end; a clock for expiry; `Reopen` closes the client and starts it again from the jar's file |
| `TabStrip` | `tabs.TabManager` | `strip`, `active`, `closed`: one action per method |
| `SessionJournal` | the session and its crash journal | extends `TabStrip`; `journal` and `file` are the two files, `crashed` is `crashedSession`, `late` the snapshot of a result not saved yet, `restoring` and `answering` the load of the restore page; `Quit` and `Crash` end a run and start the next |
| `Subsequence` | what filtering a list leaves | `At(s, I)` is the list of the elements of `s` at the positions `I`, in order; grid, jar, cache and strip take elements out with it |
| `RasterPoolProofs`, `TileGridProofs`, `FramePathProofs`, `NavigationProofs`, `DownloadsProofs`, `HTTPClientProofs`, `SessionProofs` | - | the theorems |
| `SubsequenceProofs` | - | lemmas about `At`, and the least-number principle |
| `MC...` | - | symmetry and derived constants for TLC |

`FramePath` extends `TileGrid` and takes its actions as the calls they are.
Conversely `TileGrid!Spec` is an abstract specification of what the frame path
does to the grid - any order of calls that respects three rules: order only
while the buffers on order and one more fit the budget, install only what has
the layer's version, replace content only where nothing is in flight.
`GridContractKept` says the frame path implements it; it is both checked and
proved.  In the same way `RasterPool` implements `BufferLoan` (`LedgerKept`).
`HTTPClient` extends jar and cache, `SessionJournal` the tab strip.

Where the code filters a list, the models say which positions stay (`At`) and
not which test each element passes: `SelectSeq` is a recursive definition of
which nothing can be proved here, while positions and their number can be
reasoned about.

Three history variables of `TileGrid` carry what the properties compare with:
`rev` counts content changes, `changed[t]` is the change that last touched tile
`t`, `drawn[t]` the one its pixels depict.  The pictures themselves are never
modelled.

Simplifications, all of data.  In the frame path every tile costs the same, so
bytes are tiles; an absent tile record and an empty one are one state, since
every call treats them alike; the page of `FramePath` is one column; a raster
has an outcome, not an image; counters that are only reported are absent.
`attempts` saturates at `MaxTileAttempts`, which is all `HandleDone` compares
with.  In `FramePath` a new content keeps the layer's version, as in the
program: every display list is built as `list.Build(1)`.  Elsewhere a document
is the load that made it, a file the download that wrote it, a page an address,
and a cookie its name, domain, expiry and flags.

A definition named as a faulty variant is never part of a specification: it is
the operator below it with a plausible mistake, and shows which property would
notice (`mutants` in `PROJECT.json`).

## What the runs check

Every bound is a constant or a conjunct of one guard: `MaxRev`, `MaxUpdates`,
`MaxWait`, `Overshoot`, `MaxLoads`, `MaxClock`, `MaxRestarts`, `MaxRuns`,
`MaxEdits`, and the finite sets of tiles, buffers, tabs, items and hosts.

### Raster pool

| Run | Instance | Shows |
|---|---|---|
| `RasterPool` | 4 buffers, 2 workers, a queue of 1, `Wait` for up to 2, shutdown at any moment, fairness | no result is lost, one holder per buffer, exact count, the ledger of `BufferLoan`; `Close` returns; a blocked `Wait` ends; a job a worker took is reported, a queued one too unless a shutdown begins |

Two workers are what it takes for results to overtake each other, and four
buffers are one more than the three slots of a queue of one and two workers, so
that a submission is refused; a third worker adds only symmetric behaviours.
Fairness: each worker goroutine goes on (the Go scheduler), `Close` goes on once
begun, and nothing is assumed of the caller except that a `Submit` or `Wait` it
has entered goes on.

### Tile grid

| Run | Instance | Shows |
|---|---|---|
| `TileGrid` | 3 tiles, 4 buffers, budgets of 1 and 2 chosen at will, a free list of 2, 2 revisions, replacements and bumps | ownership, exact counts, the recency list; how far the bytes may go is a theorem (`CacheStaysOnItsPlateau`) |

Three tiles reach every case of eviction: the ordered tile's own pixels are
spared, one of two others is taken by age, or nothing can be.  The free list's
cap is below the number of buffers in play, so that a release can find it full.
A frame touches its visible tiles one after the other, and `Singles` lets it
touch any one: longer lists are sequences of such steps.

### Frame path

| Run | Instance | Shows |
|---|---|---|
| `FramePath` | 3 tiles, 2 on screen, ring of 1, budget 2, two updates, overscroll | the patched backing store is a full repaint; no update is lost; no valid tile is old; eviction takes the ring first; the grid's contract |
| `FramePathLive` | 2 tiles, one on screen, budget for page and ring, rasters fail, a queue of 1, fairness | one raster per tile; the page settles, updates are installed |

Tiles of one row make every scroll change the visible set.  Three tiles are a
page of two and one the user scrolls away from.

Fairness (`FrameFairness`), and why the code justifies it: vsyncs keep coming
(a display link calls the window on every refresh,
`internal/platform/darwin/shim_darwin.m:458-470`; `Loop.Run` blocks on nothing
else); a frame that has begun is completed (`draw` contains no blocking
receive); and each worker paints on.  Nothing is assumed of the producer or of
the user, who may scroll for ever: `PageSettles` is conditional on the offset
coming to rest.  The drain's loop ends because a frame submits nothing while it
drains, so `WF(FrameStep)` is enough.

### Navigation

| Run | Instance | Shows |
|---|---|---|
| `Navigation` | 2 tabs, 2 pages, 2 loads on top of a fresh or a restored history, a channel of 1, shutdown | no session is forgotten, no open tab holds a closed document, a stopped load stays out, a tab never goes back to an older navigation, back and forward land on the entry that was loaded |
| `NavigationLive` | the same with one page and fairness | the loading state ends; shutdown ends |
| `NavigationClosed` | one page, no shutdown | finding 1 |

Two loads race for one tab or for two; the restored history gives a traversal
somewhere to go with no load spent on it.  A channel of one place makes the
second load wait for the drain.  Fairness: the two drains and the chrome thread
go on once begun, and a load ends because its requests have timeouts
(`http.Client.Timeout`); nothing obliges the user to act or an image to arrive.

### Downloads

| Run | Instance | Shows |
|---|---|---|
| `Downloads` | 2 downloads of any kind for one name, 3 candidate names | an item ends once; a cancellation reaches the transfer and ends it, whatever is cleared meanwhile; a canceled transfer leaves no file; no file is lost to a download that did not make it |

Two downloads are what it takes to fight over a name, and a third candidate
keeps one free.  Fairness: a load goes on by itself except in a transfer, which
may take for ever unless its context is done; a `Cancel` calls the function it
has taken.

### HTTP client

| Run | Instance | Shows |
|---|---|---|
| `HTTPClient` | 2 hosts of one parent domain, 1 cookie a host and 2 in all, 2 requests for 2 URLs, bodies that fit, fill and exceed the cache, a restart | a cookie is never there twice, the limits hold and spare the newest cookie, a script never replaces a cookie it cannot read, the cache's count, order and entries agree |
| `HTTPClientDeleted` | the same | finding 2 |

Two hosts of one domain set the same cookie under different keys, which is the
case the jar has to recognise.  Limits of one and two make every third cookie
evict, from the host's share or from all.

### Tabs and session

| Run | Instance | Shows |
|---|---|---|
| `Session` | up to 3 tabs of which 2 are saved, 4 tab operations, any number of navigations, one crash or exit and a run after it | nothing private is saved or reopened, an unanswered crash is not overwritten, the active tab stays the one the user looks at, what a clean exit saves is what the next start shows |
| `SessionRestored` | the same | finding 3 |

Three tabs have one left of, one right of and one at the active index, and one
more than is saved.  Four operations over both runs reach every pair of a strip
of two and a call on it, before the exit or after it.

Deadlock is checked in the runs of the frame path and the HTTP client.  It is not where the
program really stops: `Navigation` and `Session` end with the program (or with
the bound on loads, operations or runs), and `Downloads` when every load has
reported.

## Where the code and its comments disagree

The first three are runs that must fail, each on one property that states the
comment; the fourth is a comment that a theorem corrects.

1. **`NavigationClosed`**: `applyNavResult` says of the session of a tab that was
   closed while its load was in flight that "nothing else will ever reach it, so
   it has to be released here" (`navigation.go:208-212`), and releases it if the
   tab is gone when it looks.  It looks before it lets go of the locks, and
   installs the document after (`221-232`, `300-304`).  A tab closed in between
   is handed a session that nothing will ever close: closing the tab is over, and
   shutdown closes only those of the tabs that are left (`closeAllSessions`).
   `NoSessionForgotten` states what does hold: a session that is not closed is
   with a load on its way, or with the tab it was loaded for, open or closed.
2. **`HTTPClientDeleted`**: an expired cookie deletes only the entry under the
   key of the host that sends it (`cookie.go:94-96`), while a live one replaces
   the cookie whichever host stored it.  A cookie another host of the domain
   set, or one loaded from disk, survives its deletion.
3. **`SessionRestored`**: restoring runs inside the load of the restore page and
   puts the first crashed tab in that page's place.  When another tab was the
   active one, nothing makes the restore page's own load stale, and its result
   replaces the tab just restored (`internal_pages.go:1472`,
   `navigation.go:744-747`).  The page is still in the tab's history.  The trace
   TLC finds comes to the prompt by the shortest way, which is a journal saved
   late by a clean exit; after a crash the same steps follow.
4. **A tile that is redrawn costs twice.**  `raster.Scheduler.Submit` says that
   admitting an order "against bytes held plus bytes committed is what keeps
   `used <= budget` true across the whole frame path, which is the plateau"
   (`scheduler.go:460-464`).  It admits an order while what is on order and one
   more tile fit the budget, and relies on eviction to make room; but eviction
   spares the tile that is ordered, and a stale tile keeps its old pixels until
   the new ones are installed (`grid.go:51-54` says so itself).  With a budget of
   two tiles, one on order and a stale one that has pixels, ordering the stale
   one brings `used` to three.  No run checks the comment;
   `CacheStaysOnItsPlateau` and `FrameStaysOnPlateau` prove the exact bound:
   `used` passes the budget only by ordering, by one tile, when all of the budget
   is on order and the only pixels left are those of the tile being redrawn.

Observations that follow from the models and have no run of their own, most of
them because the program promises nothing about them.

- Raster pool: `Submit` tests `closed` and then queues; a `Close` between the
  two leaves the job, and its buffer, in a channel nobody reads.  Today one
  goroutine does both at exit.
- Tile grid: two `Bump`s with different dirty rectangles make a stale tile valid
  with its old picture; no caller outside the tests bumps.  Attempts are
  counted when a tile is ordered, so that refusals spend them.  `SetBudget` is
  eager only about what is evictable at that moment.
- Frame path: `damageTiles` compares pointers, and a tile evicted, refused once
  and ordered again may get the very buffer it had; it takes a full job queue
  (4096 in production).  With a budget below page plus ring the two evict each
  other for ever, and an update waits for a moment without a raster in flight
  that never comes; it takes a window whose page and ring exceed
  `MaxTileCacheBytes` (256 tiles), and is why `FramePathLive` gives them room.
- Navigation: an image drain reads a tab's document, paints its pictures and
  attaches the new layer later.  A document installed in between gets the layer of
  the one it replaced, until it is next painted (`applyImageResult`,
  `repaintTab`).  A stop never comes between the test of a result and its effect:
  the loading flag is cleared in the section that tests the serial, and `stopTab`
  does nothing to a tab at rest (`StoppedStaysOut`); a newer navigation may, and
  then the older document is shown until the newer one comes.
- Downloads: a buffered `Save` tests whether a name is free and then writes, so
  that it may overwrite what took the name in between; `FilesKept` holds a stream
  to its own file and excepts a `Save`.  After `Complete` the load asks for its item and takes its absence
  for a cancellation; a list cleared in between makes it remove the file it has
  just completed (`document_loader.go:276-280`).  `CanceledLeavesNothing` and
  this are two sides of one test.
- HTTP: the per-host limit counts by the host that stored a cookie, and loading
  gives every cookie its domain for a host, so that a restart may evict cookies
  that were within their limits.  An expired `HttpOnly` cookie that is still in
  the jar blocks a script's cookie of that name.  `noteHSTS` and `upgradeHSTS`
  have no caller.  The cache evicts in the order of storing; its comment says
  least recently used (`cache.go:29-30`).  `http.Client.Timeout` covers the body
  of a streamed download as well.
- Session: the goroutine that applies results is not joined at shutdown, and a
  save it is late with recreates the journal just removed, which the next start
  takes for a crash.  A clean exit with the prompt unanswered drops the crashed
  session; a crash between the removal of the journal and the rebuilding of its
  tabs loses it.  While the prompt is open the tabs of the new run are not
  journaled.  Pinning a background tab moves the user to it if it moves the tab
  (`manager.go:298-308`).  Every internal page is built twice, once to be loaded
  and once for its title.

## What is proved

All proofs hold for every value of the constants that satisfies the modules'
assumptions; those name finiteness, that markers are not members of the sets
they mark the absence of, and positive bounds.  `FrameAssumption` adds that the
lists a frame touches are among `TouchLists`, and that there are no more buffers
than the free list holds, so that a buffer on screen is never let go of and
allocated anew under its old name (the collector would not free it while the
composer remembers it).  `DownloadsAssumption` gives each download a name to
fall back on.  TLC evaluates them in every run.  Some theorems have a hypothesis
of their own, said where they are described: two (`ValidTilesAreCurrent`,
`FrameTilesAreCurrent`) that content does not bump, one (`ScreenIsFullRepaint`)
that the job queue takes all the budget admits, and two (`OrdersFindRoom`,
`FrameNeverBlocked`) that there are more buffers than the largest budget.

Every invariant and every action property that a passing run checks is proved
for all constants; what TLC alone checks is liveness.  Some theorems state what
no run checks, because TLC says little of it on an instance: that a shutdown or
a frame is never stuck and is a bounded number of steps, that what a load
reports is true, what exactly a deletion reaches and an eviction costs.

**`RasterPoolProofs`.**  `NothingIsLost`, `EveryBufferHasOneHolder`,
`OutstandingIsExact`.  The invariant says that the four places of a buffer
inside the pool are disjoint and without repetition and that `outstanding`
counts them; a finishing worker then always finds a completion slot, because
`Slots` covers the queue and the workers and the submission that would exceed it
is refused.  Neither half is inductive alone: the count needs disjointness, and
`lost = {}` needs the count.  `PoolKeepsLedger` is the refinement of
`BufferLoan`: each step lends, reports or collects, or changes nothing of the
loans.  Its one hard case is `Lend`'s limit: the buffers away are those in the
pool that `outstanding` counts, so that a submission it admits finds one slot
free.

`CloseNeverStuck` and `CloseOnlyShrinks` are the safety half of `CloseReturns`.
The first says that until `Close` returns the closer can go on, or waits for a
worker that can: one that paints, or one that is idle and sees the cancelled
context.  The second is a measure (`ToDo`: workers yet to leave, jobs yet to be
counted lost or done, steps yet to be made): once the pool is closed it stays
closed, no step of anyone raises the measure, and each step of the shutdown
lowers it.

**`TileGridProofs`.**  `TypeCorrect`, `EveryBufferHasOneOwner`,
`BytesAreAccounted`, `CacheStaysOnItsPlateau`, `StatesFitPixels`,
`ValidTilesAreCurrent`.  The inductive invariant `IInv` is ownership, exact
counts and types together.  Ownership is stated of three arguments - two maps
and a free list - because `Acquire` evicts, trims, pops and paints in one step,
and each of these is a lemma about arbitrary arguments.  Counts rest on
ownership only through finiteness: evicting `n` distinct holders lowers the
number of holders by `n`.  `CacheStaysOnItsPlateau` says of memory what no run
can say as an invariant, since the budget may be lowered below what is on order:
the bytes grow only when a tile is ordered, and pass the budget then only as
finding 4 describes.
`ValidTilesAreCurrent` assumes `~Bumps` - with bumps it is false -
and strengthens currency to rasters in flight: what is on order was ordered
from the tile's newest content, which is exactly what the wait in
`applyPendingUpdate` protects.  `RecencyListsHolders` has an invariant of its
own, `Threaded`: the list is without repetition and names the holders.  A frame
touches its tiles one by one; what holds after each is shown by taking the least
place in the frame's list after which it would not.

`OrdersFindRoom` is that the guards of an order are never the reason that a tile
stays blank: whatever the budget admits, `Acquire` finds tiles to evict, oldest
first, that bring the bytes down, and then a buffer to reuse or one not in use.
Its hypothesis is that there are more buffers than the largest budget - the
process allocates a buffer whenever it needs one, and the set of buffers only
stands for their names.  The victims are found by walking `Threaded`'s list from
its end (`VictimsAreFound`).

**`FramePathProofs`.**  `FramePathKeepsContract` is a refinement: every step of
frame thread, worker or producer is a step of `TileGrid!Next` or leaves the grid
alone.  Its invariant `CallsOK` says that the submission list holds only tiles
that still need a raster (evicting one leaves it needy), that an update's
damage covers all it changes (merging preserves this), and that a failure is
judged before the next call.  The grid's theorems then carry over by temporal
reasoning alone: `FrameBuffersHaveOneOwner`, `FrameTilesAreCurrent`,
`FrameStaysOnPlateau`.
`NewestUpdateIsKept` has its own invariant: while the frame thread installs an
update, one still waits in the slot.

`EachTileIsPaintedOnce` places every order in exactly one of the job queue, the
workers and the completed results, which are disjoint and without repetition,
and shows that these are the tiles with a painting target.  `FrameTypeCorrect`
follows from it and the grid's types, with the bound `clampScroll` keeps.

`ScreenIsFullRepaint` says that the shifted and patched backing store is a full
repaint.  `damageTiles` finds what has changed by comparing each tile's buffer
with the one the last composition took, so the proof (`ScreenInv`) is that a tile
is never painted anew into that very buffer.  This rests on the free list being
a stack: a tile evicted in a frame is ordered again in the same frame only when
the cache is full, so that another tile is evicted for it, whose buffer is then
on top.  Until the frame drains its results, pixels have only been evicted, by a
cache that is full and has just taken a buffer off its free list
(`OnlyEvicted`).  The theorem's hypothesis is that the job queue takes all the
budget admits, as in production (a queue of 4096 jobs, a budget of at most 256
tiles): a refused submission gives its buffer back on top of the stack, where the
next order may take it for the tile it came from.

`PageOutlivesRing` is about eviction: from `Plan` to the end of the submissions
the tiles on screen are ahead of all others in the recency list (`PageFirst`),
since a touched list comes to the front as a whole and eviction only takes tiles
out; eviction, which takes a suffix, meets the ring first.

Three theorems are about the frame as a whole.  `FramesAreBounded` gives it a
measure (`FrameWork`) that each of its steps lowers, that workers and the
producer leave alone, and that only the next vsync (`Scroll`) raises.
`FrameNeverBlocked` says that at each point of a frame its next call can be
made, whatever workers and producer have done since the last: a swap has a
revision to bring, a plan a list of tiles to touch, an order its room (from
`OrdersFindRoom`, with its hypothesis), a refused or finished raster the buffer
to give back or to show.  `ContentOnlyGetsNewer`
says that updates are installed in the order they were published, though one may
replace another in the slot and a third be published while one is being
installed.

`FramePathKeepsLedger` is a second refinement: the frame path's queue, workers
and list of results, which stand for the pool there, implement `BufferLoan`, as
the pool does (`PoolKeepsLedger`).  The two models of the pool, one of its locks
and channels and one of what the scheduler sees, thus meet in one specification.

**`NavigationProofs`.**  `TypeCorrect`, `SessionsAccounted`, `DocumentsLive`,
`StopsHold`, `NewestStays`, `TraversalsLand`.  A load is in one place - running, in the
channel, being installed, or over - and only a load that is over can have left
its session in a tab: with that, a session is closed by the one who takes it
out, and none is closed in a tab.  (One that a tab is given after it was closed
is never taken out again: finding 1.)  A tab's document is older than the load
being installed, because a load is started with a serial higher than any the
tab has had, and two loads of one tab that are both current would have the same
serial.  For a traversal (`Landing`): while its serial is current, the entry it aims for
is where it was, as seen from the cursor it started at; only a load that is being
installed changes the trail, at most one older load can still be, and by then
the cursor is where the traversal started.

`StopsHold` is about the unlock between the test of the serial and the
installation.  Its invariant, `NotStopped`: what is being installed is still the
newest of a tab at rest, or the next serial of its tab belongs to another load.
A stop needs a tab that is loading, and only a load makes it so again.

`NoTabSpinsForNothing` and `QuitWorkIsBounded` are the safety halves of
`LoadingEnds` and `QuitEnds`.  An open tab that shows it is loading has a load
of its newest serial that runs or whose result is in the channel: none ends
without a result that is applied or a newer load.  And `QuitWork` (loads
running, results in the channel, what the drain and the shutdown have before
them) grows by at most four steps with each load that is started, which the user
can do until the program is gone, also after the shutdown has begun; nothing else
adds to it, and each step of a load, of the drain and of the shutdown takes from
it.

**`DownloadsProofs`.**  `TypeCorrect`, `CanceledHears`, `NothingLeft`,
`FirstEndDecides`, `FilesAreKept`.  `Heard` says who will end the transfer of a
canceled item at each point of the race between `Cancel` and `SetCancel`;
`Held` which load a file belongs to; `Placed` what a stream finds where it put
its file.  `FilesAreKept` needs that a load's path is its own from the moment
the file is linked there: a load that removes or overwrites one removes its own,
unless the user chose the name.

`ReportsAreTrue` compares what the user is told of a download with what the list
says: no item stays active after its load is over, what is reported saved was
completed (or buffered and canceled while it was written), and what is reported
canceled was canceled, or completed and then cleared from the list before the
load looked, which the code cannot tell from a cancellation.

**`HTTPClientProofs`.**  `ClientTypeCorrect`, `CookiesStoredOnce`,
`LimitsHold`, `BytesAccounted`, `ScriptsKeepHttpOnly`, `NewestSurvives`.  The
jar's part is about sequences, for a call filters, appends and evicts in one
step.  Eviction takes the fewest cookies that bring the jar within its limits;
that some number does is shown by taking them all, and the rest follows from
that number being the least.  `NewestSurvives`: the cookie just appended goes
last in the order of eviction, so it would be taken only after all others of its
host or of the jar, and one cookie alone is within every limit.  The cache's
byte count is compared with the number of the bytes of its entries, told apart
by their URL, so that sums are cardinalities; that the order names each entry
once is needed for it, for otherwise one eviction would be counted twice.

`DeletionIsExact` draws the boundary of the disagreement that the run
`HTTPClientDeleted` shows: a deletion takes the cookie it names and no other,
except that a cookie of the parent domain stays if it is stored under another
key - another host's, or, once read from the file, the domain's.  It rests on
the invariant that only a parent's cookie has a key other than its domain.

`CookiesNotLostNeedlessly` and `EntriesNotDroppedNeedlessly` say what making
room costs.  A good cookie is lost to a new one only if the other good ones
fill the jar or the new one's host, and nothing that expires sooner is kept in
its place; a response is dropped or refused only if, with it, the bytes would
not fit.  Both follow from the loops stopping at the least number that is
enough: one less was not.  The first admits what the code does when a host is
full: the victims are those of the whole jar that expire soonest, of any host.

**`SessionProofs`.**  `SessionTypeCorrect`, `PrivatePagesForgotten`,
`CrashStaysOnDisk`, `ActiveTabFollows`, `SessionIsRestored`.  The invariant has
two parts.  Of the strip: names are used once, the active index is one of the
strip's, and a tab that shows a private page is private; each call is a removal,
an insertion, a filter or a change in place, and a lemma about each says what
becomes of names and positions.  Of every session in a file or on its way to
one: it is good, that is, it has between one and `MaxTabs` tabs, one of them
active, and none private.  `clamp` leaves a good session alone (`ClampSame`);
without that the session loaded after a crash could differ from the journal it
came from, and `CrashedUntilAnswered` alone is not inductive.  It also needs
that no save is late while a crash is unanswered.

**Induction.**  The library's induction theorems have an operator as parameter
and cannot be instantiated.  `SubsequenceProofs` derives from its theorem on
well-founded relations that a set of natural numbers that is not empty has a
least member (`LeastNumber`); where a proof needs induction it takes the least
counterexample.  That is how `Place`, `At`, the touches of a frame and the
evictions of jar and cache are reasoned about.

**Only model-checked.**  Liveness, because it rests on fairness and ENABLED,
which are beyond the prover: `CloseReturns`, `WaitEndsOnClose`,
`EveryJobReported`, `PageSettles`, `UpdateInstalled`, `LoadingEnds`, `QuitEnds`,
`CancelEnds`.  Of `CloseReturns`, `LoadingEnds`, `QuitEnds` and the end of a frame the safety
half is proved: what is left is bounded and shrinks, and something of it is on
its way or can be done next; TLC checks that fairness then gets it done, and
that nothing blocks the drain while `Quit` waits.  The comments the program
does not keep are of course not proved either.

## What is not modelled, and the plan

Within the frame path: a plan that binds another layer (results of the old one
come back as foreign), resize, scale and background changes (each forces a full
repaint), horizontal scrolling, `SetViewport` from another goroutine, a
`Present` that fails (the loop ends), a page shorter than the window
(`FrameAssumption`).  Within navigation: scroll positions, find
in page, the toolbar's copy of the state, the manifest fetch, zoom and
appearance changes, and which tab a document was made for when it was not the
one in front.  Within the session: a save that fails, and scroll positions.
Within HTTP: redirects beyond the host they end at, the filter, name resolution.

Outside them: everything the table of components lists and the module table
does not.  Rasterizing, layout, style, parsing and script bindings - most of
the program's lines - are functions of large data with no concurrency of their
own; tests reach them better than a model checker would.

The next theorems would be of the same kind for what is listed here: that a plan
for another layer leaves the ledger of loans intact, and that a save that fails
leaves a session that can still be restored.

## Running it

```
tlc -workers 2 -config TileGrid.cfg MCTileGrid
tlapm TileGridProofs.tla
```

The longest run, `FramePath`, takes about three minutes on two
workers.
