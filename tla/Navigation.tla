----------------------------- MODULE Navigation -----------------------------
(***************************************************************************)
(* Page loads, tabs and what the screen shows (cmd/goosie/navigation.go,   *)
(* interaction.go, presentation.go, with toolbar/history.go).              *)
(*                                                                         *)
(* Four kinds of goroutine share the tabs: the chrome thread runs what the *)
(* user does; every load runs in a goroutine of its own and sends its      *)
(* result on a channel; one drain applies results; another applies images  *)
(* that arrived after their page.  A load's number names everything made   *)
(* for it: its document session, the layer painted from that session, the  *)
(* images it still waits for.  A layer is what it depicts, so 0 is the     *)
(* blank layer of a new tab.  Bounds: MaxLoads loads, and the tabs of Tab. *)
(***************************************************************************)
EXTENDS Integers, Sequences, FiniteSets

CONSTANTS Tab,        \* tab identifiers; one is never used twice
          FirstTab,   \* the tab the program starts with
          Saved,      \* histories that tab may start with (session restore)
          Page,       \* addresses
          MaxLoads,   \* bound: loads started in one run
          QueueSize,  \* capacity of the navResults channel
          CanQuit,    \* whether this instance shuts down
          NoTab, NoPage

ASSUME NavigationAssumption ==
    /\ IsFiniteSet(Tab) /\ FirstTab \in Tab /\ NoTab \notin Tab
    /\ Saved \subseteq Seq(Page)
    /\ Page # {} /\ NoPage \notin Page
    /\ MaxLoads \in Nat
    /\ QueueSize \in Nat \ {0}
    /\ CanQuit \in BOOLEAN

VARIABLES
    strip,     \* state of each tab: "unused", "open", "closed"
    active,    \* the tab in front
    serial,    \* Nav.Serial
    loading,   \* Nav.Loading
    url,       \* the address each tab shows
    layer,     \* the load whose document each tab's layer depicts
    session,   \* the load whose session each tab holds, 0 when it has none
    trail,     \* history entries
    cursor,    \* history cursor, 0 while there is no entry
    loads,     \* the tab and the serial of every load, by number
    running,   \* what the load goroutines are working on
    queue,     \* navResults
    live,      \* sessions that were built and not closed
    drain,     \* where the drain of navResults is
    chrome,    \* where the chrome thread is inside a user action
    fetching,  \* sessions with deferred images on their way (imgResults included)
    painter,   \* where the drain of imgResults is
    screen,    \* the tab and the layer of the scheduler's plan
    quit       \* shutdown: "no", "cancelled", "joined", "done"

tabVars   == <<strip, active>>
navVars   == <<serial, loading>>
pageVars  == <<url, layer, session>>
trailVars == <<trail, cursor>>
loadVars  == <<loads, running, queue, live>>
imageVars == <<fetching, painter>>
vars == <<tabVars, navVars, pageVars, trailVars, loadVars, drain, chrome,
          imageVars, screen, quit>>

Loads == 1..Len(loads)

(* What a load was asked for: the address, and what its result does to the  *)
(* history - keeps is noHistory, delta and base are traverse, traverseBase; *)
(* a traversal keeps the entries it moves along.                            *)
Request ==
    {r \in [load : Nat, goal : Page, keeps : BOOLEAN, delta : {-1, 0, 1}, base : Nat] :
       r.delta # 0 => r.keeps}

(* A page, an error that is not a cancellation, or nothing to show: a       *)
(* cancelled load, a finished download, a dismissed save dialog.            *)
Outcome == {"page", "error", "none"}

(* A request with its answer (navResult). *)
Result == [asked : Request, got : Outcome, page : Page]
Nothing == [asked |-> [load |-> 0], got |-> "none"]

TabTypes ==
    /\ strip \in [Tab -> {"unused", "open", "closed"}]
    /\ active \in Tab \cup {NoTab}
    /\ serial \in [Tab -> Nat] /\ loading \in [Tab -> BOOLEAN]
    /\ url \in [Tab -> Page \cup {NoPage}]
    /\ layer \in [Tab -> 0..Len(loads)] /\ session \in [Tab -> 0..Len(loads)]
    /\ trail \in [Tab -> Seq(Page)] /\ cursor \in [Tab -> Nat]
    /\ \A t \in Tab : cursor[t] \in (IF trail[t] = <<>> THEN {0} ELSE DOMAIN trail[t])

LoadTypes ==
    /\ loads \in Seq([tab : Tab, serial : Nat])
    /\ running \subseteq Request
    /\ queue \in Seq(Result)
    /\ live \subseteq Loads /\ fetching \subseteq Loads
    /\ drain \in [at : {"idle", "install", "show"}, result : Result \cup {Nothing}]
    /\ drain.result \in (IF drain.at = "idle" THEN {Nothing} ELSE Result)

ScreenTypes ==
    /\ chrome \in [at : {"idle", "remove", "present", "presentCopy", "load"},
                   tab : Tab \cup {NoTab}, layer : 0..Len(loads)]
    /\ painter \in [at : {"idle", "paint", "attach", "show"}, load : 0..Len(loads),
                    depicts : 0..Len(loads)]
    /\ screen \in [tab : Tab \cup {NoTab}, layer : 0..Len(loads)]
    /\ quit \in {"no", "cancelled", "joined", "done"}

TypeOK == TabTypes /\ LoadTypes /\ ScreenTypes

Idle    == [at |-> "idle", result |-> Nothing]
AtRest  == [at |-> "idle", tab |-> NoTab, layer |-> 0]
Resting == [at |-> "idle", load |-> 0, depicts |-> 0]

(* A restored tab has its history and its address, and no document yet.     *)
Init ==
    /\ strip = [t \in Tab |-> IF t = FirstTab THEN "open" ELSE "unused"]
    /\ active = FirstTab
    /\ serial = [t \in Tab |-> 0] /\ loading = [t \in Tab |-> FALSE]
    /\ \E h \in Saved :
         /\ trail = [t \in Tab |-> IF t = FirstTab THEN h ELSE <<>>]
         /\ cursor = [t \in Tab |-> Len(trail[t])]
         /\ url = [t \in Tab |-> IF trail[t] = <<>> THEN NoPage ELSE trail[t][cursor[t]]]
    /\ layer = [t \in Tab |-> 0] /\ session = [t \in Tab |-> 0]
    /\ loads = <<>> /\ running = {} /\ queue = <<>> /\ live = {}
    /\ drain = Idle /\ chrome = AtRest
    /\ fetching = {} /\ painter = Resting
    /\ screen = [tab |-> FirstTab, layer |-> 0]
    /\ quit = "no"

Open == {t \in Tab : strip[t] = "open"}
-----------------------------------------------------------------------------
(* The chrome thread: what the user does.  The parts that other goroutines *)
(* can come between are steps of their own.                                *)

UserTurn == chrome.at = "idle" /\ active # NoTab /\ quit # "done"

(* The critical section of navigateTab and navigateTabNoHistoryTraverse,   *)
(* and the goroutine they start.                                           *)
Start(p, keeps, delta, base) ==
    LET t == active
        l == Len(loads) + 1 IN
    /\ l <= MaxLoads
    /\ loads' = Append(loads, [tab |-> t, serial |-> serial[t] + 1])
    /\ running' = running \cup
         {[load |-> l, goal |-> p, keeps |-> keeps, delta |-> delta, base |-> base]}
    /\ serial' = [serial EXCEPT ![t] = @ + 1]
    /\ loading' = [loading EXCEPT ![t] = TRUE]
    /\ UNCHANGED <<tabVars, pageVars, trailVars, queue, live, drain, imageVars,
                   screen, quit>>

Navigate(p) == UserTurn /\ Start(p, FALSE, 0, 0) /\ UNCHANGED chrome

(* traverseTab: the cursor does not move, the load carries the step. *)
Traverse(delta) ==
    LET t == active IN
    /\ UserTurn
    /\ cursor[t] # 0 /\ cursor[t] + delta \in DOMAIN trail[t]
    /\ Start(trail[t][cursor[t] + delta], TRUE, delta, cursor[t])
    /\ UNCHANGED chrome

Reload ==
    /\ UserTurn /\ url[active] # NoPage
    /\ Start(url[active], TRUE, 0, 0)
    /\ UNCHANGED chrome

Stop ==
    LET t == active IN
    /\ UserTurn /\ loading[t]
    /\ serial' = [serial EXCEPT ![t] = @ + 1]
    /\ loading' = [loading EXCEPT ![t] = FALSE]
    /\ UNCHANGED <<tabVars, pageVars, trailVars, loadVars, drain, chrome,
                   imageVars, screen, quit>>

(* switchTab: the tab comes in front, then its layer is read and shown. *)
Switch(t) ==
    /\ UserTurn /\ t \in Open \ {active}
    /\ active' = t
    /\ chrome' = [at |-> "present", tab |-> t, layer |-> layer[t]]
    /\ UNCHANGED <<strip, navVars, pageVars, trailVars, loadVars, drain, imageVars,
                   screen, quit>>

(* newTab: a blank layer. *)
NewTab(t) ==
    /\ UserTurn /\ strip[t] = "unused"
    /\ strip' = [strip EXCEPT ![t] = "open"] /\ active' = t
    /\ chrome' = [at |-> "present", tab |-> t, layer |-> 0]
    /\ UNCHANGED <<navVars, pageVars, trailVars, loadVars, drain, imageVars, screen, quit>>

(* RestoreHistory of another tab's entries and index. *)
CopyTrail(t, from) ==
    /\ trail' = [trail EXCEPT ![t] = trail[from]]
    /\ cursor' = [cursor EXCEPT ![t] = cursor[from]]

(* duplicateTab: the new tab has the active one's address and trail, and   *)
(* loads the address once it is on screen.  reopenTab takes the same steps  *)
(* with what TabStrip's archive kept of a closed tab.                       *)
Duplicate(t) ==
    LET from == active IN
    /\ UserTurn /\ strip[t] = "unused"
    /\ strip' = [strip EXCEPT ![t] = "open"] /\ active' = t
    /\ url' = [url EXCEPT ![t] = url[from]]
    /\ CopyTrail(t, from)
    /\ chrome' = [at |-> "presentCopy", tab |-> t, layer |-> 0]
    /\ UNCHANGED <<navVars, layer, session, loadVars, drain, imageVars, screen, quit>>

LoadCopy ==
    /\ chrome.at = "load" /\ quit # "done"
    /\ Start(url[chrome.tab], TRUE, 0, 0)
    /\ chrome' = AtRest

(* closeTab: the load and the session end, then the tab leaves the strip,  *)
(* then the tab that comes in front is shown.                              *)
Close(t) ==
    /\ UserTurn /\ t \in Open
    /\ live' = live \ {session[t]}
    /\ chrome' = [at |-> "remove", tab |-> t, layer |-> 0]
    /\ UNCHANGED <<tabVars, navVars, pageVars, trailVars, loads, running, queue, drain,
                   imageVars, screen, quit>>

Remove ==
    /\ chrome.at = "remove"
    /\ strip' = [strip EXCEPT ![chrome.tab] = "closed"]
    /\ LET left == Open \ {chrome.tab} IN
       /\ active' \in IF active # chrome.tab THEN {active}
                     ELSE IF left # {} THEN left ELSE {NoTab}
       /\ chrome' = IF left = {} THEN AtRest
                    ELSE [at |-> "present", tab |-> active', layer |-> layer[active']]
    /\ UNCHANGED <<navVars, pageVars, trailVars, loadVars, drain, imageVars, screen, quit>>

(* The SetPlan that ends a tab switch shows the layer read before. *)
Present ==
    /\ chrome.at \in {"present", "presentCopy"}
    /\ screen' = [tab |-> chrome.tab, layer |-> chrome.layer]
    /\ chrome' = IF chrome.at = "presentCopy" /\ url[chrome.tab] # NoPage
                 THEN [chrome EXCEPT !.at = "load"] ELSE AtRest
    /\ UNCHANGED <<tabVars, navVars, pageVars, trailVars, loadVars, drain, imageVars, quit>>
-----------------------------------------------------------------------------
(* Load goroutines.  Cancelling a load's context (Nav.Cancel, runCancel) is *)
(* no step of the model: it makes the load end early and with nothing, but  *)
(* a load may do that anyway, and one that is cancelled may have finished.  *)

(* loadDocumentCtx ends, a redirect on another address than it was given,   *)
(* and the send on navResults goes through.                                 *)
LoadEnds(r, got, p) ==
    /\ r \in running
    /\ Len(queue) < QueueSize
    /\ p # r.goal => got = "page"
    /\ running' = running \ {r}
    /\ live' = IF got = "page" THEN live \cup {r.load} ELSE live
    /\ queue' = Append(queue, [asked |-> r, got |-> got, page |-> p])
    /\ UNCHANGED <<tabVars, navVars, pageVars, trailVars, loads, drain, chrome,
                   imageVars, screen, quit>>
-----------------------------------------------------------------------------
(* The drain of navResults: applyNavResult. *)

(* Faulty variant: a result that arrives late is as good as any. *)
NewestOrLate(l) == strip[loads[l].tab] = "open"

Newest(l) == strip[loads[l].tab] = "open" /\ serial[loads[l].tab] = loads[l].serial

(* Faulty variant: the early return for a download keeps the tab loading. *)
Settled(r) == IF r.got = "none" THEN loading
              ELSE [loading EXCEPT ![loads[r.asked.load].tab] = FALSE]

(* Faulty variant: the tab still shows that it is loading once Nav.Mu is    *)
(* let go of, and stopTab goes by that.                                     *)
FinishedLater(r) == loading

(* Nav.Loading ends with the newest load, whatever it brought. *)
Finished(r) == [loading EXCEPT ![loads[r.asked.load].tab] = FALSE]

(* The test under Nav.Mu.  A result nobody waits for releases its session. *)
Take ==
    /\ drain.at = "idle" /\ queue # <<>>
    /\ LET l == Head(queue).asked.load IN
       IF Newest(l)
       THEN /\ loading' = Finished(Head(queue))
            /\ drain' = [at |-> "install", result |-> Head(queue)]
            /\ UNCHANGED live
       ELSE /\ live' = live \ {l}
            /\ UNCHANGED <<loading, drain>>
    /\ queue' = Tail(queue)
    /\ UNCHANGED <<tabVars, serial, pageVars, trailVars, loads, running, chrome,
                   imageVars, screen, quit>>

(* Faulty variant: the cursor moves from wherever it is. *)
StepsAnyway(r, t) == r.delta # 0 /\ cursor[t] + r.delta \in DOMAIN trail[t]

(* History.Step: the cursor moves only from where the peek left it. *)
Steps(r, t) ==
    /\ r.delta # 0
    /\ cursor[t] = r.base /\ cursor[t] + r.delta \in DOMAIN trail[t]

(* History.Push, or Step and ReplaceCurrent. *)
Commit(r, p, t) ==
    LET c == cursor[t] + r.delta IN
    IF ~r.keeps
    THEN /\ trail' = [trail EXCEPT ![t] = Append(SubSeq(@, 1, cursor[t]), p)]
         /\ cursor' = [cursor EXCEPT ![t] = @ + 1]
    ELSE IF Steps(r, t)
         THEN /\ trail' = [trail EXCEPT ![t][c] = p]
              /\ cursor' = [cursor EXCEPT ![t] = c]
         ELSE UNCHANGED trailVars

(* Faulty variant: the replaced session is left to itself. *)
ReplaceKeeping(l, p, t) ==
    /\ layer' = [layer EXCEPT ![t] = l]
    /\ session' = [session EXCEPT ![t] = l]
    /\ url' = [url EXCEPT ![t] = p]
    /\ live' = live \cup {l}

(* Faulty variant: the session is closed on its way in. *)
ReplaceClosing(l, p, t) ==
    /\ layer' = [layer EXCEPT ![t] = l]
    /\ session' = [session EXCEPT ![t] = l]
    /\ url' = [url EXCEPT ![t] = p]
    /\ live' = (live \cup {l}) \ {session'[t]}

(* The document replaces the tab's; the replaced session is closed. *)
Replace(l, p, t) ==
    /\ layer' = [layer EXCEPT ![t] = l]
    /\ session' = [session EXCEPT ![t] = l]
    /\ url' = [url EXCEPT ![t] = p]
    /\ live' = (live \cup {l}) \ {session[t]}

(* Deferred fonts and images of a document start once it is published. *)
MayFetch(r) ==
    fetching' \in {fetching}
        \cup (IF r.got = "page" THEN {fetching \cup {r.asked.load}} ELSE {})

(* The rest of applyNavResult, up to its look at the active tab. *)
Install ==
    LET r == drain.result
        l == r.asked.load
        t == loads[l].tab IN
    /\ drain.at = "install" /\ r.got # "none"
    /\ Replace(l, r.page, t)
    /\ IF r.got = "page" THEN Commit(r.asked, r.page, t) ELSE UNCHANGED trailVars
    /\ IF active = t
       THEN drain' = [drain EXCEPT !.at = "show"] /\ UNCHANGED fetching
       ELSE drain' = Idle /\ MayFetch(r)
    /\ UNCHANGED <<tabVars, navVars, loads, running, queue, chrome, painter, screen, quit>>

InstallNothing ==
    /\ drain.at = "install" /\ drain.result.got = "none"
    /\ drain' = Idle
    /\ UNCHANGED <<tabVars, navVars, pageVars, trailVars, loadVars, chrome, imageVars,
                   screen, quit>>

(* SetPlan: the result's layer is the screen's. *)
Show ==
    LET l == drain.result.asked.load IN
    /\ drain.at = "show"
    /\ screen' = [tab |-> loads[l].tab, layer |-> l]
    /\ MayFetch(drain.result)
    /\ drain' = Idle
    /\ UNCHANGED <<tabVars, navVars, pageVars, trailVars, loadVars, chrome, painter, quit>>
-----------------------------------------------------------------------------
(* Deferred images: applyImageResult and repaintTab. *)

(* The images of a document have landed: the tab's session and serial are   *)
(* compared with the document's, then the lock is gone.  A fetch that loads *)
(* nothing tells nobody.                                                    *)
TakeImages(l) ==
    /\ painter.at = "idle" /\ l \in fetching
    /\ fetching' = fetching \ {l}
    /\ painter' = IF Newest(l) /\ session[loads[l].tab] = l
                  THEN [at |-> "paint", load |-> l, depicts |-> 0] ELSE Resting
    /\ UNCHANGED <<tabVars, navVars, pageVars, trailVars, loadVars, drain, chrome,
                   screen, quit>>

(* Reflow and paint read the tab's session again; either may fail. *)
PaintImages ==
    /\ painter.at = "paint"
    /\ painter' \in {Resting, [at |-> "attach", load |-> painter.load,
                             depicts |-> session[loads[painter.load].tab]]}
    /\ UNCHANGED <<tabVars, navVars, pageVars, trailVars, loadVars, drain, chrome,
                   fetching, screen, quit>>

(* A layer of the same extent takes the new content where it is.  Any other *)
(* is replaced, and a tab in front then shows the new one.                  *)
AttachImages ==
    LET t == loads[painter.load].tab IN
    /\ painter.at = "attach"
    /\ layer' = [layer EXCEPT ![t] = painter.depicts]
    /\ \/ /\ screen' = IF screen = [tab |-> t, layer |-> layer[t]]
                       THEN [screen EXCEPT !.layer = painter.depicts] ELSE screen
          /\ painter' = Resting
       \/ /\ painter' = IF active = t THEN [painter EXCEPT !.at = "show"] ELSE Resting
          /\ UNCHANGED screen
    /\ UNCHANGED <<tabVars, navVars, url, session, trailVars, loadVars, drain, chrome,
                   fetching, quit>>

ShowImages ==
    /\ painter.at = "show"
    /\ screen' = [tab |-> loads[painter.load].tab, layer |-> painter.depicts]
    /\ painter' = Resting
    /\ UNCHANGED <<tabVars, navVars, pageVars, trailVars, loadVars, drain, chrome,
                   fetching, quit>>
-----------------------------------------------------------------------------
(* Shutdown: cancel the loads, join them, release every document. *)

Quit ==
    /\ CanQuit /\ quit = "no"
    /\ quit' = "cancelled"
    /\ UNCHANGED <<tabVars, navVars, pageVars, trailVars, loadVars, drain, chrome,
                   imageVars, screen>>

Join ==
    /\ quit = "cancelled"
    /\ running = {}
    /\ quit' = "joined"
    /\ UNCHANGED <<tabVars, navVars, pageVars, trailVars, loadVars, drain, chrome,
                   imageVars, screen>>

ReleaseAll ==
    /\ quit = "joined"
    /\ live' = live \ {session[t] : t \in Open}
    /\ quit' = "done"
    /\ UNCHANGED <<tabVars, navVars, pageVars, trailVars, loads, running, queue, drain,
                   chrome, imageVars, screen>>
-----------------------------------------------------------------------------
User ==
    \/ \E p \in Page : Navigate(p)
    \/ \E d \in {-1, 1} : Traverse(d)
    \/ Reload
    \/ Stop
    \/ \E t \in Tab : Switch(t) \/ NewTab(t) \/ Duplicate(t) \/ Close(t)

ChromeGoesOn == LoadCopy \/ Remove \/ Present

(* Faulty variant: the drain ends when shutdown begins. *)
DrainUntilQuit == quit = "no" /\ (Take \/ Install \/ InstallNothing \/ Show)

(* drainNavResults ranges over a channel that nobody closes. *)
DrainStep    == Take \/ Install \/ InstallNothing \/ Show

PainterStep  == PaintImages \/ AttachImages \/ ShowImages
LoadStep(l)  == \E r \in running, got \in Outcome, p \in Page :
                    r.load = l /\ LoadEnds(r, got, p)
QuitStep     == Join \/ ReleaseAll

Next ==
    \/ User \/ ChromeGoesOn \/ DrainStep \/ PainterStep \/ Quit \/ QuitStep
    \/ \E l \in Loads : LoadStep(l) \/ TakeImages(l)

SafeSpec == Init /\ [][Next]_vars

(* The goroutines run: a user action that began ends, the two drains take   *)
(* what is sent to them, and a load ends because its requests have          *)
(* timeouts.  Nothing obliges the user to act or an image to arrive.        *)
Fairness ==
    /\ WF_vars(ChromeGoesOn) /\ WF_vars(DrainStep) /\ WF_vars(PainterStep)
    /\ WF_vars(QuitStep)
    /\ \A l \in 1..MaxLoads : WF_vars(LoadStep(l))

Spec == SafeSpec /\ Fairness
-----------------------------------------------------------------------------
(* A tab never goes back: what is installed in it belongs to a later        *)
(* navigation than what it replaces, however late results arrive            *)
(* (applyNavResult's test of the serial).                                   *)
NewestWins ==
    [][\A t \in Tab :
         session'[t] # session[t] /\ session[t] # 0 =>
           loads[session'[t]].serial > loads[session[t]].serial]_vars

(* A session that was built is the one its tab holds, or on its way there;  *)
(* every other one was closed, also when the tab was closed or superseded   *)
(* the load meanwhile (navigation.go:208-232, 300-320).                     *)
NoSessionForgotten ==
    \A l \in live :
        \/ session[loads[l].tab] = l
        \/ \E i \in DOMAIN queue : queue[i].asked.load = l
        \/ drain.at = "install" /\ drain.result.asked.load = l

(* The document an open tab holds has not been closed under it, unless the  *)
(* tab is being closed or the program has released everything.              *)
NoDeadDocument ==
    \A t \in Open :
        \/ session[t] \in live \cup {0}
        \/ chrome.at = "remove" /\ chrome.tab = t
        \/ quit = "done"

(* When back or forward moves the cursor, it moves it onto the entry whose  *)
(* page the traversal was started for, whatever other navigations committed *)
(* in between (History.Step).                                               *)
TraversalLands ==
    [][\A t \in Tab :
         LET r == drain.result.asked IN
         /\ drain.at = "install" /\ loads[r.load].tab = t
         /\ cursor'[t] # cursor[t] /\ r.delta # 0
         => trail[t][cursor'[t]] = r.goal]_vars

(* A tab that shows it is loading stops doing so, or is closed. *)
LoadingEnds ==
    \A t \in Tab : (strip[t] = "open" /\ loading[t]) ~> (strip[t] # "open" \/ ~loading[t])

(* Shutdown ends: the loads it joins are not blocked on the channel. *)
QuitEnds == (quit = "cancelled") ~> (quit = "done")

(* A document comes into a tab as its newest, or the next thing that moved   *)
(* the tab's serial on was another load, not a stop.                        *)
ComesInUnstopped(t) ==
    session'[t] # session[t] /\ loads[session'[t]].serial # serial[t] =>
      \E k \in Loads : /\ loads[k].tab = t
                       /\ loads[k].serial = loads[session'[t]].serial + 1

(* What was stopped stays out.  A stop that finds the tab loading comes     *)
(* before the test of the serial, one that comes after it finds the tab at  *)
(* rest (applyNavResult's critical section, stopTab).                       *)
StoppedStaysOut == [][\A t \in Tab : ComesInUnstopped(t)]_vars

(* Not so in the code: applyNavResult's comment says of the session of a tab *)
(* closed while its load was in flight that "nothing else will ever reach    *)
(* it, so it has to be released here"; no closed tab would then hold a       *)
(* session that is not released.                                             *)
ClosedTabsHoldNothing ==
    \A t \in Tab : strip[t] = "closed" => session[t] \notin live

=============================================================================
