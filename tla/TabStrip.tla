------------------------------ MODULE TabStrip ------------------------------
(***************************************************************************)
(* The tab manager (internal/tabs/manager.go): the list of tabs, the index *)
(* of the active one, and the stack of closed tabs that can be reopened.   *)
(* Every operation holds the manager's mutex.                              *)
(*                                                                         *)
(* Positions start at 1.  A tab's trail, title and scroll position travel  *)
(* with its page and are left out; so are the strip's scroll offset and    *)
(* the drag in progress.  A tab's id is fresh among the open tabs, and     *)
(* there are only so many (Tab bounds the strip).                          *)
(***************************************************************************)
EXTENDS Subsequence, SequencesExt

CONSTANTS Tab, Page, NoPage,
          MaxClosed   \* maxClosedTabs

ASSUME TabStripAssumption == NoPage \notin Page /\ MaxClosed \in Nat

VARIABLES
    strip,    \* TabManager.tabs
    active,   \* TabManager.activeIdx
    closed    \* TabManager.closedTabs: the pages, the newest last

stripVars == <<strip, active, closed>>

Open      == DOMAIN strip
Ids(s)    == {s[i].id : i \in DOMAIN s}
Fresh     == Tab \ Ids(strip)
Blank(id, private) ==
    [id |-> id, page |-> NoPage, incognito |-> private, pinned |-> FALSE]

(* The index of the tab named id in s.                                      *)
IndexOf(s, id) == CHOOSE i \in DOMAIN s : s[i].id = id
-----------------------------------------------------------------------------
(* archiveClosedTabLocked, for tabs closed together in their order: private *)
(* tabs and tabs that never showed a page leave nothing, and only the       *)
(* newest MaxClosed are kept.                                               *)
Archived(tabs) ==
    LET kept  == At(tabs, {i \in DOMAIN tabs : ~tabs[i].incognito /\ tabs[i].page # NoPage})
        stack == closed \o [i \in DOMAIN kept |-> kept[i].page]
    IN  SubSeq(stack, Max({1, Len(stack) - MaxClosed + 1}), Len(stack))

(* A new tab is appended and shown (framePath.newTab, newIncognitoTab).     *)
NewTab(private) ==
    /\ \E id \in Fresh : strip' = Append(strip, Blank(id, private))
    /\ active' = Len(strip) + 1
    /\ UNCHANGED closed

(* Faulty variant: the index is not moved down with its tab. *)
AfterCloseUnmoved(i) ==
    IF active > Len(strip) - 1 THEN Len(strip) - 1 ELSE active

AfterClose(i) ==
    IF active > Len(strip) - 1 THEN Len(strip) - 1
    ELSE IF active > i THEN active - 1 ELSE active

(* The strip may become empty: the window then closes.                      *)
CloseTab(i) ==
    /\ strip' = RemoveAt(strip, i)
    /\ closed' = Archived(<<strip[i]>>)
    /\ active' = IF Len(strip) = 1 THEN 1 ELSE AfterClose(i)

(* Faulty variant: the copy of a private tab is not private. *)
CopyOfPublic(t, id) == [t EXCEPT !.id = id, !.pinned = FALSE, !.incognito = FALSE]

CopyOf(t, id) == [t EXCEPT !.id = id, !.pinned = FALSE]

(* The copy is put after its tab and shown.                                 *)
DuplicateTab(i) ==
    /\ \E id \in Fresh : strip' = InsertAt(strip, i + 1, CopyOf(strip[i], id))
    /\ active' = i + 1
    /\ UNCHANGED closed

(* Keeps the tabs at the places in I and archives the others.               *)
KeepOnly(I) == strip' = At(strip, I) /\ closed' = Archived(At(strip, Open \ I))

Pinned == {i \in Open : strip[i].pinned}

CloseOtherTabs(i) ==
    /\ KeepOnly(Pinned \cup {i})
    /\ active' = IndexOf(strip', strip[i].id)

(* The active tab stays active unless it was closed.                        *)
CloseTabsToRight(i) ==
    /\ KeepOnly(Pinned \cup 1..i)
    /\ active' = IF active \in Pinned \cup 1..i
                 THEN IndexOf(strip', strip[active].id) ELSE i

Moved(i, j) == InsertAt(RemoveAt(strip, i), j, strip[i])

(* A pinned tab goes after the other pinned ones.  If that moves it, it is  *)
(* also made the active one; if not, the active one stays.                  *)
PinTab(i) ==
    LET others == Pinned \ {i}
        target == IF others = {} THEN 1 ELSE Max(others) + 1
        Pin(s, k) == [s EXCEPT ![k].pinned = TRUE]
    IN  /\ IF target < i
           THEN strip' = Pin(Moved(i, target), target) /\ active' = target
           ELSE strip' = Pin(strip, i) /\ UNCHANGED active
        /\ UNCHANGED closed

UnpinTab(i) ==
    /\ strip' = [strip EXCEPT ![i].pinned = FALSE]
    /\ UNCHANGED <<active, closed>>

(* Reopened tabs are appended and shown, and never private.                 *)
ReopenTab ==
    /\ closed # <<>>
    /\ \E id \in Fresh : strip' = Append(strip, [Blank(id, FALSE) EXCEPT !.page = Last(closed)])
    /\ closed' = Front(closed)
    /\ active' = Len(strip) + 1

SwitchTo(i) == i # active /\ active' = i /\ UNCHANGED <<strip, closed>>

(* The active tab stays the active one wherever it goes.                    *)
MoveTab(i, j) ==
    /\ i # j
    /\ strip' = Moved(i, j)
    /\ active' = IndexOf(strip', strip[active].id)
    /\ UNCHANGED closed

(* What the user does with the tabs.  Pinning, closing the others, closing  *)
(* to the right and duplicating a tab that is not the active one are calls  *)
(* of the manager no control reaches yet.                                   *)
Edit ==
    \/ \E private \in BOOLEAN : NewTab(private)
    \/ \E i \in Open : CloseTab(i)
    \/ \E i \in Open : DuplicateTab(i)
    \/ \E i \in Open : CloseOtherTabs(i)
    \/ \E i \in Open : CloseTabsToRight(i)
    \/ \E i \in Open : PinTab(i)
    \/ \E i \in Open : UnpinTab(i)
    \/ ReopenTab
    \/ \E i \in Open : SwitchTo(i)
    \/ \E i, j \in Open : MoveTab(i, j)
-----------------------------------------------------------------------------
StripTypeOK ==
    /\ strip \in Seq([id : Tab, page : Page \cup {NoPage},
                      incognito : BOOLEAN, pinned : BOOLEAN])
    /\ \A i, j \in Open : strip[i].id = strip[j].id => i = j
    /\ active \in Open \/ (strip = <<>> /\ active = 1)
    /\ closed \in Seq(Page) /\ Len(closed) <= MaxClosed

(* The tab the user looks at changes only when it is closed or another one  *)
(* is asked for: closing, moving or unpinning other tabs moves the index    *)
(* with it (manager.go:135-139, 235-271, 485-490).                          *)
ActiveFollows ==
    [][(\/ \E i \in Open \ {active} : CloseTab(i)
        \/ \E i \in Open : active <= i /\ CloseTabsToRight(i)
        \/ \E i, j \in Open : MoveTab(i, j))
       => strip'[active'].id = strip[active].id]_stripVars
=============================================================================
