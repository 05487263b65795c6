--------------------------- MODULE SessionJournal ---------------------------
(***************************************************************************)
(* The tabs across runs of the browser (internal/session/session.go,       *)
(* cmd/goosie/main.go, navigation.go, internal_pages.go): every change of  *)
(* the strip is saved to a journal, a clean exit saves the session and     *)
(* removes the journal, and a run that finds a journal takes it for a      *)
(* crash and offers to restore its tabs.                                   *)
(*                                                                         *)
(* Three goroutines meet here: the window's events change the strip and    *)
(* save it; the one that applies navigation results changes a page, takes  *)
(* a snapshot and saves it later; and the load of the restore page does    *)
(* the restoring.  A file is replaced whole, by a rename.  A private       *)
(* window keeps neither file and is not modelled; nor is a save that fails.*)
(***************************************************************************)
EXTENDS TabStrip

CONSTANTS Secret,    \* the pages seen in private tabs
          Restore,   \* the restore page, before and after it was answered
          MaxTabs,   \* session.MaxTabs
          None, NoTab,
          MaxRuns,   \* bound: runs of the browser after the first
          MaxEdits   \* bound: tab operations in all runs

ASSUME SessionAssumption ==
    /\ Secret \subseteq Page /\ Restore \in Page \ Secret
    /\ MaxTabs \in Nat \ {0} /\ MaxRuns \in Nat /\ MaxEdits \in Nat
    /\ NoTab \notin Tab

VARIABLES
    journal,    \* sessionActiveFile, None when there is none
    file,       \* sessionFile
    crashed,    \* framePath.crashedSession
    late,       \* the snapshot a navigation result still has to save
    restoring,  \* the session a restore page's load has taken to restore
    answering,  \* the tab whose load of the answered restore page is current
    runs,
    edits

diskVars == <<journal, file>>
vars == <<stripVars, diskVars, crashed, late, restoring, answering, runs, edits>>

Web     == Page \ (Secret \cup {Restore})
Nothing == [tabs |-> <<>>, active |-> 1]

Pages(s) == [i \in DOMAIN s |-> s[i].page]

(* Where the tabs are that are not private, and the tabs themselves.        *)
Lasting(s) == {i \in DOMAIN s : ~s[i].incognito}
Public(s)  == At(s, Lasting(s))

(* Faulty variant: the active index counts the private tabs as well. *)
SnapshotRaw(s, a) == [tabs |-> Pages(Public(s)), active |-> a]

(* sessionState: the tabs that are not private and which of them is active, *)
(* the first if none is.                                                    *)
Snapshot(s, a) ==
    [tabs |-> Pages(Public(s)),
     active |-> IF a \in Lasting(s) THEN Rank(Lasting(s), a) ELSE 1]

(* clamp, on every Save and Load. *)
Clamp(st) ==
    LET n == IF Len(st.tabs) > MaxTabs THEN MaxTabs ELSE Len(st.tabs)
    IN  [tabs |-> SubSeq(st.tabs, 1, n),
         active |-> IF n = 0 THEN 1 ELSE IF st.active > n THEN n ELSE st.active]

(* Faulty variant: the journal is written while the prompt is shown. *)
WritesPrompted(s) == /\ Lasting(s) # {}
                     /\ \A i \in DOMAIN s : s[i].page = Restore => Lasting(s) # {i}

(* saveActiveSession leaves the journal alone while the last crash is not   *)
(* answered, and does not save nothing or the restore page alone.           *)
Writes(s) ==
    /\ crashed = None
    /\ Lasting(s) # {}
    /\ \A i \in DOMAIN s : s[i].page = Restore => Lasting(s) # {i}

(* Every change of the strip is saved before the call returns.              *)
Saved ==
    journal' = IF Writes(strip') THEN Clamp(Snapshot(strip', active')) ELSE journal
-----------------------------------------------------------------------------
(* Tabs for the pages of a saved session, with ids from the set given.      *)
TabsFor(pages, ids) ==
    {[i \in DOMAIN pages |-> [Blank(f[i], FALSE) EXCEPT !.page = pages[i]]] :
        f \in {g \in [DOMAIN pages -> ids] : IsInjective(g)}}

(* What a run starts with: the address it was given, the prompt when there  *)
(* is a journal, the saved session, or an empty tab.                        *)
Begun(address, restore) ==
    IF address # NoPage THEN [tabs |-> <<address>>, active |-> 1]
    ELSE IF crashed' # None THEN [tabs |-> <<Restore>>, active |-> 1]
    ELSE IF restore /\ file'.tabs # <<>> THEN Clamp(file')
    ELSE [tabs |-> <<NoPage>>, active |-> 1]

NextRun == runs < MaxRuns /\ runs' = runs + 1

(* The run before left the journal j and the file; this one starts and      *)
(* saves for the first time.                                                *)
Start(j, address, restore) ==
    LET begun == Begun(address, restore)
    IN  /\ crashed' = IF j = None THEN None ELSE Clamp(j)
        /\ strip' \in TabsFor(begun.tabs, Tab)
        /\ active' = begun.active /\ closed' = <<>>
        /\ journal' = IF crashed' = None /\ begun.tabs # <<Restore>>
                      THEN Clamp(Snapshot(strip', active')) ELSE j
        /\ late' = None /\ restoring' = None /\ answering' = NoTab /\ UNCHANGED edits

(* Shutdown saves the session and removes the journal.  The goroutine that  *)
(* applies results is not joined: a snapshot it has taken may be saved      *)
(* after that.                                                              *)
Quit(address, restore) ==
    /\ NextRun
    /\ file' = Clamp(Snapshot(strip, active))
    /\ \E j \in {None, late} : Start(j, address, restore)

(* A crash leaves the files as they are.                                    *)
Crash(address, restore) == NextRun /\ UNCHANGED file /\ Start(journal, address, restore)

Init ==
    /\ \E id \in Tab : strip = <<Blank(id, FALSE)>>
    /\ active = 1 /\ closed = <<>>
    /\ journal = Clamp(Snapshot(strip, active))
    /\ file = [tabs |-> <<>>, active |-> 1]
    /\ crashed = None /\ late = None
    /\ restoring = None /\ answering = NoTab /\ runs = 0 /\ edits = 0
-----------------------------------------------------------------------------
(* A tab operation, saved before it returns.                                *)
EditTabs ==
    /\ strip # <<>>
    /\ edits < MaxEdits /\ edits' = edits + 1
    /\ Edit /\ Saved
    /\ UNCHANGED <<file, crashed, late, restoring, answering, runs>>

(* applyNavResult shows page p in the tab at i and takes the snapshot it    *)
(* saves next.                                                              *)
Shows(i, p) ==
    /\ late = None
    /\ strip' = [strip EXCEPT ![i].page = p]
    /\ late' = IF Writes(strip') THEN Clamp(Snapshot(strip', active)) ELSE None
    /\ UNCHANGED <<active, closed>>

(* The result of a navigation the user started; an answered restore page    *)
(* still loading in that tab is stale from its start on.  With nothing to   *)
(* restore the restore page is a page like any other.                       *)
Navigate(i, p) ==
    /\ p \in IF strip[i].incognito THEN Secret
             ELSE IF crashed = None THEN Web ELSE Web \cup {Restore}
    /\ Shows(i, p)
    /\ answering' = IF strip[i].id = answering THEN NoTab ELSE answering
    /\ UNCHANGED <<diskVars, crashed, restoring, runs, edits>>

SaveLate ==
    /\ late # None
    /\ journal' = late /\ late' = None
    /\ UNCHANGED <<stripVars, file, crashed, restoring, answering, runs, edits>>
-----------------------------------------------------------------------------
(* The prompt is shown in some tab, where following one of its links starts *)
(* a load; the user may have gone to another tab since.                     *)
Answer ==
    /\ crashed # None /\ crashed' = None
    /\ journal' = None
    /\ \E i \in Open : strip[i].page = Restore /\ answering' = strip[i].id
    /\ UNCHANGED <<stripVars, file, late, runs, edits>>

(* "Restore": the load takes the crashed session and removes the journal,   *)
TakeCrashed == Answer /\ restoring' = crashed

(* then opens its tabs: in place of the prompt when nothing else is open,   *)
(* after the tabs that are open otherwise.                                  *)
Reopened ==
    LET pages  == restoring.tabs
        prompt == Pages(strip) = <<Restore>>
    IN  \E more \in TabsFor(IF prompt THEN Tail(pages) ELSE pages, Fresh) :
          /\ strip' = (IF prompt THEN <<[strip[1] EXCEPT !.page = pages[1]]>> ELSE strip)
                        \o more
          /\ active' = (IF prompt THEN 0 ELSE Len(strip)) + restoring.active

(* Navigating the tab t makes the answer stale if t is where it loads.      *)
Answers(t) ==
    IF t.id = answering /\ t.page \notin {NoPage, Restore} THEN NoTab ELSE answering

RestoreCrashed ==
    /\ strip # <<>> /\ restoring # None
    /\ Reopened /\ Saved
    /\ answering' = Answers(strip'[active'])
    /\ restoring' = None
    /\ UNCHANGED <<closed, file, crashed, late, runs, edits>>

(* The answered restore page is shown where it was asked for, unless that   *)
(* tab has gone or has been navigated since.                                *)
ShowAnswer ==
    /\ answering # NoTab /\ restoring = None
    /\ IF answering \in Ids(strip)
       THEN Shows(IndexOf(strip, answering), Restore)
       ELSE UNCHANGED <<stripVars, late>>
    /\ answering' = NoTab
    /\ UNCHANGED <<diskVars, crashed, restoring, runs, edits>>

(* "Don't restore" drops the session and removes the journal.               *)
Dismiss == Answer /\ UNCHANGED restoring

Next ==
    \/ EditTabs
    \/ \E i \in Open, p \in Page : Navigate(i, p)
    \/ SaveLate
    \/ TakeCrashed
    \/ RestoreCrashed
    \/ ShowAnswer
    \/ Dismiss
    \/ \E address \in Web \cup {NoPage}, restore \in BOOLEAN :
         Quit(address, restore) \/ Crash(address, restore)

Spec == Init /\ [][Next]_vars
-----------------------------------------------------------------------------
Sessions == {None} \cup [tabs : Seq(Page \cup {NoPage}), active : Nat \ {0}]

SessionTypeOK ==
    /\ StripTypeOK
    /\ {journal, file, crashed, late, restoring} \subseteq Sessions
    /\ answering \in Tab \cup {NoTab} /\ runs \in 0..MaxRuns /\ edits \in 0..MaxEdits

SavedPages == UNION {Range(st.tabs) : st \in {journal, file, crashed, late, restoring} \ {None}}

(* Incognito tabs are ephemeral and never persisted (navigation.go:673): a  *)
(* page seen only in private tabs reaches neither a file, nor a session to  *)
(* restore, nor the tabs that can be reopened, nor a tab that is not        *)
(* private.                                                                 *)
PrivateStaysPrivate ==
    /\ Secret \cap (SavedPages \cup Range(closed)) = {}
    /\ \A i \in Open : strip[i].page \in Secret => strip[i].incognito

(* The crashed journal is not overwritten while the restore prompt is       *)
(* active (navigation.go:704-707): another crash then still finds it.       *)
CrashedUntilAnswered == crashed # None => journal = crashed

(* A clean exit and a start that restores show the same pages in the same   *)
(* order and the same one of them active, as far as they are saved.         *)
SessionSurvives ==
    [][Quit(NoPage, TRUE) /\ crashed' = None /\ Public(strip) # <<>>
       => LET n == Len(strip')
          IN  /\ Pages(strip') = SubSeq(Pages(Public(strip)), 1, n)
              /\ n \in {Len(Public(strip)), MaxTabs}
              /\ ~strip[active].incognito
                   => \/ strip'[active'].page = strip[active].page
                      \/ \E i \in (n + 1)..Len(Public(strip)) :
                           Public(strip)[i] = strip[active]]_vars

(* "restores the tabs from a previous crashed session" (navigation.go:722): *)
(* the answer of the restore page does not take the place of a page.        *)
RestoredStays ==
    [][ShowAnswer => \A i \in Open : strip[i].page \in Web => strip'[i].page = strip[i].page]_vars
=============================================================================
