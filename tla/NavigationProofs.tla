-------------------------- MODULE NavigationProofs --------------------------
(***************************************************************************)
(* Proofs about Navigation for any number of tabs, pages and loads, and a  *)
(* results channel of any capacity.  The inductive invariant says where a  *)
(* load can be (OnePlace), how serials order the loads of a tab (Serials), *)
(* which loads have a session (Unbuilt), and what a back or forward load   *)
(* still in flight may rely on in its tab's history (Landing).             *)
(***************************************************************************)
EXTENDS Navigation, SequenceTheorems, FiniteSetTheorems, TLAPS

USE NavigationAssumption

(* Tabs that were never opened have no past; what a user action under way   *)
(* works on is there.                                                       *)
Tabs ==
    /\ active # NoTab => strip[active] # "unused"
    /\ chrome.at # "idle" => active # NoTab /\ chrome.tab # NoTab
    /\ chrome.at = "load" => url[chrome.tab] # NoPage
    /\ \A l \in Loads : strip[loads[l].tab] # "unused"
    /\ \A t \in Tab : strip[t] = "unused" => session[t] = 0
    /\ \A t \in Tab : session[t] # 0 => loads[session[t]].tab = t

(* A load is running, in the channel, being installed, or past all three:   *)
(* only then can a tab hold its session.                                    *)
OnePlace ==
    /\ \A r \in running :
         /\ r.load \in Loads
         /\ \A s \in running : s.load = r.load => s = r
         /\ \A i \in DOMAIN queue : queue[i].asked.load # r.load
         /\ drain.at = "install" => drain.result.asked.load # r.load
         /\ \A t \in Tab : session[t] # r.load
    /\ \A i \in DOMAIN queue :
         /\ queue[i].asked.load \in Loads
         /\ \A j \in DOMAIN queue : queue[i].asked.load = queue[j].asked.load => i = j
         /\ drain.at = "install" => drain.result.asked.load # queue[i].asked.load
         /\ \A t \in Tab : session[t] # queue[i].asked.load
    /\ drain.at # "idle" => drain.result.asked.load \in Loads
    /\ drain.at = "install" => \A t \in Tab : session[t] # drain.result.asked.load

(* Serials tell the loads of a tab apart; what is being installed is newer  *)
(* than what it will replace.                                               *)
Serials ==
    /\ \A l \in Loads : loads[l].serial <= serial[loads[l].tab]
    /\ \A l, m \in Loads :
         loads[l].tab = loads[m].tab /\ loads[l].serial = loads[m].serial => l = m
    /\ drain.at = "install" =>
         LET l == drain.result.asked.load
             t == loads[l].tab IN
         session[t] # 0 => loads[session[t]].serial < loads[l].serial

(* The images under way are some load's. *)
Painting == painter.at # "idle" => painter.load \in Loads

(* A session is built when its load ends with a page, and not before; the   *)
(* document of an error is built when it is installed.                      *)
Unbuilt ==
    /\ \A r \in running : r.load \notin live
    /\ \A i \in DOMAIN queue : queue[i].got # "page" => queue[i].asked.load \notin live
    /\ drain.at = "install" /\ drain.result.got # "page"
         => drain.result.asked.load \notin live

(* Seen from where a traversal started, its goal is where it was. *)
Lands(r) ==
    LET t == loads[r.load].tab IN
    cursor[t] = r.base =>
      r.base + r.delta \in DOMAIN trail[t] /\ trail[t][r.base + r.delta] = r.goal

(* The newest load of a tab, if it is a traversal, will land; until then    *)
(* one older load may still be installed, and the cursor waits for it where *)
(* the traversal started.                                                   *)
Aims(r) ==
    LET t == loads[r.load].tab IN
    r.delta # 0 /\ serial[t] = loads[r.load].serial =>
      /\ Lands(r)
      /\ drain.at = "install" /\ loads[drain.result.asked.load].tab = t
           => cursor[t] = r.base

Landing ==
    /\ \A r \in running : Aims(r)
    /\ \A i \in DOMAIN queue : Aims(queue[i].asked)
    /\ drain.at = "install" /\ drain.result.asked.delta # 0 => Lands(drain.result.asked)

IInv ==
    /\ TypeOK /\ Tabs /\ OnePlace /\ Serials /\ Painting
    /\ Unbuilt /\ NoSessionForgotten /\ NoDeadDocument /\ Landing
-----------------------------------------------------------------------------
(* A load has a tab and a serial. *)
LEMMA LoadFacts ==
    ASSUME IInv, NEW l \in Loads
    PROVE  loads[l] \in [tab : Tab, serial : Nat] /\ loads[l].tab \in Tab /\ loads[l].serial \in Nat
<1>1. loads \in Seq([tab : Tab, serial : Nat]) /\ l \in 1..Len(loads)
    BY DEF IInv, TypeOK, LoadTypes, Loads
<1>2. loads[l] \in [tab : Tab, serial : Nat]
    BY <1>1, ElementOfSeq
<1> QED BY <1>2

(* What the tabs hold, if they and the number of loads stay. *)
LEMMA TabTypesKept ==
    ASSUME TabTypes, UNCHANGED <<tabVars, navVars, pageVars, trailVars, loads>> PROVE TabTypes'
BY DEF TabTypes, tabVars, navVars, pageVars, trailVars

(* What is loaded, if nothing of it moves. *)
LEMMA LoadTypesKept ==
    ASSUME LoadTypes, UNCHANGED <<loadVars, fetching, drain>> PROVE LoadTypes'
BY DEF LoadTypes, loadVars, Loads

(* The same of the screen and of the steps under way. *)
LEMMA ScreenTypesKept ==
    ASSUME ScreenTypes, UNCHANGED <<chrome, painter, screen, quit, loads>> PROVE ScreenTypes'
BY DEF ScreenTypes

(* The same of what is known of the tabs. *)
LEMMA TabsKept ==
    ASSUME Tabs, UNCHANGED <<strip, active, session, loads, chrome, url>> PROVE Tabs'
BY DEF Tabs, Loads

(* The same of where a load is. *)
LEMMA OnePlaceKept ==
    ASSUME OnePlace, UNCHANGED <<running, queue, drain, session, loads>> PROVE OnePlace'
BY DEF OnePlace, Loads

(* The same of the serials. *)
LEMMA SerialsKept ==
    ASSUME Serials, UNCHANGED <<serial, loads, drain, session>> PROVE Serials'
BY DEF Serials, Loads

(* The same of the images under way. *)
LEMMA PaintingKept ==
    ASSUME Painting, UNCHANGED <<painter, loads>> PROVE Painting'
BY DEF Painting, Loads

(* The same of which loads have a session. *)
LEMMA UnbuiltKept ==
    ASSUME Unbuilt, UNCHANGED <<running, queue, drain, live>> PROVE Unbuilt'
BY DEF Unbuilt

(* The same of the live sessions. *)
LEMMA NoSessionForgottenKept ==
    ASSUME NoSessionForgotten, UNCHANGED <<live, session, loads, queue, drain>> PROVE NoSessionForgotten'
BY DEF NoSessionForgotten

(* The same of the documents of open tabs. *)
LEMMA NoDeadDocumentKept ==
    ASSUME NoDeadDocument, UNCHANGED <<strip, session, live, chrome, quit>> PROVE NoDeadDocument'
BY DEF NoDeadDocument, Open

(* The same of traversals. *)
LEMMA LandingKept ==
    ASSUME Landing, UNCHANGED <<running, queue, drain, loads, serial, trailVars>> PROVE Landing'
BY DEF Landing, Aims, Lands, trailVars
-----------------------------------------------------------------------------
(* A load that was stopped cannot be the newest again. *)
LEMMA StopInv ==
    ASSUME IInv, Stop PROVE IInv'
<1>1. /\ active \in Tab /\ serial' = [serial EXCEPT ![active] = @ + 1]
      /\ serial \in [Tab -> Nat] /\ queue' = queue /\ Loads' = Loads
      /\ \A i \in DOMAIN queue : queue[i] \in Result
    BY DEF IInv, TypeOK, TabTypes, LoadTypes, Stop, UserTurn, loadVars, Loads
<1>11. TabTypes'
    BY SMTT(30) DEF IInv, TypeOK, TabTypes, Stop, UserTurn, tabVars, pageVars, trailVars,
       loadVars, imageVars
<1>12. LoadTypes'
    BY LoadTypesKept DEF IInv, TypeOK, Stop, tabVars, pageVars, trailVars, loadVars,
       imageVars
<1>13. ScreenTypes'
    BY ScreenTypesKept DEF IInv, TypeOK, Stop, tabVars, pageVars, trailVars,
       loadVars, imageVars
<1>14. Tabs'
    BY TabsKept DEF IInv, TypeOK, Stop, tabVars, pageVars, trailVars, loadVars,
       imageVars
<1>15. OnePlace'
    BY OnePlaceKept DEF IInv, TypeOK, Stop, tabVars, pageVars, trailVars, loadVars,
       imageVars
<1>16. Serials'
    <2>1. \A t \in Tab : serial'[t] \in Nat /\ serial[t] <= serial'[t]
        BY <1>1
    <2>2. UNCHANGED <<loads, drain, session>>
        BY DEF Stop, loadVars, pageVars
    <2>3. ASSUME NEW l \in Loads PROVE loads[l].serial <= serial'[loads[l].tab]
        <3>1. loads[l].tab \in Tab /\ loads[l].serial \in Nat BY LoadFacts
        <3>2. loads[l].serial <= serial[loads[l].tab] BY DEF IInv, Serials
        <3>3. serial[loads[l].tab] \in Nat BY <1>1, <3>1
        <3> QED BY <2>1, <3>1, <3>2, <3>3
    <2> QED BY <2>2, <2>3, <1>1 DEF IInv, Serials
<1>17. Painting'
    BY PaintingKept DEF IInv, TypeOK, Stop, tabVars, pageVars, trailVars, loadVars,
       imageVars
<1>18. Unbuilt'
    BY UnbuiltKept DEF IInv, TypeOK, Stop, tabVars, pageVars, trailVars, loadVars,
       imageVars
<1>19. NoSessionForgotten'
    BY NoSessionForgottenKept DEF IInv, TypeOK, Stop, tabVars, pageVars, trailVars,
       loadVars, imageVars
<1>20. NoDeadDocument'
    BY NoDeadDocumentKept DEF IInv, TypeOK, Stop, tabVars, pageVars, trailVars,
       loadVars, imageVars
<1>21. Landing'
    <2>1. ASSUME NEW r \in Request, r.load \in Loads, Aims(r) PROVE Aims(r)'
        <3>1. loads[r.load].tab \in Tab /\ loads[r.load].serial \in Nat BY <2>1, LoadFacts
        <3>2. loads[r.load].serial <= serial[loads[r.load].tab]
            BY <2>1 DEF IInv, Serials
        <3>3. serial'[loads[r.load].tab] = loads[r.load].serial
                => serial[loads[r.load].tab] = loads[r.load].serial
            BY <1>1, <3>1, <3>2
        <3>4. UNCHANGED <<loads, drain, trail, cursor>>
            BY DEF Stop, trailVars, loadVars
        <3> QED BY <2>1, <3>3, <3>4 DEF Aims, Lands
    <2> QED
        BY <2>1, <1>1 DEF IInv, TypeOK, LoadTypes, OnePlace, Result, Landing, Lands,
           Stop, trailVars, loadVars
<1> QED
    BY <1>11, <1>12, <1>13, <1>14, <1>15, <1>16, <1>17, <1>18, <1>19, <1>20, <1>21
       DEF IInv, TypeOK

(* Another tab comes in front. *)
LEMMA SwitchInv ==
    ASSUME IInv, NEW t \in Tab, Switch(t) PROVE IInv'
<1>11. TabTypes'
    BY DEF IInv, TypeOK, TabTypes, Switch, UserTurn, Open, navVars, pageVars,
       trailVars, loadVars, imageVars
<1>12. LoadTypes'
    BY LoadTypesKept DEF IInv, TypeOK, Switch, navVars, pageVars, trailVars,
       loadVars, imageVars
<1>13. ScreenTypes'
    BY DEF IInv, TypeOK, ScreenTypes, TabTypes, Switch, UserTurn, Open, navVars,
       pageVars, trailVars, loadVars, imageVars
<1>14. Tabs'
    BY DEF IInv, TypeOK, Tabs, Loads, Switch, UserTurn, Open, navVars, pageVars,
       trailVars, loadVars, imageVars
<1>15. OnePlace'
    BY OnePlaceKept DEF IInv, TypeOK, Switch, navVars, pageVars, trailVars,
       loadVars, imageVars
<1>16. Serials'
    BY SerialsKept DEF IInv, TypeOK, Switch, navVars, pageVars, trailVars, loadVars,
       imageVars
<1>17. Painting'
    BY PaintingKept DEF IInv, TypeOK, Switch, navVars, pageVars, trailVars,
       loadVars, imageVars
<1>18. Unbuilt'
    BY UnbuiltKept DEF IInv, TypeOK, Switch, navVars, pageVars, trailVars, loadVars,
       imageVars
<1>19. NoSessionForgotten'
    BY NoSessionForgottenKept DEF IInv, TypeOK, Switch, navVars, pageVars,
       trailVars, loadVars, imageVars
<1>20. NoDeadDocument'
    BY DEF IInv, TypeOK, NoDeadDocument, Open, Switch, UserTurn, navVars, pageVars,
       trailVars, loadVars, imageVars
<1>21. Landing'
    BY LandingKept DEF IInv, TypeOK, Switch, navVars, pageVars, trailVars, loadVars,
       imageVars
<1> QED
    BY <1>11, <1>12, <1>13, <1>14, <1>15, <1>16, <1>17, <1>18, <1>19, <1>20, <1>21
       DEF IInv, TypeOK

(* No load and no document is a new tab's. *)
LEMMA NewTabInv ==
    ASSUME IInv, NEW t \in Tab, NewTab(t) PROVE IInv'
<1>11. TabTypes'
    BY DEF IInv, TypeOK, TabTypes, NewTab, UserTurn, navVars, pageVars, trailVars,
       loadVars, imageVars
<1>12. LoadTypes'
    BY LoadTypesKept DEF IInv, TypeOK, NewTab, navVars, pageVars, trailVars,
       loadVars, imageVars
<1>13. ScreenTypes'
    BY DEF IInv, TypeOK, ScreenTypes, TabTypes, NewTab, UserTurn, navVars, pageVars,
       trailVars, loadVars, imageVars
<1>14. Tabs'
    BY SMTT(40) DEF IInv, TypeOK, Tabs, TabTypes, Loads, NewTab, UserTurn, navVars, pageVars,
       trailVars, loadVars, imageVars
<1>15. OnePlace'
    BY OnePlaceKept DEF IInv, TypeOK, NewTab, navVars, pageVars, trailVars,
       loadVars, imageVars
<1>16. Serials'
    BY SerialsKept DEF IInv, TypeOK, NewTab, navVars, pageVars, trailVars, loadVars,
       imageVars
<1>17. Painting'
    BY PaintingKept DEF IInv, TypeOK, NewTab, navVars, pageVars, trailVars,
       loadVars, imageVars
<1>18. Unbuilt'
    BY UnbuiltKept DEF IInv, TypeOK, NewTab, navVars, pageVars, trailVars, loadVars,
       imageVars
<1>19. NoSessionForgotten'
    BY NoSessionForgottenKept DEF IInv, TypeOK, NewTab, navVars, pageVars, trailVars,
       loadVars, imageVars
<1>20. NoDeadDocument'
    BY DEF IInv, TypeOK, NoDeadDocument, Tabs, TabTypes, Open, NewTab, UserTurn,
       navVars, pageVars, trailVars, loadVars, imageVars
<1>21. Landing'
    BY LandingKept DEF IInv, TypeOK, NewTab, navVars, pageVars, trailVars, loadVars,
       imageVars
<1> QED
    BY <1>11, <1>12, <1>13, <1>14, <1>15, <1>16, <1>17, <1>18, <1>19, <1>20, <1>21
       DEF IInv, TypeOK

(* The copied history is a tab's that no load was started in. *)
LEMMA DuplicateInv ==
    ASSUME IInv, NEW t \in Tab, Duplicate(t) PROVE IInv'
<1>11. TabTypes'
    BY DEF IInv, TypeOK, TabTypes, Duplicate, UserTurn, CopyTrail, navVars,
       loadVars, imageVars
<1>12. LoadTypes'
    BY LoadTypesKept DEF IInv, TypeOK, Duplicate, navVars, loadVars, imageVars
<1>13. ScreenTypes'
    BY DEF IInv, TypeOK, ScreenTypes, TabTypes, Duplicate, UserTurn, CopyTrail,
       navVars, loadVars, imageVars
<1>14. Tabs'
    BY SMTT(30) DEF IInv, TypeOK, Tabs, TabTypes, Loads, Duplicate, UserTurn, CopyTrail,
       navVars, loadVars, imageVars
<1>15. OnePlace'
    BY OnePlaceKept DEF IInv, TypeOK, Duplicate, navVars, loadVars, imageVars
<1>16. Serials' BY SerialsKept DEF IInv, TypeOK, Duplicate, navVars, loadVars, imageVars
<1>17. Painting'
    BY PaintingKept DEF IInv, TypeOK, Duplicate, navVars, loadVars, imageVars
<1>18. Unbuilt' BY UnbuiltKept DEF IInv, TypeOK, Duplicate, navVars, loadVars, imageVars
<1>19. NoSessionForgotten'
    BY NoSessionForgottenKept DEF IInv, TypeOK, Duplicate, navVars,
       loadVars, imageVars
<1>20. NoDeadDocument'
    BY DEF IInv, TypeOK, NoDeadDocument, Tabs, TabTypes, Open, Duplicate, UserTurn,
       CopyTrail, navVars, loadVars, imageVars
<1>21. Landing'
    <2>1. \A u \in Tab : strip[u] # "unused" => trail'[u] = trail[u] /\ cursor'[u] = cursor[u]
        BY DEF IInv, TypeOK, TabTypes, Duplicate, CopyTrail
    <2>2. UNCHANGED <<loads, running, queue, drain, serial>>
        BY DEF Duplicate, loadVars, navVars
    <2>3. \A l \in Loads : loads[l].tab \in Tab /\ strip[loads[l].tab] # "unused"
        BY LoadFacts DEF IInv, Tabs
    <2>4. ASSUME NEW l \in Loads
          PROVE  /\ trail'[loads[l].tab] = trail[loads[l].tab]
                 /\ cursor'[loads[l].tab] = cursor[loads[l].tab]
        BY <2>1, <2>3
    <2>5. ASSUME NEW r, r.load \in Loads
          PROVE  Lands(r)' = Lands(r) /\ Aims(r)' = Aims(r)
        BY <2>2, <2>4, <2>5 DEF Aims, Lands
    <2>6. /\ \A r \in running : r.load \in Loads
          /\ \A i \in DOMAIN queue : queue[i].asked.load \in Loads
          /\ drain.at = "install" => drain.result.asked.load \in Loads
        BY DEF IInv, OnePlace
    <2>7. (\A r \in running : Aims(r))'
        BY <2>2, <2>5, <2>6 DEF IInv, Landing
    <2>8. (\A i \in DOMAIN queue : Aims(queue[i].asked))'
        BY <2>2, <2>5, <2>6 DEF IInv, Landing
    <2>9. (drain.at = "install" /\ drain.result.asked.delta # 0
             => Lands(drain.result.asked))'
        BY <2>2, <2>5, <2>6 DEF IInv, Landing
    <2> QED BY <2>7, <2>8, <2>9 DEF Landing
<1> QED
    BY <1>11, <1>12, <1>13, <1>14, <1>15, <1>16, <1>17, <1>18, <1>19, <1>20, <1>21
       DEF IInv, TypeOK

(* Only the closed tab's own session ends. *)
LEMMA CloseInv ==
    ASSUME IInv, NEW t \in Tab, Close(t) PROVE IInv'
<1>11. TabTypes'
    BY TabTypesKept DEF IInv, TypeOK, Close, tabVars, navVars, pageVars, trailVars,
       imageVars
<1>12. LoadTypes'
    BY DEF IInv, TypeOK, LoadTypes, Loads, Close, UserTurn, Open, tabVars, navVars,
       pageVars, trailVars, imageVars
<1>13. ScreenTypes'
    BY DEF IInv, TypeOK, ScreenTypes, TabTypes, Close, UserTurn, Open, tabVars,
       navVars, pageVars, trailVars, imageVars
<1>14. Tabs'
    BY DEF IInv, TypeOK, Tabs, Loads, Close, UserTurn, Open, tabVars, navVars,
       pageVars, trailVars, imageVars
<1>15. OnePlace'
    BY OnePlaceKept DEF IInv, TypeOK, Close, tabVars, navVars, pageVars, trailVars,
       imageVars
<1>16. Serials'
    BY SerialsKept DEF IInv, TypeOK, Close, tabVars, navVars, pageVars, trailVars,
       imageVars
<1>17. Painting'
    BY PaintingKept DEF IInv, TypeOK, Close, tabVars, navVars, pageVars, trailVars,
       imageVars
<1>18. Unbuilt'
    BY DEF IInv, TypeOK, Unbuilt, Close, UserTurn, Open, tabVars, navVars, pageVars,
       trailVars, imageVars
<1>19. NoSessionForgotten'
    BY DEF IInv, TypeOK, NoSessionForgotten, Close, UserTurn, Open, tabVars,
       navVars, pageVars, trailVars, imageVars
<1>20. NoDeadDocument'
    BY DEF IInv, TypeOK, NoDeadDocument, Tabs, Close, UserTurn, Open, tabVars,
       navVars, pageVars, trailVars, imageVars
<1>21. Landing'
    BY LandingKept DEF IInv, TypeOK, Close, tabVars, navVars, pageVars, trailVars,
       imageVars
<1> QED
    BY <1>11, <1>12, <1>13, <1>14, <1>15, <1>16, <1>17, <1>18, <1>19, <1>20, <1>21
       DEF IInv, TypeOK

(* The closed tab's document, dead by now, is an open tab's no more. *)
LEMMA RemoveInv ==
    ASSUME IInv, Remove PROVE IInv'
<1> DEFINE left == Open \ {chrome.tab}
<1>1. chrome.tab \in Tab /\ active \in Tab /\ chrome.at = "remove"
    BY DEF IInv, TypeOK, TabTypes, ScreenTypes, Tabs, Remove
<1>2. /\ strip' = [strip EXCEPT ![chrome.tab] = "closed"]
      /\ chrome' = IF left = {} THEN AtRest
                   ELSE [at |-> "present", tab |-> active', layer |-> layer[active']]
    BY DEF Remove
<1>3. /\ active' \in Tab \cup {NoTab}
      /\ left # {} => active' \in Tab
      /\ active' # NoTab => active' = active \/ (strip[active'] = "open" /\ active' # chrome.tab)
    BY <1>1 DEF Remove, Open
<1>11. TabTypes'
    BY DEF IInv, TypeOK, TabTypes, Remove, Open, AtRest, navVars, pageVars,
       trailVars, loadVars, imageVars
<1>12. LoadTypes'
    BY LoadTypesKept DEF IInv, TypeOK, Remove, navVars, pageVars, trailVars,
       loadVars, imageVars
<1>13. ScreenTypes'
    <2>1. chrome' \in [at : {"idle", "remove", "present", "presentCopy", "load"},
                      tab : Tab \cup {NoTab}, layer : 0..Len(loads)]
        <3>1. layer \in [Tab -> 0..Len(loads)] /\ Len(loads) \in Nat
            BY DEF IInv, TypeOK, TabTypes, LoadTypes
        <3>2. AtRest \in [at : {"idle", "remove", "present", "presentCopy", "load"},
                          tab : Tab \cup {NoTab}, layer : 0..Len(loads)]
            BY <3>1 DEF AtRest
        <3>3. ASSUME left # {} PROVE layer[active'] \in 0..Len(loads) /\ active' \in Tab
            BY <3>1, <3>3, <1>3
        <3> HIDE DEF left
        <3> QED BY <1>2, <3>2, <3>3
    <2> QED BY <2>1 DEF IInv, TypeOK, ScreenTypes, Remove, imageVars, loadVars
<1>14. Tabs'
    <2>1. UNCHANGED <<loads, session, url>>
        BY DEF Remove, loadVars, pageVars
    <2>2. \A u \in Tab : strip'[u] = "unused" => strip[u] = "unused"
        BY <1>1, <1>2 DEF IInv, TypeOK, TabTypes
    <2>3. active' # NoTab => strip'[active'] # "unused"
        BY <1>1, <1>2, <1>3, <2>2 DEF IInv, Tabs, TypeOK, TabTypes
    <2>4. /\ chrome'.at # "idle" => active' # NoTab /\ chrome'.tab # NoTab
          /\ chrome'.at # "load"
        BY <1>2, <1>3 DEF AtRest
    <2> QED BY <2>1, <2>2, <2>3, <2>4, LoadFacts DEF IInv, Tabs, Loads
<1>15. OnePlace'
    BY OnePlaceKept DEF IInv, TypeOK, Remove, navVars, pageVars, trailVars,
       loadVars, imageVars
<1>16. Serials'
    BY SerialsKept DEF IInv, TypeOK, Remove, navVars, pageVars, trailVars, loadVars,
       imageVars
<1>17. Painting'
    BY PaintingKept DEF IInv, TypeOK, Remove, navVars, pageVars, trailVars,
       loadVars, imageVars
<1>18. Unbuilt'
    BY UnbuiltKept DEF IInv, TypeOK, Remove, navVars, pageVars, trailVars, loadVars,
       imageVars
<1>19. NoSessionForgotten'
    BY NoSessionForgottenKept DEF IInv, TypeOK, Remove, navVars, pageVars,
       trailVars, loadVars, imageVars
<1>20. NoDeadDocument'
    BY <1>1 DEF IInv, TypeOK, NoDeadDocument, TabTypes, Remove, Open, AtRest,
       navVars, pageVars, trailVars, loadVars, imageVars
<1>21. Landing'
    BY LandingKept DEF IInv, TypeOK, Remove, navVars, pageVars, trailVars, loadVars,
       imageVars
<1> QED
    BY <1>11, <1>12, <1>13, <1>14, <1>15, <1>16, <1>17, <1>18, <1>19, <1>20, <1>21
       DEF IInv, TypeOK

(* The screen is no part of the argument. *)
LEMMA PresentInv ==
    ASSUME IInv, Present PROVE IInv'
<1>11. TabTypes'
    BY TabTypesKept DEF IInv, TypeOK, Present, tabVars, navVars, pageVars,
       trailVars, loadVars, imageVars
<1>12. LoadTypes'
    BY LoadTypesKept DEF IInv, TypeOK, Present, tabVars, navVars, pageVars,
       trailVars, loadVars, imageVars
<1>13. ScreenTypes'
    BY DEF IInv, TypeOK, ScreenTypes, Present, AtRest, tabVars, navVars, pageVars,
       trailVars, loadVars, imageVars
<1>14. Tabs'
    BY DEF IInv, TypeOK, Tabs, Loads, ScreenTypes, Present, AtRest, tabVars,
       navVars, pageVars, trailVars, loadVars, imageVars
<1>15. OnePlace'
    BY OnePlaceKept DEF IInv, TypeOK, Present, tabVars, navVars, pageVars,
       trailVars, loadVars, imageVars
<1>16. Serials'
    BY SerialsKept DEF IInv, TypeOK, Present, tabVars, navVars, pageVars, trailVars,
       loadVars, imageVars
<1>17. Painting'
    BY PaintingKept DEF IInv, TypeOK, Present, tabVars, navVars, pageVars,
       trailVars, loadVars, imageVars
<1>18. Unbuilt'
    BY UnbuiltKept DEF IInv, TypeOK, Present, tabVars, navVars, pageVars, trailVars,
       loadVars, imageVars
<1>19. NoSessionForgotten'
    BY NoSessionForgottenKept DEF IInv, TypeOK, Present, tabVars, navVars, pageVars,
       trailVars, loadVars, imageVars
<1>20. NoDeadDocument'
    BY DEF IInv, TypeOK, NoDeadDocument, Open, ScreenTypes, Present, AtRest,
       tabVars, navVars, pageVars, trailVars, loadVars, imageVars
<1>21. Landing'
    BY LandingKept DEF IInv, TypeOK, Present, tabVars, navVars, pageVars, trailVars,
       loadVars, imageVars
<1> QED
    BY <1>11, <1>12, <1>13, <1>14, <1>15, <1>16, <1>17, <1>18, <1>19, <1>20, <1>21
       DEF IInv, TypeOK

(* A load that brought nothing leaves no session behind. *)
LEMMA InstallNothingInv ==
    ASSUME IInv, InstallNothing PROVE IInv'
<1>11. TabTypes'
    BY TabTypesKept DEF IInv, TypeOK, InstallNothing, tabVars, navVars, pageVars,
       trailVars, loadVars, imageVars
<1>12. LoadTypes'
    BY DEF IInv, TypeOK, LoadTypes, Loads, InstallNothing, Idle, tabVars, navVars,
       pageVars, trailVars, loadVars, imageVars
<1>13. ScreenTypes'
    BY ScreenTypesKept DEF IInv, TypeOK, InstallNothing, tabVars, navVars, pageVars,
       trailVars, loadVars, imageVars
<1>14. Tabs'
    BY TabsKept DEF IInv, TypeOK, InstallNothing, tabVars, navVars, pageVars,
       trailVars, loadVars, imageVars
<1>15. OnePlace'
    BY DEF IInv, TypeOK, OnePlace, Loads, InstallNothing, Idle, tabVars, navVars,
       pageVars, trailVars, loadVars, imageVars
<1>16. Serials'
    BY DEF IInv, TypeOK, Serials, Loads, InstallNothing, Idle, tabVars, navVars,
       pageVars, trailVars, loadVars, imageVars
<1>17. Painting'
    BY PaintingKept DEF IInv, TypeOK, InstallNothing, tabVars, navVars, pageVars,
       trailVars, loadVars, imageVars
<1>18. Unbuilt'
    BY DEF IInv, TypeOK, Unbuilt, InstallNothing, Idle, tabVars, navVars, pageVars,
       trailVars, loadVars, imageVars
<1>19. NoSessionForgotten'
    BY DEF IInv, TypeOK, NoSessionForgotten, Unbuilt, InstallNothing, Idle, tabVars,
       navVars, pageVars, trailVars, loadVars, imageVars
<1>20. NoDeadDocument'
    BY NoDeadDocumentKept DEF IInv, TypeOK, InstallNothing, tabVars, navVars,
       pageVars, trailVars, loadVars, imageVars
<1>21. Landing'
    BY DEF IInv, TypeOK, Landing, Aims, Lands, InstallNothing, Idle, tabVars,
       navVars, pageVars, trailVars, loadVars, imageVars
<1> QED
    BY <1>11, <1>12, <1>13, <1>14, <1>15, <1>16, <1>17, <1>18, <1>19, <1>20, <1>21
       DEF IInv, TypeOK

(* By then the document is the tab's. *)
LEMMA ShowInv ==
    ASSUME IInv, Show PROVE IInv'
<1>1. drain.result.asked.load \in Loads /\ Loads = 1..Len(loads) /\ Len(loads) \in Nat
    BY DEF IInv, TypeOK, LoadTypes, Show, OnePlace, Loads
<1>11. TabTypes'
    BY TabTypesKept DEF IInv, TypeOK, Show, tabVars, navVars, pageVars, trailVars,
       loadVars
<1>12. LoadTypes'
    BY DEF IInv, TypeOK, LoadTypes, Loads, OnePlace, Show, MayFetch, Idle, tabVars,
       navVars, pageVars, trailVars, loadVars
<1>13. ScreenTypes'
    BY <1>1, LoadFacts DEF IInv, TypeOK, ScreenTypes, OnePlace, Loads, Show,
       MayFetch, Idle, tabVars, navVars, pageVars, trailVars, loadVars
<1>14. Tabs'
    BY TabsKept DEF IInv, TypeOK, Show, tabVars, navVars, pageVars, trailVars,
       loadVars
<1>15. OnePlace'
    BY DEF IInv, TypeOK, OnePlace, Loads, Show, MayFetch, Idle, tabVars, navVars,
       pageVars, trailVars, loadVars
<1>16. Serials'
    BY DEF IInv, TypeOK, Serials, Loads, Show, MayFetch, Idle, tabVars, navVars,
       pageVars, trailVars, loadVars
<1>17. Painting'
    BY PaintingKept DEF IInv, TypeOK, Show, tabVars, navVars, pageVars, trailVars,
       loadVars
<1>18. Unbuilt'
    BY DEF IInv, TypeOK, Unbuilt, Show, MayFetch, Idle, tabVars, navVars, pageVars,
       trailVars, loadVars
<1>19. NoSessionForgotten'
    BY DEF IInv, TypeOK, NoSessionForgotten, Show, MayFetch, Idle, tabVars, navVars,
       pageVars, trailVars, loadVars
<1>20. NoDeadDocument'
    BY NoDeadDocumentKept DEF IInv, TypeOK, Show, tabVars, navVars, pageVars,
       trailVars, loadVars
<1>21. Landing'
    BY DEF IInv, TypeOK, Landing, Aims, Lands, Show, MayFetch, Idle, tabVars,
       navVars, pageVars, trailVars, loadVars
<1> QED
    BY <1>11, <1>12, <1>13, <1>14, <1>15, <1>16, <1>17, <1>18, <1>19, <1>20, <1>21
       DEF IInv, TypeOK

(* Images move no document. *)
LEMMA TakeImagesInv ==
    ASSUME IInv, NEW l \in Loads, TakeImages(l) PROVE IInv'
<1>11. TabTypes'
    BY TabTypesKept DEF IInv, TypeOK, TakeImages, tabVars, navVars, pageVars,
       trailVars, loadVars
<1>12. LoadTypes'
    BY DEF IInv, TypeOK, LoadTypes, Loads, TakeImages, Newest, Resting, tabVars,
       navVars, pageVars, trailVars, loadVars
<1>13. ScreenTypes'
    BY DEF IInv, TypeOK, ScreenTypes, LoadTypes, Loads, TakeImages, Newest, Resting,
       tabVars, navVars, pageVars, trailVars, loadVars
<1>14. Tabs'
    BY TabsKept DEF IInv, TypeOK, TakeImages, tabVars, navVars, pageVars, trailVars,
       loadVars
<1>15. OnePlace'
    BY OnePlaceKept DEF IInv, TypeOK, TakeImages, tabVars, navVars, pageVars,
       trailVars, loadVars
<1>16. Serials'
    BY SerialsKept DEF IInv, TypeOK, TakeImages, tabVars, navVars, pageVars,
       trailVars, loadVars
<1>17. Painting'
    BY DEF IInv, TypeOK, Painting, Loads, TakeImages, Newest, Resting, tabVars,
       navVars, pageVars, trailVars, loadVars
<1>18. Unbuilt'
    BY UnbuiltKept DEF IInv, TypeOK, TakeImages, tabVars, navVars, pageVars,
       trailVars, loadVars
<1>19. NoSessionForgotten'
    BY NoSessionForgottenKept DEF IInv, TypeOK, TakeImages, tabVars, navVars,
       pageVars, trailVars, loadVars
<1>20. NoDeadDocument'
    BY NoDeadDocumentKept DEF IInv, TypeOK, TakeImages, tabVars, navVars, pageVars,
       trailVars, loadVars
<1>21. Landing'
    BY LandingKept DEF IInv, TypeOK, TakeImages, tabVars, navVars, pageVars,
       trailVars, loadVars
<1> QED
    BY <1>11, <1>12, <1>13, <1>14, <1>15, <1>16, <1>17, <1>18, <1>19, <1>20, <1>21
       DEF IInv, TypeOK

(* The same for painting them. *)
LEMMA PaintImagesInv ==
    ASSUME IInv, PaintImages PROVE IInv'
<1>1. loads[painter.load].tab \in Tab
    BY LoadFacts DEF IInv, Painting, PaintImages
<1>11. TabTypes'
    BY TabTypesKept DEF IInv, TypeOK, PaintImages, tabVars, navVars, pageVars,
       trailVars, loadVars
<1>12. LoadTypes'
    BY LoadTypesKept DEF IInv, TypeOK, PaintImages, tabVars, navVars, pageVars,
       trailVars, loadVars
<1>13. ScreenTypes'
    <2>1. session[loads[painter.load].tab] \in 0..Len(loads)
        BY <1>1 DEF IInv, TypeOK, TabTypes
    <2>3. 0 \in 0..Len(loads)
        BY DEF IInv, TypeOK, LoadTypes
    <2>2. painter' \in [at : {"idle", "paint", "attach", "show"}, load : 0..Len(loads),
                       depicts : 0..Len(loads)]
        BY <2>1, <2>3 DEF IInv, TypeOK, ScreenTypes, PaintImages, Resting
    <2> QED BY <2>2 DEF IInv, TypeOK, ScreenTypes, PaintImages, loadVars
<1>14. Tabs'
    BY TabsKept DEF IInv, TypeOK, PaintImages, tabVars, navVars, pageVars,
       trailVars, loadVars
<1>15. OnePlace'
    BY OnePlaceKept DEF IInv, TypeOK, PaintImages, tabVars, navVars, pageVars,
       trailVars, loadVars
<1>16. Serials'
    BY SerialsKept DEF IInv, TypeOK, PaintImages, tabVars, navVars, pageVars,
       trailVars, loadVars
<1>17. Painting'
    <2>1. painter' = Resting \/ painter'.load = painter.load
        BY DEF IInv, TypeOK, ScreenTypes, PaintImages
    <2> QED BY <2>1 DEF IInv, Painting, PaintImages, Resting, Loads, loadVars
<1>18. Unbuilt'
    BY UnbuiltKept DEF IInv, TypeOK, PaintImages, tabVars, navVars, pageVars,
       trailVars, loadVars
<1>19. NoSessionForgotten'
    BY NoSessionForgottenKept DEF IInv, TypeOK, PaintImages, tabVars, navVars,
       pageVars, trailVars, loadVars
<1>20. NoDeadDocument'
    BY NoDeadDocumentKept DEF IInv, TypeOK, PaintImages, tabVars, navVars, pageVars,
       trailVars, loadVars
<1>21. Landing'
    BY LandingKept DEF IInv, TypeOK, PaintImages, tabVars, navVars, pageVars,
       trailVars, loadVars
<1> QED
    BY <1>11, <1>12, <1>13, <1>14, <1>15, <1>16, <1>17, <1>18, <1>19, <1>20, <1>21
       DEF IInv, TypeOK

(* The same for attaching them to the layer. *)
LEMMA AttachImagesInv ==
    ASSUME IInv, AttachImages PROVE IInv'
<1>1. loads[painter.load].tab \in Tab
    BY LoadFacts DEF IInv, Painting, AttachImages
<1>2. 0 \in 0..Len(loads)
    BY DEF IInv, TypeOK, LoadTypes
<1>11. TabTypes'
    BY <1>1 DEF IInv, TypeOK, TabTypes, ScreenTypes, AttachImages, Resting, tabVars,
       navVars, trailVars, loadVars
<1>12. LoadTypes'
    BY LoadTypesKept DEF IInv, TypeOK, AttachImages, tabVars, navVars, trailVars,
       loadVars
<1>13. ScreenTypes'
    <2>1. painter' \in [at : {"idle", "paint", "attach", "show"}, load : 0..Len(loads),
                       depicts : 0..Len(loads)]
        BY <1>2 DEF IInv, TypeOK, ScreenTypes, AttachImages, Resting
    <2>2. screen' \in [tab : Tab \cup {NoTab}, layer : 0..Len(loads)]
        BY DEF IInv, TypeOK, ScreenTypes, AttachImages
    <2> QED BY <2>1, <2>2 DEF IInv, TypeOK, ScreenTypes, AttachImages, loadVars
<1>14. Tabs'
    BY TabsKept DEF IInv, TypeOK, AttachImages, tabVars, navVars, trailVars,
       loadVars
<1>15. OnePlace'
    BY OnePlaceKept DEF IInv, TypeOK, AttachImages, tabVars, navVars, trailVars,
       loadVars
<1>16. Serials'
    BY SerialsKept DEF IInv, TypeOK, AttachImages, tabVars, navVars, trailVars,
       loadVars
<1>17. Painting'
    BY DEF IInv, TypeOK, Painting, Loads, ScreenTypes, AttachImages, Resting,
       tabVars, navVars, trailVars, loadVars
<1>18. Unbuilt'
    BY UnbuiltKept DEF IInv, TypeOK, AttachImages, tabVars, navVars, trailVars,
       loadVars
<1>19. NoSessionForgotten'
    BY NoSessionForgottenKept DEF IInv, TypeOK, AttachImages, tabVars, navVars,
       trailVars, loadVars
<1>20. NoDeadDocument'
    BY NoDeadDocumentKept DEF IInv, TypeOK, AttachImages, tabVars, navVars,
       trailVars, loadVars
<1>21. Landing'
    BY LandingKept DEF IInv, TypeOK, AttachImages, tabVars, navVars, trailVars,
       loadVars
<1> QED
    BY <1>11, <1>12, <1>13, <1>14, <1>15, <1>16, <1>17, <1>18, <1>19, <1>20, <1>21
       DEF IInv, TypeOK

(* The same for showing it. *)
LEMMA ShowImagesInv ==
    ASSUME IInv, ShowImages PROVE IInv'
<1>1. loads[painter.load].tab \in Tab
    BY LoadFacts DEF IInv, Painting, ShowImages
<1>11. TabTypes'
    BY TabTypesKept DEF IInv, TypeOK, ShowImages, tabVars, navVars, pageVars,
       trailVars, loadVars
<1>12. LoadTypes'
    BY LoadTypesKept DEF IInv, TypeOK, ShowImages, tabVars, navVars, pageVars,
       trailVars, loadVars
<1>13. ScreenTypes'
    BY <1>1 DEF IInv, TypeOK, ScreenTypes, TabTypes, ShowImages, Resting, tabVars,
       navVars, pageVars, trailVars, loadVars
<1>14. Tabs'
    BY TabsKept DEF IInv, TypeOK, ShowImages, tabVars, navVars, pageVars, trailVars,
       loadVars
<1>15. OnePlace'
    BY OnePlaceKept DEF IInv, TypeOK, ShowImages, tabVars, navVars, pageVars,
       trailVars, loadVars
<1>16. Serials'
    BY SerialsKept DEF IInv, TypeOK, ShowImages, tabVars, navVars, pageVars,
       trailVars, loadVars
<1>17. Painting'
    BY DEF IInv, TypeOK, Painting, Loads, ScreenTypes, ShowImages, Resting, tabVars,
       navVars, pageVars, trailVars, loadVars
<1>18. Unbuilt'
    BY UnbuiltKept DEF IInv, TypeOK, ShowImages, tabVars, navVars, pageVars,
       trailVars, loadVars
<1>19. NoSessionForgotten'
    BY NoSessionForgottenKept DEF IInv, TypeOK, ShowImages, tabVars, navVars,
       pageVars, trailVars, loadVars
<1>20. NoDeadDocument'
    BY NoDeadDocumentKept DEF IInv, TypeOK, ShowImages, tabVars, navVars, pageVars,
       trailVars, loadVars
<1>21. Landing'
    BY LandingKept DEF IInv, TypeOK, ShowImages, tabVars, navVars, pageVars,
       trailVars, loadVars
<1> QED
    BY <1>11, <1>12, <1>13, <1>14, <1>15, <1>16, <1>17, <1>18, <1>19, <1>20, <1>21
       DEF IInv, TypeOK

(* Shutdown begins. *)
LEMMA QuitInv ==
    ASSUME IInv, Quit PROVE IInv'
<1>11. TabTypes'
    BY TabTypesKept DEF IInv, TypeOK, Quit, tabVars, navVars, pageVars, trailVars,
       loadVars, imageVars
<1>12. LoadTypes'
    BY LoadTypesKept DEF IInv, TypeOK, Quit, tabVars, navVars, pageVars, trailVars,
       loadVars, imageVars
<1>13. ScreenTypes'
    BY DEF IInv, TypeOK, ScreenTypes, Quit, tabVars, navVars, pageVars, trailVars,
       loadVars, imageVars
<1>14. Tabs'
    BY TabsKept DEF IInv, TypeOK, Quit, tabVars, navVars, pageVars, trailVars,
       loadVars, imageVars
<1>15. OnePlace'
    BY OnePlaceKept DEF IInv, TypeOK, Quit, tabVars, navVars, pageVars, trailVars,
       loadVars, imageVars
<1>16. Serials'
    BY SerialsKept DEF IInv, TypeOK, Quit, tabVars, navVars, pageVars, trailVars,
       loadVars, imageVars
<1>17. Painting'
    BY PaintingKept DEF IInv, TypeOK, Quit, tabVars, navVars, pageVars, trailVars,
       loadVars, imageVars
<1>18. Unbuilt'
    BY UnbuiltKept DEF IInv, TypeOK, Quit, tabVars, navVars, pageVars, trailVars,
       loadVars, imageVars
<1>19. NoSessionForgotten'
    BY NoSessionForgottenKept DEF IInv, TypeOK, Quit, tabVars, navVars, pageVars,
       trailVars, loadVars, imageVars
<1>20. NoDeadDocument'
    BY DEF IInv, TypeOK, NoDeadDocument, Open, Quit, tabVars, navVars, pageVars,
       trailVars, loadVars, imageVars
<1>21. Landing'
    BY LandingKept DEF IInv, TypeOK, Quit, tabVars, navVars, pageVars, trailVars,
       loadVars, imageVars
<1> QED
    BY <1>11, <1>12, <1>13, <1>14, <1>15, <1>16, <1>17, <1>18, <1>19, <1>20, <1>21
       DEF IInv, TypeOK

(* The loads are joined. *)
LEMMA JoinInv ==
    ASSUME IInv, Join PROVE IInv'
<1>11. TabTypes'
    BY TabTypesKept DEF IInv, TypeOK, Join, tabVars, navVars, pageVars, trailVars,
       loadVars, imageVars
<1>12. LoadTypes'
    BY LoadTypesKept DEF IInv, TypeOK, Join, tabVars, navVars, pageVars, trailVars,
       loadVars, imageVars
<1>13. ScreenTypes'
    BY DEF IInv, TypeOK, ScreenTypes, Join, tabVars, navVars, pageVars, trailVars,
       loadVars, imageVars
<1>14. Tabs'
    BY TabsKept DEF IInv, TypeOK, Join, tabVars, navVars, pageVars, trailVars,
       loadVars, imageVars
<1>15. OnePlace'
    BY OnePlaceKept DEF IInv, TypeOK, Join, tabVars, navVars, pageVars, trailVars,
       loadVars, imageVars
<1>16. Serials'
    BY SerialsKept DEF IInv, TypeOK, Join, tabVars, navVars, pageVars, trailVars,
       loadVars, imageVars
<1>17. Painting'
    BY PaintingKept DEF IInv, TypeOK, Join, tabVars, navVars, pageVars, trailVars,
       loadVars, imageVars
<1>18. Unbuilt'
    BY UnbuiltKept DEF IInv, TypeOK, Join, tabVars, navVars, pageVars, trailVars,
       loadVars, imageVars
<1>19. NoSessionForgotten'
    BY NoSessionForgottenKept DEF IInv, TypeOK, Join, tabVars, navVars, pageVars,
       trailVars, loadVars, imageVars
<1>20. NoDeadDocument'
    BY DEF IInv, TypeOK, NoDeadDocument, Open, Join, tabVars, navVars, pageVars,
       trailVars, loadVars, imageVars
<1>21. Landing'
    BY LandingKept DEF IInv, TypeOK, Join, tabVars, navVars, pageVars, trailVars,
       loadVars, imageVars
<1> QED
    BY <1>11, <1>12, <1>13, <1>14, <1>15, <1>16, <1>17, <1>18, <1>19, <1>20, <1>21
       DEF IInv, TypeOK

(* The program has released everything. *)
LEMMA ReleaseAllInv ==
    ASSUME IInv, ReleaseAll PROVE IInv'
<1>11. TabTypes'
    BY TabTypesKept DEF IInv, TypeOK, ReleaseAll, tabVars, navVars, pageVars,
       trailVars, imageVars
<1>12. LoadTypes'
    BY DEF IInv, TypeOK, LoadTypes, Loads, ReleaseAll, Open, tabVars, navVars,
       pageVars, trailVars, imageVars
<1>13. ScreenTypes'
    BY DEF IInv, TypeOK, ScreenTypes, ReleaseAll, Open, tabVars, navVars, pageVars,
       trailVars, imageVars
<1>14. Tabs'
    BY TabsKept DEF IInv, TypeOK, ReleaseAll, tabVars, navVars, pageVars, trailVars,
       imageVars
<1>15. OnePlace'
    BY OnePlaceKept DEF IInv, TypeOK, ReleaseAll, tabVars, navVars, pageVars,
       trailVars, imageVars
<1>16. Serials'
    BY SerialsKept DEF IInv, TypeOK, ReleaseAll, tabVars, navVars, pageVars,
       trailVars, imageVars
<1>17. Painting'
    BY PaintingKept DEF IInv, TypeOK, ReleaseAll, tabVars, navVars, pageVars,
       trailVars, imageVars
<1>18. Unbuilt'
    BY DEF IInv, TypeOK, Unbuilt, ReleaseAll, Open, tabVars, navVars, pageVars,
       trailVars, imageVars
<1>19. NoSessionForgotten'
    BY DEF IInv, TypeOK, NoSessionForgotten, ReleaseAll, Open, tabVars, navVars,
       pageVars, trailVars, imageVars
<1>20. NoDeadDocument'
    BY DEF IInv, TypeOK, NoDeadDocument, ReleaseAll, Open, tabVars, navVars,
       pageVars, trailVars, imageVars
<1>21. Landing'
    BY LandingKept DEF IInv, TypeOK, ReleaseAll, tabVars, navVars, pageVars,
       trailVars, imageVars
<1> QED
    BY <1>11, <1>12, <1>13, <1>14, <1>15, <1>16, <1>17, <1>18, <1>19, <1>20, <1>21
       DEF IInv, TypeOK
-----------------------------------------------------------------------------
(* The session of a tab is some load's. *)
LEMMA SessionFacts ==
    ASSUME IInv, NEW u \in Tab PROVE session[u] \in Loads \cup {0}
<1>1. session[u] \in 0..Len(loads) /\ Len(loads) \in Nat
    BY DEF IInv, TypeOK, TabTypes, LoadTypes
<1> QED BY <1>1 DEF Loads

(* What a send on navResults does to its contents. *)
LEMMA QueueSend ==
    ASSUME TypeOK, NEW x \in Result, queue' = Append(queue, x)
    PROVE  /\ queue' \in Seq(Result)
           /\ Len(queue) \in Nat
           /\ DOMAIN queue = 1..Len(queue)
           /\ DOMAIN queue' = 1..(Len(queue) + 1)
           /\ \A i \in 1..Len(queue) : queue'[i] = queue[i] /\ queue[i] \in Result
           /\ queue'[Len(queue) + 1] = x
<1>1. queue \in Seq(Result) BY DEF TypeOK, LoadTypes
<1> QED BY <1>1

(* What a receive does to them. *)
LEMMA QueueReceive ==
    ASSUME TypeOK, queue # <<>>, queue' = Tail(queue)
    PROVE  /\ queue' \in Seq(Result)
           /\ Len(queue) \in Nat \ {0}
           /\ DOMAIN queue = 1..Len(queue)
           /\ Head(queue) = queue[1] /\ queue[1] \in Result
           /\ DOMAIN queue' = 1..(Len(queue) - 1)
           /\ \A i \in DOMAIN queue' : i + 1 \in DOMAIN queue /\ queue'[i] = queue[i + 1]
<1>1. queue \in Seq(Result) BY DEF TypeOK, LoadTypes
<1> QED BY <1>1

(* What a result in the channel is. *)
LEMMA QueueFacts ==
    ASSUME IInv, NEW i \in DOMAIN queue
    PROVE  /\ queue[i] \in Result /\ queue[i].asked \in Request
           /\ queue[i].asked.load \in Loads
<1>1. queue \in Seq(Result) /\ i \in 1..Len(queue)
    BY DEF IInv, TypeOK, LoadTypes
<1>2. queue[i] \in Result
    BY <1>1, ElementOfSeq
<1> QED BY <1>2 DEF Result, IInv, OnePlace

(* A load that ends is waited for by the drain, with its session if it has one. *)
LEMMA LoadEndsInv ==
    ASSUME IInv, NEW r \in running, NEW got \in Outcome, NEW p \in Page,
           LoadEnds(r, got, p)
    PROVE  IInv'
<1> DEFINE x == [asked |-> r, got |-> got, page |-> p]
           n == Len(queue) + 1
<1>1. /\ r \in Request /\ r.load \in Loads /\ x \in Result
      /\ x.asked = r /\ x.got = got
    BY DEF IInv, TypeOK, LoadTypes, OnePlace, Result
<1>2. /\ running' = running \ {r}
      /\ live' = IF got = "page" THEN live \cup {r.load} ELSE live
      /\ queue' = Append(queue, x)
      /\ UNCHANGED <<strip, active, serial, loading, url, layer, session, trail, cursor,
                     loads, drain, chrome, fetching, painter, screen, quit>>
    BY DEF LoadEnds, tabVars, navVars, pageVars, trailVars, imageVars
<1>3. /\ n \in DOMAIN queue' /\ queue'[n] = x
      /\ \A i \in DOMAIN queue : i \in DOMAIN queue' /\ queue'[i] = queue[i]
      /\ \A i \in DOMAIN queue' : i = n \/ i \in DOMAIN queue
      /\ \A i \in DOMAIN queue : i # n
      /\ queue' \in Seq(Result)
    BY <1>1, <1>2, QueueSend DEF IInv
<1> HIDE DEF x, n
<1>11. TabTypes'
    BY <1>2, TabTypesKept DEF IInv, TypeOK, tabVars, navVars, pageVars, trailVars
<1>12. LoadTypes'
    BY <1>1, <1>2, <1>3 DEF IInv, TypeOK, LoadTypes, Loads
<1>13. ScreenTypes' BY <1>2, ScreenTypesKept DEF IInv, TypeOK
<1>14. Tabs' BY <1>2, TabsKept DEF IInv
<1>15. OnePlace'
    <2>1. ASSUME NEW s \in running'
          PROVE  /\ s.load \in Loads'
                 /\ \A u \in running' : u.load = s.load => u = s
                 /\ \A i \in DOMAIN queue' : queue'[i].asked.load # s.load
                 /\ drain'.at = "install" => drain'.result.asked.load # s.load
                 /\ \A t \in Tab : session'[t] # s.load
        BY <1>1, <1>2, <1>3 DEF IInv, OnePlace, Loads
    <2>2. ASSUME NEW i \in DOMAIN queue'
          PROVE  /\ queue'[i].asked.load \in Loads'
                 /\ \A j \in DOMAIN queue' :
                      queue'[i].asked.load = queue'[j].asked.load => i = j
                 /\ drain'.at = "install"
                      => drain'.result.asked.load # queue'[i].asked.load
                 /\ \A t \in Tab : session'[t] # queue'[i].asked.load
        BY <1>1, <1>2, <1>3 DEF IInv, OnePlace, Loads
    <2> QED BY <1>2, <2>1, <2>2 DEF IInv, OnePlace, Loads
<1>16. Serials' BY <1>2, SerialsKept DEF IInv
<1>17. Painting' BY <1>2, PaintingKept DEF IInv
<1>18. Unbuilt' BY <1>1, <1>2, <1>3 DEF IInv, OnePlace, Unbuilt
<1>19. NoSessionForgotten' BY <1>1, <1>2, <1>3 DEF IInv, NoSessionForgotten
<1>20. NoDeadDocument' BY <1>2 DEF IInv, NoDeadDocument, Open
<1>21. Landing'
    <2>1. \A s \in Request : Aims(s) => Aims(s)'
        BY <1>2 DEF Aims, Lands
    <2>2. \A i \in DOMAIN queue : queue[i].asked \in Request
        BY QueueFacts
    <2>3. \A s \in running : s \in Request
        BY DEF IInv, TypeOK, LoadTypes
    <2> QED BY <1>1, <1>2, <1>3, <2>1, <2>2, <2>3 DEF IInv, Landing, Lands
<1> QED BY <1>11, <1>12, <1>13, <1>14, <1>15, <1>16, <1>17, <1>18, <1>19, <1>20, <1>21
        DEF IInv, TypeOK

(* A result is installed if nothing newer was started in its tab, and       *)
(* otherwise dropped with its session.                                      *)
LEMMA TakeInv ==
    ASSUME IInv, Take PROVE IInv'
<1>0. PICK x \in Result : x = queue[1]
    BY QueueReceive DEF IInv, Take
<1> DEFINE l == x.asked.load
           t == loads[l].tab
<1>1. /\ queue # <<>> /\ queue' = Tail(queue) /\ drain.at = "idle"
      /\ UNCHANGED <<strip, active, serial, url, layer, session, trail, cursor, loads,
                     running, chrome, fetching, painter, screen, quit>>
    BY DEF Take, tabVars, pageVars, trailVars, imageVars
<1>2. /\ 1 \in DOMAIN queue /\ x \in Result /\ Head(queue) = x /\ queue' \in Seq(Result)
      /\ \A i \in DOMAIN queue' :
           i + 1 \in DOMAIN queue /\ i + 1 # 1 /\ queue'[i] = queue[i + 1]
      /\ \A i \in DOMAIN queue : i # 1 => i - 1 \in DOMAIN queue' /\ queue'[i - 1] = queue[i]
    BY <1>0, <1>1, QueueReceive DEF IInv
<1>3. \/ /\ strip[t] = "open" /\ serial[t] = loads[l].serial
         /\ loading' = [loading EXCEPT ![t] = FALSE]
         /\ drain' = [at |-> "install", result |-> x]
         /\ live' = live
      \/ live' = live \ {l} /\ loading' = loading /\ drain' = drain
    BY <1>2 DEF Take, Newest, Finished
<1>4. /\ l \in Loads /\ t \in Tab /\ loads[l].serial \in Nat
      /\ \A u \in Tab : session[u] # l
      /\ \A i \in DOMAIN queue' : queue'[i].asked.load # l
      /\ \A r \in running : r.load # l
    <2>1. l \in Loads BY <1>0, <1>2 DEF IInv, OnePlace
    <2> QED BY <1>0, <1>2, <2>1, LoadFacts DEF IInv, OnePlace
<1>5. \A i \in DOMAIN queue' : queue'[i] \in Result
    BY <1>2, ElementOfSeq
<1> HIDE DEF l, t
<1>11. TabTypes' BY <1>1, <1>3, <1>4 DEF IInv, TypeOK, TabTypes
<1>12. LoadTypes' BY <1>1, <1>2, <1>3 DEF IInv, TypeOK, LoadTypes, Loads
<1>13. ScreenTypes' BY <1>1, ScreenTypesKept DEF IInv, TypeOK
<1>14. Tabs' BY <1>1, TabsKept DEF IInv
<1>15. OnePlace'
    <2>1. drain'.at # "idle" => drain'.at = "install" /\ drain'.result.asked.load = l
        BY <1>1, <1>3 DEF l
    <2>2. ASSUME NEW i \in DOMAIN queue', NEW j \in DOMAIN queue',
                 queue'[i].asked.load = queue'[j].asked.load
          PROVE  i = j
        <3>1. /\ i \in Int /\ j \in Int
              /\ i + 1 \in DOMAIN queue /\ j + 1 \in DOMAIN queue
              /\ queue[i + 1].asked.load = queue[j + 1].asked.load
            BY <1>1, <1>2, <2>2, QueueReceive DEF IInv
        <3> QED BY <3>1 DEF IInv, OnePlace
    <2> QED BY <1>1, <1>2, <1>4, <2>1, <2>2 DEF IInv, OnePlace, Loads
<1>16. Serials'
    <2>1. CASE drain' = drain BY <1>1, <2>1, SerialsKept DEF IInv
    <2>2. CASE drain' = [at |-> "install", result |-> x] /\ serial[t] = loads[l].serial
        <3>1. ASSUME session[t] # 0 PROVE loads[session[t]].serial < loads[l].serial
            <4>1. /\ session[t] \in Loads /\ loads[session[t]].tab = t /\ session[t] # l
                BY <1>4, <3>1 DEF IInv, TypeOK, TabTypes, LoadTypes, Tabs, Loads
            <4>2. /\ loads[session[t]].serial <= serial[t]
                  /\ loads[session[t]].serial # loads[l].serial
                BY <4>1, <1>4 DEF IInv, Serials, t
            <4> QED BY <4>1, <4>2, <2>2, <1>4, LoadFacts
        <3> QED BY <1>1, <2>2, <3>1 DEF IInv, Serials, Loads, l, t
    <2> QED BY <1>3, <2>1, <2>2
<1>17. Painting' BY <1>1, PaintingKept DEF IInv
<1>18. Unbuilt'
    BY <1>0, <1>1, <1>2, <1>3 DEF IInv, Unbuilt, l
<1>19. NoSessionForgotten'
    <2>1. ASSUME NEW m \in live' PROVE m \in live /\ (drain' = drain => m # l)
        BY <1>3, <2>1, <1>1
    <2>2. \A m \in live : m # l /\ (\E i \in DOMAIN queue : queue[i].asked.load = m)
            => \E i \in DOMAIN queue' : queue'[i].asked.load = m
        BY <1>0, <1>2 DEF l
    <2>3. drain' # drain => drain'.at = "install" /\ drain'.result.asked.load = l
        BY <1>3 DEF l
    <2> QED BY <1>1, <2>1, <2>2, <2>3 DEF IInv, NoSessionForgotten
<1>20. NoDeadDocument'
    BY <1>1, <1>3, <1>4 DEF IInv, NoDeadDocument, Open
<1>21. Landing'
    <2>1. CASE drain' = drain
        <3>1. \A r \in running : Aims(r) => Aims(r)'
            BY <1>1, <2>1 DEF Aims, Lands
        <3>2. ASSUME NEW i \in DOMAIN queue' PROVE Aims(queue[i].asked)'
            <4>1. i + 1 \in DOMAIN queue /\ queue'[i] = queue[i + 1] BY <1>2
            <4>2. Aims(queue[i + 1].asked) BY <4>1 DEF IInv, Landing
            <4> QED BY <1>1, <2>1, <4>1, <4>2 DEF Aims, Lands
        <3>3. (drain.at = "install" /\ drain.result.asked.delta # 0
                => Lands(drain.result.asked))'
            BY <1>1, <2>1 DEF IInv, Landing, Lands
        <3> QED BY <1>1, <3>1, <3>2, <3>3 DEF IInv, Landing
    <2>2. CASE drain' = [at |-> "install", result |-> x] /\ serial[t] = loads[l].serial
        <3>1. drain'.at = "install" /\ drain'.result = x
            BY <2>2
        <3>2. x.asked.delta # 0 => Lands(x.asked)'
            <4>1. Aims(x.asked) BY <1>0, <1>2 DEF IInv, Landing
            <4> QED BY <1>1, <2>2, <4>1 DEF Aims, Lands, l, t
        <3>3. ASSUME NEW r \in Request, r.load \in Loads, r.load # l, Aims(r)
              PROVE  Aims(r)'
            <4>1. serial[loads[r.load].tab] = loads[r.load].serial => loads[r.load].tab # t
                BY <3>3, <2>2, <1>4 DEF IInv, Serials, t
            <4> QED BY <4>1, <3>1, <3>3, <1>1 DEF Aims, Lands, l, t
        <3>4. \A r \in running : Aims(r)'
            BY <3>3, <1>4 DEF IInv, TypeOK, LoadTypes, OnePlace, Landing
        <3>5. (\A i \in DOMAIN queue : Aims(queue[i].asked))'
            <4> SUFFICES ASSUME NEW i \in DOMAIN queue' PROVE Aims(queue[i].asked)'
                OBVIOUS
            <4>1. i + 1 \in DOMAIN queue /\ queue'[i] = queue[i + 1] BY <1>2
            <4>2. PICK r \in Request : r = queue[i + 1].asked /\ r.load \in Loads
                BY <4>1, QueueFacts
            <4>3. Aims(r) /\ r.load # l
                BY <1>4, <4>1, <4>2 DEF IInv, Landing
            <4>4. Aims(r)' BY <3>3, <4>2, <4>3
            <4> QED BY <4>1, <4>2, <4>4 DEF Aims, Lands
        <3> QED BY <1>1, <3>1, <3>2, <3>4, <3>5 DEF Landing
    <2> QED BY <1>3, <2>1, <2>2
<1> QED BY <1>11, <1>12, <1>13, <1>14, <1>15, <1>16, <1>17, <1>18, <1>19, <1>20, <1>21
        DEF IInv, TypeOK

(* What a result does to its tab's history: another tab's stays, and this   *)
(* one's stays if the cursor does.                                          *)
LEMMA CommitTrail ==
    ASSUME TabTypes, NEW t \in Tab, NEW r \in Request, NEW p \in Page, Commit(r, p, t)
    PROVE  /\ trail' \in [Tab -> Seq(Page)] /\ cursor' \in [Tab -> Nat]
           /\ \A u \in Tab :
                cursor'[u] \in (IF trail'[u] = <<>> THEN {0} ELSE DOMAIN trail'[u])
           /\ \A u \in Tab : u # t => trail'[u] = trail[u] /\ cursor'[u] = cursor[u]
           /\ cursor'[t] = cursor[t] => trail' = trail
<1> DEFINE s == trail[t]
           n == cursor[t]
           c == n + r.delta
<1>1. /\ s \in Seq(Page) /\ Len(s) \in Nat /\ DOMAIN s = 1..Len(s)
      /\ n \in 0..Len(s) /\ r.delta \in {-1, 0, 1}
      /\ trail \in [Tab -> Seq(Page)] /\ cursor \in [Tab -> Nat]
    <2>1. s \in Seq(Page) /\ n \in (IF s = <<>> THEN {0} ELSE DOMAIN s)
        BY DEF TabTypes
    <2>2. Len(s) \in Nat /\ DOMAIN s = 1..Len(s) /\ (s = <<>> => Len(s) = 0)
        BY <2>1, LenProperties
    <2>3. n \in 0..Len(s)
        BY <2>1, <2>2
    <2>4. r.delta \in {-1, 0, 1}
        BY DEF Request
    <2> QED BY <2>1, <2>2, <2>3, <2>4 DEF TabTypes
<1>5. \A u \in Tab : cursor[u] \in (IF trail[u] = <<>> THEN {0} ELSE DOMAIN trail[u])
    BY DEF TabTypes
<1>2. CASE ~r.keeps
    <2> DEFINE q == Append(SubSeq(s, 1, n), p)
    <2>1. /\ trail' = [trail EXCEPT ![t] = q]
          /\ cursor' = [cursor EXCEPT ![t] = n + 1]
        BY <1>1, <1>2 DEF Commit
    <2>2. SubSeq(s, 1, n) \in Seq(Page) /\ Len(SubSeq(s, 1, n)) = n
        <3>1. \A i \in 1..n : s[i] \in Page BY <1>1, ElementOfSeq
        <3> QED BY <1>1, <3>1, SubSeqProperties
    <2>3. q \in Seq(Page) /\ Len(q) = n + 1
        BY <2>2, <1>1, AppendProperties
    <2> HIDE DEF q
    <2>4. DOMAIN q = 1..(n + 1) /\ q # <<>> /\ n + 1 \in Nat /\ n + 1 # n
        BY <1>1, <2>3, LenProperties, EmptySeq
    <2>5. trail'[t] = q /\ cursor'[t] = n + 1
        BY <1>1, <2>1
    <2>6. trail' \in [Tab -> Seq(Page)] /\ cursor' \in [Tab -> Nat]
        BY <1>1, <2>1, <2>3, <2>4
    <2>7. \A u \in Tab : u # t => trail'[u] = trail[u] /\ cursor'[u] = cursor[u]
        BY <1>1, <2>1
    <2>8. n + 1 \in DOMAIN q
        BY <1>1, <2>4
    <2> QED BY <1>5, <2>4, <2>5, <2>6, <2>7, <2>8
<1>3. CASE r.keeps /\ Steps(r, t)
    <2> DEFINE q == [s EXCEPT ![c] = p]
    <2>1. /\ trail' = [trail EXCEPT ![t] = q]
          /\ cursor' = [cursor EXCEPT ![t] = c]
          /\ c \in 1..Len(s) /\ c # n
        BY <1>1, <1>3 DEF Commit, Steps
    <2>3. q \in Seq(Page) /\ Len(q) = Len(s)
        BY <1>1, <2>1, ExceptSeq
    <2> HIDE DEF q
    <2>4. DOMAIN q = 1..Len(s) /\ q # <<>> /\ c \in Nat
        BY <1>1, <2>1, <2>3, LenProperties, EmptySeq
    <2>5. trail'[t] = q /\ cursor'[t] = c
        BY <1>1, <2>1
    <2>6. trail' \in [Tab -> Seq(Page)] /\ cursor' \in [Tab -> Nat]
        BY <1>1, <2>1, <2>3, <2>4
    <2>7. \A u \in Tab : u # t => trail'[u] = trail[u] /\ cursor'[u] = cursor[u]
        BY <1>1, <2>1
    <2> QED BY <1>5, <2>1, <2>4, <2>5, <2>6, <2>7
<1>4. CASE r.keeps /\ ~Steps(r, t)
    BY <1>4 DEF Commit, TabTypes, trailVars
<1> QED BY <1>2, <1>3, <1>4

(* The document is the tab's now, and the session it replaces is closed;    *)
(* no other tab is touched.                                                 *)
LEMMA InstallInv ==
    ASSUME IInv, Install PROVE IInv'
<1>0. PICK r \in Result, l \in Loads, t \in Tab :
        drain.result = r /\ l = r.asked.load /\ t = loads[l].tab
    BY LoadFacts DEF IInv, TypeOK, LoadTypes, OnePlace, Install
<1>1. /\ drain.at = "install" /\ r.got # "none" /\ r.page \in Page
      /\ r.asked \in Request
      /\ layer' = [layer EXCEPT ![t] = l] /\ session' = [session EXCEPT ![t] = l]
      /\ url' = [url EXCEPT ![t] = r.page]
      /\ live' = (live \cup {l}) \ {session[t]}
      /\ Commit(r.asked, r.page, t) \/ (trail' = trail /\ cursor' = cursor)
      /\ UNCHANGED <<strip, active, serial, loading, loads, running, queue, chrome,
                     painter, screen, quit>>
    <2>1. /\ Replace(l, r.page, t) /\ r.got # "none" /\ drain.at = "install"
          /\ Commit(r.asked, r.page, t) \/ UNCHANGED trailVars
          /\ UNCHANGED <<tabVars, navVars, loads, running, queue, chrome, painter,
                         screen, quit>>
        BY <1>0 DEF Install
    <2>2. r.page \in Page /\ r.asked \in Request
        BY <1>0 DEF Result
    <2>3. /\ layer' = [layer EXCEPT ![t] = l] /\ session' = [session EXCEPT ![t] = l]
          /\ url' = [url EXCEPT ![t] = r.page]
          /\ live' = (live \cup {l}) \ {session[t]}
        BY <2>1 DEF Replace
    <2>4. UNCHANGED <<strip, active, serial, loading>>
        BY <2>1 DEF tabVars, navVars
    <2>5. Commit(r.asked, r.page, t) \/ (trail' = trail /\ cursor' = cursor)
        BY <2>1 DEF trailVars
    <2> QED BY <2>1, <2>2, <2>3, <2>4, <2>5
<1>2. /\ fetching' \subseteq fetching \cup {l}
      /\ \/ drain'.at = "show" /\ drain'.result = r
         \/ drain' = Idle /\ drain'.at = "idle"
      /\ drain' \in [at : {"idle", "install", "show"}, result : Result \cup {Nothing}]
    BY <1>0 DEF IInv, TypeOK, LoadTypes, Install, MayFetch, Idle
<1>3. /\ \A u \in Tab : u # t => trail'[u] = trail[u] /\ cursor'[u] = cursor[u]
      /\ cursor'[t] = cursor[t] => trail' = trail
      /\ trail' \in [Tab -> Seq(Page)] /\ cursor' \in [Tab -> Nat]
      /\ \A u \in Tab :
           cursor'[u] \in (IF trail'[u] = <<>> THEN {0} ELSE DOMAIN trail'[u])
    BY <1>1, CommitTrail DEF IInv, TypeOK, TabTypes
<1>4. /\ session \in [Tab -> 0..Len(loads)] /\ l \in 1..Len(loads)
      /\ \A u \in Tab : u # t => session'[u] = session[u]
      /\ session'[t] = l
    BY <1>1 DEF IInv, TypeOK, TabTypes, Loads
<1>5. /\ \A s \in running : s.load # l
      /\ \A i \in DOMAIN queue : queue[i].asked.load # l
      /\ \A u \in Tab : session[u] # l
    BY <1>0, <1>1 DEF IInv, OnePlace
<1>11. TabTypes'
    <2>1. /\ strip \in [Tab -> {"unused", "open", "closed"}] /\ active \in Tab \cup {NoTab}
          /\ serial \in [Tab -> Nat] /\ loading \in [Tab -> BOOLEAN]
          /\ layer \in [Tab -> 0..Len(loads)] /\ url \in [Tab -> Page \cup {NoPage}]
        BY DEF IInv, TypeOK, TabTypes
    <2>2. l \in 0..Len(loads)
        BY <1>4
    <2>3. /\ layer' \in [Tab -> 0..Len(loads)] /\ session' \in [Tab -> 0..Len(loads)]
          /\ url' \in [Tab -> Page \cup {NoPage}]
        BY <1>1, <1>4, <2>1, <2>2
    <2> QED BY <1>1, <1>3, <2>1, <2>3 DEF TabTypes
<1>12. LoadTypes'
    <2>1. drain'.result \in (IF drain'.at = "idle" THEN {Nothing} ELSE Result)
        BY <1>2 DEF Idle
    <2> QED BY <1>1, <1>2, <1>4, <2>1 DEF IInv, TypeOK, LoadTypes, Loads
<1>13. ScreenTypes' BY <1>1, ScreenTypesKept DEF IInv, TypeOK
<1>14. Tabs'
    <2>1. chrome.at = "load" => url'[chrome.tab] # NoPage
        BY <1>1 DEF IInv, TypeOK, TabTypes, ScreenTypes, Tabs
    <2>2. \A u \in Tab : session'[u] # 0 => loads[session'[u]].tab = u
        BY <1>0, <1>4 DEF IInv, Tabs
    <2>3. \A u \in Tab : strip[u] = "unused" => session'[u] = 0
        BY <1>0, <1>4 DEF IInv, Tabs
    <2> QED BY <1>1, <2>1, <2>2, <2>3 DEF IInv, Tabs, Loads
<1>15. OnePlace'
    <2>1. drain'.at # "install" /\ (drain'.at # "idle" => drain'.result.asked.load = l)
        BY <1>0, <1>2
    <2>2. \A u \in Tab : session'[u] = session[u] \/ session'[u] = l
        BY <1>4
    <2> QED BY <1>1, <1>5, <2>1, <2>2 DEF IInv, OnePlace, Loads
<1>16. Serials' BY <1>1, <1>2 DEF IInv, Serials, Loads
<1>17. Painting' BY <1>1, PaintingKept DEF IInv
<1>18. Unbuilt' BY <1>1, <1>2, <1>5 DEF IInv, Unbuilt
<1>19. NoSessionForgotten'
    <2>1. ASSUME NEW m \in live', m # l
          PROVE  \/ session'[loads[m].tab] = m
                 \/ \E i \in DOMAIN queue : queue[i].asked.load = m
        <3>1. m \in live /\ m # session[t] /\ loads[m].tab \in Tab
            BY <1>1, <2>1, LoadFacts DEF IInv, TypeOK, LoadTypes
        <3> QED BY <1>0, <1>4, <2>1, <3>1 DEF IInv, NoSessionForgotten
    <2> QED BY <1>0, <1>1, <1>4, <2>1 DEF NoSessionForgotten
<1>20. NoDeadDocument'
    <2>1. ASSUME NEW u \in Open, u # t, session[u] # 0
          PROVE  session[u] # session[t]
        BY <1>0, <2>1 DEF IInv, Tabs, Open
    <2> QED BY <1>1, <1>4, <1>5, <2>1 DEF IInv, NoDeadDocument, Open
<1>21. Landing'
    <2>1. ASSUME NEW s \in Request, s.load \in Loads, Aims(s) PROVE Aims(s)'
        <3>1. loads[s.load].tab \in Tab BY <2>1, LoadFacts
        <3> QED BY <1>0, <1>1, <1>2, <1>3, <2>1, <3>1 DEF Aims, Lands
    <2>2. \A s \in running : Aims(s)'
        BY <2>1 DEF IInv, TypeOK, LoadTypes, OnePlace, Landing
    <2>3. ASSUME NEW i \in DOMAIN queue PROVE Aims(queue[i].asked)'
        <3>1. PICK s \in Request : s = queue[i].asked /\ s.load \in Loads
            BY QueueFacts
        <3>2. Aims(s)' BY <2>1, <3>1 DEF IInv, Landing
        <3> QED BY <1>1, <3>1, <3>2 DEF Aims, Lands
    <2> QED BY <1>1, <1>2, <2>2, <2>3 DEF Landing
<1> QED BY <1>11, <1>12, <1>13, <1>14, <1>15, <1>16, <1>17, <1>18, <1>19, <1>20, <1>21
        DEF IInv, TypeOK

(* A load that starts is the newest of its tab, and a traversal starts from *)
(* where the cursor is.                                                     *)
LEMMA StartInv ==
    ASSUME IInv, active \in Tab,
           NEW p \in Page, NEW keeps \in BOOLEAN, NEW delta \in {-1, 0, 1}, NEW base \in Nat,
           Start(p, keeps, delta, base),
           delta # 0 => keeps,
           delta # 0 => /\ cursor[active] = base
                        /\ base + delta \in DOMAIN trail[active]
                        /\ trail[active][base + delta] = p,
           chrome' = chrome \/ (chrome.at # "remove" /\ chrome' = AtRest)
    PROVE  IInv'
<1>0. PICK t \in Tab, l \in Nat : t = active /\ l = Len(loads) + 1
    BY DEF IInv, TypeOK, LoadTypes
<1> DEFINE r == [load |-> l, goal |-> p, keeps |-> keeps, delta |-> delta, base |-> base]
<1>1. /\ loads' = Append(loads, [tab |-> t, serial |-> serial[t] + 1])
      /\ running' = running \cup {r}
      /\ serial' = [serial EXCEPT ![t] = @ + 1]
      /\ loading' = [loading EXCEPT ![t] = TRUE]
      /\ UNCHANGED <<strip, active, url, layer, session, trail, cursor, queue, live,
                     drain, fetching, painter, screen, quit>>
    BY <1>0 DEF Start, tabVars, pageVars, trailVars, imageVars
<1>2. /\ serial \in [Tab -> Nat] /\ serial[t] \in Nat
      /\ loads \in Seq([tab : Tab, serial : Nat]) /\ Len(loads) \in Nat
    BY SMTT(30) DEF IInv, TypeOK, TabTypes, LoadTypes
<1>3. /\ loads' \in Seq([tab : Tab, serial : Nat]) /\ Len(loads') = Len(loads) + 1
      /\ Loads' = Loads \cup {l} /\ l \notin Loads /\ l # 0
      /\ \A m \in Loads : loads'[m] = loads[m]
      /\ loads'[l].tab = t /\ loads'[l].serial = serial[t] + 1
    BY <1>0, <1>1, <1>2 DEF Loads
<1>4. r \in Request /\ r.load = l /\ r.delta = delta /\ r.base = base /\ r.goal = p
    BY <1>0 DEF Request
<1>5. \A m \in Loads : /\ loads[m].tab \in Tab /\ loads[m].serial \in Nat
                       /\ loads[m].serial <= serial[loads[m].tab]
    BY LoadFacts DEF IInv, Serials
<1> HIDE DEF r
<1>11. TabTypes'
    <2>1. 0..Len(loads) \subseteq 0..Len(loads')
        BY <1>2, <1>3
    <2>2. layer \in [Tab -> 0..Len(loads')] /\ session \in [Tab -> 0..Len(loads')]
        BY <2>1 DEF IInv, TypeOK, TabTypes
    <2>3. serial' \in [Tab -> Nat]
        BY <1>1, <1>2
    <2>4. loading' \in [Tab -> BOOLEAN]
        <3>1. loading \in [Tab -> BOOLEAN] BY DEF IInv, TypeOK, TabTypes
        <3> QED BY <1>1, <3>1
    <2> QED BY <1>1, <2>2, <2>3, <2>4 DEF IInv, TypeOK, TabTypes
<1>12. LoadTypes' BY <1>1, <1>3, <1>4 DEF IInv, TypeOK, LoadTypes
<1>13. ScreenTypes'
    <2>1. 0..Len(loads) \subseteq 0..Len(loads') /\ 0 \in 0..Len(loads')
        BY <1>2, <1>3
    <2>2. chrome' \in [at : {"idle", "remove", "present", "presentCopy", "load"},
                      tab : Tab \cup {NoTab}, layer : 0..Len(loads')]
        BY <2>1 DEF IInv, TypeOK, ScreenTypes, AtRest
    <2>3. painter \in [at : {"idle", "paint", "attach", "show"}, load : 0..Len(loads'),
                      depicts : 0..Len(loads')]
        BY <2>1 DEF IInv, TypeOK, ScreenTypes
    <2>4. screen \in [tab : Tab \cup {NoTab}, layer : 0..Len(loads')]
        BY <2>1 DEF IInv, TypeOK, ScreenTypes
    <2> QED BY <1>1, <2>2, <2>3, <2>4 DEF IInv, TypeOK, ScreenTypes
<1>14. Tabs'
    <2>1. chrome' = chrome \/ chrome'.at = "idle"
        BY DEF AtRest
    <2>2. \A u \in Tab : session[u] \in Loads \cup {0}
        BY SessionFacts
    <2>3. strip[t] # "unused"
        BY <1>0 DEF IInv, Tabs
    <2> QED BY <1>1, <1>3, <2>1, <2>2, <2>3 DEF IInv, Tabs
<1>15. OnePlace'
    <2>1. /\ \A s \in running : s.load # l
          /\ \A i \in DOMAIN queue : queue[i].asked.load # l
          /\ drain.at # "idle" => drain.result.asked.load # l
          /\ \A u \in Tab : session[u] # l
        BY <1>3, SessionFacts DEF IInv, OnePlace
    <2> QED BY <1>1, <1>3, <1>4, <2>1 DEF IInv, OnePlace
<1>16. Serials'
    <2>1. ASSUME NEW m \in Loads' PROVE loads'[m].serial <= serial'[loads'[m].tab]
        <3>1. \A u \in Tab : serial'[u] = serial[u] + (IF u = t THEN 1 ELSE 0) /\ serial[u] \in Nat
            BY <1>1, <1>2
        <3>2. CASE m = l BY <1>3, <3>1, <3>2
        <3>3. CASE m \in Loads
            <4>1. loads'[m] = loads[m] /\ loads[m].tab \in Tab
                  /\ loads[m].serial \in Nat /\ loads[m].serial <= serial[loads[m].tab]
                BY <1>3, <1>5, <3>3
            <4> QED BY <3>1, <4>1
        <3> QED BY <1>3, <3>2, <3>3
    <2>2. ASSUME NEW k \in Loads', NEW m \in Loads',
                 loads'[k].tab = loads'[m].tab, loads'[k].serial = loads'[m].serial
          PROVE  k = m
        <3>1. CASE k \in Loads /\ m \in Loads BY <1>3, <2>2, <3>1 DEF IInv, Serials
        <3>2. ASSUME NEW j \in Loads, loads'[j].tab = t
              PROVE  loads'[j].serial # loads'[l].serial
            <4>1. loads[j].tab = t BY <1>3, <3>2
            <4>2. loads[j].serial \in Nat /\ loads[j].serial <= serial[t]
                BY <1>5, <4>1
            <4>3. loads'[j].serial = loads[j].serial /\ loads'[l].serial = serial[t] + 1
                BY <1>3
            <4> QED BY <1>2, <4>2, <4>3
        <3> QED BY <1>3, <2>2, <3>1, <3>2
    <2>3. ASSUME drain.at = "install"
          PROVE  LET m == drain.result.asked.load
                     u == loads'[m].tab IN
                 session[u] # 0 => loads'[session[u]].serial < loads'[m].serial
        <3>1. drain.result.asked.load \in Loads
            BY <2>3 DEF IInv, OnePlace
        <3>2. \A u \in Tab : session[u] \in Loads \cup {0}
            BY SessionFacts
        <3> QED BY <1>3, <1>5, <2>3, <3>1, <3>2 DEF IInv, Serials
    <2> QED BY <1>1, <2>1, <2>2, <2>3 DEF Serials
<1>17. Painting' BY <1>1, <1>3 DEF IInv, Painting
<1>18. Unbuilt' BY <1>1, <1>3, <1>4 DEF IInv, TypeOK, LoadTypes, Unbuilt
<1>19. NoSessionForgotten'
    <2>1. \A m \in live : loads'[m] = loads[m]
        BY <1>3 DEF IInv, TypeOK, LoadTypes
    <2> QED BY <1>1, <2>1 DEF IInv, NoSessionForgotten
<1>20. NoDeadDocument' BY <1>1 DEF IInv, NoDeadDocument, Open, AtRest
<1>21. Landing'
    <2>1. ASSUME NEW s \in Request, s.load \in Loads, Aims(s) PROVE Aims(s)'
        <3>1. CASE loads[s.load].tab = t
            <4>1. loads'[s.load] = loads[s.load] /\ serial'[t] = serial[t] + 1
                  /\ loads[s.load].serial <= serial[t] /\ loads[s.load].serial \in Nat
                BY <1>1, <1>2, <1>3, <1>5, <2>1, <3>1
            <4> QED BY SMTT(30), <1>2, <3>1, <4>1 DEF Aims
        <3>2. CASE loads[s.load].tab # t
            <4>1. /\ loads'[s.load] = loads[s.load]
                  /\ serial'[loads[s.load].tab] = serial[loads[s.load].tab]
                BY <1>1, <1>2, <1>3, <1>5, <2>1, <3>2
            <4>2. drain.at = "install" =>
                    loads'[drain.result.asked.load] = loads[drain.result.asked.load]
                BY <1>3 DEF IInv, OnePlace
            <4> QED BY <1>1, <2>1, <4>1, <4>2 DEF Aims, Lands
        <3> QED BY <3>1, <3>2
    <2>2. Aims(r)'
        BY <1>0, <1>1, <1>3, <1>4 DEF Aims, Lands
    <2>3. \A s \in running : Aims(s)'
        BY <2>1 DEF IInv, TypeOK, LoadTypes, OnePlace, Landing
    <2>4. ASSUME NEW i \in DOMAIN queue PROVE Aims(queue[i].asked)'
        <3>1. PICK s \in Request : s = queue[i].asked /\ s.load \in Loads
            BY QueueFacts
        <3>2. Aims(s)' BY <2>1, <3>1 DEF IInv, Landing
        <3> QED BY <1>1, <3>1, <3>2 DEF Aims, Lands
    <2>5. drain.at = "install" /\ drain.result.asked.delta # 0
            => Lands(drain.result.asked)'
        BY <1>1, <1>3 DEF IInv, OnePlace, Landing, Lands
    <2> QED BY <1>1, <2>2, <2>3, <2>4, <2>5 DEF Landing
<1> QED BY <1>11, <1>12, <1>13, <1>14, <1>15, <1>16, <1>17, <1>18, <1>19, <1>20, <1>21
        DEF IInv, TypeOK

(* Back and forward: the load is asked for the entry the cursor will be on. *)
LEMMA TraverseInv ==
    ASSUME IInv, NEW delta \in {-1, 1}, Traverse(delta) PROVE IInv'
<1>1. active \in Tab
    BY DEF IInv, TypeOK, TabTypes, Traverse, UserTurn
<1>2. /\ trail[active] \in Seq(Page) /\ cursor[active] \in Nat
      /\ cursor[active] + delta \in DOMAIN trail[active]
    BY <1>1 DEF IInv, TypeOK, TabTypes, Traverse
<1>3. PICK p \in Page, b \in Nat :
        p = trail[active][cursor[active] + delta] /\ b = cursor[active]
    BY <1>2, LenProperties, ElementOfSeq
<1>4. Start(p, TRUE, delta, b)
    BY <1>3 DEF Traverse, Start
<1>5. chrome' = chrome \/ (chrome.at # "remove" /\ chrome' = AtRest)
    BY DEF Traverse
<1>6. /\ cursor[active] = b /\ b + delta \in DOMAIN trail[active]
      /\ trail[active][b + delta] = p /\ delta \in {-1, 0, 1}
    BY <1>2, <1>3
<1>7. TRUE \in BOOLEAN /\ (delta # 0 => TRUE)
    OBVIOUS
<1> QED BY <1>1, <1>4, <1>5, <1>6, <1>7, StartInv

(* The user navigates: to an address, along the history, or in place. *)
LEMMA UserLoadInv ==
    ASSUME IInv,
           \/ \E p \in Page : Navigate(p)
           \/ \E d \in {-1, 1} : Traverse(d)
           \/ Reload
    PROVE  IInv'
<1>1. active # NoTab => active \in Tab
    BY DEF IInv, TypeOK, TabTypes
<1>2. ASSUME NEW p \in Page, Navigate(p) PROVE IInv'
    <2>1. Start(p, FALSE, 0, 0) /\ active \in Tab
        BY <1>1, <1>2 DEF Navigate, UserTurn
    <2>2. chrome' = chrome \/ (chrome.at # "remove" /\ chrome' = AtRest)
        BY <1>2 DEF Navigate
    <2>3. FALSE \in BOOLEAN /\ 0 \in {-1, 0, 1} /\ 0 \in Nat /\ ~(0 # 0)
        OBVIOUS
    <2> QED BY <2>1, <2>2, <2>3, StartInv
<1>3. CASE Reload
    <2>1. PICK p \in Page : p = url[active]
        BY <1>1, <1>3 DEF Reload, UserTurn, IInv, TypeOK, TabTypes
    <2>2. Start(p, TRUE, 0, 0) /\ active \in Tab
        BY <1>1, <1>3, <2>1 DEF Reload, UserTurn, Start
    <2>3. chrome' = chrome \/ (chrome.at # "remove" /\ chrome' = AtRest)
        BY <1>3 DEF Reload
    <2>4. TRUE \in BOOLEAN /\ 0 \in {-1, 0, 1} /\ 0 \in Nat /\ ~(0 # 0)
        OBVIOUS
    <2> QED BY <2>2, <2>3, <2>4, StartInv
<1> QED BY <1>2, <1>3, TraverseInv

(* So does a duplicated tab, once it is on screen. *)
LEMMA LoadCopyInv ==
    ASSUME IInv, LoadCopy PROVE IInv'
<1>1. /\ chrome.at = "load" /\ active \in Tab
      /\ chrome.tab \in Tab /\ url[chrome.tab] \in Page
    BY DEF LoadCopy, IInv, TypeOK, TabTypes, ScreenTypes, Tabs
<1>2. PICK p \in Page : p = url[chrome.tab]
    BY <1>1
<1>3. Start(p, TRUE, 0, 0) /\ chrome' = AtRest
    BY <1>2 DEF LoadCopy, Start
<1> QED BY <1>1, <1>3, StartInv
-----------------------------------------------------------------------------
(* The program starts with one tab and no load. *)
LEMMA InitInv == Init => IInv
<1> SUFFICES ASSUME Init PROVE IInv
    OBVIOUS
<1>1. loads = <<>> /\ Len(loads) = 0 /\ Loads = {} /\ DOMAIN queue = {}
    BY EmptySeq DEF Init, Loads
<1>2. PICK h \in Seq(Page) :
        /\ trail = [t \in Tab |-> IF t = FirstTab THEN h ELSE <<>>]
        /\ cursor = [t \in Tab |-> Len(trail[t])]
        /\ url = [t \in Tab |-> IF trail[t] = <<>> THEN NoPage ELSE trail[t][cursor[t]]]
    BY DEF Init
<1>3. ASSUME NEW t \in Tab
      PROVE  /\ trail[t] \in Seq(Page) /\ cursor[t] \in Nat
             /\ cursor[t] \in (IF trail[t] = <<>> THEN {0} ELSE DOMAIN trail[t])
             /\ url[t] \in Page \cup {NoPage}
    <2>1. trail[t] \in Seq(Page) /\ cursor[t] = Len(trail[t])
        BY <1>2, EmptySeq
    <2>2. trail[t] # <<>> => cursor[t] \in 1..Len(trail[t])
        BY <2>1, EmptySeq, LenProperties
    <2>3. trail[t] # <<>> => trail[t][cursor[t]] \in Page
        BY <2>1, <2>2, ElementOfSeq
    <2> QED BY <1>2, <2>1, <2>2, <2>3, EmptySeq, LenProperties
<1>11. TabTypes
    <2>1. /\ trail \in [Tab -> Seq(Page)] /\ cursor \in [Tab -> Nat]
          /\ url \in [Tab -> Page \cup {NoPage}]
        BY <1>2, <1>3
    <2> QED BY <1>1, <1>3, <2>1 DEF Init, TabTypes
<1>12. LoadTypes
    BY <1>1, EmptySeq DEF Init, LoadTypes, Idle
<1>13. ScreenTypes
    BY <1>1 DEF Init, ScreenTypes, AtRest, Resting
<1>14. Tabs /\ OnePlace /\ Serials /\ Painting
    BY <1>1 DEF Init, Tabs, OnePlace, Serials, Painting, Idle, AtRest, Resting
<1>15. Unbuilt /\ NoSessionForgotten /\ NoDeadDocument /\ Landing
    BY <1>1 DEF Init, Unbuilt, NoSessionForgotten, NoDeadDocument, Landing, Idle, Open
<1> QED BY <1>11, <1>12, <1>13, <1>14, <1>15 DEF IInv, TypeOK

(* Nothing changes, nothing to show. *)
LEMMA StutterInv == ASSUME IInv, UNCHANGED vars PROVE IInv'
<1>1. UNCHANGED <<tabVars, navVars, pageVars, trailVars, loadVars, drain, chrome,
                  imageVars, screen, quit>>
    BY DEF vars
<1>2. UNCHANGED <<strip, active, serial, url, session, loads, running, queue, live,
                  fetching, painter>>
    BY <1>1 DEF tabVars, navVars, pageVars, loadVars, imageVars
<1>3. TypeOK'
    BY <1>1, <1>2, TabTypesKept, LoadTypesKept, ScreenTypesKept DEF IInv, TypeOK
<1>4. Tabs' /\ OnePlace' /\ Serials' /\ Painting'
    BY <1>1, <1>2, TabsKept, OnePlaceKept, SerialsKept, PaintingKept DEF IInv
<1>5. Unbuilt' /\ NoSessionForgotten' /\ NoDeadDocument' /\ Landing'
    BY <1>1, <1>2, UnbuiltKept, NoSessionForgottenKept, NoDeadDocumentKept, LandingKept
       DEF IInv
<1> QED BY <1>3, <1>4, <1>5 DEF IInv

(* The invariant is inductive. *)
LEMMA NextInv == IInv /\ [Next]_vars => IInv'
<1> SUFFICES ASSUME IInv, [Next]_vars PROVE IInv'
    OBVIOUS
<1>1. CASE User
    BY <1>1, UserLoadInv, StopInv, SwitchInv, NewTabInv, DuplicateInv, CloseInv DEF User
<1>2. CASE ChromeGoesOn
    BY <1>2, LoadCopyInv, RemoveInv, PresentInv DEF ChromeGoesOn
<1>3. CASE DrainStep
    BY <1>3, TakeInv, InstallInv, InstallNothingInv, ShowInv DEF DrainStep
<1>4. CASE PainterStep
    BY <1>4, PaintImagesInv, AttachImagesInv, ShowImagesInv DEF PainterStep
<1>5. CASE Quit \/ QuitStep
    BY <1>5, QuitInv, JoinInv, ReleaseAllInv DEF QuitStep
<1>6. ASSUME NEW l \in Loads, LoadStep(l) \/ TakeImages(l) PROVE IInv'
    BY <1>6, LoadEndsInv, TakeImagesInv DEF LoadStep
<1>7. CASE UNCHANGED vars
    BY <1>7, StutterInv
<1> QED BY <1>1, <1>2, <1>3, <1>4, <1>5, <1>6, <1>7 DEF Next

(* Every reachable state satisfies the invariant, with or without fairness. *)
THEOREM Invariant == SafeSpec => []IInv
BY InitInv, NextInv, PTL DEF SafeSpec

(* The variables keep their types. *)
THEOREM TypeCorrect == SafeSpec => []TypeOK
<1>1. IInv => TypeOK BY DEF IInv
<1> QED BY <1>1, Invariant, PTL

(* No document session is lost: each is held by the tab it was loaded for,  *)
(* on its way there, or closed (navigation.go:208-232).  A tab that was     *)
(* closed in the meantime may be the one that holds it: a result that the   *)
(* drain had taken before is installed in it all the same.                  *)
THEOREM SessionsAccounted == SafeSpec => []NoSessionForgotten
<1>1. IInv => NoSessionForgotten BY DEF IInv
<1> QED BY <1>1, Invariant, PTL

(* No open tab shows a document whose session was closed under it. *)
THEOREM DocumentsLive == SafeSpec => []NoDeadDocument
<1>1. IInv => NoDeadDocument BY DEF IInv
<1> QED BY <1>1, Invariant, PTL
-----------------------------------------------------------------------------
(* Who changes a tab's session or cursor: the drain, in the tab of the      *)
(* result it installs.  A copied history is a new tab's.                    *)
LEMMA SessionStep ==
    ASSUME [Next]_vars, session' # session PROVE Install
<1>1. CASE User
    <2>1. ASSUME NEW p, NEW keeps, NEW delta, NEW base, Start(p, keeps, delta, base)
          PROVE  session' = session
        BY <2>1 DEF Start, pageVars
    <2> QED BY <1>1, <2>1
            DEF User, Navigate, Traverse, Reload, Stop, Switch, NewTab, Duplicate, Close,
                pageVars
<1>2. CASE ChromeGoesOn
    BY <1>2 DEF ChromeGoesOn, LoadCopy, Start, Remove, Present, pageVars
<1>3. CASE DrainStep
    BY <1>3 DEF DrainStep, Take, InstallNothing, Show, pageVars
<1>4. CASE PainterStep \/ Quit \/ QuitStep
    BY <1>4 DEF PainterStep, PaintImages, AttachImages, ShowImages, Quit, QuitStep,
                Join, ReleaseAll, pageVars
<1>5. ASSUME NEW l \in Loads, LoadStep(l) \/ TakeImages(l) PROVE FALSE
    BY <1>5 DEF LoadStep, LoadEnds, TakeImages, pageVars
<1>6. CASE UNCHANGED vars BY <1>6 DEF vars, pageVars
<1> QED BY <1>1, <1>2, <1>3, <1>4, <1>5, <1>6 DEF Next

(* The same for the cursor. *)
LEMMA CursorStep ==
    ASSUME [Next]_vars, cursor' # cursor
    PROVE  Install \/ \E t \in Tab : Duplicate(t)
<1>1. CASE User
    <2>1. ASSUME NEW p, NEW keeps, NEW delta, NEW base, Start(p, keeps, delta, base)
          PROVE  cursor' = cursor
        BY <2>1 DEF Start, trailVars
    <2> QED BY <1>1, <2>1
            DEF User, Navigate, Traverse, Reload, Stop, Switch, NewTab, Close, trailVars
<1>2. CASE ChromeGoesOn
    BY <1>2 DEF ChromeGoesOn, LoadCopy, Start, Remove, Present, trailVars
<1>3. CASE DrainStep
    BY <1>3 DEF DrainStep, Take, InstallNothing, Show, trailVars
<1>4. CASE PainterStep \/ Quit \/ QuitStep
    BY <1>4 DEF PainterStep, PaintImages, AttachImages, ShowImages, Quit, QuitStep,
                Join, ReleaseAll, trailVars
<1>5. ASSUME NEW l \in Loads, LoadStep(l) \/ TakeImages(l) PROVE FALSE
    BY <1>5 DEF LoadStep, LoadEnds, TakeImages, trailVars
<1>6. CASE UNCHANGED vars BY <1>6 DEF vars, trailVars
<1> QED BY <1>1, <1>2, <1>3, <1>4, <1>5, <1>6 DEF Next

(* What the drain installs is newer than what was there. *)
LEMMA NewestStep ==
    ASSUME IInv, [Next]_vars, NEW t \in Tab, session'[t] # session[t], session[t] # 0
    PROVE  loads[session'[t]].serial > loads[session[t]].serial
<1>1. Install
    BY SessionStep
<1>2. PICK l \in Loads, u \in Tab :
        l = drain.result.asked.load /\ u = loads[l].tab /\ drain.at = "install"
    BY <1>1, LoadFacts DEF IInv, OnePlace, Install
<1>3. session' = [session EXCEPT ![u] = l] /\ session \in [Tab -> 0..Len(loads)]
    BY <1>1, <1>2 DEF Install, Replace, IInv, TypeOK, TabTypes
<1>4. u = t /\ session'[t] = l
    BY <1>3
<1>5. loads[session[t]].serial < loads[l].serial
    BY <1>2, <1>4 DEF IInv, Serials
<1>6. loads[session[t]].serial \in Nat /\ loads[l].serial \in Nat
    BY <1>2, SessionFacts, LoadFacts
<1> QED BY <1>4, <1>5, <1>6

(* Results that arrive in any order never take a tab back to an older       *)
(* navigation.                                                              *)
THEOREM NewestStays == SafeSpec => NewestWins
<1>1. IInv /\ [Next]_vars =>
        [\A t \in Tab :
           session'[t] # session[t] /\ session[t] # 0 =>
             loads[session'[t]].serial > loads[session[t]].serial]_vars
    BY NewestStep
<1> QED BY <1>1, Invariant, PTL DEF SafeSpec, NewestWins

(* A cursor that a traversal moves lands on the traversal's goal. *)
LEMMA TraversalStep ==
    ASSUME IInv, [Next]_vars, NEW t \in Tab,
           drain.at = "install", loads[drain.result.asked.load].tab = t,
           cursor'[t] # cursor[t], drain.result.asked.delta # 0
    PROVE  trail[t][cursor'[t]] = drain.result.asked.goal
<1> DEFINE r == drain.result.asked
<1>1. Lands(r) /\ r.load \in Loads
    BY DEF IInv, Landing, OnePlace
<1>2. strip[t] # "unused" /\ cursor \in [Tab -> Nat]
    BY <1>1 DEF IInv, Tabs, TypeOK, TabTypes
<1>3. ASSUME NEW u \in Tab, Duplicate(u) PROVE FALSE
    BY <1>2, <1>3 DEF Duplicate, CopyTrail
<1>4. Install
    BY <1>3, CursorStep
<1>5. Commit(r, drain.result.page, t) \/ UNCHANGED trailVars
    BY <1>4 DEF Install
<1>6. r.keeps
    BY DEF IInv, TypeOK, LoadTypes, Result, Request
<1>7. Steps(r, t) /\ cursor'[t] = cursor[t] + r.delta
    BY <1>2, <1>5, <1>6 DEF Commit, trailVars
<1> QED BY <1>1, <1>7 DEF Lands, Steps

(* Back and forward land on the entry they were asked for, or nowhere       *)
(* (History.Step).                                                          *)
THEOREM TraversalsLand == SafeSpec => TraversalLands
<1>1. IInv /\ [Next]_vars =>
        [\A t \in Tab :
           LET r == drain.result.asked IN
           /\ drain.at = "install" /\ loads[r.load].tab = t
           /\ cursor'[t] # cursor[t] /\ r.delta # 0
           => trail[t][cursor'[t]] = r.goal]_vars
    BY TraversalStep
<1> QED BY <1>1, Invariant, PTL DEF SafeSpec, TraversalLands
-----------------------------------------------------------------------------
(* What is being installed was its tab's newest when it was taken, and is   *)
(* so still, with the tab at rest, or another load was started right after  *)
(* it: a stop finds nothing to stop.                                        *)
Overtaken(l) == \E k \in Loads : /\ loads[k].tab = loads[l].tab
                                  /\ loads[k].serial = loads[l].serial + 1

NotStopped ==
    drain.at = "install" =>
      LET l == drain.result.asked.load
          t == loads[l].tab IN
      \/ serial[t] = loads[l].serial /\ ~loading[t]
      \/ Overtaken(l)

(* A step that leaves serials, marks and loads alone, and takes no result.  *)
LEMMA NotStoppedKept ==
    ASSUME NotStopped, UNCHANGED <<serial, loading, loads>>,
           drain' = drain \/ drain'.at # "install"
    PROVE  NotStopped'
BY DEF NotStopped, Overtaken, Loads

(* A load that is started overtakes the one that is being installed.        *)
LEMMA StartOvertakes ==
    ASSUME IInv, NotStopped, active \in Tab, NEW p, NEW keeps, NEW delta, NEW base,
           Start(p, keeps, delta, base)
    PROVE  NotStopped'
<1> SUFFICES ASSUME drain.at = "install"
             PROVE  NotStopped'
    BY DEF Start, NotStopped
<1>0. PICK l \in Loads : l = drain.result.asked.load
    BY DEF IInv, OnePlace
<1>1. /\ loads' = Append(loads, [tab |-> active, serial |-> serial[active] + 1])
      /\ serial' = [serial EXCEPT ![active] = @ + 1]
      /\ loading' = [loading EXCEPT ![active] = TRUE]
      /\ drain' = drain
    BY DEF Start
<1>2. /\ serial \in [Tab -> Nat] /\ loading \in [Tab -> BOOLEAN]
      /\ loads \in Seq([tab : Tab, serial : Nat]) /\ Len(loads) \in Nat
    BY SMTT(30) DEF IInv, TypeOK, TabTypes, LoadTypes
<1>3. /\ Loads' = 1..(Len(loads) + 1) /\ Loads = 1..Len(loads)
      /\ \A m \in Loads : m \in Loads' /\ loads'[m] = loads[m]
      /\ loads'[Len(loads) + 1] = [tab |-> active, serial |-> serial[active] + 1]
    BY <1>1, <1>2 DEF Loads
<1>4. loads[l].tab \in Tab
    BY LoadFacts
<1>5. CASE Overtaken(l)
    <2>1. PICK k \in Loads : /\ loads[k].tab = loads[l].tab
                              /\ loads[k].serial = loads[l].serial + 1
        BY <1>5 DEF Overtaken
    <2>2. k \in Loads' /\ loads'[k] = loads[k] /\ loads'[l] = loads[l]
        BY <1>0, <1>3, <2>1
    <2>3. Overtaken(l)'
        BY <2>1, <2>2 DEF Overtaken
    <2> QED BY <1>0, <1>1, <2>3 DEF NotStopped
<1>6. CASE serial[loads[l].tab] = loads[l].serial /\ ~loading[loads[l].tab]
    <2>1. CASE loads[l].tab = active
        <3>1. Overtaken(l)'
            BY <1>0, <1>3, <1>6, <2>1 DEF Overtaken
        <3> QED BY <1>0, <1>1, <3>1 DEF NotStopped
    <2>2. CASE loads[l].tab # active
        <3>1. serial'[loads[l].tab] = loads[l].serial /\ ~loading'[loads[l].tab]
            BY <1>1, <1>2, <1>4, <1>6, <2>2
        <3> QED BY <1>0, <1>1, <1>3, <3>1 DEF NotStopped
    <2> QED BY <2>1, <2>2
<1> QED BY <1>0, <1>5, <1>6 DEF NotStopped

(* The test and the end of the mark are one step.                           *)
LEMMA TakeNotStopped ==
    ASSUME IInv, NotStopped, Take PROVE NotStopped'
<1>1. PICK l \in Loads, t \in Tab : l = Head(queue).asked.load /\ t = loads[l].tab
    <2>1. queue # <<>> /\ queue \in Seq(Result)
        BY DEF Take, IInv, TypeOK, LoadTypes
    <2>2. 1 \in DOMAIN queue /\ Head(queue) = queue[1]
        BY <2>1
    <2> QED BY <2>2, QueueFacts, LoadFacts
<1>2. UNCHANGED <<serial, loads>>
    BY DEF Take
<1>3. CASE Newest(l)
    <2>1. /\ loading' = [loading EXCEPT ![t] = FALSE]
          /\ drain' = [at |-> "install", result |-> Head(queue)]
        BY <1>1, <1>3 DEF Take, Finished
    <2>2. loading'[t] = FALSE
        BY <2>1 DEF IInv, TypeOK, TabTypes
    <2> QED BY <1>1, <1>2, <1>3, <2>1, <2>2 DEF NotStopped, Newest
<1>4. CASE ~Newest(l)
    BY <1>1, <1>2, <1>4, NotStoppedKept DEF Take
<1> QED BY <1>3, <1>4

(* A stop leaves a tab at rest alone.                                       *)
LEMMA StopNotStopped ==
    ASSUME IInv, NotStopped, Stop PROVE NotStopped'
<1>1. /\ loading[active] /\ active \in Tab
      /\ serial' = [serial EXCEPT ![active] = @ + 1]
      /\ loading' = [loading EXCEPT ![active] = FALSE]
      /\ UNCHANGED <<loads, drain>>
    BY DEF Stop, UserTurn, IInv, TypeOK, TabTypes, loadVars
<1>2. serial \in [Tab -> Nat] /\ loading \in [Tab -> BOOLEAN]
    BY DEF IInv, TypeOK, TabTypes
<1> SUFFICES ASSUME drain.at = "install"
             PROVE  NotStopped'
    BY <1>1 DEF NotStopped
<1>3. PICK l \in Loads, t \in Tab : l = drain.result.asked.load /\ t = loads[l].tab
    BY LoadFacts DEF IInv, OnePlace
<1>4. CASE Overtaken(l)
    BY <1>1, <1>3, <1>4 DEF NotStopped, Overtaken, Loads
<1>5. CASE serial[t] = loads[l].serial /\ ~loading[t]
    <2>1. t # active BY <1>1, <1>5
    <2>2. serial'[t] = serial[t] /\ ~loading'[t] BY <1>1, <1>2, <1>5, <2>1
    <2> QED BY <1>1, <1>3, <1>5, <2>2 DEF NotStopped
<1> QED BY <1>3, <1>4, <1>5 DEF NotStopped

(* No step of anyone stops what is being installed.                         *)
LEMMA NotStoppedStep == IInv /\ NotStopped /\ [Next]_vars => NotStopped'
<1> SUFFICES ASSUME IInv, NotStopped, [Next]_vars PROVE NotStopped'
    OBVIOUS
<1>0. active \in Tab \cup {NoTab}
    BY DEF IInv, TypeOK, TabTypes
<1>1. CASE User
    <2>1. active \in Tab
        BY <1>0, <1>1 DEF User, Navigate, Traverse, Reload, Stop, Switch, NewTab,
           Duplicate, Close, UserTurn
    <2>2. CASE \E t \in Tab : Switch(t) \/ NewTab(t) \/ Duplicate(t) \/ Close(t)
        BY <2>2, NotStoppedKept DEF Switch, NewTab, Duplicate, Close, navVars, loadVars
    <2>3. CASE (\E p \in Page : Navigate(p)) \/ (\E d \in {-1, 1} : Traverse(d)) \/ Reload
        BY <2>1, <2>3, StartOvertakes DEF Navigate, Traverse, Reload
    <2> QED BY <1>1, <2>2, <2>3, StopNotStopped DEF User
<1>2. CASE ChromeGoesOn
    <2>1. CASE LoadCopy
        <3>1. active \in Tab BY <1>0, <2>1 DEF LoadCopy, IInv, Tabs
        <3> QED BY <2>1, <3>1, StartOvertakes DEF LoadCopy
    <2>2. CASE Remove \/ Present
        BY <2>2, NotStoppedKept DEF Remove, Present, navVars, loadVars
    <2> QED BY <1>2, <2>1, <2>2 DEF ChromeGoesOn
<1>3. CASE DrainStep
    <2>1. CASE Install
        <3>1. drain' = [drain EXCEPT !.at = "show"] \/ drain' = Idle
            BY <2>1 DEF Install
        <3>2. drain'.at # "install"
            BY <3>1 DEF Idle, IInv, TypeOK, LoadTypes
        <3> QED BY <2>1, <3>2, NotStoppedKept DEF Install, navVars, loadVars
    <2>2. CASE InstallNothing \/ Show
        <3>1. drain'.at = "idle"
            BY <2>2 DEF InstallNothing, Show, Idle
        <3> QED BY <2>2, <3>1, NotStoppedKept DEF InstallNothing, Show, navVars, loadVars
    <2> QED BY <1>3, <2>1, <2>2, TakeNotStopped DEF DrainStep
<1>4. CASE PainterStep \/ Quit \/ QuitStep
    BY <1>4, NotStoppedKept
    DEF PainterStep, PaintImages, AttachImages, ShowImages, Quit, QuitStep, Join,
        ReleaseAll, navVars, loadVars
<1>5. ASSUME NEW l \in Loads, LoadStep(l) \/ TakeImages(l) PROVE NotStopped'
    BY <1>5, NotStoppedKept DEF LoadStep, LoadEnds, TakeImages, navVars, loadVars
<1>6. CASE UNCHANGED vars
    BY <1>6, NotStoppedKept DEF vars, navVars, loadVars
<1> QED BY <1>1, <1>2, <1>3, <1>4, <1>5, <1>6 DEF Next

(* So a document comes into a tab as its newest, or overtaken by a load.    *)
LEMMA StoppedStep ==
    ASSUME IInv, NotStopped, [Next]_vars, NEW t \in Tab, session'[t] # session[t],
           loads[session'[t]].serial # serial[t]
    PROVE  \E k \in Loads : /\ loads[k].tab = t
                             /\ loads[k].serial = loads[session'[t]].serial + 1
<1>1. Install
    BY SessionStep
<1>2. PICK l \in Loads, u \in Tab :
        l = drain.result.asked.load /\ u = loads[l].tab /\ drain.at = "install"
    BY <1>1, LoadFacts DEF IInv, OnePlace, Install
<1>3. session' = [session EXCEPT ![u] = l] /\ session \in [Tab -> 0..Len(loads)]
    BY <1>1, <1>2 DEF Install, Replace, IInv, TypeOK, TabTypes
<1>4. u = t /\ session'[t] = l
    BY <1>3
<1> QED BY <1>2, <1>4 DEF NotStopped, Overtaken

(* A stopped load never gets its document into the tab: stopTab and the     *)
(* test of applyNavResult exclude each other, whatever else the user does.  *)
THEOREM StopsHold == SafeSpec => StoppedStaysOut
<1>1. Init => NotStopped
    BY DEF Init, NotStopped, Idle
<1>2. IInv /\ NotStopped /\ [Next]_vars =>
        [\A t \in Tab : ComesInUnstopped(t)]_vars
    BY StoppedStep DEF ComesInUnstopped
<1>3. SafeSpec => []NotStopped
    BY <1>1, NotStoppedStep, Invariant, PTL DEF SafeSpec
<1> QED BY <1>2, <1>3, Invariant, PTL DEF SafeSpec, StoppedStaysOut
-----------------------------------------------------------------------------
(* Progress.  That a tab stops loading and that shutdown ends needs the     *)
(* goroutines to run and stays with the model checker.  What they rest on   *)
(* is proved here: a tab that shows it is loading has something to wait     *)
(* for, and a shutdown waits for finitely many steps of others.             *)

(* The newest load of a tab, wherever it is on its way to the drain.        *)
Awaited(t, l) == loads[l].tab = t /\ loads[l].serial = serial[t]

UnderWay(t) ==
    \/ \E r \in running : Awaited(t, r.load)
    \/ \E i \in DOMAIN queue : Awaited(t, queue[i].asked.load)

(* No tab spins for nothing: while an open tab shows it is loading, its     *)
(* newest load is running, or its result waits in the channel.              *)
LoadingIsUnderWay ==
    \A t \in Tab : strip[t] = "open" /\ loading[t] => UnderWay(t)

(* The same of tabs that are not open yet, which are not loading at all.    *)
NoIdleSpinner ==
    /\ \A t \in Tab : strip[t] # "closed" /\ loading[t] => UnderWay(t)
    /\ IsFiniteSet(running)

(* What shutdown still waits for: the loads, what they have sent, the       *)
(* result being applied, and its own steps.                                 *)
DrainAt  == CASE drain.at = "install" -> 2 [] drain.at = "show" -> 1 [] OTHER -> 0
QuitAt   == CASE quit = "no" -> 3 [] quit = "cancelled" -> 2
              [] quit = "joined" -> 1 [] OTHER -> 0
QuitWork == 4 * Cardinality(running) + 3 * Len(queue) + DrainAt + QuitAt

(* Only a load that the user starts adds to it, at most four steps, also    *)
(* when shutdown has begun; whatever else the user, the painter and the     *)
(* images do leaves it alone; and each step of a load, of the drain and of  *)
(* the shutdown takes from it.                                              *)
QuitRunsDown ==
    [][ /\ QuitWork' <= QuitWork + 4 * (Len(loads') - Len(loads))
        /\ DrainStep \/ QuitStep \/ (\E l \in Loads : LoadStep(l))
             => QuitWork' < QuitWork ]_vars

(* It is a number.                                                          *)
LEMMA QuitWorkIsNumber ==
    ASSUME TypeOK, NoIdleSpinner
    PROVE  /\ Cardinality(running) \in Nat /\ Len(queue) \in Nat
           /\ DrainAt \in 0..2 /\ QuitAt \in 0..3 /\ QuitWork \in Nat
<1>1. Cardinality(running) \in Nat BY FS_CardinalityType DEF NoIdleSpinner
<1>2. Len(queue) \in Nat BY DEF TypeOK, LoadTypes
<1>3. DrainAt \in 0..2 /\ QuitAt \in 0..3 BY DEF DrainAt, QuitAt
<1> QED BY <1>1, <1>2, <1>3 DEF QuitWork

(* After a step as well.                                                    *)
LEMMA QuitWorkIsNumberNext == TypeOK' /\ NoIdleSpinner' => (QuitWork \in Nat)'
<1>1. TypeOK /\ NoIdleSpinner => QuitWork \in Nat BY QuitWorkIsNumber
<1> QED BY <1>1, PTL

(* The user and the goroutines that load nothing leave the loads alone, and *)
(* close tabs or open new ones.                                             *)
LEMMA WayKept ==
    ASSUME IInv, NoIdleSpinner, UNCHANGED <<serial, loads, running, queue>>,
           \A t \in Tab : strip'[t] # "closed" => strip[t] # "closed",
           \A t \in Tab : loading'[t] => loading[t]
    PROVE  NoIdleSpinner'
BY DEF NoIdleSpinner, UnderWay, Awaited

(* A navigation is its tab's newest load and runs; those of other tabs stay *)
(* where they are.                                                          *)
LEMMA StartIsUnderWay ==
    ASSUME IInv, NoIdleSpinner, active \in Tab, NEW p, NEW keeps, NEW delta, NEW base,
           Start(p, keeps, delta, base)
    PROVE  NoIdleSpinner'
<1>0. PICK t \in Tab, l \in Nat : t = active /\ l = Len(loads) + 1
    BY DEF IInv, TypeOK, LoadTypes
<1> DEFINE r == [load |-> l, goal |-> p, keeps |-> keeps, delta |-> delta, base |-> base]
<1>1. /\ loads' = Append(loads, [tab |-> t, serial |-> serial[t] + 1])
      /\ running' = running \cup {r}
      /\ serial' = [serial EXCEPT ![t] = @ + 1]
      /\ loading' = [loading EXCEPT ![t] = TRUE]
      /\ strip' = strip /\ queue' = queue
    BY <1>0 DEF Start, tabVars
<1>2. /\ serial \in [Tab -> Nat] /\ loading \in [Tab -> BOOLEAN]
      /\ loads \in Seq([tab : Tab, serial : Nat]) /\ Len(loads) \in Nat
    BY SMTT(30) DEF IInv, TypeOK, TabTypes, LoadTypes
<1>3. /\ \A m \in Loads : loads'[m] = loads[m]
      /\ loads'[l].tab = t /\ loads'[l].serial = serial[t] + 1
    BY <1>0, <1>1, <1>2 DEF Loads
<1>4. r \in running' /\ r.load = l BY <1>1
<1> HIDE DEF r
<1>5. serial'[t] = serial[t] + 1 /\ \A u \in Tab \ {t} : serial'[u] = serial[u]
    BY <1>1, <1>2
<1>6. \A u \in Tab \ {t} : loading'[u] = loading[u]
    BY <1>1, <1>2
<1>7. \A q \in running : q.load \in Loads /\ q \in running'
    BY <1>1 DEF IInv, OnePlace
<1>8. \A i \in DOMAIN queue : queue[i].asked.load \in Loads
    BY QueueFacts
<1>9. UnderWay(t)'
    BY <1>3, <1>4, <1>5 DEF UnderWay, Awaited
<1>10. ASSUME NEW u \in Tab \ {t}, strip'[u] # "closed", loading'[u] PROVE UnderWay(u)'
    <2>1. UnderWay(u) BY <1>1, <1>6, <1>10 DEF NoIdleSpinner
    <2> QED BY <1>1, <1>3, <1>5, <1>7, <1>8, <2>1 DEF UnderWay, Awaited
<1>11. IsFiniteSet(running') BY <1>1, FS_AddElement DEF NoIdleSpinner
<1> QED BY <1>9, <1>10, <1>11 DEF NoIdleSpinner

(* A load that ends is in the channel from then on.                         *)
LEMMA LoadEndsUnderWay ==
    ASSUME IInv, NoIdleSpinner, NEW r \in running, NEW got \in Outcome, NEW p \in Page,
           LoadEnds(r, got, p)
    PROVE  NoIdleSpinner'
<1> DEFINE x == [asked |-> r, got |-> got, page |-> p]
           n == Len(queue) + 1
<1>1. x \in Result /\ x.asked = r
    BY DEF IInv, TypeOK, LoadTypes, Result
<1>2. /\ running' = running \ {r} /\ queue' = Append(queue, x)
      /\ UNCHANGED <<strip, serial, loading, loads>>
    BY DEF LoadEnds, tabVars, navVars
<1>3. /\ n \in DOMAIN queue' /\ queue'[n] = x
      /\ \A i \in DOMAIN queue : i \in DOMAIN queue' /\ queue'[i] = queue[i]
    BY <1>1, <1>2, QueueSend DEF IInv
<1> HIDE DEF x, n
<1>4. ASSUME NEW t \in Tab, UnderWay(t) PROVE UnderWay(t)'
    <2>1. CASE \E i \in DOMAIN queue : Awaited(t, queue[i].asked.load)
        BY <2>1, <1>2, <1>3 DEF UnderWay, Awaited
    <2>2. CASE \E q \in running : Awaited(t, q.load)
        BY <2>2, <1>1, <1>2, <1>3 DEF UnderWay, Awaited
    <2> QED BY <1>4, <2>1, <2>2 DEF UnderWay
<1>5. IsFiniteSet(running') BY <1>2, FS_RemoveElement DEF NoIdleSpinner
<1> QED BY <1>2, <1>4, <1>5 DEF NoIdleSpinner

(* Only its own newest result makes a tab stop loading, and no other result *)
(* is the one that an open tab waits for.                                   *)
LEMMA TakeUnderWay ==
    ASSUME IInv, NoIdleSpinner, Take
    PROVE  NoIdleSpinner'
<1> DEFINE l == Head(queue).asked.load
           t == loads[l].tab
<1>1. /\ queue # <<>> /\ queue' = Tail(queue)
      /\ UNCHANGED <<strip, serial, loads, running>>
    BY DEF Take, tabVars
<1>2. /\ 1 \in DOMAIN queue /\ Head(queue) = queue[1]
      /\ \A i \in DOMAIN queue : i # 1 => i - 1 \in DOMAIN queue' /\ queue'[i - 1] = queue[i]
    <2>1. queue \in Seq(Result) BY DEF IInv, TypeOK, LoadTypes
    <2> QED BY <1>1, <2>1
<1>3. l \in Loads /\ t \in Tab /\ strip[t] # "unused"
    BY <1>2, QueueFacts, LoadFacts DEF IInv, Tabs
<1>4. /\ loading \in [Tab -> BOOLEAN] /\ strip \in [Tab -> {"unused", "open", "closed"}]
    BY DEF IInv, TypeOK, TabTypes
<1>5. /\ Newest(l) => loading' = [loading EXCEPT ![t] = FALSE]
      /\ ~Newest(l) => loading' = loading
    BY DEF Take, Finished
<1> HIDE DEF l
<1>6. ASSUME NEW u \in Tab, strip'[u] # "closed", loading'[u] PROVE UnderWay(u)'
    <2>1. loading[u] /\ (Newest(l) => u # t)
        BY <1>3, <1>4, <1>5, <1>6
    <2>2. UnderWay(u) BY <1>1, <1>6, <2>1 DEF NoIdleSpinner
    <2>3. ~Awaited(u, l)
        <3>1. SUFFICES ASSUME Awaited(u, l) PROVE FALSE
            OBVIOUS
        <3>2. u = t /\ serial[t] = loads[l].serial BY <3>1 DEF Awaited
        <3>3. strip[t] = "open" BY <1>1, <1>3, <1>4, <1>6, <3>2
        <3> QED BY <2>1, <3>2, <3>3 DEF Newest
    <2>4. CASE \E r \in running : Awaited(u, r.load)
        BY <1>1, <2>4 DEF UnderWay, Awaited
    <2>5. ASSUME NEW i \in DOMAIN queue, Awaited(u, queue[i].asked.load) PROVE UnderWay(u)'
        <3>1. i # 1 BY <1>2, <2>3, <2>5 DEF l
        <3>2. i - 1 \in DOMAIN queue' /\ queue'[i - 1] = queue[i] BY <1>2, <3>1
        <3> QED BY <1>1, <2>5, <3>2 DEF UnderWay, Awaited
    <2> QED BY <2>2, <2>4, <2>5 DEF UnderWay
<1>7. IsFiniteSet(running') BY <1>1 DEF NoIdleSpinner
<1> QED BY <1>6, <1>7 DEF NoIdleSpinner

(* Nobody waits at the start.                                               *)
LEMMA InitUnderWay == Init => NoIdleSpinner
BY FS_EmptySet DEF Init, NoIdleSpinner

(* Every step keeps what a loading tab waits for.                           *)
LEMMA UnderWayStep == IInv /\ NoIdleSpinner /\ [Next]_vars => NoIdleSpinner'
<1> SUFFICES ASSUME IInv, NoIdleSpinner, [Next]_vars PROVE NoIdleSpinner'
    OBVIOUS
<1>0. /\ strip \in [Tab -> {"unused", "open", "closed"}]
      /\ loading \in [Tab -> BOOLEAN]
      /\ active \in Tab \cup {NoTab}
    BY DEF IInv, TypeOK, TabTypes
<1>1. CASE User
    <2>1. active \in Tab
        BY <1>0, <1>1 DEF User, Navigate, Traverse, Reload, Stop, Switch, NewTab,
           Duplicate, Close, UserTurn
    <2>2. CASE Stop
        <3>1. /\ UNCHANGED <<strip, loads, running, queue>>
              /\ serial' = [serial EXCEPT ![active] = @ + 1]
              /\ loading' = [loading EXCEPT ![active] = FALSE]
            BY <2>2 DEF Stop, tabVars, loadVars
        <3>2. \A t \in Tab : loading'[t] => t # active /\ loading[t] /\ serial'[t] = serial[t]
            <4>1. serial \in [Tab -> Nat] BY DEF IInv, TypeOK, TabTypes
            <4> QED BY <1>0, <2>1, <3>1, <4>1
        <3> QED BY <3>1, <3>2 DEF NoIdleSpinner, UnderWay, Awaited
    <2>3. CASE \E t \in Tab : Switch(t) \/ NewTab(t) \/ Duplicate(t) \/ Close(t)
        <3>1. PICK u \in Tab : Switch(u) \/ NewTab(u) \/ Duplicate(u) \/ Close(u)
            BY <2>3
        <3>2. UNCHANGED <<serial, loading, loads, running, queue>>
            BY <3>1 DEF Switch, NewTab, Duplicate, Close, navVars, loadVars
        <3>3. \A t \in Tab : strip'[t] # "closed" => strip[t] # "closed"
            BY <1>0, <3>1 DEF Switch, NewTab, Duplicate, Close, tabVars
        <3> QED BY <3>2, <3>3, WayKept
    <2>4. CASE (\E p \in Page : Navigate(p)) \/ (\E d \in {-1, 1} : Traverse(d)) \/ Reload
        BY <2>1, <2>4, StartIsUnderWay DEF Navigate, Traverse, Reload
    <2> QED BY <1>1, <2>2, <2>3, <2>4 DEF User
<1>2. CASE ChromeGoesOn
    <2>1. CASE LoadCopy
        <3>1. active \in Tab BY <1>0, <2>1 DEF LoadCopy, IInv, Tabs
        <3> QED BY <2>1, <3>1, StartIsUnderWay DEF LoadCopy
    <2>2. CASE Remove
        <3>1. UNCHANGED <<serial, loading, loads, running, queue>>
            BY <2>2 DEF Remove, navVars, loadVars
        <3>2. strip' = [strip EXCEPT ![chrome.tab] = "closed"]
            BY <2>2 DEF Remove
        <3>3. \A t \in Tab : strip'[t] # "closed" => strip[t] # "closed"
            BY <1>0, <3>2
        <3> QED BY <3>1, <3>3, WayKept
    <2>3. CASE Present
        BY <2>3, WayKept DEF Present, tabVars, navVars, loadVars
    <2> QED BY <1>2, <2>1, <2>2, <2>3 DEF ChromeGoesOn
<1>3. CASE DrainStep
    <2>1. CASE Install \/ InstallNothing \/ Show
        BY <2>1, WayKept DEF Install, InstallNothing, Show, tabVars, navVars, loadVars
    <2> QED BY <1>3, <2>1, TakeUnderWay DEF DrainStep
<1>4. CASE PainterStep \/ Quit \/ QuitStep
    BY <1>4, WayKept
    DEF PainterStep, PaintImages, AttachImages, ShowImages, Quit, QuitStep, Join,
        ReleaseAll, tabVars, navVars, loadVars
<1>5. ASSUME NEW l \in Loads, LoadStep(l) \/ TakeImages(l) PROVE NoIdleSpinner'
    <2>1. CASE LoadStep(l)
        BY <2>1, LoadEndsUnderWay DEF LoadStep
    <2>2. CASE TakeImages(l)
        BY <2>2, WayKept DEF TakeImages, tabVars, navVars, loadVars
    <2> QED BY <1>5, <2>1, <2>2
<1>6. CASE UNCHANGED vars
    BY <1>6, WayKept DEF vars, tabVars, navVars, loadVars
<1> QED BY <1>1, <1>2, <1>3, <1>4, <1>5, <1>6 DEF Next

(* With the types and places.                                               *)
LEMMA Progressing == SafeSpec => [](IInv /\ NoIdleSpinner)
BY InitInv, InitUnderWay, NextInv, UnderWayStep, PTL DEF SafeSpec

(* The loading mark of a tab is never left behind by a stop, a closed tab,  *)
(* a download or a result that came too late: a load or a result that will  *)
(* clear it is on its way.                                                  *)
THEOREM NoTabSpinsForNothing == SafeSpec => []LoadingIsUnderWay
<1>1. NoIdleSpinner => LoadingIsUnderWay BY DEF NoIdleSpinner, LoadingIsUnderWay
<1> QED BY <1>1, Progressing, PTL
-----------------------------------------------------------------------------
(* A load that ends takes from the work shutdown waits for.                 *)
LEMMA LoadEndsWork ==
    ASSUME IInv, NoIdleSpinner, NEW l \in Loads, LoadStep(l)
    PROVE  QuitWork' < QuitWork
<1>1. PICK r \in running, got \in Outcome, p \in Page : LoadEnds(r, got, p)
    BY DEF LoadStep
<1>2. Len(queue') = Len(queue) + 1 /\ running' = running \ {r}
    BY <1>1 DEF LoadEnds, IInv, TypeOK, LoadTypes
<1>3. Cardinality(running') = Cardinality(running) - 1
    BY <1>2, FS_RemoveElement DEF NoIdleSpinner
<1>4. DrainAt' = DrainAt /\ QuitAt' = QuitAt
    BY <1>1 DEF LoadEnds, DrainAt, QuitAt
<1>5. /\ Cardinality(running) \in Nat /\ Len(queue) \in Nat
      /\ DrainAt \in Nat /\ QuitAt \in Nat
    BY QuitWorkIsNumber DEF IInv
<1> QED BY <1>2, <1>3, <1>4, <1>5 DEF QuitWork

(* So do the drain and the shutdown itself.                                 *)
LEMMA DrainWork ==
    ASSUME IInv, NoIdleSpinner, DrainStep \/ QuitStep
    PROVE  QuitWork' < QuitWork
<1>1. running' = running
    BY DEF DrainStep, QuitStep, Take, Install, InstallNothing, Show, Join, ReleaseAll, loadVars
<1>2. /\ Cardinality(running) \in Nat /\ Len(queue) \in Nat
      /\ DrainAt \in Nat /\ QuitAt \in Nat
    BY QuitWorkIsNumber DEF IInv
<1>3. CASE Take
    <2>1. Len(queue') = Len(queue) - 1
        BY <1>3 DEF Take, IInv, TypeOK, LoadTypes
    <2>2. DrainAt = 0 /\ DrainAt' \in 0..2 /\ QuitAt' = QuitAt
        BY <1>3 DEF Take, DrainAt, QuitAt
    <2> QED BY <1>1, <1>2, <2>1, <2>2 DEF QuitWork
<1>4. CASE Install \/ InstallNothing \/ Show
    <2>1. queue' = queue
        BY <1>4 DEF Install, InstallNothing, Show, loadVars
    <2>2. QuitAt' = QuitAt
        BY <1>4 DEF Install, InstallNothing, Show, QuitAt
    <2>3. DrainAt' < DrainAt
        <3>1. drain \in [at : {"idle", "install", "show"}, result : Result \cup {Nothing}]
            BY DEF IInv, TypeOK, LoadTypes
        <3> QED BY <1>4, <3>1 DEF Install, InstallNothing, Show, DrainAt, Idle
    <2>4. DrainAt' \in Nat BY DEF DrainAt
    <2> QED BY <1>1, <1>2, <2>1, <2>2, <2>3, <2>4 DEF QuitWork
<1>5. CASE QuitStep
    <2>1. queue' = queue /\ DrainAt' = DrainAt
        BY <1>5 DEF QuitStep, Join, ReleaseAll, loadVars, DrainAt
    <2>2. QuitAt' < QuitAt /\ QuitAt' \in Nat
        BY <1>5 DEF QuitStep, Join, ReleaseAll, QuitAt
    <2> QED BY <1>1, <1>2, <2>1, <2>2 DEF QuitWork
<1> QED BY <1>3, <1>4, <1>5 DEF DrainStep

(* A load that starts adds four steps: its end, the test of its result, and *)
(* two to apply it.                                                         *)
LEMMA StartWork ==
    ASSUME IInv, NoIdleSpinner, NEW p, NEW keeps, NEW delta, NEW base,
           Start(p, keeps, delta, base)
    PROVE  QuitWork' <= QuitWork + 4 * (Len(loads') - Len(loads))
<1> DEFINE r == [load |-> Len(loads) + 1, goal |-> p, keeps |-> keeps, delta |-> delta,
                 base |-> base]
<1>0. /\ Cardinality(running) \in Nat /\ Len(queue) \in Nat
      /\ DrainAt \in Nat /\ QuitAt \in Nat
    BY QuitWorkIsNumber DEF IInv
<1>1. /\ loads' = Append(loads, [tab |-> active, serial |-> serial[active] + 1])
      /\ running' = running \cup {r}
      /\ UNCHANGED <<queue, drain, quit>>
    BY DEF Start
<1>2. Len(loads) \in Nat /\ Len(loads') = Len(loads) + 1
    BY <1>1 DEF IInv, TypeOK, LoadTypes
<1> HIDE DEF r
<1>3. Cardinality(running') \in {Cardinality(running), Cardinality(running) + 1}
    BY <1>1, FS_AddElement DEF NoIdleSpinner
<1>4. DrainAt' = DrainAt /\ QuitAt' = QuitAt
    BY <1>1 DEF DrainAt, QuitAt
<1> QED BY <1>0, <1>1, <1>2, <1>3, <1>4 DEF QuitWork

(* Nobody else adds to it.                                                  *)
LEMMA OthersWork ==
    ASSUME IInv, NoIdleSpinner, [Next]_vars,
           ~DrainStep, ~QuitStep, ~\E l \in Loads : LoadStep(l)
    PROVE  QuitWork' <= QuitWork + 4 * (Len(loads') - Len(loads))
<1>0. /\ Cardinality(running) \in Nat /\ Len(queue) \in Nat
      /\ DrainAt \in Nat /\ QuitAt \in Nat
    BY QuitWorkIsNumber DEF IInv
<1> DEFINE Starts == \E p, keeps, delta, base : Start(p, keeps, delta, base)
<1>1. ASSUME Starts PROVE QuitWork' <= QuitWork + 4 * (Len(loads') - Len(loads))
    BY <1>1, StartWork
<1>2. ASSUME ~Starts
      PROVE  /\ UNCHANGED <<loads, running, queue, drain>> /\ quit' \in {quit, "cancelled"}
             /\ (quit' = quit \/ quit = "no")
    <2>1. CASE User
        BY <1>2, <2>1
        DEF User, Navigate, Traverse, Reload, Stop, Switch, NewTab, Duplicate, Close, loadVars
    <2>2. CASE ChromeGoesOn
        BY <1>2, <2>2 DEF ChromeGoesOn, LoadCopy, Remove, Present, loadVars
    <2>3. CASE PainterStep \/ Quit
        BY <2>3 DEF PainterStep, PaintImages, AttachImages, ShowImages, Quit, loadVars
    <2>4. ASSUME NEW l \in Loads, TakeImages(l)
          PROVE  UNCHANGED <<loads, running, queue, drain, quit>>
        BY <2>4 DEF TakeImages, loadVars
    <2>5. CASE UNCHANGED vars BY <2>5 DEF vars, loadVars
    <2> QED BY <2>1, <2>2, <2>3, <2>4, <2>5 DEF Next
<1>3. ASSUME ~Starts PROVE DrainAt' = DrainAt /\ QuitAt' <= QuitAt /\ QuitAt' \in Nat
    BY <1>2, <1>3 DEF DrainAt, QuitAt
<1>4. ASSUME ~Starts PROVE QuitWork' <= QuitWork + 4 * (Len(loads') - Len(loads))
    <2>1. Len(loads) \in Nat BY DEF IInv, TypeOK, LoadTypes
    <2> QED BY <1>0, <1>2, <1>3, <1>4, <2>1 DEF QuitWork
<1> QED BY <1>1, <1>4

(* A shutdown waits for finitely many steps of the loads and of the drain,  *)
(* however the channel fills: of those under way, and of at most four for   *)
(* each further load the user starts.                                       *)
THEOREM QuitWorkIsBounded == SafeSpec => QuitRunsDown
<1>1. IInv /\ NoIdleSpinner /\ IInv' /\ NoIdleSpinner' /\ [Next]_vars =>
        [ /\ QuitWork' <= QuitWork + 4 * (Len(loads') - Len(loads))
          /\ DrainStep \/ QuitStep \/ (\E l \in Loads : LoadStep(l))
               => QuitWork' < QuitWork ]_vars
    <2> SUFFICES ASSUME IInv, IInv', NoIdleSpinner, NoIdleSpinner', [Next]_vars
                 PROVE  /\ QuitWork' <= QuitWork + 4 * (Len(loads') - Len(loads))
                        /\ DrainStep \/ QuitStep \/ (\E l \in Loads : LoadStep(l))
                             => QuitWork' < QuitWork
        OBVIOUS
    <2>1. DrainStep \/ QuitStep \/ (\E l \in Loads : LoadStep(l)) => QuitWork' < QuitWork
        BY LoadEndsWork, DrainWork
    <2>2. QuitWork \in Nat /\ QuitWork' \in Nat /\ Len(loads) \in Nat
        BY QuitWorkIsNumber, QuitWorkIsNumberNext DEF IInv, TypeOK, LoadTypes
    <2>3. CASE DrainStep \/ QuitStep \/ (\E l \in Loads : LoadStep(l))
        <3>1. loads' = loads
            BY <2>3 DEF DrainStep, QuitStep, LoadStep, LoadEnds, Take, Install,
               InstallNothing, Show, Join, ReleaseAll, loadVars
        <3> QED BY <2>1, <2>2, <2>3, <3>1
    <2>4. CASE ~DrainStep /\ ~QuitStep /\ ~\E l \in Loads : LoadStep(l)
        BY <2>1, <2>4, OthersWork
    <2> QED BY <2>3, <2>4
<1> QED BY <1>1, Progressing, PTL DEF SafeSpec, QuitRunsDown
=============================================================================
