-------------------------- MODULE DownloadsProofs --------------------------
(***************************************************************************)
(* Proofs about Downloads for every number of downloads and candidate      *)
(* paths.  The inductive invariant says what a load knows at each of its   *)
(* steps (Shape), who will end the context of a transfer (Heard), which    *)
(* load a file belongs to (Held), and what a stream finds where it put its *)
(* file (Placed).                                                          *)
(***************************************************************************)
EXTENDS Downloads, TLAPS

USE DownloadsAssumption

Shape ==
    \A i \in Item :
        /\ pc[i] = "idle" => status[i] = "none"
        /\ pc[i] \in {"idle", "attach", "receive", "place", "giveUp", "probe"}
             => path[i] = 0
        /\ pc[i] \in {"write", "complete", "check", "remove"} => path[i] \in Path
        /\ pc[i] \in {"probe", "write"} => kind[i] = "buffered"
        /\ pc[i] \in {"attach", "receive", "place", "giveUp", "check", "remove"}
             => kind[i] # "buffered"

Heard ==
    \A i \in Item :
        /\ status[i] = "active" => i \in listed
        /\ status[i] = "active" /\ pc[i] = "receive" => i \in canceler \cup cancelled

Held ==
    \A i \in Item : \A p \in Path :
        disk[p] = i =>
          /\ path[i] = p /\ pc[i] \in {"complete", "check", "remove", "done"}
          /\ pc[i] = "done" /\ kind[i] # "buffered" => status[i] = "completed"

(* The file of stream i was replaced by somebody who may. *)
Visited(p) == \E k \in Item : kind[k] # "stream" /\ path[k] = p

Placed ==
    \A i \in Item :
        kind[i] = "stream" /\ pc[i] \in {"complete", "check", "remove"} =>
          disk[path[i]] # Foreign /\ (disk[path[i]] = i \/ Visited(path[i]))

IInv == TypeOK /\ Shape /\ Heard /\ CancelIsHeard /\ Held /\ Placed
-----------------------------------------------------------------------------
(* Clearing takes only ended items off the list: an active one stays. *)
LEMMA ClearCompletedInv == ASSUME IInv, ClearCompleted PROVE IInv'
<1>1. TypeOK' BY DEF IInv, TypeOK, Path, Ended, ClearCompleted, loadVars
<1>2. Shape' BY DEF IInv, TypeOK, Shape, Path, ClearCompleted, loadVars
<1>3. Heard'
    BY DEF IInv, TypeOK, Heard, Shape, Ended, CancelIsHeard, ClearCompleted, loadVars
<1>4. CancelIsHeard'
    BY DEF IInv, TypeOK, Heard, CancelIsHeard, Shape, Ended, ClearCompleted, loadVars
<1>5. Held' BY DEF IInv, TypeOK, Shape, Held, Ended, Path, ClearCompleted, loadVars
<1>6. Placed'
    BY DEF IInv, TypeOK, Shape, Held, Placed, Visited, Path, Ended, ClearCompleted,
       loadVars
<1> QED BY <1>1, <1>2, <1>3, <1>4, <1>5, <1>6 DEF IInv

(* A load that starts has no path, no file and no canceler yet. *)
LEMMA CreateItemInv ==
    ASSUME IInv, NEW i \in Item, CreateItem(i) PROVE IInv'
<1>1. TypeOK' BY DEF IInv, TypeOK, Path, Ended, Shape, CreateItem, Goto
<1>2. Shape' BY DEF IInv, TypeOK, Shape, Path, CreateItem, Goto
<1>3. Heard' BY DEF IInv, TypeOK, Heard, Shape, Ended, CancelIsHeard, CreateItem, Goto
<1>4. CancelIsHeard'
    BY DEF IInv, TypeOK, Heard, CancelIsHeard, Shape, Ended, CreateItem, Goto
<1>5. Held' BY DEF IInv, TypeOK, Shape, Held, Ended, Path, CreateItem, Goto
<1>6. Placed'
    BY DEF IInv, TypeOK, Shape, Held, Placed, Visited, Path, Ended, CreateItem, Goto
<1> QED BY <1>1, <1>2, <1>3, <1>4, <1>5, <1>6 DEF IInv

(* Cancel ends an active item and owes its context the call, unless the
   context is done already. *)
LEMMA CancelInv ==
    ASSUME IInv, NEW i \in Item, Cancel(i) PROVE IInv'
<1>1. TypeOK' BY DEF IInv, TypeOK, Path, Ended, Cancel, Active, End, loadVars
<1>2. Shape' BY DEF IInv, TypeOK, Shape, Path, Cancel, Active, End, loadVars
<1>3. Heard'
    BY DEF IInv, TypeOK, Heard, Shape, Ended, CancelIsHeard, Cancel, Active, End,
       loadVars
<1>4. CancelIsHeard'
    BY DEF IInv, TypeOK, Heard, CancelIsHeard, Shape, Ended, Cancel, Active, End,
       loadVars
<1>5. Held' BY DEF IInv, TypeOK, Shape, Held, Ended, Path, Cancel, Active, End, loadVars
<1>6. Placed'
    BY DEF IInv, TypeOK, Shape, Held, Placed, Visited, Path, Ended, Cancel, Active,
       End, loadVars
<1> QED BY <1>1, <1>2, <1>3, <1>4, <1>5, <1>6 DEF IInv

(* The call Cancel owed is made: the context is done. *)
LEMMA CallCancelerInv ==
    ASSUME IInv, NEW i \in Item, CallCanceler(i) PROVE IInv'
<1>1. TypeOK' BY DEF IInv, TypeOK, Path, Ended, CallCanceler, managerVars, loadVars
<1>2. Shape' BY DEF IInv, TypeOK, Shape, Path, CallCanceler, managerVars, loadVars
<1>3. Heard'
    BY DEF IInv, TypeOK, Heard, Shape, Ended, CancelIsHeard, CallCanceler,
       managerVars, loadVars
<1>4. CancelIsHeard'
    BY DEF IInv, TypeOK, Heard, CancelIsHeard, Shape, Ended, CallCanceler,
       managerVars, loadVars
<1>5. Held'
    BY DEF IInv, TypeOK, Shape, Held, Ended, Path, CallCanceler, managerVars, loadVars
<1>6. Placed'
    BY DEF IInv, TypeOK, Shape, Held, Placed, Visited, Path, Ended, CallCanceler,
       managerVars, loadVars
<1> QED BY <1>1, <1>2, <1>3, <1>4, <1>5, <1>6 DEF IInv

(* A context that ends by itself changes nothing else. *)
LEMMA NavigationEndsInv ==
    ASSUME IInv, NEW i \in Item, NavigationEnds(i) PROVE IInv'
<1>1. TypeOK' BY DEF IInv, TypeOK, Path, Ended, NavigationEnds, managerVars, loadVars
<1>2. Shape' BY DEF IInv, TypeOK, Shape, Path, NavigationEnds, managerVars, loadVars
<1>3. Heard'
    BY DEF IInv, TypeOK, Heard, Shape, Ended, CancelIsHeard, NavigationEnds,
       managerVars, loadVars
<1>4. CancelIsHeard'
    BY DEF IInv, TypeOK, Heard, CancelIsHeard, Shape, Ended, NavigationEnds,
       managerVars, loadVars
<1>5. Held'
    BY DEF IInv, TypeOK, Shape, Held, Ended, Path, NavigationEnds, managerVars,
       loadVars
<1>6. Placed'
    BY DEF IInv, TypeOK, Shape, Held, Placed, Visited, Path, Ended, NavigationEnds,
       managerVars, loadVars
<1> QED BY <1>1, <1>2, <1>3, <1>4, <1>5, <1>6 DEF IInv

(* A transfer ends without touching the disk. *)
LEMMA ReceiveInv ==
    ASSUME IInv, NEW i \in Item, Receive(i) PROVE IInv'
<1>1. TypeOK' BY DEF IInv, TypeOK, Path, Ended, Receive, Goto, Received, managerVars
<1>2. Shape' BY DEF IInv, TypeOK, Shape, Path, Receive, Goto, Received, managerVars
<1>3. Heard'
    BY DEF IInv, TypeOK, Heard, Shape, Ended, CancelIsHeard, Receive, Goto, Received,
       managerVars
<1>4. CancelIsHeard'
    BY DEF IInv, TypeOK, Heard, CancelIsHeard, Shape, Ended, Receive, Goto, Received,
       managerVars
<1>5. Held'
    BY DEF IInv, TypeOK, Shape, Held, Ended, Path, Receive, Goto, Received,
       managerVars
<1>6. Placed'
    BY DEF IInv, TypeOK, Shape, Held, Placed, Visited, Path, Ended, Receive, Goto,
       Received, managerVars
<1> QED BY <1>1, <1>2, <1>3, <1>4, <1>5, <1>6 DEF IInv

(* Whoever is about to receive can be canceled: an active item by its
   canceler, another is canceled at once. *)
LEMMA SetCancelInv ==
    ASSUME IInv, NEW i \in Item, SetCancel(i) PROVE IInv'
<1>1. TypeOK' BY DEF IInv, TypeOK, Path, Ended, SetCancel, Attach, Active, Goto
<1>2. Shape' BY DEF IInv, TypeOK, Shape, Path, SetCancel, Attach, Active, Goto
<1>3. Heard'
    BY DEF IInv, TypeOK, Heard, Shape, Ended, CancelIsHeard, SetCancel, Attach,
       Active, Goto
<1>4. CancelIsHeard'
    BY DEF IInv, TypeOK, Heard, CancelIsHeard, Shape, Ended, SetCancel, Attach,
       Active, Goto
<1>5. Held'
    BY DEF IInv, TypeOK, Shape, Held, Ended, Path, SetCancel, Attach, Active, Goto
<1>6. Placed'
    BY DEF IInv, TypeOK, Shape, Held, Placed, Visited, Path, Ended, SetCancel, Attach,
       Active, Goto
<1> QED BY <1>1, <1>2, <1>3, <1>4, <1>5, <1>6 DEF IInv

(* A stream's file goes to a free name; one that replaces a file is picked. *)
LEMMA PlaceInv ==
    ASSUME IInv, NEW i \in Item, Place(i) PROVE IInv'
<1>1. TypeOK'
    BY DEF IInv, TypeOK, Path, Ended, Place, Goto, Lands, FirstFree, Free, managerVars
<1>2. Shape'
    BY DEF IInv, TypeOK, Shape, Path, Place, Goto, Lands, FirstFree, Free, managerVars
<1>3. Heard'
    BY DEF IInv, TypeOK, Heard, Shape, Ended, CancelIsHeard, Place, Goto, Lands,
       FirstFree, Free, managerVars
<1>4. CancelIsHeard'
    BY DEF IInv, TypeOK, Heard, CancelIsHeard, Shape, Ended, Place, Goto, Lands,
       FirstFree, Free, managerVars
<1>5. Held'
    BY DEF IInv, TypeOK, Shape, Held, Ended, Path, Place, Goto, Lands, FirstFree,
       Free, managerVars
<1>6. Placed'
    BY DEF IInv, TypeOK, Shape, Held, Placed, Visited, Path, Ended, Place, Goto,
       Lands, FirstFree, Free, managerVars
<1> QED BY <1>1, <1>2, <1>3, <1>4, <1>5, <1>6 DEF IInv

(* Who gives up has no file. *)
LEMMA GiveUpInv ==
    ASSUME IInv, NEW i \in Item, GiveUp(i) PROVE IInv'
<1>1. TypeOK' BY DEF IInv, TypeOK, Path, Ended, GiveUp, Goto, End, Active, Finish
<1>2. Shape' BY DEF IInv, TypeOK, Shape, Path, GiveUp, Goto, End, Active, Finish
<1>3. Heard'
    BY DEF IInv, TypeOK, Heard, Shape, Ended, CancelIsHeard, GiveUp, Goto, End,
       Active, Finish
<1>4. CancelIsHeard'
    BY DEF IInv, TypeOK, Heard, CancelIsHeard, Shape, Ended, GiveUp, Goto, End,
       Active, Finish
<1>5. Held'
    BY DEF IInv, TypeOK, Shape, Held, Ended, Path, GiveUp, Goto, End, Active, Finish
<1>6. Placed'
    BY DEF IInv, TypeOK, Shape, Held, Placed, Visited, Path, Ended, GiveUp, Goto, End,
       Active, Finish
<1> QED BY <1>1, <1>2, <1>3, <1>4, <1>5, <1>6 DEF IInv

(* Who fails has no file. *)
LEMMA FailInv ==
    ASSUME IInv, NEW i \in Item, Fail(i) PROVE IInv'
<1>1. TypeOK' BY SMTT(30) DEF IInv, TypeOK, Path, Ended, Fail, Goto, End, Active, Finish
<1>2. Shape' BY DEF IInv, TypeOK, Shape, Path, Fail, Goto, End, Active, Finish
<1>3. Heard'
    BY DEF IInv, TypeOK, Heard, Shape, Ended, CancelIsHeard, Fail, Goto, End, Active,
       Finish
<1>4. CancelIsHeard'
    BY DEF IInv, TypeOK, Heard, CancelIsHeard, Shape, Ended, Fail, Goto, End, Active,
       Finish
<1>5. Held'
    BY DEF IInv, TypeOK, Shape, Held, Ended, Path, Fail, Goto, End, Active, Finish
<1>6. Placed'
    BY DEF IInv, TypeOK, Shape, Held, Placed, Visited, Path, Ended, Fail, Goto, End,
       Active, Finish
<1> QED BY <1>1, <1>2, <1>3, <1>4, <1>5, <1>6 DEF IInv

(* A buffered download remembers the name it found free. *)
LEMMA ProbeInv ==
    ASSUME IInv, NEW i \in Item, Probe(i) PROVE IInv'
<1>1. TypeOK' BY DEF IInv, TypeOK, Path, Ended, Probe, Goto, managerVars
<1>2. Shape' BY DEF IInv, TypeOK, Shape, Path, Probe, Goto, managerVars
<1>3. Heard'
    BY DEF IInv, TypeOK, Heard, Shape, Ended, CancelIsHeard, Probe, Goto, managerVars
<1>4. CancelIsHeard'
    BY DEF IInv, TypeOK, Heard, CancelIsHeard, Shape, Ended, Probe, Goto, managerVars
<1>5. Held' BY DEF IInv, TypeOK, Shape, Held, Ended, Path, Probe, Goto, managerVars
<1>6. Placed'
    BY DEF IInv, TypeOK, Shape, Held, Placed, Visited, Path, Ended, Probe, Goto,
       managerVars
<1> QED BY <1>1, <1>2, <1>3, <1>4, <1>5, <1>6 DEF IInv

(* A buffered download writes where it looked, whatever is there by now. *)
LEMMA WriteInv ==
    ASSUME IInv, NEW i \in Item, Write(i) PROVE IInv'
<1>1. TypeOK' BY ZenonT(60) DEF IInv, TypeOK, Path, Ended, Write, Goto, managerVars
<1>2. Shape' BY DEF IInv, TypeOK, Shape, Path, Write, Goto, managerVars
<1>3. Heard'
    BY DEF IInv, TypeOK, Heard, Shape, Ended, CancelIsHeard, Write, Goto, managerVars
<1>4. CancelIsHeard'
    BY DEF IInv, TypeOK, Heard, CancelIsHeard, Shape, Ended, Write, Goto, managerVars
<1>5. Held' BY DEF IInv, TypeOK, Shape, Held, Ended, Path, Write, Goto, managerVars
<1>6. Placed'
    BY DEF IInv, TypeOK, Shape, Held, Placed, Visited, Path, Ended, Write, Goto,
       managerVars
<1> QED BY <1>1, <1>2, <1>3, <1>4, <1>5, <1>6 DEF IInv

(* A file whose item was ended meanwhile goes on to the check. *)
LEMMA CompleteInv ==
    ASSUME IInv, NEW i \in Item, Complete(i) PROVE IInv'
<1>1. TypeOK'
    BY DEF IInv, TypeOK, Path, Ended, Complete, Goto, Completes, End, Active, Finish
<1>2. Shape'
    BY DEF IInv, TypeOK, Shape, Path, Complete, Goto, Completes, End, Active, Finish
<1>3. Heard'
    BY DEF IInv, TypeOK, Heard, Shape, Ended, CancelIsHeard, Complete, Goto,
       Completes, End, Active, Finish
<1>4. CancelIsHeard'
    BY DEF IInv, TypeOK, Heard, CancelIsHeard, Shape, Ended, Complete, Goto,
       Completes, End, Active, Finish
<1>5. Held'
    BY DEF IInv, TypeOK, Shape, Held, Ended, Path, Complete, Goto, Completes, End,
       Active, Finish
<1>6. Placed'
    BY DEF IInv, TypeOK, Shape, Held, Placed, Visited, Path, Ended, Complete, Goto,
       Completes, End, Active, Finish
<1> QED BY <1>1, <1>2, <1>3, <1>4, <1>5, <1>6 DEF IInv

(* Only a completed item ends with its file. *)
LEMMA CheckInv ==
    ASSUME IInv, NEW i \in Item, Check(i) PROVE IInv'
<1>1. TypeOK'
    BY DEF IInv, TypeOK, Path, Ended, Check, Goto, Verified, Finish, managerVars
<1>2. Shape'
    BY DEF IInv, TypeOK, Shape, Path, Check, Goto, Verified, Finish, managerVars
<1>3. Heard'
    BY DEF IInv, TypeOK, Heard, Shape, Ended, CancelIsHeard, Check, Goto, Verified,
       Finish, managerVars
<1>4. CancelIsHeard'
    BY DEF IInv, TypeOK, Heard, CancelIsHeard, Shape, Ended, Check, Goto, Verified,
       Finish, managerVars
<1>5. Held'
    BY DEF IInv, TypeOK, Shape, Held, Ended, Path, Check, Goto, Verified, Finish,
       managerVars
<1>6. Placed'
    BY DEF IInv, TypeOK, Shape, Held, Placed, Visited, Path, Ended, Check, Goto,
       Verified, Finish, managerVars
<1> QED BY <1>1, <1>2, <1>3, <1>4, <1>5, <1>6 DEF IInv

(* Who removes its file has none; another's file at that path goes too. *)
LEMMA RemoveInv ==
    ASSUME IInv, NEW i \in Item, Remove(i) PROVE IInv'
<1>1. TypeOK' BY DEF IInv, TypeOK, Path, Ended, Remove, Goto, Finish, managerVars
<1>2. Shape' BY DEF IInv, TypeOK, Shape, Path, Remove, Goto, Finish, managerVars
<1>3. Heard'
    BY DEF IInv, TypeOK, Heard, Shape, Ended, CancelIsHeard, Remove, Goto, Finish,
       managerVars
<1>4. CancelIsHeard'
    BY DEF IInv, TypeOK, Heard, CancelIsHeard, Shape, Ended, Remove, Goto, Finish,
       managerVars
<1>5. Held'
    BY DEF IInv, TypeOK, Shape, Held, Ended, Path, Remove, Goto, Finish, managerVars
<1>6. Placed'
    BY DEF IInv, TypeOK, Shape, Held, Placed, Visited, Path, Ended, Remove, Goto,
       Finish, managerVars
<1> QED BY <1>1, <1>2, <1>3, <1>4, <1>5, <1>6 DEF IInv
-----------------------------------------------------------------------------
(* The downloads start with nothing listed and no file of theirs. *)
LEMMA InitInv == Init => IInv
<1> SUFFICES ASSUME Init PROVE IInv
    OBVIOUS
<1>1. TypeOK BY DEF Init, TypeOK, Path, Ended
<1>2. Shape /\ Heard /\ CancelIsHeard BY DEF Init, Shape, Heard, CancelIsHeard
<1>3. Held /\ Placed BY DEF Init, Held, Placed, Path
<1> QED BY <1>1, <1>2, <1>3 DEF IInv

(* Nothing changes, nothing to show. *)
LEMMA StutterInv == ASSUME IInv, UNCHANGED vars PROVE IInv'
BY DEF IInv, TypeOK, Shape, Heard, CancelIsHeard, Held, Placed, Visited, Path,
       Ended, vars, managerVars, loadVars

(* The invariant is inductive. *)
LEMMA NextInv == IInv /\ [Next]_vars => IInv'
<1> SUFFICES ASSUME IInv, [Next]_vars PROVE IInv'
    OBVIOUS
<1>1. CASE ClearCompleted BY <1>1, ClearCompletedInv
<1>2. ASSUME NEW i \in Item, CreateItem(i) PROVE IInv' BY <1>2, CreateItemInv
<1>3. ASSUME NEW i \in Item, Cancel(i) PROVE IInv' BY <1>3, CancelInv
<1>4. ASSUME NEW i \in Item, CallCanceler(i) PROVE IInv' BY <1>4, CallCancelerInv
<1>5. ASSUME NEW i \in Item, NavigationEnds(i) PROVE IInv' BY <1>5, NavigationEndsInv
<1>6. ASSUME NEW i \in Item, Receive(i) PROVE IInv' BY <1>6, ReceiveInv
<1>7. ASSUME NEW i \in Item, LoadGoesOn(i) PROVE IInv'
    BY <1>7, SetCancelInv, PlaceInv, GiveUpInv, FailInv, ProbeInv, WriteInv,
       CompleteInv, CheckInv, RemoveInv DEF LoadGoesOn
<1>8. CASE UNCHANGED vars BY <1>8, StutterInv
<1> QED BY <1>1, <1>2, <1>3, <1>4, <1>5, <1>6, <1>7, <1>8 DEF Next

(* Every reachable state satisfies the invariant. *)
THEOREM Invariant == Spec => []IInv
BY InitInv, NextInv, PTL DEF Spec, SafeSpec

(* The variables keep their types. *)
THEOREM TypeCorrect == Spec => []TypeOK
<1>1. IInv => TypeOK BY DEF IInv
<1> QED BY <1>1, Invariant, PTL

(* A transfer whose item was canceled ends, or is about to be told: Cancel  *)
(* and SetCancel cannot miss each other (manager.go's SetCancel).           *)
THEOREM CanceledHears == Spec => []CancelIsHeard
<1>1. IInv => CancelIsHeard BY DEF IInv
<1> QED BY <1>1, Invariant, PTL

(* A canceled stream leaves no file, however late it was canceled. *)
THEOREM NothingLeft == Spec => []CanceledLeavesNothing
<1>1. IInv => CanceledLeavesNothing
    BY DEF IInv, TypeOK, Held, CanceledLeavesNothing, Path
<1> QED BY <1>1, Invariant, PTL
-----------------------------------------------------------------------------
(* One step of the manager leaves an ended item as it is. *)
LEMMA EndedStep ==
    ASSUME IInv, [Next]_vars, NEW j \in Item, status[j] \in Ended
    PROVE  status'[j] = status[j]
<1> USE DEF IInv, TypeOK, Shape, Ended
<1>1. CASE ClearCompleted BY <1>1 DEF ClearCompleted
<1>2. ASSUME NEW i \in Item, CreateItem(i) PROVE status'[j] = status[j]
    BY <1>2 DEF CreateItem
<1>3. ASSUME NEW i \in Item, Cancel(i) PROVE status'[j] = status[j]
    BY <1>3 DEF Cancel, End, Active
<1>4. ASSUME NEW i \in Item, CallCanceler(i) \/ NavigationEnds(i) \/ Receive(i)
      PROVE  status'[j] = status[j]
    BY <1>4 DEF CallCanceler, NavigationEnds, Receive, managerVars
<1>5. ASSUME NEW i \in Item, LoadGoesOn(i) PROVE status'[j] = status[j]
    <2>1. CASE GiveUp(i) \/ Fail(i) \/ Complete(i)
        BY <2>1 DEF GiveUp, Fail, Complete, Completes, End, Active
    <2>2. CASE SetCancel(i) \/ Place(i) \/ Probe(i) \/ Write(i) \/ Check(i) \/ Remove(i)
        BY <2>2 DEF SetCancel, Place, Probe, Write, Check, Remove, managerVars
    <2> QED BY <1>5, <2>1, <2>2 DEF LoadGoesOn
<1>6. CASE UNCHANGED vars BY <1>6 DEF vars, managerVars
<1> QED BY <1>1, <1>2, <1>3, <1>4, <1>5, <1>6 DEF Next

(* The first of Complete, Fail and Cancel to end an item decides. *)
THEOREM FirstEndDecides == Spec => EndedStays
<1>1. IInv /\ [Next]_vars => [\A i \in Item : status[i] \in Ended => status'[i] = status[i]]_vars
    BY EndedStep
<1> QED BY <1>1, Invariant, PTL DEF Spec, SafeSpec, EndedStays

(* Only placing, writing and removing change a file, each at the path of    *)
(* its own load.                                                            *)
LEMMA FileStep ==
    ASSUME IInv, [Next]_vars, NEW p \in Path, disk[p] # NoFile, disk'[p] # disk[p]
    PROVE  \E i \in Item :
             /\ pc'[i] # pc[i] /\ path'[i] = p
             /\ \/ kind[i] # "stream" \/ disk[p] = i
                \/ /\ pc[i] = "remove" /\ disk[p] \in Item
                   /\ \E k \in Item : kind[k] # "stream" /\ path[k] = p
<1>1. PICK i \in Item : Place(i) \/ Write(i) \/ Remove(i)
    <2>1. CASE ClearCompleted \/ UNCHANGED vars
        BY <2>1 DEF ClearCompleted, vars
    <2>2. ASSUME NEW i \in Item,
                 CreateItem(i) \/ Cancel(i) \/ CallCanceler(i) \/ NavigationEnds(i)
                   \/ Receive(i)
          PROVE  FALSE
        BY <2>2 DEF CreateItem, Cancel, CallCanceler, NavigationEnds, Receive
    <2>3. ASSUME NEW i \in Item,
                 SetCancel(i) \/ GiveUp(i) \/ Fail(i) \/ Probe(i) \/ Complete(i) \/ Check(i)
          PROVE  FALSE
        BY <2>3 DEF SetCancel, GiveUp, Fail, Probe, Complete, Check
    <2> QED BY <2>1, <2>2, <2>3 DEF Next, LoadGoesOn
<1> USE DEF IInv, TypeOK, Path
<1>2. CASE Place(i)
    <2>1. Lands(i, p) /\ path'[i] = p /\ pc[i] = "place" /\ pc'[i] = "complete"
        BY <1>2 DEF Place, Goto
    <2>2. kind[i] # "stream"
        BY <2>1 DEF Lands, FirstFree, Free, Shape
    <2> QED BY <2>1, <2>2
<1>3. CASE Write(i)
    <2>1. pc[i] = "write" /\ pc'[i] = "complete" /\ path'[i] = p
        BY <1>3 DEF Write, Goto
    <2>2. kind[i] = "buffered" BY <2>1 DEF Shape
    <2> QED BY <2>1, <2>2
<1>4. CASE Remove(i)
    <2>1. path'[i] = p /\ path[i] = p /\ pc[i] = "remove" /\ pc'[i] = "done"
        BY <1>4 DEF Remove, Finish, Goto, Shape
    <2>2. kind[i] = "stream" => disk[p] # Foreign /\ (disk[p] = i \/ Visited(p))
        BY <2>1 DEF Placed
    <2>3. disk[p] \in Item \/ disk[p] = Foreign OBVIOUS
    <2> QED BY <2>1, <2>2, <2>3 DEF Visited
<1> QED BY <1>1, <1>2, <1>3, <1>4

(* No file goes but by the hand of its own load, or of one that may. *)
THEOREM FilesAreKept == Spec => FilesKept
<1>1. IInv /\ [Next]_vars =>
        [\A p \in Path :
           disk[p] # NoFile /\ disk'[p] # disk[p] =>
             \E i \in Item :
               /\ pc'[i] # pc[i] /\ path'[i] = p
               /\ \/ kind[i] # "stream" \/ disk[p] = i
                  \/ /\ pc[i] = "remove" /\ disk[p] \in Item
                     /\ \E k \in Item : kind[k] # "stream" /\ path[k] = p]_vars
    BY FileStep
<1> QED BY <1>1, Invariant, PTL DEF Spec, SafeSpec, FilesKept
-----------------------------------------------------------------------------
(* What the user is told of a download (downloadDone, context.Canceled, an  *)
(* error: document_loader.go:255-300) and what the list of downloads says   *)
(* of it are written by two goroutines, at different moments.               *)

(* A download that is over has ended in the list, too.  What is reported as *)
(* saved was completed, unless it was a buffered one, canceled while it was *)
(* written; an error was not completed; and what is reported as canceled    *)
(* was, or was completed and cleared from the list before the load looked.  *)
ReportIsTrue ==
    \A i \in Item :
        /\ pc[i] = "done" => status[i] \in Ended
        /\ told[i] = "saved"
             => status[i] = "completed" \/ (kind[i] = "buffered" /\ status[i] = "canceled")
        /\ told[i] = "error" => status[i] \in {"failed", "canceled"}
        /\ told[i] = "canceled"
             => status[i] = "canceled" \/ (status[i] = "completed" /\ i \notin listed)

(* What the list says at each step of a load that is not over.              *)
Pending ==
    \A i \in Item :
        /\ pc[i] = "done" <=> told[i] # "nothing"
        /\ pc[i] \in {"attach", "receive", "place", "giveUp", "fail", "probe", "write",
                      "complete"} => status[i] \in {"active", "canceled"}
        /\ pc[i] \in {"check", "remove"} => status[i] \in {"completed", "canceled"}
        /\ pc[i] = "remove" => status[i] = "canceled" \/ i \notin listed

ReportInv == Pending /\ ReportIsTrue

(* Nobody but the load itself reports, and an ended item stays as it ended. *)
LEMMA ReportStep == IInv /\ ReportInv /\ [Next]_vars => ReportInv'
<1> SUFFICES ASSUME IInv, ReportInv, [Next]_vars PROVE ReportInv'
    OBVIOUS
<1> USE DEF IInv, TypeOK, Heard, Ended, ReportInv, Pending, ReportIsTrue
<1>1. ASSUME ClearCompleted PROVE ReportInv'
    BY <1>1 DEF ClearCompleted, loadVars
<1>2. ASSUME NEW i \in Item, CreateItem(i) PROVE ReportInv'
    BY <1>2 DEF CreateItem, Goto, Shape
<1>3. ASSUME NEW i \in Item, Cancel(i) PROVE ReportInv'
    BY <1>3 DEF Cancel, Active, End, loadVars
<1>4. ASSUME NEW i \in Item, CallCanceler(i) PROVE ReportInv'
    BY <1>4 DEF CallCanceler, managerVars, loadVars
<1>5. ASSUME NEW i \in Item, NavigationEnds(i) PROVE ReportInv'
    BY <1>5 DEF NavigationEnds, managerVars, loadVars
<1>6. ASSUME NEW i \in Item, Receive(i) PROVE ReportInv'
    BY <1>6 DEF Receive, Goto, managerVars
<1>7. ASSUME NEW i \in Item, SetCancel(i) PROVE ReportInv'
    BY <1>7 DEF SetCancel, Attach, Goto
<1>8. ASSUME NEW i \in Item, Place(i) PROVE ReportInv'
    BY <1>8 DEF Place, Goto, managerVars
<1>9. ASSUME NEW i \in Item, GiveUp(i) PROVE ReportInv'
    BY <1>9 DEF GiveUp, Active, End, Finish, Goto
<1>10. ASSUME NEW i \in Item, Fail(i) PROVE ReportInv'
    BY <1>10 DEF Fail, Active, End, Finish, Goto
<1>11. ASSUME NEW i \in Item, Probe(i) PROVE ReportInv'
    BY <1>11 DEF Probe, Goto, managerVars
<1>12. ASSUME NEW i \in Item, Write(i) PROVE ReportInv'
    BY <1>12 DEF Write, Goto, managerVars
<1>13. ASSUME NEW i \in Item, Complete(i) PROVE ReportInv'
    BY <1>13 DEF Complete, Completes, Active, End, Finish, Goto
<1>14. ASSUME NEW i \in Item, Check(i) PROVE ReportInv'
    BY <1>14 DEF Check, Verified, Finish, Goto, managerVars, Shape
<1>15. ASSUME NEW i \in Item, Remove(i) PROVE ReportInv'
    BY <1>15 DEF Remove, Finish, Goto, managerVars
<1>16. ASSUME UNCHANGED vars PROVE ReportInv'
    BY <1>16 DEF vars, managerVars, loadVars
<1> QED BY <1>1, <1>2, <1>3, <1>4, <1>5, <1>6, <1>7, <1>8, <1>9, <1>10, <1>11, <1>12, <1>13, <1>14, <1>15, <1>16
        DEF Next, LoadGoesOn

(* Report and list agree, however the two race with Cancel and with         *)
(* ClearCompleted; and no item stays active after its load is over.         *)
THEOREM ReportsAreTrue == Spec => []ReportIsTrue
<1>1. Init => ReportInv
    BY DEF Init, ReportInv, Pending, ReportIsTrue, Ended
<1>2. IInv /\ ReportInv /\ [Next]_vars => ReportInv'
    BY ReportStep
<1>3. ReportInv => ReportIsTrue
    BY DEF ReportInv
<1> QED BY <1>1, <1>2, <1>3, Invariant, PTL DEF Spec, SafeSpec
=============================================================================
