----------------------------- MODULE Downloads -----------------------------
(***************************************************************************)
(* Downloads: the manager's list of items (internal/download/manager.go),  *)
(* the loads that transfer them (cmd/goosie/document_loader.go,            *)
(* internal/download/download.go) and the user who cancels and clears      *)
(* (cmd/goosie/internal_pages.go), each in a goroutine of its own.         *)
(*                                                                         *)
(* All downloads want the same file name; path n is its n-th candidate     *)
(* ("name", "name (1)", ...), and a save dialog returns the first.  There  *)
(* are more candidates than downloads, so that one is always free.  A file *)
(* is the item whose bytes it holds.                                       *)
(***************************************************************************)
EXTENDS Integers, FiniteSets

CONSTANTS Item,     \* downloads
          Paths,    \* number of candidate paths
          NoFile,
          Foreign   \* the content of a file that was there before

ASSUME DownloadsAssumption ==
    /\ IsFiniteSet(Item)
    /\ Paths \in Nat /\ Paths > Cardinality(Item)
    /\ NoFile \notin Item /\ Foreign \notin Item /\ NoFile # Foreign

VARIABLES
    kind,       \* how a download is saved: see Init
    pc,         \* where its load is
    status,     \* Item.Status; "none" before CreateItem
    listed,     \* Manager.byID, and Manager.items
    canceler,   \* Manager.cancel: items with a cancel function
    calling,    \* cancel functions taken out by Cancel and not yet called
    cancelled,  \* downloads whose context is done
    path,       \* savedPath, 0 before it is known
    disk,       \* content of each candidate path
    told        \* what the load reports: downloadDone, context.Canceled, an error

managerVars == <<status, listed, canceler>>
loadVars    == <<pc, path, told>>
vars == <<kind, managerVars, loadVars, calling, cancelled, disk>>

Path == 1..Paths
Ended == {"completed", "failed", "canceled"}

TypeOK ==
    /\ kind \in [Item -> {"stream", "picked", "buffered"}]
    /\ pc \in [Item -> {"idle", "attach", "receive", "place", "giveUp", "fail",
                        "probe", "write", "complete", "check", "remove", "done"}]
    /\ status \in [Item -> {"none", "active"} \cup Ended]
    /\ listed \subseteq {i \in Item : status[i] # "none"}
    /\ canceler \subseteq {i \in Item : status[i] = "active"}
    /\ calling \subseteq {i \in Item : status[i] = "canceled"}
    /\ cancelled \subseteq Item
    /\ path \in [Item -> 0..Paths]
    /\ disk \in [Path -> Item \cup {NoFile, Foreign}]
    /\ told \in [Item -> {"nothing", "saved", "canceled", "error"}]

(* A response is streamed to a free name, streamed to the path the user     *)
(* picked in a save dialog, or, when its body was already read, written at  *)
(* once.  The first name may be taken.                                      *)
Init ==
    /\ kind \in [Item -> {"stream", "picked", "buffered"}]
    /\ pc = [i \in Item |-> "idle"] /\ status = [i \in Item |-> "none"]
    /\ listed = {} /\ canceler = {} /\ calling = {} /\ cancelled = {}
    /\ path = [i \in Item |-> 0]
    /\ \E f \in {NoFile, Foreign} :
         disk = [p \in Path |-> IF p = 1 THEN f ELSE NoFile]
    /\ told = [i \in Item |-> "nothing"]

Goto(i, l) == pc' = [pc EXCEPT ![i] = l]
Finish(i, what) == Goto(i, "done") /\ told' = [told EXCEPT ![i] = what]
Free(p) == disk[p] = NoFile
FirstFree(p) == Free(p) /\ \A q \in 1..(p - 1) : ~Free(q)
-----------------------------------------------------------------------------
(* The manager. *)

Active(i) == i \in listed /\ status[i] = "active"

End(i, s) ==
    IF Active(i)
    THEN /\ status' = [status EXCEPT ![i] = s]
         /\ canceler' = canceler \ {i}
    ELSE UNCHANGED <<status, canceler>>

(* Faulty variant: completion overrules a cancellation. *)
CompleteAnyway(i) ==
    IF i \in listed
    THEN /\ status' = [status EXCEPT ![i] = "completed"]
         /\ canceler' = canceler \ {i}
    ELSE UNCHANGED <<status, canceler>>

Completes(i) == End(i, "completed")

(* Faulty variant: the function is forgotten with the lock held. *)
CancelUncalled(i) ==
    /\ Active(i)
    /\ End(i, "canceled")
    /\ UNCHANGED <<kind, listed, loadVars, calling, cancelled, disk>>

(* Cancel, up to the unlock: the cancel function is called after it. *)
Cancel(i) ==
    /\ Active(i)
    /\ End(i, "canceled")
    /\ calling' = calling \cup ({i} \cap canceler)
    /\ UNCHANGED <<kind, listed, loadVars, cancelled, disk>>

CallCanceler(i) ==
    /\ i \in calling
    /\ calling' = calling \ {i}
    /\ cancelled' = cancelled \cup {i}
    /\ UNCHANGED <<kind, managerVars, loadVars, disk>>

ClearCompleted ==
    /\ listed' = {i \in listed : status[i] \notin Ended}
    /\ listed' # listed
    /\ UNCHANGED <<kind, status, canceler, loadVars, calling, cancelled, disk>>
-----------------------------------------------------------------------------
(* The load of a download. *)

CreateItem(i) ==
    /\ pc[i] = "idle"
    /\ status' = [status EXCEPT ![i] = "active"]
    /\ listed' = listed \cup {i}
    /\ Goto(i, IF kind[i] = "buffered" THEN "probe" ELSE "attach")
    /\ UNCHANGED <<kind, canceler, calling, cancelled, path, disk, told>>

(* Faulty variant: an item that was cleared is attached like a new one. *)
AttachUnlisted(i) ==
    IF status[i] \in Ended /\ i \in listed
    THEN cancelled' = cancelled \cup {i} /\ UNCHANGED canceler
    ELSE canceler' = (IF status[i] = "active" THEN canceler \cup {i} ELSE canceler)
         /\ UNCHANGED cancelled

Attach(i) ==
    IF Active(i)
    THEN canceler' = canceler \cup {i} /\ UNCHANGED cancelled
    ELSE cancelled' = cancelled \cup {i} /\ UNCHANGED canceler

SetCancel(i) ==
    /\ pc[i] = "attach"
    /\ Attach(i)
    /\ Goto(i, "receive")
    /\ UNCHANGED <<kind, status, listed, calling, path, disk, told>>

(* Stop, a newer navigation, or shutdown: the context the load derives its  *)
(* own from.                                                                *)
NavigationEnds(i) ==
    /\ pc[i] \in {"attach", "receive", "place"}
    /\ cancelled' = cancelled \cup {i}
    /\ UNCHANGED <<kind, managerVars, loadVars, calling, disk>>

(* writeStreamTemp's last test of its context. *)
Received(i) == i \notin cancelled

(* writeStreamTemp: the body arrived; the context is done; a read or write  *)
(* failed, in the way reads fail once the context is done included.         *)
Receive(i) ==
    /\ pc[i] = "receive"
    /\ \/ Received(i) /\ Goto(i, "place")
       \/ i \in cancelled /\ Goto(i, "giveUp")
       \/ Goto(i, "fail")
    /\ UNCHANGED <<kind, managerVars, path, told, calling, cancelled, disk>>

(* Faulty variant: a rename, which replaces what it finds. *)
LandsAnywhere(i, p) == p = 1

(* Link fails where something is; rename replaces it. *)
Lands(i, p) == IF kind[i] = "picked" THEN p = 1 ELSE FirstFree(p)

(* SaveStream links the temporary file to the first free name; SaveStreamTo *)
(* tests the context once more and renames it to the path picked.           *)
Place(i) ==
    /\ pc[i] = "place"
    /\ \/ \E p \in Path :
            /\ Lands(i, p)
            /\ disk' = [disk EXCEPT ![p] = i]
            /\ path' = [path EXCEPT ![i] = p]
            /\ Goto(i, "complete")
       \/ /\ kind[i] = "picked" /\ i \in cancelled
          /\ Goto(i, "giveUp") /\ UNCHANGED <<disk, path>>
       \/ Goto(i, "fail") /\ UNCHANGED <<disk, path>>
    /\ UNCHANGED <<kind, managerVars, told, calling, cancelled>>

(* The two ways a save ends without a file; the context is done by then. *)
GiveUp(i) ==
    /\ pc[i] = "giveUp" /\ End(i, "canceled") /\ Finish(i, "canceled")
    /\ UNCHANGED <<kind, listed, path, calling, cancelled, disk>>

Fail(i) ==
    /\ pc[i] = "fail" /\ End(i, "failed") /\ Finish(i, "error")
    /\ UNCHANGED <<kind, listed, path, calling, cancelled, disk>>

(* Save looks for a free name, then writes. *)
Probe(i) ==
    /\ pc[i] = "probe"
    /\ \E p \in Path : FirstFree(p) /\ path' = [path EXCEPT ![i] = p]
    /\ Goto(i, "write")
    /\ UNCHANGED <<kind, managerVars, told, calling, cancelled, disk>>

Write(i) ==
    /\ pc[i] = "write"
    /\ \/ disk' = [disk EXCEPT ![path[i]] = i] /\ Goto(i, "complete")
       \/ UNCHANGED disk /\ Goto(i, "fail")
    /\ UNCHANGED <<kind, managerVars, path, told, calling, cancelled>>

(* A buffered save is told whatever the item's state is by now. *)
Complete(i) ==
    /\ pc[i] = "complete"
    /\ Completes(i)
    /\ IF kind[i] = "buffered" THEN Finish(i, "saved")
       ELSE Goto(i, "check") /\ UNCHANGED told
    /\ UNCHANGED <<kind, listed, path, calling, cancelled, disk>>

(* Faulty variant: Complete is taken at its word. *)
VerifiedUnseen(i) == status[i] # "failed"

(* Get: the item is still listed, and completed. *)
Verified(i) == i \in listed /\ status[i] = "completed"

Check(i) ==
    /\ pc[i] = "check"
    /\ IF Verified(i) THEN Finish(i, "saved") ELSE Goto(i, "remove") /\ UNCHANGED told
    /\ UNCHANGED <<kind, managerVars, path, calling, cancelled, disk>>

(* Whatever the path holds by now is removed. *)
Remove(i) ==
    /\ pc[i] = "remove"
    /\ disk' = [disk EXCEPT ![path[i]] = NoFile]
    /\ Finish(i, "canceled")
    /\ UNCHANGED <<kind, managerVars, path, calling, cancelled>>
-----------------------------------------------------------------------------
(* What a load does without waiting for the network. *)
LoadGoesOn(i) ==
    \/ SetCancel(i) \/ Place(i) \/ GiveUp(i) \/ Fail(i) \/ Probe(i) \/ Write(i)
    \/ Complete(i) \/ Check(i) \/ Remove(i)

Next ==
    \/ ClearCompleted
    \/ \E i \in Item :
         \/ CreateItem(i) \/ Cancel(i) \/ CallCanceler(i) \/ NavigationEnds(i)
         \/ Receive(i) \/ LoadGoesOn(i)

SafeSpec == Init /\ [][Next]_vars

(* A transfer may take for ever, unless its context is done: reads then     *)
(* return.  Everything else a goroutine does, it does in time.              *)
Fairness ==
    \A i \in Item : /\ WF_vars(LoadGoesOn(i)) /\ WF_vars(CallCanceler(i))
                    /\ WF_vars(i \in cancelled /\ Receive(i))

Spec == SafeSpec /\ Fairness
-----------------------------------------------------------------------------
(* An item ends once: however Complete, Fail, Cancel and ClearCompleted     *)
(* race, the first to end it decides.                                       *)
EndedStays ==
    [][\A i \in Item : status[i] \in Ended => status'[i] = status[i]]_vars

(* A transfer whose item was canceled has a done context, or one that       *)
(* SetCancel or the running Cancel is about to end; clearing the item       *)
(* meanwhile makes no difference (SetCancel's comment on the race).         *)
CancelIsHeard ==
    \A i \in Item :
        status[i] = "canceled" /\ pc[i] = "receive" => i \in cancelled \cup calling

(* A canceled transfer ends. *)
CancelEnds ==
    \A i \in Item : status[i] = "canceled" ~> pc[i] = "done"

(* A streamed download that was canceled leaves no file, also when its file *)
(* was in place already.                                                    *)
CanceledLeavesNothing ==
    \A i \in Item :
        status[i] = "canceled" /\ kind[i] # "buffered" /\ pc[i] = "done"
          => \A p \in Path : disk[p] # i

(* A file is replaced or removed only by the load that put it there, by one *)
(* whose path the user picked, or by a buffered one that found the name     *)
(* free before (Save's two steps).  Where one of these has been, a canceled *)
(* stream also removes what it finds in the place of its file               *)
(* (document_loader.go:277-280), another stream's file included.  What was  *)
(* there before the downloads is safe from streams.                         *)
FilesKept ==
    [][\A p \in Path :
         disk[p] # NoFile /\ disk'[p] # disk[p] =>
           \E i \in Item :
             /\ pc'[i] # pc[i] /\ path'[i] = p
             /\ \/ kind[i] # "stream" \/ disk[p] = i
                \/ /\ pc[i] = "remove" /\ disk[p] \in Item
                   /\ \E k \in Item : kind[k] # "stream" /\ path[k] = p]_vars

=============================================================================
