----------------------------- MODULE RasterPool -----------------------------
(***************************************************************************)
(* The raster worker pool (internal/raster/pool.go).                       *)
(*                                                                         *)
(* One caller - the frame thread, or a tool that drains a document -       *)
(* submits jobs and collects results; a fixed set of workers paints; one   *)
(* closer (the context watcher, or whoever calls Close) shuts the pool     *)
(* down.  The channels are sequences, a job is named by the tile buffer it *)
(* carries (Job.Out), and a buffer that is in none of them is the          *)
(* caller's.  What a raster produced - pixels, an error or a recovered     *)
(* panic - is abstracted: the pool treats the three alike.                 *)
(***************************************************************************)
EXTENDS Naturals, Sequences, FiniteSets

CONSTANTS Buffer,       \* tile buffers the caller can submit
          Worker,       \* the worker goroutines
          QueueDepth,   \* capacity of the job channel
          MaxWait,      \* bound: the largest n passed to Wait
          CanClose,     \* whether this instance is ever shut down
          NoBuffer

ASSUME PoolAssumption ==
    /\ IsFiniteSet(Buffer)
    /\ IsFiniteSet(Worker) /\ Worker # {}
    /\ QueueDepth \in Nat \ {0}
    /\ MaxWait \in Nat
    /\ CanClose \in BOOLEAN
    /\ NoBuffer \notin Buffer

VARIABLES
    jobs,         \* chan Job: buffers waiting for a worker
    done,         \* chan Done: buffers finished and not collected
    worker,       \* worker state: "new", "idle", "busy", "gone"
    painting,     \* the buffer each busy worker paints
    lost,         \* buffers whose result the completion queue could not hold
    outstanding,  \* admitted and not collected
    outer,        \* the context given to Start is cancelled
    cancelled,    \* the pool's own context is cancelled
    closed,       \* the closed flag Submit reads
    closing,      \* where Close is: "open", "drain", "join", "returned"
    caller,       \* where the caller is: "idle", "submit", "wait", "flush"
    arg,          \* the buffer of the submission in progress
    want,         \* n of the Wait in progress
    taken         \* results the Wait in progress holds

workerVars == <<worker, painting>>
shutVars   == <<outer, cancelled, closed, closing>>
callVars   == <<caller, arg, want, taken>>
vars == <<jobs, done, workerVars, lost, outstanding, shutVars, callVars>>

(* One completion slot per job that can exist. *)
Slots == QueueDepth + Cardinality(Worker)

Elems(s)    == {s[i] : i \in DOMAIN s}
Distinct(s) == \A i, j \in DOMAIN s : s[i] = s[j] => i = j
Busy        == {w \in Worker : worker[w] = "busy"}

Painted     == {painting[w] : w \in Busy}

(* The buffers inside the pool; all others are the caller's to use. *)
Inside == Elems(jobs) \cup Painted \cup Elems(done) \cup Elems(taken) \cup lost
Home   == Buffer \ Inside

TypeOK ==
    /\ jobs \in Seq(Buffer) /\ done \in Seq(Buffer) /\ taken \in Seq(Buffer)
    /\ worker \in [Worker -> {"new", "idle", "busy", "gone"}]
    /\ painting \in [Worker -> Buffer \cup {NoBuffer}]
    /\ lost \subseteq Buffer
    /\ outstanding \in Nat
    /\ outer \in BOOLEAN /\ cancelled \in BOOLEAN /\ closed \in BOOLEAN
    /\ closing \in {"open", "drain", "join", "returned"}
    /\ caller \in {"idle", "submit", "wait", "flush"}
    /\ arg \in Buffer \cup {NoBuffer}
    /\ want \in Nat

Init ==
    /\ jobs = <<>> /\ done = <<>> /\ taken = <<>>
    /\ worker = [w \in Worker |-> "new"]
    /\ painting = [w \in Worker |-> NoBuffer]
    /\ lost = {} /\ outstanding = 0
    /\ outer = FALSE /\ cancelled = FALSE /\ closed = FALSE
    /\ closing = "open"
    /\ caller = "idle" /\ arg = NoBuffer /\ want = 0
-----------------------------------------------------------------------------
(* The caller. *)

(* Submit's first test.  A closed pool refuses at once and nothing changes. *)
SubmitEnter(b) ==
    /\ caller = "idle" /\ b \in Home
    /\ ~closed
    /\ caller' = "submit" /\ arg' = b
    /\ UNCHANGED <<jobs, done, workerVars, lost, outstanding, shutVars, want, taken>>

(* Faulty variant: the queue alone limits what is admitted. *)
SubmitAdmitUnreserved ==
    /\ caller = "submit"
    /\ Len(jobs) < QueueDepth
    /\ jobs' = Append(jobs, arg)
    /\ outstanding' = outstanding + 1
    /\ caller' = "idle" /\ arg' = NoBuffer
    /\ UNCHANGED <<done, workerVars, lost, shutVars, want, taken>>

(* The rest of Submit admits the job only while a result slot and a queue  *)
(* place are free.  The caller is the only goroutine that moves            *)
(* outstanding, so the test, the send and the count are one step.          *)
SubmitAdmit ==
    /\ caller = "submit"
    /\ outstanding < Slots /\ Len(jobs) < QueueDepth
    /\ jobs' = Append(jobs, arg)
    /\ outstanding' = outstanding + 1
    /\ caller' = "idle" /\ arg' = NoBuffer
    /\ UNCHANGED <<done, workerVars, lost, shutVars, want, taken>>

SubmitRefuse ==
    /\ caller = "submit"
    /\ outstanding >= Slots \/ Len(jobs) >= QueueDepth
    /\ caller' = "idle" /\ arg' = NoBuffer
    /\ UNCHANGED <<jobs, done, workerVars, lost, outstanding, shutVars, want, taken>>

(* Poll and its collected(1); an empty queue leaves everything alone. *)
Poll ==
    /\ caller = "idle" /\ done # <<>>
    /\ done' = Tail(done)
    /\ outstanding' = outstanding - 1
    /\ UNCHANGED <<jobs, workerVars, lost, shutVars, callVars>>

WaitEnter(n) ==
    /\ caller = "idle"
    /\ caller' = "wait" /\ want' = n
    /\ UNCHANGED <<jobs, done, workerVars, lost, outstanding, shutVars, arg, taken>>

(* Wait takes a result, in its main loop or in the drain after the pool's  *)
(* context is cancelled; the drain has no limit.                           *)
WaitTake ==
    /\ \/ caller = "wait" /\ Len(taken) < want
       \/ caller = "flush"
    /\ done # <<>>
    /\ taken' = Append(taken, Head(done)) /\ done' = Tail(done)
    /\ UNCHANGED <<jobs, workerVars, lost, outstanding, shutVars, caller, arg, want>>

(* Faulty variant: Wait watches the caller's context, not the pool's. *)
WaitCancelledByOuter ==
    /\ caller = "wait" /\ Len(taken) < want /\ outer
    /\ caller' = "flush"
    /\ UNCHANGED <<jobs, done, workerVars, lost, outstanding, shutVars, arg, want, taken>>

(* The select may prefer the cancelled context to a result that is ready. *)
WaitCancelled ==
    /\ caller = "wait" /\ Len(taken) < want /\ cancelled
    /\ caller' = "flush"
    /\ UNCHANGED <<jobs, done, workerVars, lost, outstanding, shutVars, arg, want, taken>>

(* Faulty variant: Wait keeps one result slice across calls. *)
WaitReturnKeepsSlice ==
    /\ \/ caller = "wait" /\ Len(taken) >= want
       \/ caller = "flush" /\ done = <<>>
    /\ outstanding' = outstanding - Len(taken)
    /\ caller' = "idle" /\ want' = 0
    /\ UNCHANGED <<jobs, done, workerVars, lost, shutVars, arg, taken>>

(* The deferred collected(len(out)) runs as Wait returns. *)
WaitReturn ==
    /\ \/ caller = "wait" /\ Len(taken) >= want
       \/ caller = "flush" /\ done = <<>>
    /\ outstanding' = outstanding - Len(taken)
    /\ caller' = "idle" /\ want' = 0 /\ taken' = <<>>
    /\ UNCHANGED <<jobs, done, workerVars, lost, shutVars, arg>>
-----------------------------------------------------------------------------
(* The workers. *)

(* start.Do: the first call launches every worker. *)
Start ==
    /\ \E w \in Worker : worker[w] = "new"
    /\ worker' = [w \in Worker |-> "idle"]
    /\ UNCHANGED <<jobs, done, painting, lost, outstanding, shutVars, callVars>>

(* The select may take a job although a context is already cancelled. *)
WorkerTake(w) ==
    /\ worker[w] = "idle" /\ jobs # <<>>
    /\ worker' = [worker EXCEPT ![w] = "busy"]
    /\ painting' = [painting EXCEPT ![w] = Head(jobs)]
    /\ jobs' = Tail(jobs)
    /\ UNCHANGED <<done, lost, outstanding, shutVars, callVars>>

(* Faulty variant: workers obey only the context given to Start. *)
WorkerLeaveOnOuter(w) ==
    /\ worker[w] = "idle" /\ outer
    /\ worker' = [worker EXCEPT ![w] = "gone"]
    /\ UNCHANGED <<jobs, done, painting, lost, outstanding, shutVars, callVars>>

WorkerLeave(w) ==
    /\ worker[w] = "idle" /\ (outer \/ cancelled)
    /\ worker' = [worker EXCEPT ![w] = "gone"]
    /\ UNCHANGED <<jobs, done, painting, lost, outstanding, shutVars, callVars>>

(* Sending on the completion channel never waits: a result it cannot hold  *)
(* is dropped.                                                             *)
PostDone(b) ==
    IF Len(done) < Slots THEN done' = Append(done, b) /\ UNCHANGED lost
                         ELSE lost' = lost \cup {b} /\ UNCHANGED done

(* Faulty variant: a panic is not recovered and takes the worker with it. *)
WorkerPostOrDie(w) ==
    /\ worker[w] = "busy"
    /\ \/ PostDone(painting[w]) /\ worker' = [worker EXCEPT ![w] = "idle"]
       \/ UNCHANGED <<done, lost>> /\ worker' = [worker EXCEPT ![w] = "gone"]
    /\ painting' = [painting EXCEPT ![w] = NoBuffer]
    /\ UNCHANGED <<jobs, outstanding, shutVars, callVars>>

(* The end of run: the result is posted and the worker asks for more. *)
WorkerPost(w) ==
    /\ worker[w] = "busy"
    /\ PostDone(painting[w])
    /\ worker' = [worker EXCEPT ![w] = "idle"]
    /\ painting' = [painting EXCEPT ![w] = NoBuffer]
    /\ UNCHANGED <<jobs, outstanding, shutVars, callVars>>
-----------------------------------------------------------------------------
(* Shutdown. *)

OuterCancel ==
    /\ CanClose /\ ~outer
    /\ outer' = TRUE
    /\ UNCHANGED <<jobs, done, workerVars, lost, outstanding, cancelled, closed,
                   closing, callVars>>

(* closed.Store(true), the first statement of Close. *)
CloseMark ==
    /\ CanClose /\ closing = "open" /\ ~closed
    /\ closed' = TRUE
    /\ UNCHANGED <<jobs, done, workerVars, lost, outstanding, outer, cancelled,
                   closing, callVars>>

CloseCancel ==
    /\ closing = "open" /\ closed
    /\ cancelled' = TRUE /\ closing' = "drain"
    /\ UNCHANGED <<jobs, done, workerVars, lost, outstanding, outer, closed, callVars>>

(* Faulty variant: Close also returns the buffers workers still paint. *)
CloseDrainRunning ==
    /\ closing = "drain"
    /\ \/ jobs # <<>> /\ jobs' = Tail(jobs) /\ PostDone(Head(jobs))
       \/ \E w \in Busy : PostDone(painting[w]) /\ UNCHANGED jobs
    /\ UNCHANGED <<workerVars, outstanding, shutVars, callVars>>

(* One pass of the drain: a queued job is returned unpainted. *)
CloseDrain ==
    /\ closing = "drain" /\ jobs # <<>>
    /\ jobs' = Tail(jobs)
    /\ PostDone(Head(jobs))
    /\ UNCHANGED <<workerVars, outstanding, shutVars, callVars>>

CloseDrained ==
    /\ closing = "drain" /\ jobs = <<>>
    /\ closing' = "join"
    /\ UNCHANGED <<jobs, done, workerVars, lost, outstanding, outer, cancelled,
                   closed, callVars>>

(* wg.Wait: workers that were never launched are not waited for. *)
CloseReturn ==
    /\ closing = "join" /\ \A w \in Worker : worker[w] \in {"new", "gone"}
    /\ closing' = "returned"
    /\ UNCHANGED <<jobs, done, workerVars, lost, outstanding, outer, cancelled,
                   closed, callVars>>
-----------------------------------------------------------------------------
CallerStep == \/ \E b \in Buffer : SubmitEnter(b)
              \/ SubmitAdmit \/ SubmitRefuse
              \/ Poll
              \/ \E n \in 1..MaxWait : WaitEnter(n)
              \/ WaitTake \/ WaitCancelled \/ WaitReturn

WorkerStep(w) == WorkerTake(w) \/ WorkerLeave(w) \/ WorkerPost(w)

CloserStep == CloseCancel \/ CloseDrain \/ CloseDrained \/ CloseReturn

Next == \/ CallerStep
        \/ Start \/ \E w \in Worker : WorkerStep(w)
        \/ OuterCancel \/ CloseMark \/ CloserStep

(* A goroutine that can run does run: the workers and a Close that began.  *)
(* A caller inside Submit or Wait goes on with it; nothing makes it submit *)
(* or poll.                                                                *)
Fairness == /\ WF_vars(Start)
            /\ \A w \in Worker : WF_vars(WorkerStep(w))
            /\ WF_vars(CloserStep)
            /\ WF_vars(SubmitAdmit \/ SubmitRefuse)
            /\ WF_vars(WaitTake \/ WaitCancelled \/ WaitReturn)

SafeSpec == Init /\ [][Next]_vars
Spec     == SafeSpec /\ Fairness
-----------------------------------------------------------------------------
(* DroppedResults is "zero by construction": neither a worker nor the      *)
(* drain of Close ever finds the completion queue full (pool.go, PoolStats *)
(* and New), although nobody else bounds what is in flight.                *)
NothingLost == lost = {}

(* A buffer is in one place: queued once, or painted by one worker, or     *)
(* reported once.  Two workers on one buffer, or a buffer handed back      *)
(* while it is still painted, would put torn pixels on screen.             *)
OneHolder ==
    /\ Distinct(jobs) /\ Distinct(done) /\ Distinct(taken)
    /\ \A v, w \in Busy : painting[v] = painting[w] => v = w
    /\ Elems(jobs) \cap Painted = {}
    /\ (Elems(jobs) \cup Painted) \cap (Elems(done) \cup Elems(taken)) = {}
    /\ Elems(done) \cap Elems(taken) = {}

(* Stats.Outstanding is exact: it counts what is queued, painted, finished *)
(* or in the hands of a Wait, and never passes the slots it reserves.      *)
OutstandingExact ==
    /\ outstanding = Len(jobs) + Cardinality(Busy) + Len(done) + Len(taken)
    /\ outstanding <= Slots

(* Close returns: the drain and the workers' departure both end.           *)
CloseReturns == closed ~> closing = "returned"

(* A Wait interrupted by a shutdown returns instead of waiting for results *)
(* that will never come.                                                   *)
WaitEndsOnClose == (caller = "wait" /\ cancelled) ~> caller = "idle"

(* Every admitted job is reported: what a worker paints in any case, for   *)
(* "in-flight jobs finish", and what is queued unless a shutdown begins.   *)
Reported(b) == b \in Elems(done) \cup Elems(taken)

EveryJobReported ==
    \A b \in Buffer : /\ b \in Painted ~> Reported(b)
                      /\ b \in Elems(jobs) ~> (Reported(b) \/ outer \/ cancelled)

(* The pool implements the loan ledger: every buffer leaves and returns    *)
(* once, and no more than Slots of them are away.                          *)
LoanOf == [b \in Buffer |-> IF Reported(b) THEN "reported"
                            ELSE IF b \in Inside THEN "lent" ELSE "home"]

Loan == INSTANCE BufferLoan WITH loan <- LoanOf
LedgerKept == Loan!Ledger
=============================================================================
