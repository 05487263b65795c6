-------------------------- MODULE RasterPoolProofs --------------------------
(***************************************************************************)
(* Proofs about RasterPool for every number of buffers and workers and     *)
(* every queue depth.  The inductive invariant adds to the properties what *)
(* ties the program counters to the data (Shape): without it a Start could *)
(* relaunch a busy worker, and a submission could carry a buffer the pool  *)
(* already holds.                                                          *)
(***************************************************************************)
EXTENDS RasterPool, FiniteSetTheorems, TLAPS

USE PoolAssumption

(* Where the goroutines are says what the variables they own hold. *)
Shape ==
    /\ (\E w \in Worker : worker[w] = "new") => \A w \in Worker : worker[w] = "new"
    /\ \A w \in Worker : worker[w] = "busy" <=> painting[w] # NoBuffer
    /\ caller = "submit" => arg \in Home
    /\ caller \in {"idle", "submit"} => taken = <<>>

IInv == TypeOK /\ Shape /\ NothingLost /\ OneHolder /\ OutstandingExact
-----------------------------------------------------------------------------
(* Queue lemmas.  What a send does to the contents. *)
LEMMA AppendElems ==
    ASSUME NEW S, NEW s \in Seq(S), NEW b \in S
    PROVE  /\ Append(s, b) \in Seq(S)
           /\ Len(Append(s, b)) = Len(s) + 1
           /\ Elems(Append(s, b)) = Elems(s) \cup {b}
           /\ Distinct(s) /\ b \notin Elems(s) => Distinct(Append(s, b))
<1>1. /\ Append(s, b) \in Seq(S) /\ Len(Append(s, b)) = Len(s) + 1
      /\ DOMAIN Append(s, b) = 1..(Len(s) + 1) /\ DOMAIN s = 1..Len(s)
      /\ Len(s) \in Nat
      /\ \A i \in 1..Len(s) : Append(s, b)[i] = s[i]
      /\ Append(s, b)[Len(s) + 1] = b
    OBVIOUS
<1>2. Elems(Append(s, b)) = Elems(s) \cup {b}
    <2>1. \A x \in Elems(Append(s, b)) : x \in Elems(s) \cup {b}
        BY <1>1 DEF Elems
    <2>2. \A x \in Elems(s) \cup {b} : x \in Elems(Append(s, b))
        BY <1>1 DEF Elems
    <2> QED BY <2>1, <2>2
<1>3. ASSUME Distinct(s), b \notin Elems(s) PROVE Distinct(Append(s, b))
    BY <1>1, <1>3 DEF Distinct, Elems
<1> QED BY <1>1, <1>2, <1>3

(* What a receive does to them. *)
LEMMA HeadTail ==
    ASSUME NEW S, NEW s \in Seq(S), s # <<>>
    PROVE  /\ Tail(s) \in Seq(S) /\ Head(s) \in S
           /\ Len(s) \in Nat \ {0} /\ Len(Tail(s)) = Len(s) - 1
           /\ Elems(s) = Elems(Tail(s)) \cup {Head(s)}
           /\ Distinct(s) => Distinct(Tail(s)) /\ Head(s) \notin Elems(Tail(s))
<1>1. /\ Tail(s) \in Seq(S) /\ Len(s) \in Nat \ {0} /\ Len(Tail(s)) = Len(s) - 1
      /\ DOMAIN s = 1..Len(s) /\ DOMAIN Tail(s) = 1..(Len(s) - 1)
      /\ Head(s) = s[1] /\ Head(s) \in S
      /\ \A i \in 1..(Len(s) - 1) : Tail(s)[i] = s[i + 1]
    OBVIOUS
<1>2. Elems(s) = Elems(Tail(s)) \cup {Head(s)}
    <2>1. ASSUME NEW i \in DOMAIN s PROVE s[i] \in Elems(Tail(s)) \cup {Head(s)}
        <3>1. CASE i = 1 BY <3>1, <1>1
        <3>2. CASE i # 1
            <4>1. i - 1 \in DOMAIN Tail(s) /\ Tail(s)[i - 1] = s[i] BY <3>2, <1>1
            <4> QED BY <4>1 DEF Elems
        <3> QED BY <3>1, <3>2
    <2>2. ASSUME NEW i \in DOMAIN Tail(s) PROVE Tail(s)[i] \in Elems(s)
        BY <1>1 DEF Elems
    <2>3. Head(s) \in Elems(s) BY <1>1 DEF Elems
    <2> QED BY <2>1, <2>2, <2>3 DEF Elems
<1>3. ASSUME Distinct(s) PROVE Distinct(Tail(s)) /\ Head(s) \notin Elems(Tail(s))
    BY <1>1, <1>3 DEF Distinct, Elems
<1> QED BY <1>1, <1>2, <1>3

(* Only finitely many workers are busy, and one more or one less changes   *)
(* the count by one.                                                       *)
LEMMA BusyCount ==
    ASSUME TypeOK
    PROVE  /\ IsFiniteSet(Busy) /\ Cardinality(Busy) \in Nat
           /\ Slots \in Nat
           /\ Cardinality(Busy) <= Cardinality(Worker)
<1>1. IsFiniteSet(Busy) /\ Cardinality(Busy) <= Cardinality(Worker)
    BY FS_Subset DEF Busy
<1>2. Cardinality(Busy) \in Nat /\ Cardinality(Worker) \in Nat
    BY <1>1, FS_CardinalityType
<1> QED BY <1>1, <1>2 DEF Slots
-----------------------------------------------------------------------------
(* What is derived from a channel alone follows it unchanged. *)
LEMMA SameJobs == UNCHANGED jobs => Elems(jobs)' = Elems(jobs) /\ Distinct(jobs)' = Distinct(jobs)
BY DEF Elems, Distinct

(* The same of the completion channel. *)
LEMMA SameDone == UNCHANGED done => Elems(done)' = Elems(done) /\ Distinct(done)' = Distinct(done)
BY DEF Elems, Distinct

(* The same of the results in the hands of Wait. *)
LEMMA SameTaken == UNCHANGED taken => Elems(taken)' = Elems(taken) /\ Distinct(taken)' = Distinct(taken)
BY DEF Elems, Distinct

(* The same of the workers. *)
LEMMA SameWorkers == UNCHANGED workerVars => Busy' = Busy /\ Painted' = Painted
BY DEF workerVars, Busy, Painted

(* A step that moves no buffer keeps what is said of the buffers. *)
LEMMA NoBufferMoves ==
    ASSUME IInv, UNCHANGED <<jobs, done, taken, workerVars, lost, outstanding>>
    PROVE  NothingLost' /\ OneHolder' /\ OutstandingExact' /\ Home' = Home
<1>1. /\ Elems(jobs)' = Elems(jobs) /\ Distinct(jobs)' = Distinct(jobs)
      /\ Elems(done)' = Elems(done) /\ Distinct(done)' = Distinct(done)
      /\ Elems(taken)' = Elems(taken) /\ Distinct(taken)' = Distinct(taken)
      /\ Busy' = Busy /\ Painted' = Painted /\ painting' = painting
    BY SameJobs, SameDone, SameTaken, SameWorkers DEF workerVars
<1>2. OneHolder' BY <1>1 DEF IInv, OneHolder
<1>3. OutstandingExact' BY <1>1 DEF IInv, OutstandingExact
<1>4. NothingLost' /\ Home' = Home BY <1>1 DEF IInv, NothingLost, Home, Inside
<1> QED BY <1>2, <1>3, <1>4

(* The invariant holds at the start. *)
LEMMA InitInv == Init => IInv
<1> SUFFICES ASSUME Init PROVE IInv
    OBVIOUS
<1>1. /\ Busy = {} /\ Painted = {} /\ Elems(<<>>) = {} /\ Distinct(<<>>)
    BY DEF Init, Busy, Painted, Elems, Distinct
<1>2. TypeOK
    <2>1. <<>> \in Seq(Buffer) OBVIOUS
    <2>2. worker \in [Worker -> {"new", "idle", "busy", "gone"}] BY DEF Init
    <2>3. painting \in [Worker -> Buffer \cup {NoBuffer}] BY DEF Init
    <2> QED BY <2>1, <2>2, <2>3 DEF Init, TypeOK
<1>4. Shape /\ NothingLost
    BY DEF Init, Shape, NothingLost
<1>5. OneHolder
    <2>1. /\ Elems(jobs) = {} /\ Elems(done) = {} /\ Elems(taken) = {}
          /\ Distinct(jobs) /\ Distinct(done) /\ Distinct(taken)
        BY <1>1 DEF Init
    <2> QED BY <1>1, <2>1 DEF OneHolder
<1>3. OutstandingExact
    BY <1>1, <1>2, FS_EmptySet, BusyCount DEF OutstandingExact, Init
<1> QED BY <1>2, <1>3, <1>4, <1>5 DEF IInv

(* The completion queue has room whenever a result is on its way to it:    *)
(* the slot was reserved when the job was admitted.                        *)
LEMMA RoomForResult ==
    ASSUME IInv, (\E w \in Worker : worker[w] = "busy") \/ jobs # <<>>
    PROVE  Len(done) < Slots
<1>1. /\ Len(jobs) \in Nat /\ Len(done) \in Nat /\ Len(taken) \in Nat
      /\ Cardinality(Busy) \in Nat /\ Slots \in Nat
    BY BusyCount DEF IInv, TypeOK
<1>2. CASE jobs # <<>>
    <2>1. Len(jobs) > 0 BY <1>2, HeadTail DEF IInv, TypeOK
    <2> QED BY <1>1, <2>1 DEF IInv, OutstandingExact
<1>3. CASE \E w \in Worker : worker[w] = "busy"
    <2>1. PICK w \in Worker : worker[w] = "busy" BY <1>3
    <2>2. Busy # {} BY <2>1 DEF Busy
    <2>3. Cardinality(Busy) # 0 BY <2>2, FS_EmptySet, BusyCount DEF IInv
    <2> QED BY <1>1, <2>3 DEF IInv, OutstandingExact
<1> QED BY <1>2, <1>3

(* Every step preserves the invariant. *)
LEMMA StepInv == IInv /\ [Next]_vars => IInv'
<1> SUFFICES ASSUME IInv, [Next]_vars PROVE IInv'
    OBVIOUS
<1> USE DEF IInv
<1>0. /\ Len(jobs) \in Nat /\ Len(done) \in Nat /\ Len(taken) \in Nat
      /\ IsFiniteSet(Busy) /\ Cardinality(Busy) \in Nat /\ Slots \in Nat
    BY BusyCount DEF TypeOK
<1>1. ASSUME NEW b \in Buffer, SubmitEnter(b) PROVE IInv'
    <2>1. UNCHANGED <<jobs, done, taken, workerVars, lost, outstanding>>
        BY <1>1 DEF SubmitEnter
    <2>2. TypeOK'
        BY <1>1 DEF SubmitEnter, workerVars, shutVars, TypeOK
    <2>3. NothingLost' /\ OneHolder' /\ OutstandingExact' /\ Home' = Home
        BY <2>1, NoBufferMoves
    <2>4. Shape'
        BY <1>1, <2>3 DEF SubmitEnter, workerVars, Shape
    <2> QED BY <2>2, <2>3, <2>4
<1>2. CASE SubmitAdmit
    <2>1. /\ arg \in Home /\ jobs' = Append(jobs, arg) /\ outstanding' = outstanding + 1
          /\ UNCHANGED <<done, taken, worker, painting, lost>>
          /\ outstanding < Slots /\ caller' = "idle" /\ taken = <<>>
        BY <1>2 DEF SubmitAdmit, workerVars, Shape
    <2>2. /\ arg \in Buffer /\ arg \notin Elems(jobs) /\ arg \notin Painted
          /\ arg \notin Elems(done) /\ arg \notin Elems(taken)
        BY <2>1 DEF Home, Inside
    <2>3. /\ jobs' \in Seq(Buffer) /\ Len(jobs') = Len(jobs) + 1
          /\ Elems(jobs') = Elems(jobs) \cup {arg} /\ Distinct(jobs')
        BY <2>1, <2>2, AppendElems DEF TypeOK, OneHolder
    <2>4. TypeOK'
        BY <1>2, <2>3 DEF SubmitAdmit, workerVars, shutVars, TypeOK
    <2>5. Shape' /\ NothingLost'
        BY <2>1 DEF Shape, NothingLost
    <2>6. OneHolder'
        BY <2>1, <2>2, <2>3, SameDone, SameTaken, SameWorkers DEF workerVars, OneHolder
    <2>7. OutstandingExact'
        BY <1>0, <2>1, <2>3 DEF OutstandingExact, Busy, TypeOK
    <2> QED BY <2>4, <2>5, <2>6, <2>7
<1>3. CASE SubmitRefuse
    <2>1. UNCHANGED <<jobs, done, taken, workerVars, lost, outstanding>>
        BY <1>3 DEF SubmitRefuse
    <2>2. TypeOK'
        BY <1>3 DEF SubmitRefuse, workerVars, shutVars, TypeOK
    <2>3. NothingLost' /\ OneHolder' /\ OutstandingExact' /\ Home' = Home
        BY <2>1, NoBufferMoves
    <2>4. Shape'
        BY <1>3, <2>3 DEF SubmitRefuse, workerVars, Shape
    <2> QED BY <2>2, <2>3, <2>4
<1>4. CASE Poll
    <2>1. /\ done # <<>> /\ done' = Tail(done) /\ outstanding' = outstanding - 1
          /\ UNCHANGED <<jobs, taken, worker, painting, lost, arg, caller>>
          /\ caller = "idle"
        BY <1>4 DEF Poll, workerVars, callVars
    <2>2. /\ done' \in Seq(Buffer) /\ Len(done') = Len(done) - 1 /\ Len(done) > 0
          /\ Elems(done') \subseteq Elems(done) /\ Distinct(done')
        BY <2>1, HeadTail DEF TypeOK, OneHolder
    <2>3. OutstandingExact'
        BY <1>0, <2>1, <2>2 DEF OutstandingExact, Busy, TypeOK
    <2>4. TypeOK'
        <3>1. outstanding' \in Nat BY <1>0, <2>1, <2>2 DEF OutstandingExact
        <3> QED BY <1>4, <2>2, <3>1 DEF Poll, workerVars, shutVars, callVars, TypeOK
    <2>5. Shape' /\ NothingLost'
        BY <2>1 DEF Shape, NothingLost
    <2>6. OneHolder'
        BY <2>1, <2>2, SameJobs, SameTaken, SameWorkers DEF workerVars, OneHolder
    <2> QED BY <2>3, <2>4, <2>5, <2>6
<1>5. ASSUME NEW n \in 1..MaxWait, WaitEnter(n) PROVE IInv'
    <2>1. UNCHANGED <<jobs, done, taken, workerVars, lost, outstanding>>
        BY <1>5 DEF WaitEnter
    <2>2. TypeOK'
        BY <1>5 DEF WaitEnter, workerVars, shutVars, TypeOK
    <2>3. NothingLost' /\ OneHolder' /\ OutstandingExact' /\ Home' = Home
        BY <2>1, NoBufferMoves
    <2>4. Shape'
        BY <1>5, <2>3 DEF WaitEnter, workerVars, Shape
    <2> QED BY <2>2, <2>3, <2>4
<1>6. CASE WaitTake
    <2>1. /\ done # <<>> /\ done' = Tail(done) /\ taken' = Append(taken, Head(done))
          /\ UNCHANGED <<jobs, worker, painting, lost, outstanding, arg, caller>>
          /\ caller \in {"wait", "flush"}
        BY <1>6 DEF WaitTake, workerVars
    <2>2. /\ done' \in Seq(Buffer) /\ Len(done') = Len(done) - 1 /\ Len(done) > 0
          /\ Elems(done) = Elems(done') \cup {Head(done)} /\ Distinct(done')
          /\ Head(done) \in Buffer /\ Head(done) \notin Elems(done')
        BY <2>1, HeadTail DEF TypeOK, OneHolder
    <2>3. Head(done) \notin Elems(taken)
        BY <2>2 DEF OneHolder
    <2>4. /\ taken' \in Seq(Buffer) /\ Len(taken') = Len(taken) + 1
          /\ Elems(taken') = Elems(taken) \cup {Head(done)} /\ Distinct(taken')
        BY <2>1, <2>2, <2>3, AppendElems DEF TypeOK, OneHolder
    <2>5. OutstandingExact'
        BY <1>0, <2>1, <2>2, <2>4 DEF OutstandingExact, Busy, TypeOK
    <2>6. TypeOK'
        BY <1>6, <2>2, <2>4 DEF WaitTake, workerVars, shutVars, TypeOK
    <2>7. Shape' /\ NothingLost'
        BY <2>1 DEF Shape, NothingLost
    <2>8. Elems(jobs)' = Elems(jobs) /\ Painted' = Painted /\ Distinct(jobs)' /\ Busy' = Busy
        BY <2>1 DEF OneHolder, Painted, Busy, Elems, Distinct
    <2>9. OneHolder'
        BY <2>1, <2>2, <2>3, <2>4, <2>8 DEF OneHolder
    <2> QED BY <2>5, <2>6, <2>7, <2>9
<1>7. CASE WaitCancelled
    <2>1. UNCHANGED <<jobs, done, taken, workerVars, lost, outstanding>>
        BY <1>7 DEF WaitCancelled
    <2>2. TypeOK'
        BY <1>7 DEF WaitCancelled, workerVars, shutVars, TypeOK
    <2>3. NothingLost' /\ OneHolder' /\ OutstandingExact' /\ Home' = Home
        BY <2>1, NoBufferMoves
    <2>4. Shape'
        BY <1>7, <2>3 DEF WaitCancelled, workerVars, Shape
    <2> QED BY <2>2, <2>3, <2>4
<1>8. CASE WaitReturn
    <2>1. /\ taken' = <<>> /\ outstanding' = outstanding - Len(taken)
          /\ UNCHANGED <<jobs, done, worker, painting, lost, arg>> /\ caller' = "idle"
        BY <1>8 DEF WaitReturn, workerVars
    <2>2. Len(taken') = 0 /\ taken' \in Seq(Buffer) BY <2>1
    <2>3. OutstandingExact'
        BY <1>0, <2>1, <2>2 DEF OutstandingExact, Busy, TypeOK
    <2>4. TypeOK'
        <3>1. outstanding' \in Nat BY <1>0, <2>1 DEF OutstandingExact
        <3> QED BY <1>8, <2>2, <3>1 DEF WaitReturn, workerVars, shutVars, TypeOK
    <2>5. Shape' /\ NothingLost'
        BY <2>1 DEF Shape, NothingLost
    <2>6. OneHolder'
        BY SMTT(30), <2>1 DEF OneHolder, Painted, Busy, Elems, Distinct
    <2> QED BY <2>3, <2>4, <2>5, <2>6
<1>9. CASE Start
    <2>1. Busy = {} /\ Busy' = {}
        BY <1>9 DEF Start, Busy, Shape
    <2>2. /\ UNCHANGED <<jobs, done, taken, painting, lost, outstanding, arg, caller>>
          /\ worker' = [w \in Worker |-> "idle"]
        BY <1>9 DEF Start, callVars
    <2>3. TypeOK'
        BY <1>9 DEF Start, shutVars, callVars, TypeOK
    <2>4. Shape' /\ NothingLost'
        BY <1>9, <2>1, <2>2 DEF Start, Shape, NothingLost, Home, Inside, Painted, Elems
    <2>5. OneHolder' /\ OutstandingExact'
        BY <2>1, <2>2, SameJobs, SameDone, SameTaken DEF OneHolder, OutstandingExact,
           Painted
    <2> QED BY <2>3, <2>4, <2>5
<1>10. ASSUME NEW w \in Worker, WorkerTake(w) PROVE IInv'
    <2>1. /\ jobs # <<>> /\ jobs' = Tail(jobs)
          /\ worker[w] = "idle" /\ worker' = [worker EXCEPT ![w] = "busy"]
          /\ painting' = [painting EXCEPT ![w] = Head(jobs)]
          /\ UNCHANGED <<done, taken, lost, outstanding, arg, caller>>
        BY <1>10 DEF WorkerTake, callVars
    <2>2. /\ jobs' \in Seq(Buffer) /\ Len(jobs') = Len(jobs) - 1 /\ Len(jobs) > 0
          /\ Elems(jobs) = Elems(jobs') \cup {Head(jobs)} /\ Distinct(jobs')
          /\ Head(jobs) \in Buffer /\ Head(jobs) \notin Elems(jobs')
        BY <2>1, HeadTail DEF TypeOK, OneHolder
    <2>3. w \notin Busy /\ Busy' = Busy \cup {w}
        BY <2>1 DEF Busy, TypeOK
    <2>4. Painted' = Painted \cup {Head(jobs)}
        BY <2>1, <2>3 DEF Painted, Busy, TypeOK
    <2>5. Cardinality(Busy') = Cardinality(Busy) + 1
        BY <1>0, <2>3, FS_AddElement
    <2>6. OutstandingExact'
        BY <1>0, <2>1, <2>2, <2>5 DEF OutstandingExact, TypeOK
    <2>7. TypeOK'
        BY <1>10, <2>2 DEF WorkerTake, shutVars, callVars, TypeOK
    <2>8. Elems(done)' = Elems(done) /\ Elems(taken)' = Elems(taken)
        BY <2>1 DEF Elems
    <2>9. OneHolder'
        <3>1. \A v \in Busy : painting'[v] = painting[v] /\ painting[v] # Head(jobs)
            BY <2>1, <2>2, <2>3 DEF TypeOK, OneHolder, Painted, Busy
        <3>2. painting'[w] = Head(jobs) BY <2>1 DEF TypeOK
        <3>3. \A u, v \in Busy' : painting'[u] = painting'[v] => u = v
            BY <2>3, <3>1, <3>2 DEF OneHolder
        <3>4. Head(jobs) \in Elems(jobs) BY <2>2
        <3>5. Distinct(done)' /\ Distinct(taken)'
            BY <2>1 DEF OneHolder, Distinct
        <3> QED BY <2>1, <2>2, <2>4, <2>8, <3>3, <3>4, <3>5 DEF OneHolder
    <2>10. Shape' /\ NothingLost'
        <3>1. Head(jobs) # NoBuffer BY <2>2
        <3>2. Inside' = Inside
            BY <2>1, <2>2, <2>4, <2>8 DEF Inside
        <3> QED BY <2>1, <3>1, <3>2 DEF Shape, NothingLost, TypeOK, Home
    <2> QED BY <2>6, <2>7, <2>9, <2>10
<1>11. ASSUME NEW w \in Worker, WorkerLeave(w) PROVE IInv'
    <2>1. /\ worker[w] = "idle" /\ worker' = [worker EXCEPT ![w] = "gone"]
          /\ UNCHANGED <<jobs, done, taken, painting, lost, outstanding, arg, caller>>
        BY <1>11 DEF WorkerLeave, callVars
    <2>2. Busy' = Busy
        BY <2>1 DEF Busy, TypeOK
    <2>3. TypeOK'
        BY <1>11 DEF WorkerLeave, shutVars, callVars, TypeOK
    <2>4. Painted' = Painted /\ Home' = Home
        BY <2>1, <2>2 DEF Painted, Home, Inside, Elems
    <2>5. Shape' /\ NothingLost'
        BY <2>1, <2>4 DEF Shape, NothingLost, TypeOK
    <2>6. OneHolder' /\ OutstandingExact'
        BY <2>1, <2>2, <2>4, SameJobs, SameDone, SameTaken DEF OneHolder,
           OutstandingExact
    <2> QED BY <2>3, <2>5, <2>6
<1>12. ASSUME NEW w \in Worker, WorkerPost(w) PROVE IInv'
    <2> DEFINE b == painting[w]
    <2>1. /\ worker[w] = "busy" /\ worker' = [worker EXCEPT ![w] = "idle"]
          /\ painting' = [painting EXCEPT ![w] = NoBuffer]
          /\ UNCHANGED <<jobs, taken, outstanding, arg, caller>>
        BY <1>12 DEF WorkerPost, callVars
    <2>2. done' = Append(done, b) /\ UNCHANGED lost
        BY <1>12, <2>1, RoomForResult DEF WorkerPost, PostDone
    <2>3. b \in Buffer /\ b \in Painted /\ w \in Busy
        BY <2>1 DEF TypeOK, Shape, Painted, Busy
    <2>4. b \notin Elems(done) /\ b \notin Elems(taken) /\ b \notin Elems(jobs)
        BY <2>3 DEF OneHolder
    <2>5. /\ done' \in Seq(Buffer) /\ Len(done') = Len(done) + 1
          /\ Elems(done') = Elems(done) \cup {b} /\ Distinct(done')
        BY <2>2, <2>3, <2>4, AppendElems DEF TypeOK, OneHolder
    <2>6. Busy' = Busy \ {w}
        BY <2>1 DEF Busy, TypeOK
    <2>7. \A v \in Busy' : v \in Busy /\ painting'[v] = painting[v] /\ painting[v] # b
        BY <2>1, <2>3, <2>6 DEF TypeOK, OneHolder, Busy
    <2>8. Painted' = Painted \ {b}
        BY <2>6, <2>7, <2>3 DEF Painted, Busy
    <2>9. Cardinality(Busy') = Cardinality(Busy) - 1
        BY <1>0, <2>3, <2>6, FS_RemoveElement
    <2>10. OutstandingExact'
        BY <1>0, <2>1, <2>5, <2>9 DEF OutstandingExact, TypeOK
    <2>11. TypeOK'
        BY <1>12, <2>2, <2>5 DEF WorkerPost, shutVars, callVars, TypeOK
    <2>12. Elems(jobs)' = Elems(jobs) /\ Elems(taken)' = Elems(taken)
           /\ Distinct(jobs)' /\ Distinct(taken)'
        BY <2>1 DEF Elems, OneHolder, Distinct
    <2>13. OneHolder'
        <3>1. \A u, v \in Busy' : painting'[u] = painting'[v] => u = v
            BY <2>7 DEF OneHolder
        <3> QED BY <2>4, <2>5, <2>8, <2>12, <3>1 DEF OneHolder
    <2>14. Shape' /\ NothingLost'
        <3>1. Inside' = Inside
            BY <2>2, <2>3, <2>5, <2>8, <2>12 DEF Inside
        <3> QED BY <2>1, <2>2, <3>1 DEF Shape, NothingLost, TypeOK, Home
    <2> QED BY <2>10, <2>11, <2>13, <2>14
<1>13. CASE CloseDrain
    <2> DEFINE b == Head(jobs)
    <2>1. /\ jobs # <<>> /\ jobs' = Tail(jobs)
          /\ UNCHANGED <<taken, worker, painting, outstanding, arg, caller>>
        BY <1>13 DEF CloseDrain, workerVars, callVars
    <2>2. done' = Append(done, b) /\ UNCHANGED lost
        BY <1>13, <2>1, RoomForResult DEF CloseDrain, PostDone
    <2>3. /\ jobs' \in Seq(Buffer) /\ Len(jobs') = Len(jobs) - 1 /\ Len(jobs) > 0
          /\ Elems(jobs) = Elems(jobs') \cup {b} /\ Distinct(jobs')
          /\ b \in Buffer /\ b \notin Elems(jobs')
        BY <2>1, HeadTail DEF TypeOK, OneHolder
    <2>4. b \notin Elems(done) /\ b \notin Elems(taken) /\ b \notin Painted
        BY <2>3 DEF OneHolder
    <2>5. /\ done' \in Seq(Buffer) /\ Len(done') = Len(done) + 1
          /\ Elems(done') = Elems(done) \cup {b} /\ Distinct(done')
        BY <2>2, <2>3, <2>4, AppendElems DEF TypeOK, OneHolder
    <2>6. OutstandingExact'
        BY <1>0, <2>1, <2>3, <2>5 DEF OutstandingExact, Busy, TypeOK
    <2>7. TypeOK'
        BY <1>13, <2>2, <2>3, <2>5 DEF CloseDrain, workerVars, shutVars, callVars,
           TypeOK
    <2>8. /\ Elems(taken)' = Elems(taken) /\ Distinct(taken)'
          /\ Busy' = Busy /\ Painted' = Painted
        BY <2>1 DEF Elems, OneHolder, Distinct, Painted, Busy
    <2>9. OneHolder'
        BY <2>1, <2>3, <2>4, <2>5, <2>8 DEF OneHolder
    <2>10. Shape' /\ NothingLost'
        <3>1. Inside' = Inside
            BY <2>2, <2>3, <2>5, <2>8 DEF Inside
        <3> QED BY <2>1, <2>2, <3>1 DEF Shape, NothingLost, Home
    <2> QED BY <2>6, <2>7, <2>9, <2>10
<1>14. CASE OuterCancel \/ CloseMark \/ CloseCancel \/ CloseDrained \/ CloseReturn
    <2>1. /\ UNCHANGED <<jobs, done, taken, worker, painting, lost, outstanding, arg, caller, want>>
          /\ outer' \in BOOLEAN /\ cancelled' \in BOOLEAN /\ closed' \in BOOLEAN
          /\ closing' \in {"open", "drain", "join", "returned"}
        BY <1>14 DEF OuterCancel, CloseMark, CloseCancel, CloseDrained, CloseReturn,
                     workerVars, callVars, TypeOK
    <2>2. NothingLost' /\ OneHolder' /\ OutstandingExact' /\ Home' = Home
        BY <2>1, NoBufferMoves DEF workerVars
    <2> QED BY <2>1, <2>2 DEF TypeOK, Shape
<1>15. CASE UNCHANGED vars
    <2>1. NothingLost' /\ OneHolder' /\ OutstandingExact' /\ Home' = Home
        BY <1>15, NoBufferMoves DEF vars, callVars
    <2> QED BY <1>15, <2>1 DEF vars, workerVars, shutVars, callVars, TypeOK, Shape
<1> QED
    BY <1>1, <1>2, <1>3, <1>4, <1>5, <1>6, <1>7, <1>8, <1>9, <1>10, <1>11, <1>12, <1>13,
       <1>14, <1>15
    DEF Next, CallerStep, WorkerStep, CloserStep

(* Every reachable state satisfies the inductive invariant. *)
THEOREM Invariance == SafeSpec => []IInv
<1> QED BY InitInv, StepInv, PTL DEF SafeSpec

(* DroppedResults stays zero whatever the queue depth, the number of       *)
(* workers and the moment of shutdown.                                     *)
THEOREM NothingIsLost == SafeSpec => []NothingLost
<1>1. IInv => NothingLost BY DEF IInv
<1> QED BY Invariance, <1>1, PTL

(* No buffer is ever in two places of the pool. *)
THEOREM EveryBufferHasOneHolder == SafeSpec => []OneHolder
<1>1. IInv => OneHolder BY DEF IInv
<1> QED BY Invariance, <1>1, PTL

(* The Outstanding counter is the number of uncollected jobs, and never    *)
(* passes the slots.                                                       *)
THEOREM OutstandingIsExact == SafeSpec => []OutstandingExact
<1>1. IInv => OutstandingExact BY DEF IInv
<1> QED BY Invariance, <1>1, PTL
-----------------------------------------------------------------------------
(* The loan ledger.  The pool never counts the buffers it has been given:  *)
(* that no more than Slots are away follows from the count of jobs, which  *)
(* is why Submit's test of outstanding is enough.                          *)

(* A queue holds no more buffers than results. *)
LEMMA QueueHolds ==
    ASSUME NEW S, NEW s \in Seq(S)
    PROVE  IsFiniteSet(Elems(s)) /\ Cardinality(Elems(s)) <= Len(s)
<1>1. Len(s) \in Nat /\ DOMAIN s = 1..Len(s) /\ s = [i \in DOMAIN s |-> s[i]]
    OBVIOUS
<1>2. s \in Surjection(1..Len(s), Elems(s))
    BY <1>1 DEF Surjection, Elems
<1>3. \A n \in Nat : IsFiniteSet(1..n) /\ Cardinality(1..n) = n
    <2>1. TAKE n \in Nat
    <2>2. 1 \in Int /\ n \in Int OBVIOUS
    <2>3. IsFiniteSet(1..n) /\ Cardinality(1..n) = IF 1 > n THEN 0 ELSE n - 1 + 1
        BY <2>2, FS_Interval
    <2> QED BY <2>3
<1>4. IsFiniteSet(1..Len(s)) /\ Cardinality(1..Len(s)) = Len(s)
    BY <1>1, <1>3
<1> QED BY <1>2, <1>4, FS_Surjection

(* Neither do the busy workers. *)
LEMMA WorkersHold ==
    ASSUME TypeOK
    PROVE  IsFiniteSet(Painted) /\ Cardinality(Painted) <= Cardinality(Busy)
<1> DEFINE f == [w \in Busy |-> painting[w]]
<1>1. f \in Surjection(Busy, Painted)
    BY DEF Surjection, Painted
<1> QED BY <1>1, BusyCount, FS_Surjection

(* Two sets together hold no more than both of them. *)
LEMMA AtMostBoth ==
    ASSUME NEW A, NEW B, IsFiniteSet(A), IsFiniteSet(B), NEW m \in Nat, NEW n \in Nat,
           Cardinality(A) <= m, Cardinality(B) <= n
    PROVE  IsFiniteSet(A \cup B) /\ Cardinality(A \cup B) <= m + n
<1>1. /\ IsFiniteSet(A \cup B)
      /\ Cardinality(A \cup B) = Cardinality(A) + Cardinality(B) - Cardinality(A \cap B)
    BY FS_Union
<1>2. IsFiniteSet(A \cap B) BY FS_Intersection
<1>3. /\ Cardinality(A) \in Nat /\ Cardinality(B) \in Nat
      /\ Cardinality(A \cap B) \in Nat
    BY <1>2, FS_CardinalityType
<1> QED BY <1>1, <1>3

(* The buffers away from the caller are no more than the counter says. *)
LEMMA AwayCounted ==
    ASSUME IInv
    PROVE  Inside \subseteq Buffer /\ Cardinality(Inside) <= outstanding
<1> DEFINE J == Elems(jobs)
           D == Elems(done)
           T == Elems(taken)
<1>1. /\ jobs \in Seq(Buffer) /\ done \in Seq(Buffer) /\ taken \in Seq(Buffer)
      /\ Len(jobs) \in Nat /\ Len(done) \in Nat /\ Len(taken) \in Nat
      /\ Cardinality(Busy) \in Nat
    BY BusyCount DEF IInv, TypeOK
<1>2. /\ IsFiniteSet(J) /\ Cardinality(J) <= Len(jobs)
      /\ IsFiniteSet(D) /\ Cardinality(D) <= Len(done)
      /\ IsFiniteSet(T) /\ Cardinality(T) <= Len(taken)
    BY <1>1, QueueHolds
<1>3. IsFiniteSet(Painted) /\ Cardinality(Painted) <= Cardinality(Busy)
    BY WorkersHold DEF IInv
<1>4. Inside = ((J \cup Painted) \cup D) \cup T
    BY DEF IInv, NothingLost, Inside
<1>5. J \subseteq Buffer /\ D \subseteq Buffer /\ T \subseteq Buffer
    BY <1>1 DEF Elems
<1>6. Painted \subseteq Buffer
    BY DEF IInv, TypeOK, Shape, Painted, Busy
<1> HIDE DEF J, D, T
<1> DEFINE m == Len(jobs) + Cardinality(Busy)
           n == m + Len(done)
<1>7. m \in Nat /\ n \in Nat
    BY <1>1
<1>8. IsFiniteSet(J \cup Painted) /\ Cardinality(J \cup Painted) <= m
    BY <1>1, <1>2, <1>3, AtMostBoth
<1>9. n + Len(taken) = outstanding
    BY <1>1 DEF IInv, OutstandingExact
<1> HIDE DEF m
<1>10. /\ IsFiniteSet((J \cup Painted) \cup D)
       /\ Cardinality((J \cup Painted) \cup D) <= n
    BY <1>1, <1>2, <1>7, <1>8, AtMostBoth
<1> HIDE DEF n
<1>11. Cardinality(((J \cup Painted) \cup D) \cup T) <= n + Len(taken)
    BY <1>1, <1>2, <1>7, <1>10, AtMostBoth
<1> QED BY <1>4, <1>5, <1>6, <1>9, <1>11 DEF J, D, T

(* The buffers the pool still has to paint or return unpainted, and those  *)
(* it has finished with.                                                   *)
Lent == Elems(jobs) \cup Painted
Back == Elems(done) \cup Elems(taken)

LoanParts ==
    /\ LoanOf = [b \in Buffer |-> IF b \in Back THEN "reported"
                                 ELSE IF b \in Lent THEN "lent" ELSE "home"]
    /\ Lent \cap Back = {} /\ Lent \cup Back = Inside
    /\ Inside \subseteq Buffer

(* Where a buffer is, from where the pool holds it. *)
LEMMA LoanIs == IInv => LoanParts
<1> SUFFICES ASSUME IInv PROVE LoanParts
    OBVIOUS
<1>1. Lent \cap Back = {} /\ Lent \cup Back = Inside
    BY DEF IInv, OneHolder, NothingLost, Inside, Lent, Back
<1>2. \A b \in Buffer : /\ Reported(b) <=> b \in Back
                        /\ b \in Inside <=> b \in Lent \/ b \in Back
    BY <1>1 DEF Reported, Back
<1> QED BY <1>1, <1>2, AwayCounted DEF LoanOf, LoanParts

(* The same after a step. *)
LEMMA LoanIsNext == IInv' => LoanParts'
BY LoanIs, PTL

(* A step that moves no buffer between the two sets is no step of the      *)
(* ledger.                                                                 *)
LEMMA NoLoanChanges ==
    IInv /\ IInv' /\ Lent' = Lent /\ Back' = Back => LoanOf' = LoanOf
BY LoanIs, LoanIsNext DEF LoanParts

(* A buffer that crosses from one set to the other has been reported. *)
LEMMA CrossingIsReport ==
    ASSUME IInv, IInv', NEW b \in Lent, Lent' = Lent \ {b}, Back' = Back \cup {b}
    PROVE  Loan!Report(b)
<1>1. LoanOf' = [c \in Buffer |-> IF c \in Back' THEN "reported"
                                ELSE IF c \in Lent' THEN "lent" ELSE "home"]
    BY LoanIsNext DEF LoanParts
<1>2. /\ LoanOf = [c \in Buffer |-> IF c \in Back THEN "reported"
                                    ELSE IF c \in Lent THEN "lent" ELSE "home"]
      /\ Lent \cap Back = {} /\ b \in Buffer
    BY LoanIs DEF LoanParts
<1>3. LoanOf[b] = "lent" BY <1>2
<1>4. LoanOf' = [LoanOf EXCEPT ![b] = "reported"] BY <1>1, <1>2
<1> QED BY <1>3, <1>4 DEF Loan!Report

(* Buffers that leave the finished ones are collected. *)
LEMMA LeavingIsCollect ==
    ASSUME IInv, IInv', NEW S, S # {}, S \subseteq Back, Back' = Back \ S, Lent' = Lent
    PROVE  S \in SUBSET Buffer /\ Loan!Collect(S)
<1>1. LoanOf' = [c \in Buffer |-> IF c \in Back' THEN "reported"
                                ELSE IF c \in Lent' THEN "lent" ELSE "home"]
    BY LoanIsNext DEF LoanParts
<1>2. /\ LoanOf = [c \in Buffer |-> IF c \in Back THEN "reported"
                                    ELSE IF c \in Lent THEN "lent" ELSE "home"]
      /\ Lent \cap Back = {} /\ S \subseteq Buffer
    BY LoanIs DEF LoanParts
<1>3. \A b \in S : LoanOf[b] = "reported" BY <1>2
<1>4. LoanOf' = [b \in Buffer |-> IF b \in S THEN "home" ELSE LoanOf[b]] BY <1>1, <1>2
<1> QED BY <1>2, <1>3, <1>4 DEF Loan!Collect

(* An admitted submission is a loan. *)
LEMMA AdmissionIsLend ==
    ASSUME IInv, IInv', SubmitAdmit
    PROVE  arg \in Buffer /\ Loan!Lend(arg)
<1>1. /\ arg \in Home /\ jobs' = Append(jobs, arg) /\ arg \in Buffer
      /\ UNCHANGED <<done, taken, worker, painting>>
      /\ outstanding < Slots
    BY DEF SubmitAdmit, workerVars, IInv, Shape, Home
<1>2. Lent' = Lent \cup {arg} /\ Back' = Back
    <2>1. Elems(jobs') = Elems(jobs) \cup {arg}
        BY <1>1, AppendElems DEF IInv, TypeOK
    <2> QED BY <1>1, <2>1, SameDone, SameTaken, SameWorkers DEF Lent, Back, workerVars
<1>3. LoanOf' = [c \in Buffer |-> IF c \in Back' THEN "reported"
                                ELSE IF c \in Lent' THEN "lent" ELSE "home"]
    BY LoanIsNext DEF LoanParts
<1>4. /\ LoanOf = [c \in Buffer |-> IF c \in Back THEN "reported"
                                    ELSE IF c \in Lent THEN "lent" ELSE "home"]
      /\ Lent \cup Back = Inside /\ Inside \subseteq Buffer
    BY LoanIs DEF LoanParts
<1>5. arg \notin Lent /\ arg \notin Back BY <1>1, <1>4 DEF Home
<1>6. LoanOf' = [LoanOf EXCEPT ![arg] = "lent"] BY <1>1, <1>2, <1>3, <1>4, <1>5
<1>7. LoanOf[arg] = "home" BY <1>1, <1>4, <1>5
<1>8. Loan!Away = Inside BY <1>4 DEF Loan!Away
<1>9. Cardinality(Inside) < Slots
    <2>1. Cardinality(Inside) \in Nat /\ outstanding \in Nat /\ Slots \in Nat
        <3>1. outstanding \in Nat /\ Slots \in Nat BY BusyCount DEF IInv, TypeOK
        <3>2. IsFiniteSet(Inside) BY AwayCounted, FS_Subset
        <3> QED BY <3>1, <3>2, FS_CardinalityType
    <2>2. Cardinality(Inside) <= outstanding BY AwayCounted
    <2> QED BY <1>1, <2>1, <2>2
<1>10. Loan!Cardinality(Inside) = Cardinality(Inside)
    BY DEF Loan!Cardinality, Cardinality
<1> QED BY <1>1, <1>6, <1>7, <1>8, <1>9, <1>10 DEF Loan!Lend

(* Every step of the pool is a step of the ledger or none. *)
LEMMA LedgerStep == IInv /\ IInv' /\ [Next]_vars => [Loan!Next]_LoanOf
<1> SUFFICES ASSUME IInv, IInv', [Next]_vars PROVE [Loan!Next]_LoanOf
    OBVIOUS
<1>1. ASSUME UNCHANGED <<jobs, done, taken, workerVars>> PROVE LoanOf' = LoanOf
    BY <1>1, SameJobs, SameDone, SameTaken, SameWorkers, NoLoanChanges DEF Lent, Back
<1>2. CASE SubmitAdmit
    BY <1>2, AdmissionIsLend DEF Loan!Next
<1>3. CASE Poll
    <2>1. /\ done # <<>> /\ done' = Tail(done) /\ UNCHANGED <<jobs, taken, workerVars>>
        BY <1>3 DEF Poll, callVars
    <2>2. /\ Elems(done) = Elems(done') \cup {Head(done)} /\ Head(done) \notin Elems(done')
          /\ Head(done) \notin Elems(taken)
        <3>1. /\ Elems(done) = Elems(done') \cup {Head(done)}
              /\ Head(done) \notin Elems(done')
            BY <2>1, HeadTail DEF IInv, TypeOK, OneHolder
        <3> QED BY <3>1 DEF IInv, OneHolder
    <2>3. /\ Back' = Back \ {Head(done)} /\ {Head(done)} \subseteq Back
          /\ Lent' = Lent /\ {Head(done)} # {}
        BY <2>1, <2>2, SameJobs, SameTaken, SameWorkers DEF Lent, Back
    <2> QED BY <2>3, LeavingIsCollect DEF Loan!Next
<1>4. CASE WaitTake
    <2>1. /\ done # <<>> /\ done' = Tail(done) /\ taken' = Append(taken, Head(done))
          /\ UNCHANGED <<jobs, workerVars>>
        BY <1>4 DEF WaitTake
    <2>2. Elems(done) = Elems(done') \cup {Head(done)} /\ Head(done) \in Buffer
        BY <2>1, HeadTail DEF IInv, TypeOK
    <2>3. Elems(taken') = Elems(taken) \cup {Head(done)}
        BY <2>1, <2>2, AppendElems DEF IInv, TypeOK
    <2>4. Lent' = Lent /\ Back' = Back
        BY <2>1, <2>2, <2>3, SameJobs, SameWorkers DEF Lent, Back
    <2> QED BY <2>4, NoLoanChanges
<1>5. CASE WaitReturn
    <2>1. taken' = <<>> /\ UNCHANGED <<jobs, done, workerVars>>
        BY <1>5 DEF WaitReturn
    <2>2. Elems(taken') = {} /\ Elems(done) \cap Elems(taken) = {}
        BY <2>1 DEF Elems, IInv, OneHolder
    <2>3. Back' = Back \ Elems(taken) /\ Elems(taken) \subseteq Back /\ Lent' = Lent
        BY <2>1, <2>2, SameJobs, SameDone, SameWorkers DEF Lent, Back
    <2>4. CASE Elems(taken) = {}
        BY <2>3, <2>4, NoLoanChanges
    <2>5. CASE Elems(taken) # {}
        BY <2>3, <2>5, LeavingIsCollect DEF Loan!Next
    <2> QED BY <2>4, <2>5
<1>6. CASE Start
    <2>1. Busy = {} /\ Busy' = {} /\ UNCHANGED <<jobs, done, taken>>
        BY <1>6 DEF Start, Busy, IInv, Shape, callVars
    <2>2. Lent' = Lent /\ Back' = Back
        BY <2>1, SameJobs, SameDone, SameTaken DEF Lent, Back, Painted
    <2> QED BY <2>2, NoLoanChanges
<1>7. ASSUME NEW w \in Worker, WorkerTake(w) PROVE LoanOf' = LoanOf
    <2>1. /\ jobs # <<>> /\ jobs' = Tail(jobs)
          /\ worker[w] = "idle" /\ worker' = [worker EXCEPT ![w] = "busy"]
          /\ painting' = [painting EXCEPT ![w] = Head(jobs)]
          /\ UNCHANGED <<done, taken>>
        BY <1>7 DEF WorkerTake, callVars
    <2>2. Elems(jobs) = Elems(jobs') \cup {Head(jobs)}
        BY <2>1, HeadTail DEF IInv, TypeOK
    <2>3. w \notin Busy /\ Busy' = Busy \cup {w}
        BY <2>1 DEF IInv, Busy, TypeOK
    <2>4. Painted' = Painted \cup {Head(jobs)}
        BY <2>1, <2>3 DEF IInv, Painted, Busy, TypeOK
    <2>5. Lent' = Lent /\ Back' = Back
        BY <2>1, <2>2, <2>4, SameDone, SameTaken DEF Lent, Back
    <2> QED BY <2>5, NoLoanChanges
<1>8. ASSUME NEW w \in Worker, WorkerLeave(w) PROVE LoanOf' = LoanOf
    <2>1. /\ worker[w] = "idle" /\ worker' = [worker EXCEPT ![w] = "gone"]
          /\ UNCHANGED <<jobs, done, taken, painting>>
        BY <1>8 DEF WorkerLeave, callVars
    <2>2. Busy' = Busy /\ Painted' = Painted
        BY <2>1 DEF IInv, Busy, Painted, TypeOK
    <2>3. Lent' = Lent /\ Back' = Back
        BY <2>1, <2>2, SameJobs, SameDone, SameTaken DEF Lent, Back
    <2> QED BY <2>3, NoLoanChanges
<1>9. ASSUME NEW w \in Worker, WorkerPost(w) PROVE Loan!Next
    <2> DEFINE b == painting[w]
    <2>1. /\ worker[w] = "busy" /\ worker' = [worker EXCEPT ![w] = "idle"]
          /\ painting' = [painting EXCEPT ![w] = NoBuffer] /\ UNCHANGED <<jobs, taken>>
        BY <1>9 DEF WorkerPost, callVars
    <2>2. done' = Append(done, b)
        BY <1>9, <2>1, RoomForResult DEF WorkerPost, PostDone
    <2>3. b \in Buffer /\ b \in Painted /\ w \in Busy
        BY <2>1 DEF IInv, TypeOK, Shape, Painted, Busy
    <2>4. Elems(done') = Elems(done) \cup {b}
        BY <2>2, <2>3, AppendElems DEF IInv, TypeOK
    <2>5. Busy' = Busy \ {w}
        BY <2>1 DEF IInv, Busy, TypeOK
    <2>6. \A v \in Busy' : v \in Busy /\ painting'[v] = painting[v] /\ painting[v] # b
        BY <2>1, <2>3, <2>5 DEF IInv, TypeOK, OneHolder, Busy
    <2>7. Painted' = Painted \ {b}
        BY <2>3, <2>5, <2>6 DEF Painted, Busy
    <2>8. b \notin Elems(jobs)
        BY <2>3 DEF IInv, OneHolder
    <2>9. Lent' = Lent \ {b} /\ Back' = Back \cup {b} /\ b \in Lent
        BY <2>1, <2>3, <2>4, <2>7, <2>8, SameJobs, SameTaken DEF Lent, Back
    <2> HIDE DEF b
    <2> QED BY <2>3, <2>9, CrossingIsReport DEF Loan!Next
<1>10. CASE CloseDrain
    <2> DEFINE b == Head(jobs)
    <2>1. jobs # <<>> /\ jobs' = Tail(jobs) /\ UNCHANGED <<taken, workerVars>>
        BY <1>10 DEF CloseDrain, callVars
    <2>2. done' = Append(done, b)
        BY <1>10, <2>1, RoomForResult DEF CloseDrain, PostDone
    <2>3. /\ Elems(jobs) = Elems(jobs') \cup {b} /\ b \in Buffer /\ b \notin Elems(jobs')
        BY <2>1, HeadTail DEF IInv, TypeOK, OneHolder
    <2>4. Elems(done') = Elems(done) \cup {b}
        BY <2>2, <2>3, AppendElems DEF IInv, TypeOK
    <2>5. b \notin Painted
        BY <2>3 DEF IInv, OneHolder
    <2>6. Lent' = Lent \ {b} /\ Back' = Back \cup {b} /\ b \in Lent
        BY <2>1, <2>3, <2>4, <2>5, SameTaken, SameWorkers DEF Lent, Back
    <2> HIDE DEF b
    <2> QED BY <2>3, <2>6, CrossingIsReport DEF Loan!Next
<1>11. CASE \/ \E b \in Buffer : SubmitEnter(b)
            \/ SubmitRefuse \/ WaitCancelled
            \/ \E n \in 1..MaxWait : WaitEnter(n)
    BY <1>1, <1>11 DEF SubmitEnter, SubmitRefuse, WaitEnter, WaitCancelled
<1>12. CASE OuterCancel \/ CloseMark \/ CloseCancel \/ CloseDrained \/ CloseReturn
    BY <1>1, <1>12 DEF OuterCancel, CloseMark, CloseCancel, CloseDrained, CloseReturn,
       callVars
<1>13. CASE UNCHANGED vars
    BY <1>1, <1>13 DEF vars, callVars
<1> QED
    BY <1>2, <1>3, <1>4, <1>5, <1>6, <1>7, <1>8, <1>9, <1>10, <1>11, <1>12, <1>13
    DEF Next, CallerStep, WorkerStep, CloserStep

(* The pool implements the loan ledger for every number of buffers and     *)
(* workers and every depth of the queue: whatever the order of submission, *)
(* painting, collection and shutdown, a buffer that was lent is reported   *)
(* once and collected once, and no more than Slots of them are away.       *)
THEOREM PoolKeepsLedger == SafeSpec => LedgerKept
<1>1. Init => Loan!Init
    <2> SUFFICES ASSUME Init PROVE Loan!Init
        OBVIOUS
    <2>1. IInv BY InitInv
    <2>2. Inside = {}
        BY DEF Init, Inside, Elems, Painted, Busy
    <2>3. Lent = {} /\ Back = {}
        BY <2>1, <2>2, LoanIs DEF LoanParts
    <2> QED BY <2>1, <2>3, LoanIs DEF Loan!Init, LoanParts
<1> QED BY <1>1, LedgerStep, Invariance, PTL DEF SafeSpec, LedgerKept, Loan!Ledger
-----------------------------------------------------------------------------
(* Shutdown.  That Close returns needs fairness and stays with the model   *)
(* checker; what the code itself contributes is proved here: at no moment  *)
(* of a shutdown do the closer and the workers all wait for one another,   *)
(* and each step any of them takes uses up some of a finite amount of work *)
(* that neither the caller nor anyone else can add to.                     *)

(* What is left to do once the pool refuses submissions: one that passed   *)
(* the test before, the queued jobs (a take, a raster and a post each),    *)
(* the rasters, the workers' start and departure, and the rest of Close.   *)
Here     == {w \in Worker : worker[w] # "gone"}
Unborn   == {w \in Worker : worker[w] = "new"}
CloseAt  == CASE closing = "open" -> 3 [] closing = "drain" -> 2
              [] closing = "join" -> 1 [] OTHER -> 0
CallerAt == IF caller = "submit" THEN 4 ELSE 0
ToDo     == CallerAt + 3 * Len(jobs) + Cardinality(Busy) + Cardinality(Here)
            + Cardinality(Unborn) + CloseAt

(* The flags Close raises before it drains.                                *)
ShutOrder ==
    /\ closing # "open" => closed
    /\ cancelled <=> closing # "open"

(* Somebody can go on while Close has not returned: the closer, unless it  *)
(* waits for a worker that is still there; and then that worker, which     *)
(* paints or sees the cancelled context.                                   *)
CloseGoesOn ==
    closed /\ closing # "returned" =>
        \/ closing \in {"open", "drain"}
        \/ closing = "join" /\ \A w \in Worker : worker[w] \in {"new", "gone"}
        \/ \E w \in Worker : \/ worker[w] = "busy"
                             \/ worker[w] = "idle" /\ cancelled

(* The steps a shutdown is made of.                                        *)
ShutStep == \/ SubmitAdmit \/ SubmitRefuse
            \/ Start \/ \E w \in Worker : WorkerStep(w)
            \/ CloserStep

(* A closed pool stays closed, no step adds to what is left, and every     *)
(* step of the shutdown takes from it.                                     *)
CloseRunsDown ==
    [][closed => /\ closed'
                 /\ ToDo' <= ToDo
                 /\ ShutStep => ToDo' < ToDo]_vars

(* What is left is a number.                                               *)
LEMMA ToDoIsNumber ==
    ASSUME TypeOK
    PROVE  /\ IsFiniteSet(Here) /\ IsFiniteSet(Unborn) /\ IsFiniteSet(Busy)
           /\ Cardinality(Here) \in Nat /\ Cardinality(Unborn) \in Nat
           /\ Cardinality(Busy) \in Nat /\ Len(jobs) \in Nat
           /\ CloseAt \in 0..3 /\ CallerAt \in {0, 4}
           /\ ToDo \in Nat
<1>1. IsFiniteSet(Here) /\ IsFiniteSet(Unborn)
    BY FS_Subset DEF Here, Unborn
<1>2. Cardinality(Here) \in Nat /\ Cardinality(Unborn) \in Nat
    BY <1>1, FS_CardinalityType
<1>3. Len(jobs) \in Nat BY DEF TypeOK
<1>4. CloseAt \in 0..3 /\ CallerAt \in {0, 4} BY DEF CloseAt, CallerAt
<1> QED BY <1>1, <1>2, <1>3, <1>4, BusyCount DEF ToDo

(* The order of the flags holds at the start and is kept.                  *)
LEMMA ShutOrderInit == Init => ShutOrder
BY DEF Init, ShutOrder

(* The same for a step.                                                    *)
LEMMA ShutOrderStep == TypeOK /\ ShutOrder /\ [Next]_vars => ShutOrder'
<1> SUFFICES ASSUME TypeOK, ShutOrder, [Next]_vars PROVE ShutOrder'
    OBVIOUS
<1>1. CASE CloserStep
    BY <1>1 DEF CloserStep, CloseCancel, CloseDrain, CloseDrained, CloseReturn, ShutOrder,
       shutVars
<1>2. CASE OuterCancel \/ CloseMark
    BY <1>2 DEF OuterCancel, CloseMark, ShutOrder
<1>3. CASE CallerStep
    BY <1>3 DEF CallerStep, SubmitEnter, SubmitAdmit, SubmitRefuse, Poll, WaitEnter, WaitTake,
       WaitCancelled, WaitReturn, shutVars, ShutOrder
<1>4. CASE Start \/ \E w \in Worker : WorkerStep(w)
    BY <1>4 DEF Start, WorkerStep, WorkerTake, WorkerLeave, WorkerPost, shutVars, ShutOrder
<1>5. CASE UNCHANGED vars
    BY <1>5 DEF vars, shutVars, ShutOrder
<1> QED BY <1>1, <1>2, <1>3, <1>4, <1>5 DEF Next

(* One element more or less changes the number by one.                     *)
LEMMA OneMoreOrLess ==
    ASSUME NEW S, NEW x, IsFiniteSet(S)
    PROVE  /\ x \notin S => Cardinality(S \cup {x}) = Cardinality(S) + 1
           /\ x \in S => Cardinality(S \ {x}) = Cardinality(S) - 1
BY FS_AddElement, FS_RemoveElement

(* No worker's step: the three sets of workers stay.                       *)
LEMMA WorkersStay ==
    UNCHANGED workerVars => Busy' = Busy /\ Here' = Here /\ Unborn' = Unborn
BY DEF workerVars, Busy, Here, Unborn

(* A worker's step takes from what is left.                                *)
LEMMA WorkerRunsDown ==
    ASSUME IInv, NEW w \in Worker, WorkerStep(w)
    PROVE  ToDo' < ToDo
<1>1. /\ CloseAt' = CloseAt /\ CallerAt' = CallerAt
    BY DEF WorkerStep, WorkerTake, WorkerLeave, WorkerPost, shutVars, callVars, CloseAt, CallerAt
<1>2. worker \in [Worker -> {"new", "idle", "busy", "gone"}] /\ jobs \in Seq(Buffer)
    BY DEF IInv, TypeOK
<1>0. TypeOK BY DEF IInv
<1>6. /\ Cardinality(Here) \in Nat /\ Cardinality(Unborn) \in Nat
      /\ Cardinality(Busy) \in Nat /\ Len(jobs) \in Nat
      /\ CloseAt \in Nat /\ CallerAt \in Nat
    BY <1>0, ToDoIsNumber
<1>3. CASE WorkerTake(w)
    <2>1. Busy' = Busy \cup {w} /\ w \notin Busy /\ Here' = Here /\ Unborn' = Unborn
        BY <1>2, <1>3 DEF WorkerTake, Busy, Here, Unborn
    <2>2. Len(jobs') = Len(jobs) - 1
        BY <1>2, <1>3, HeadTail DEF WorkerTake
    <2>3. Cardinality(Busy') = Cardinality(Busy) + 1
        BY <2>1, <1>0, ToDoIsNumber, OneMoreOrLess
    <2> QED BY <1>1, <1>6, <2>1, <2>2, <2>3 DEF ToDo
<1>4. CASE WorkerLeave(w)
    <2>1. Busy' = Busy /\ Here' = Here \ {w} /\ w \in Here /\ Unborn' = Unborn
        BY <1>2, <1>4 DEF WorkerLeave, Busy, Here, Unborn
    <2>2. jobs' = jobs BY <1>4 DEF WorkerLeave
    <2>3. Cardinality(Here') = Cardinality(Here) - 1
        BY <2>1, <1>0, ToDoIsNumber, OneMoreOrLess
    <2> QED BY <1>1, <1>6, <2>1, <2>2, <2>3 DEF ToDo
<1>5. CASE WorkerPost(w)
    <2>1. Busy' = Busy \ {w} /\ w \in Busy /\ Here' = Here /\ Unborn' = Unborn
        BY <1>2, <1>5 DEF WorkerPost, Busy, Here, Unborn
    <2>2. jobs' = jobs BY <1>5 DEF WorkerPost
    <2>3. Cardinality(Busy') = Cardinality(Busy) - 1
        BY <2>1, <1>0, ToDoIsNumber, OneMoreOrLess
    <2> QED BY <1>1, <1>6, <2>1, <2>2, <2>3 DEF ToDo
<1> QED BY <1>3, <1>4, <1>5 DEF WorkerStep

(* So does Start: it is called before there are workers, or not at all.    *)
LEMMA StartRunsDown ==
    ASSUME IInv, Start
    PROVE  ToDo' < ToDo
<1>0. TypeOK BY DEF IInv
<1>1. PICK w \in Worker : worker[w] = "new" BY DEF Start
<1>2. \A v \in Worker : worker[v] = "new" BY <1>1 DEF IInv, Shape
<1>3. Busy = {} /\ Busy' = {} /\ Here' = Here /\ Unborn = Worker /\ Unborn' = {}
    BY <1>2 DEF Start, Busy, Here, Unborn
<1>4. Cardinality(Unborn) > 0 /\ Cardinality(Unborn') = 0
    <2>1. Unborn # {} BY <1>3
    <2>2. Cardinality(Unborn) # 0 BY <2>1, <1>0, ToDoIsNumber, FS_EmptySet
    <2> QED BY <2>2, <1>0, <1>3, ToDoIsNumber, FS_EmptySet
<1>5. CloseAt' = CloseAt /\ CallerAt' = CallerAt /\ jobs' = jobs
    BY DEF Start, shutVars, callVars, CloseAt, CallerAt
<1> QED BY <1>0, <1>3, <1>4, <1>5, ToDoIsNumber DEF ToDo

(* And the closer's, and a submission that ends.                           *)
LEMMA CloserRunsDown ==
    ASSUME TypeOK, CloserStep \/ SubmitAdmit \/ SubmitRefuse
    PROVE  ToDo' < ToDo
<1>1. Busy' = Busy /\ Here' = Here /\ Unborn' = Unborn
    BY WorkersStay
    DEF CloserStep, CloseCancel, CloseDrain, CloseDrained, CloseReturn, SubmitAdmit,
        SubmitRefuse, workerVars
<1>2. jobs \in Seq(Buffer) /\ closing \in {"open", "drain", "join", "returned"}
    BY DEF TypeOK
<1>6. /\ Cardinality(Here) \in Nat /\ Cardinality(Unborn) \in Nat
      /\ Cardinality(Busy) \in Nat /\ Len(jobs) \in Nat
      /\ CloseAt \in Nat /\ CallerAt \in Nat
    BY ToDoIsNumber
<1>3. CASE CloseCancel \/ CloseDrained \/ CloseReturn
    <2>1. CloseAt' < CloseAt
        BY <1>3 DEF CloseCancel, CloseDrained, CloseReturn, CloseAt
    <2>2. CallerAt' = CallerAt /\ jobs' = jobs
        BY <1>3 DEF CloseCancel, CloseDrained, CloseReturn, CallerAt, callVars
    <2>3. CloseAt' \in 0..3 BY DEF CloseAt
    <2> QED BY <1>1, <1>6, <2>1, <2>2, <2>3 DEF ToDo
<1>4. CASE CloseDrain
    <2>1. Len(jobs') = Len(jobs) - 1 BY <1>2, <1>4, HeadTail DEF CloseDrain
    <2>2. CloseAt' = CloseAt /\ CallerAt' = CallerAt
        BY <1>4 DEF CloseDrain, shutVars, callVars, CloseAt, CallerAt
    <2> QED BY <1>1, <1>6, <2>1, <2>2 DEF ToDo
<1>5. CASE SubmitAdmit \/ SubmitRefuse
    <2>1. CallerAt = 4 /\ CallerAt' = 0 /\ CloseAt' = CloseAt
        BY <1>5 DEF SubmitAdmit, SubmitRefuse, shutVars, CloseAt, CallerAt
    <2>2. Len(jobs') \in {Len(jobs), Len(jobs) + 1}
        BY <1>5 DEF SubmitAdmit, SubmitRefuse, TypeOK
    <2> QED BY <1>1, <1>6, <2>1, <2>2 DEF ToDo
<1> QED BY <1>3, <1>4, <1>5 DEF CloserStep

(* What is left after a step is a number as well.                          *)
LEMMA ToDoIsNumberNext == TypeOK' => (ToDo \in Nat)'
<1>1. TypeOK => ToDo \in Nat BY ToDoIsNumber
<1> QED BY <1>1, PTL

(* Nobody else touches it once the pool is closed.                         *)
LEMMA OthersAddNothing ==
    ASSUME TypeOK, closed, [Next]_vars, ~ShutStep
    PROVE  ToDo' = ToDo
<1>1. CASE UNCHANGED vars
    BY <1>1, WorkersStay DEF vars, shutVars, callVars, ToDo, CloseAt, CallerAt
<1>2. CASE OuterCancel \/ CloseMark
    BY <1>2, WorkersStay
    DEF OuterCancel, CloseMark, callVars, ToDo, CloseAt, CallerAt
<1>3. CASE CallerStep
    <2>1. ~\E b \in Buffer : SubmitEnter(b) BY DEF SubmitEnter
    <2>2. Poll \/ (\E n \in 1..MaxWait : WaitEnter(n)) \/ WaitTake \/ WaitCancelled \/ WaitReturn
        BY <1>3, <2>1 DEF CallerStep, ShutStep
    <2>3. jobs' = jobs /\ UNCHANGED workerVars /\ closing' = closing
        BY <2>2 DEF Poll, WaitEnter, WaitTake, WaitCancelled, WaitReturn, shutVars
    <2>4. CallerAt' = CallerAt
        BY <2>2 DEF Poll, WaitEnter, WaitTake, WaitCancelled, WaitReturn, callVars, CallerAt
    <2> QED BY <2>3, <2>4, WorkersStay DEF ToDo, CloseAt
<1> QED BY <1>1, <1>2, <1>3 DEF Next, ShutStep

(* Close never waits for a worker that waits too, however many workers     *)
(* there are, whether or not they were started, and whatever they paint.   *)
THEOREM CloseNeverStuck == SafeSpec => []CloseGoesOn
<1>1. SafeSpec => [](IInv /\ ShutOrder)
    <2>1. IInv /\ IInv' /\ ShutOrder /\ [Next]_vars => ShutOrder'
        BY ShutOrderStep DEF IInv
    <2> QED BY Invariance, ShutOrderInit, <2>1, PTL DEF SafeSpec
<1>2. IInv /\ ShutOrder => CloseGoesOn
    BY DEF IInv, TypeOK, ShutOrder, CloseGoesOn
<1> QED BY <1>1, <1>2, PTL

(* A shutdown has only so many steps in it: callers that go on waiting and *)
(* polling cannot lengthen it, and a submission can only if it had passed  *)
(* the test of closed already.                                             *)
THEOREM CloseOnlyShrinks == SafeSpec => CloseRunsDown
<1>1. IInv /\ [Next]_vars =>
        [closed => closed' /\ ToDo' <= ToDo /\ (ShutStep => ToDo' < ToDo)]_vars
    <2> SUFFICES ASSUME IInv, [Next]_vars, closed, ~UNCHANGED vars
                 PROVE  closed' /\ ToDo' <= ToDo /\ (ShutStep => ToDo' < ToDo)
        OBVIOUS
    <2>0. TypeOK BY DEF IInv
    <2>1. closed'
        BY DEF Next, CallerStep, WorkerStep, CloserStep, SubmitEnter, SubmitAdmit,
           SubmitRefuse, Poll, WaitEnter, WaitTake, WaitCancelled, WaitReturn, Start,
           WorkerTake, WorkerLeave, WorkerPost, OuterCancel, CloseMark, CloseCancel,
           CloseDrain, CloseDrained, CloseReturn, shutVars
    <2>2. ShutStep => ToDo' < ToDo
        BY <2>0, WorkerRunsDown, StartRunsDown, CloserRunsDown DEF ShutStep
    <2>3. TypeOK' BY StepInv DEF IInv
    <2>4. ToDo \in Nat /\ ToDo' \in Nat
        BY <2>0, <2>3, ToDoIsNumber, ToDoIsNumberNext
    <2>5. ~ShutStep => ToDo' = ToDo BY <2>0, OthersAddNothing
    <2> QED BY <2>1, <2>2, <2>4, <2>5
<1> QED BY <1>1, Invariance, PTL DEF SafeSpec, CloseRunsDown
=============================================================================
