----------------------------- MODULE BufferLoan -----------------------------
(***************************************************************************)
(* What the raster pool promises the frame path, with no queue, no worker  *)
(* and no shutdown in it: a tile buffer is lent to the pool, comes back    *)
(* exactly once, and no more than Slots buffers are away at any time.      *)
(* RasterPool implements this module (RasterPool!Loan).                    *)
(***************************************************************************)
EXTENDS Naturals, FiniteSets

CONSTANTS Buffer,   \* the tile buffers the frame path owns
          Slots     \* how many may be away from it at once

VARIABLE loan       \* where each buffer is: "home", "lent" or "reported"

TypeOK == loan \in [Buffer -> {"home", "lent", "reported"}]

Away == {b \in Buffer : loan[b] # "home"}

Init == loan = [b \in Buffer |-> "home"]

(* A submission the pool admits. *)
Lend(b) == /\ loan[b] = "home"
           /\ Cardinality(Away) < Slots
           /\ loan' = [loan EXCEPT ![b] = "lent"]

(* The pool has finished with the buffer, whatever came of the job. *)
Report(b) == /\ loan[b] = "lent"
             /\ loan' = [loan EXCEPT ![b] = "reported"]

(* The frame path takes a batch of finished buffers back. *)
Collect(S) == /\ S # {}
              /\ \A b \in S : loan[b] = "reported"
              /\ loan' = [b \in Buffer |-> IF b \in S THEN "home" ELSE loan[b]]

Next == \/ \E b \in Buffer : Lend(b) \/ Report(b)
        \/ \E S \in SUBSET Buffer : Collect(S)

(* What no step of the pool may do to a buffer. *)
Ledger == Init /\ [][Next]_loan
=============================================================================
