---------------------------- MODULE AtomicWrite -----------------------------
(***************************************************************************)
(* What a write to a slice of foreign memory promises to its caller: either *)
(* the whole slice is written, or the write panics and a first part of the   *)
(* slice is.  Nothing else changes, and nobody sees it halfway.              *)
(***************************************************************************)
EXTENDS Integers

CONSTANTS Cells, Elems, Uninit

VARIABLES
  amem,    \* the memory as the caller sees it
  aslice,  \* the cells of the slice the caller may use
  astate   \* what the caller knows: "idle",
           \* "called", "returned", "panicked" or "refused"

avars == <<amem, aslice, astate>>

AInit ==
  /\ amem \in [Cells -> Elems \union {Uninit}]
  /\ aslice = {}
  /\ astate = "idle"

\* The slice is old memory, or a new allocation that holds nothing yet.
ACall(cells) ==
  /\ astate = "idle"
  /\ aslice' = cells
  /\ \/ amem' = amem
     \/ amem' = [c \in Cells |-> IF c \in cells THEN Uninit ELSE amem[c]]
  /\ astate' = "called"

\* The slice may have been denied altogether.
ARefuse ==
  /\ astate = "idle"
  /\ astate' \in {"refused", "panicked"}
  /\ UNCHANGED <<amem, aslice>>

APrefixes == {{}} \union {{c \in aslice : c < n} : n \in aslice}

AWrite(cells) ==
  \E new \in [cells -> Elems] :
    amem' = [c \in Cells |-> IF c \in cells THEN new[c] ELSE amem[c]]

AReturn ==
  /\ astate = "called"
  /\ AWrite(aslice)
  /\ astate' = "returned"
  /\ UNCHANGED aslice

APanic ==
  /\ astate = "called"
  /\ \E cells \in APrefixes : AWrite(cells)
  /\ astate' = "panicked"
  /\ UNCHANGED aslice

\* The caller goes on.
AForget ==
  /\ astate \in {"returned", "panicked", "refused"}
  /\ astate' = "idle"
  /\ aslice' = {}
  /\ UNCHANGED amem

ANext ==
  \/ \E cells \in SUBSET Cells : ACall(cells)
  \/ ARefuse \/ AReturn \/ APanic \/ AForget

ASpec == AInit /\ [][ANext]_avars

=============================================================================
