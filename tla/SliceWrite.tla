----------------------------- MODULE SliceWrite -----------------------------
(***************************************************************************)
(* Writing a slice of foreign memory element by element                      *)
(* (OGMutSlice::write_from_iter and copy_from_slice, and the                 *)
(* write_stacked_slice family of rt/mod.rs that allocates the slice first).  *)
(*                                                                         *)
(* The elements come from an iterator, code of the host that may end early,  *)
(* panic, or go on for ever; the len() of an ExactSizeIterator need not be   *)
(* true.  ForeignMemory takes a whole write as one step.                     *)
(***************************************************************************)
EXTENDS Integers, Sequences, FiniteSets

CONSTANTS
  Cells,      \* the elements of memory, an interval
  Elems,      \* what an iterator may yield
  Uninit,     \* what was never written
  MaxLen,     \* the longest slice that has a Layout
  UseHeap     \* allocations are made by HeapAllocator

ASSUME CellsAssumption == Cells \subseteq Nat /\ IsFiniteSet(Cells) /\ Uninit \notin Elems
ASSUME BoundsAssumption == MaxLen \in Nat /\ UseHeap \in BOOLEAN

VARIABLES
  mem,    \* the contents of each cell
  pc,     \* "idle", "writing", "returned", "panicked" or "refused" (an error)
  call,   \* the operation, and the slice it writes
  src,    \* the iterator
  count,  \* the local variable of the loop
  taken,  \* history: what the iterator has yielded
  before  \* history: the memory when the loop began

vars == <<mem, pc, call, src, count, taken, before>>

NoCall == [op |-> "none", cells |-> {}, mismatch |-> FALSE]
NoSource == [left |-> 0, end |-> "none"]

\* An iterator that yields so many elements, and then says None, panics, or
\* yields for ever.
Sources == [left : 0..MaxLen + 1, end : {"none", "panic", "endless"}]

\* The slice src of copy_from_slice is an iterator that behaves.
SliceSources == {s \in Sources : s.end = "none"}

Contiguous(cells) == \A x, y \in cells : x..y \subseteq cells
Ranges == {cells \in SUBSET Cells : Contiguous(cells)}
Length == Cardinality(call.cells)
Slot(k) == CHOOSE c \in call.cells : Cardinality({d \in call.cells : d < c}) = k

Init ==
  /\ mem = [c \in Cells |-> Uninit]
  /\ pc = "idle"
  /\ call = NoCall
  /\ src = NoSource
  /\ count = 0
  /\ taken = <<>>
  /\ before = mem

-----------------------------------------------------------------------------
(***************************************************************************)
(* Calls.  mismatch: the AccessScope is one of another runtime.              *)
(***************************************************************************)
Begin(op, cells, mismatch, source, contents) ==
  /\ pc = "idle" /\ pc' = "writing"
  /\ call' = [op |-> op, cells |-> cells, mismatch |-> mismatch]
  /\ src' = source
  /\ mem' = contents /\ before' = contents
  /\ count' = 0 /\ taken' = <<>>

WriteFromIter ==
  \E cells \in Ranges, source \in Sources, mismatch \in BOOLEAN :
    Begin("write_from_iter", cells, mismatch, source, mem)

CopyFromSlice ==
  \E cells \in Ranges, source \in SliceSources, mismatch \in BOOLEAN :
    Begin("copy_from_slice", cells, mismatch, source, mem)

\* write_stacked_slice_from_iter(_mut), and through it write_stacked_slice(_mut):
\* len() elements are allocated, and write_from_iter fills them.
WriteStackedSlice ==
  \E cells \in Ranges, source \in Sources, mismatch \in BOOLEAN :
    /\ Cardinality(cells) <= MaxLen
    /\ UseHeap => cells # {}
    /\ Begin("write_stacked_slice_from_iter", cells, mismatch, source,
             [c \in Cells |-> IF c \in cells THEN Uninit ELSE mem[c]])

\* An allocation that HeapAllocator refuses (AllocInvalidLayout), or a
\* Layout::array that does not exist and is unwrapped.
WriteStackedSliceFails ==
  /\ pc = "idle"
  /\ \/ UseHeap /\ pc' = "refused"
     \/ pc' = "panicked"
  /\ call' = [NoCall EXCEPT !.op = "write_stacked_slice_from_iter"]
  /\ src' = NoSource /\ count' = 0 /\ taken' = <<>> /\ before' = mem
  /\ UNCHANGED mem

-----------------------------------------------------------------------------
(***************************************************************************)
(* The loop: self.iter().zip(src).for_each(...).                             *)
(***************************************************************************)
Panic ==
  /\ pc' = "panicked"
  /\ UNCHANGED <<mem, call, src, count, taken, before>>

\* Mutant: the copy is not checked, only the value it returns.
ChecksAtOnceOnly == call.mismatch /\ count = 0 /\ call.op # "copy_from_slice"

\* write_from_iter checks the scope at once, copy_from_slice by its first
\* write_ref.
ChecksNow == call.mismatch /\ count = 0

HasElement == src.left > 0 \/ src.end = "endless"
Taken(source) == IF source.left > 0 THEN [source EXCEPT !.left = @ - 1] ELSE source

Running == pc = "writing" /\ ~ChecksNow

\* A write with a scope of another runtime gets no further.
MismatchPanics == pc = "writing" /\ ChecksNow /\ Panic

\* Mutant: zip asks the source before it asks the slice.
TakeElementFirst ==
  /\ Running /\ HasElement
  /\ \E val \in Elems :
       /\ taken' = Append(taken, val)
       /\ mem' = IF count < Length THEN [mem EXCEPT ![Slot(count)] = val] ELSE mem
       /\ count' = count + 1
  /\ src' = Taken(src)
  /\ pc' = IF count < Length THEN pc ELSE "returned"
  /\ UNCHANGED <<call, before>>

\* Mutant: the slots are filled from the far end.
TakeElementBackwards ==
  /\ Running /\ count < Length /\ HasElement
  /\ \E val \in Elems :
       /\ mem' = [mem EXCEPT ![Slot(Length - 1 - count)] = val]
       /\ taken' = Append(taken, val)
  /\ count' = count + 1
  /\ src' = Taken(src)
  /\ UNCHANGED <<pc, call, before>>

\* The slice has a slot left, the source an element.
TakeElement ==
  /\ Running /\ count < Length /\ HasElement
  /\ \E val \in Elems :
       /\ mem' = [mem EXCEPT ![Slot(count)] = val]
       /\ taken' = Append(taken, val)
  /\ count' = count + 1
  /\ src' = Taken(src)
  /\ UNCHANGED <<pc, call, before>>

\* next() of the source panics.
SourcePanics ==
  /\ Running /\ count < Length
  /\ src.left = 0 /\ src.end = "panic"
  /\ Panic

\* Mutant: the assertion accepts a slice that is not filled.
AssertCountNonzero == count > 0 \/ Length = 0

\* assert!(count == self.len()), when the slice or the source has ended.
AssertCount == count = Length

\* Mutant: the loop ends when the source does.
LoopEndedBySource == Running /\ src.left = 0 /\ src.end = "none"

LoopEnded == Running /\ (count = Length \/ (src.left = 0 /\ src.end = "none"))

\* The value that is returned covers the whole slice.
Return ==
  /\ LoopEnded /\ AssertCount
  /\ pc' = "returned"
  /\ UNCHANGED <<mem, call, src, count, taken, before>>

AssertPanics ==
  /\ LoopEnded /\ ~AssertCount
  /\ Panic

\* The host is done with the slice, or has caught the panic.
Forget ==
  /\ pc \in {"returned", "panicked", "refused"}
  /\ pc' = "idle"
  /\ call' = NoCall /\ src' = NoSource
  /\ count' = 0 /\ taken' = <<>> /\ before' = mem
  /\ UNCHANGED mem

-----------------------------------------------------------------------------
Step == MismatchPanics \/ TakeElement \/ SourcePanics \/ Return \/ AssertPanics

Next ==
  \/ WriteFromIter \/ CopyFromSlice \/ WriteStackedSlice \/ WriteStackedSliceFails
  \/ MismatchPanics \/ TakeElement \/ SourcePanics \/ Return \/ AssertPanics
  \/ Forget

\* The loop keeps running: every call of next() comes back.
Spec == Init /\ [][Next]_vars /\ WF_vars(Step)

-----------------------------------------------------------------------------
(***************************************************************************)
(* Properties.                                                              *)
(***************************************************************************)
Active == pc # "idle"

\* Every state variable has the type its comment says.
TypeOK ==
  /\ mem \in [Cells -> Elems \union {Uninit}] /\ before \in [Cells -> Elems \union {Uninit}]
  /\ pc \in {"idle", "writing", "returned", "panicked", "refused"}
  /\ call.cells \in Ranges /\ call.mismatch \in BOOLEAN
  /\ src \in Sources
  /\ count \in 0..Length /\ taken \in Seq(Elems)

\* At every moment, and so after every panic, exactly the elements that were
\* taken from the source have been written, in order, to the front of the
\* slice, and no other cell has changed.  No element is lost: what does not fit
\* is still in the source.
WrittenIsWhatWasTaken ==
  /\ Len(taken) <= Length
  /\ \A c \in Cells :
       LET k == Cardinality({d \in call.cells : d < c})
       IN  mem[c] = IF c \in call.cells /\ k < Len(taken) THEN taken[k + 1] ELSE before[c]

\* The value a write returns is a reference to valid elements only: "every
\* element of `src` was a valid instance of T, and we copied self.r.len()
\* elements", even into memory that held nothing.
ReturnedIsInitialized == pc = "returned" => \A c \in call.cells : mem[c] \in Elems

\* A write with another runtime's scope changes nothing and never returns.
MismatchWritesNothing ==
  Active /\ call.mismatch => mem = before /\ pc # "returned"

\* Every write ends, also when its source never does.
EveryWriteEnds == pc = "writing" ~> pc # "writing"

\* The caller of a write sees the memory change in one step.
Caller == INSTANCE AtomicWrite WITH
  amem <- IF pc = "writing" THEN before ELSE mem,
  aslice <- IF pc = "idle" THEN {} ELSE call.cells,
  astate <- IF pc = "writing" THEN "called" ELSE pc

\* Element by element writes implement the all or prefix write.
ImplementsAtomicWrite == Caller!ASpec

\* The comment at rt/mod.rs:261: "This will panic if the iterator did not
\* yield exactly `src.len()` elements".
StackedPanicsUnlessExact ==
  pc = "returned" /\ call.op = "write_stacked_slice_from_iter" => ~HasElement

\* The error IDMismatch (lib.rs:58-67) says that a scope of another runtime
\* stops the operation with an error.
MismatchIsAnError ==
  call.op = "write_stacked_slice_from_iter" /\ call.mismatch => pc # "panicked"

=============================================================================
