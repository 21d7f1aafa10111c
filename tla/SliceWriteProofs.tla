-------------------------- MODULE SliceWriteProofs --------------------------
(***************************************************************************)
(* Proofs about SliceWrite, for any memory, elements, iterators and lengths,  *)
(* and that it implements AtomicWrite.  The argument: the cells of a slice    *)
(* are numbered without gaps by how many lie below them, the loop writes the  *)
(* one whose number is its count, and the count is how many elements were     *)
(* taken; so what is written is always a first part of the slice, and all of   *)
(* it when the assertion lets the loop return.                              *)
(***************************************************************************)
EXTENDS SliceWrite, FiniteSetTheorems, FunctionTheorems, SequenceTheorems, TLAPS

-----------------------------------------------------------------------------
(***************************************************************************)
(* The places of a slice.                                                   *)
(***************************************************************************)
Below(cells, c) == {d \in cells : d < c}
Rank(cells, c) == Cardinality(Below(cells, c))

\* The cells of a slice are numbered from 0 on, without gaps.
LEMMA RankFacts ==
  ASSUME NEW cells \in SUBSET Cells
  PROVE  /\ Cardinality(cells) \in Nat
         /\ \A c \in cells : Rank(cells, c) \in 0..(Cardinality(cells) - 1)
         /\ \A c, d \in cells : Rank(cells, c) = Rank(cells, d) => c = d
         /\ \A k \in 0..(Cardinality(cells) - 1) : \E c \in cells : Rank(cells, c) = k
<1> DEFINE n == Cardinality(cells)
<1>1. IsFiniteSet(cells) /\ n \in Nat
  BY CellsAssumption, FS_Subset, FS_CardinalityType
<1>2. \A c \in cells : c \in Nat
  BY CellsAssumption
<1>3. ASSUME NEW c \in cells
      PROVE  /\ IsFiniteSet(Below(cells, c))
             /\ Rank(cells, c) \in 0..(n - 1)
  <2>1. Below(cells, c) \in SUBSET (cells \ {c})
    BY <1>2 DEF Below
  <2>2. IsFiniteSet(cells \ {c}) /\ Cardinality(cells \ {c}) = n - 1
    BY <1>1, FS_RemoveElement
  <2>3. IsFiniteSet(Below(cells, c)) /\ Rank(cells, c) <= n - 1
    BY <2>1, <2>2, FS_Subset DEF Rank
  <2>4. Rank(cells, c) \in Nat
    BY <2>3, FS_CardinalityType DEF Rank
  <2> QED
    BY <1>1, <2>3, <2>4
<1>4. ASSUME NEW c \in cells, NEW d \in cells, c < d
      PROVE  Rank(cells, c) # Rank(cells, d)
  <2>1. Below(cells, c) \in SUBSET Below(cells, d)
    BY <1>2, <1>4 DEF Below
  <2>2. c \in Below(cells, d) /\ c \notin Below(cells, c)
    BY <1>2, <1>4 DEF Below
  <2>3. IsFiniteSet(Below(cells, d))
    BY <1>3
  <2>4. Cardinality(Below(cells, d)) = Cardinality(Below(cells, c)) => Below(cells, d) = Below(cells, c)
    BY <2>1, <2>3, FS_Subset
  <2> QED
    BY <2>2, <2>4 DEF Rank
<1>5. \A c, d \in cells : Rank(cells, c) = Rank(cells, d) => c = d
  BY <1>2, <1>4
<1>6. \A k \in 0..(n - 1) : \E c \in cells : Rank(cells, c) = k
  <2> DEFINE f == [c \in cells |-> Rank(cells, c)]
  <2>0. \A c \in cells : Rank(cells, c) \in 0..(n - 1)
    BY <1>3
  <2>1. f \in [cells -> 0..(n - 1)] /\ \A c, d \in cells : f[c] = f[d] => c = d
    <3> HIDE DEF n
    <3>1. f \in [cells -> 0..(n - 1)]
      BY <2>0, Zenon
    <3>2. \A c, d \in cells : f[c] = f[d] => c = d
      BY <1>5, Zenon
    <3> QED BY <3>1, <3>2, Zenon
  <2>2. IsFiniteSet(0..(n - 1)) /\ Cardinality(0..(n - 1)) = n
    <3> HIDE DEF n, f
    <3> QED BY <1>1, FS_Interval
  <2> HIDE DEF f, n
  <2>3. f \in Injection(cells, 0..(n - 1))
    BY <2>1, Fun_IsInj, Zenon
  <2>4. f \in Surjection(cells, 0..(n - 1))
    BY <2>2, <2>3, FS_Injection DEF n
  <2>5. \A k \in 0..(n - 1) : \E c \in cells : f[c] = k
    BY <2>4 DEF Surjection
  <2> QED
    BY <2>5 DEF f
<1> QED
  BY <1>1, <1>3, <1>5, <1>6

\* A cell's number is a natural number.
LEMMA RankIsNat ==
  ASSUME NEW cells \in SUBSET Cells, NEW c \in cells
  PROVE  Rank(cells, c) \in Nat
<1>1. Cardinality(cells) \in Nat /\ Rank(cells, c) \in 0..(Cardinality(cells) - 1)
  BY RankFacts
<1> QED
  BY <1>1

\* The numbers follow the order of the cells.
LEMMA RankOrder ==
  ASSUME NEW cells \in SUBSET Cells, NEW c \in cells, NEW d \in cells
  PROVE  Rank(cells, c) < Rank(cells, d) <=> c < d
<1>1. \A x \in cells : x \in Nat /\ Rank(cells, x) \in Nat
  BY CellsAssumption, RankFacts
<1>2. ASSUME NEW x \in cells, NEW y \in cells, x < y PROVE Rank(cells, x) < Rank(cells, y)
  <2>1. IsFiniteSet(Below(cells, y)) /\ Below(cells, x) \in SUBSET Below(cells, y)
    <3>1. IsFiniteSet(cells) /\ Below(cells, y) \in SUBSET cells
      BY CellsAssumption, FS_Subset DEF Below
    <3> QED
      BY <1>1, <1>2, <3>1, FS_Subset DEF Below
  <2>2. Rank(cells, x) <= Rank(cells, y)
    BY <2>1, FS_Subset DEF Rank
  <2>3. Rank(cells, x) # Rank(cells, y)
    BY <1>1, <1>2, RankFacts
  <2> QED
    BY <1>1, <2>2, <2>3
<1> QED
  BY <1>1, <1>2

\* The slot with a number is the cell that has it.
LEMMA SlotFacts ==
  ASSUME call.cells \subseteq Cells, NEW k \in 0..(Length - 1)
  PROVE  Slot(k) \in call.cells /\ Rank(call.cells, Slot(k)) = k
<1>1. \E c \in call.cells : Rank(call.cells, c) = k
  BY RankFacts DEF Length
<1>2. Slot(k) = CHOOSE c \in call.cells : Rank(call.cells, c) = k
  BY DEF Slot, Rank, Below
<1> QED
  BY <1>1, <1>2

-----------------------------------------------------------------------------
(***************************************************************************)
(* The inductive invariant.                                                 *)
(***************************************************************************)
\* What a cell holds once so many elements were taken.
Written ==
  \A c \in Cells :
    mem[c] = IF c \in call.cells /\ Rank(call.cells, c) < count
             THEN taken[Rank(call.cells, c) + 1] ELSE before[c]

\* The loop counts what it takes, starts only with its own scope, and returns
\* only when it has filled the slice.
Counted ==
  /\ count = Len(taken)
  /\ call.mismatch => count = 0 /\ pc \in {"writing", "panicked"}
  /\ pc = "returned" => count = Length
  /\ pc = "refused" => count = 0
  /\ pc = "idle" => call = NoCall /\ count = 0

Inv == TypeOK /\ Counted /\ Written

\* The slice of a call has as many cells as its length, and the loop stays in
\* it.
LEMMA LengthFacts ==
  ASSUME TypeOK
  PROVE  /\ call.cells \in SUBSET Cells /\ Length \in Nat /\ Length = Cardinality(call.cells)
         /\ count \in Nat /\ count <= Length
<1>1. call.cells \in SUBSET Cells
  BY DEF TypeOK, Ranges
<1> QED
  BY <1>1, RankFacts DEF TypeOK, Length

\* No call is in progress, or one has just begun.
LEMMA Fresh ==
  ASSUME TypeOK, call'.cells \in Ranges, call'.mismatch \in BOOLEAN,
         call'.mismatch => pc' = "writing",
         mem' \in [Cells -> Elems \union {Uninit}], before' = mem', src' \in Sources,
         count' = 0, taken' = <<>>,
         pc' \in {"idle", "writing", "panicked", "refused"}, pc' = "idle" => call' = NoCall
  PROVE  Inv'
<1>1. Length' \in Nat /\ 0 \in 0..Length'
  <2>1. call'.cells \in SUBSET Cells
    BY DEF Ranges
  <2> QED
    BY <2>1, RankFacts DEF Length
<1>2. taken' \in Seq(Elems) /\ Len(taken') = 0
  BY EmptySeq
<1>3. TypeOK'
  BY <1>1, <1>2 DEF TypeOK
<1>4. Counted'
  BY <1>2 DEF Counted
<1>5. Written'
  <2>1. ASSUME NEW c \in call'.cells PROVE ~(Rank(call'.cells, c) < 0)
    <3> DEFINE cells == call'.cells
    <3>1. cells \in SUBSET Cells /\ c \in cells
      BY DEF Ranges
    <3> HIDE DEF cells
    <3>2. Rank(cells, c) \in 0..(Cardinality(cells) - 1)
      BY <3>1, RankFacts, Zenon
    <3> QED
      BY <3>2 DEF cells
  <2> QED
    BY <2>1 DEF Written
<1> QED
  BY <1>3, <1>4, <1>5 DEF Inv

\* Only the place in the code changes.
LEMMA OnlyPc ==
  ASSUME Inv, UNCHANGED <<mem, call, src, count, taken, before>>,
         \/ pc' = pc
         \/ pc' = "panicked"
         \/ pc' = "returned" /\ count = Length /\ ~call.mismatch
  PROVE  Inv'
<1>1. Length' = Length
  BY DEF Length
<1>2. pc' # "idle" \/ pc' = pc
  OBVIOUS
<1>3. TypeOK'
  BY <1>1 DEF Inv, TypeOK
<1>4. Counted'
  BY <1>1 DEF Inv, Counted
<1>5. Written'
  BY DEF Inv, Written, Rank, Below
<1> QED
  BY <1>3, <1>4, <1>5 DEF Inv

\* Writing an element to the cell that is next keeps the invariant.
LEMMA TakeElementStep ==
  ASSUME Inv, TakeElement
  PROVE  Inv'
<1>1. PICK val \in Elems : mem' = [mem EXCEPT ![Slot(count)] = val] /\ taken' = Append(taken, val)
  BY DEF TakeElement
<1>2. /\ pc = "writing" /\ count < Length /\ count' = count + 1 /\ HasElement /\ src' = Taken(src)
      /\ ~(call.mismatch /\ count = 0) /\ UNCHANGED <<pc, call, before>>
  BY DEF TakeElement, Running, ChecksNow
<1>3. /\ call.cells \in SUBSET Cells /\ Length \in Nat /\ count \in Nat /\ count <= Length
      /\ Length' = Length
  BY <1>2, LengthFacts DEF Inv, Length
<1> DEFINE i == Slot(count)
           rank(c) == Rank(call.cells, c)
<1>4. i \in call.cells /\ rank(i) = count
  BY <1>2, <1>3, SlotFacts
<1>ranks. /\ \A c \in call.cells : rank(c) \in Nat
          /\ \A c, d \in call.cells : rank(c) = rank(d) => c = d
  BY <1>3, RankFacts
<1> HIDE DEF i
<1>5. /\ taken \in Seq(Elems) /\ Len(taken) = count
      /\ taken' \in Seq(Elems) /\ Len(taken') = count + 1 /\ taken'[count + 1] = val
      /\ \A k \in 1..count : taken'[k] = taken[k]
  <2>1. taken \in Seq(Elems) /\ Len(taken) = count
    BY DEF Inv, TypeOK, Counted
  <2> QED
    BY <1>1, <2>1, AppendProperties
<1>6. TypeOK'
  <2>1. src' \in Sources
    BY <1>2, BoundsAssumption DEF Inv, TypeOK, Taken, HasElement, Sources
  <2>2. mem' \in [Cells -> Elems \union {Uninit}]
    BY <1>1 DEF Inv, TypeOK
  <2> QED
    BY <1>2, <1>3, <1>5, <2>1, <2>2 DEF Inv, TypeOK
<1>7. Counted'
  BY <1>2, <1>3, <1>5 DEF Inv, Counted
<1>8. Written'
  <2>1. SUFFICES ASSUME NEW c \in Cells
                 PROVE  mem'[c] = IF c \in call.cells /\ rank(c) < count + 1
                                  THEN taken'[rank(c) + 1] ELSE before[c]
    BY <1>2 DEF Written
  <2>2. mem \in [Cells -> Elems \union {Uninit}]
        /\ mem[c] = IF c \in call.cells /\ rank(c) < count THEN taken[rank(c) + 1] ELSE before[c]
    BY DEF Inv, TypeOK, Written
  <2>3. CASE c = i
    BY <1>1, <1>3, <1>4, <1>5, <2>2, <2>3 DEF i
  <2>4. CASE c # i /\ c \in call.cells
    <3>1. rank(c) \in Nat /\ rank(c) # count
      BY <1>4, <1>ranks, <2>4
    <3>2. mem'[c] = mem[c]
      BY <1>1, <2>2, <2>4 DEF i
    <3>3. mem[c] = IF rank(c) < count THEN taken[rank(c) + 1] ELSE before[c]
      BY <2>2, <2>4
    <3> DEFINE k == rank(c)
    <3> HIDE DEF k
    <3>4. k < count + 1 <=> k < count
      BY <1>3, <3>1 DEF k
    <3>5. k < count => k + 1 \in 1..count /\ taken'[k + 1] = taken[k + 1]
      BY <1>3, <1>5, <3>1 DEF k
    <3> QED
      BY <2>4, <3>2, <3>3, <3>4, <3>5, Zenon DEF k
  <2>5. CASE c \notin call.cells
    BY <1>1, <1>4, <2>2, <2>5 DEF i
  <2> QED
    BY <2>3, <2>4, <2>5
<1> QED
  BY <1>6, <1>7, <1>8 DEF Inv

\* The invariant holds before the first call.
LEMMA InitInv == Init => Inv
<1> SUFFICES ASSUME Init PROVE Inv
  OBVIOUS
<1>1. {} \in Ranges /\ call.cells = {} /\ call.mismatch = FALSE /\ src \in Sources
  BY BoundsAssumption DEF Init, NoCall, NoSource, Ranges, Contiguous, Sources
<1>2. Length = 0
  BY <1>1, FS_EmptySet DEF Length
<1>3. TypeOK
  <2>1. mem \in [Cells -> Elems \union {Uninit}] /\ before = mem
    BY DEF Init
  <2>2. pc = "idle" /\ count \in 0..Length /\ taken \in Seq(Elems)
    BY <1>2 DEF Init
  <2> QED
    BY <1>1, <2>1, <2>2 DEF TypeOK
<1>4. Written
  BY <1>1 DEF Init, Written
<1>5. Counted
  BY <1>1 DEF Init, Counted
<1> QED
  BY <1>3, <1>4, <1>5 DEF Inv

\* Every step of a write keeps the invariant.
LEMMA NextInv == Inv /\ [Next]_vars => Inv'
<1> SUFFICES ASSUME Inv, [Next]_vars PROVE Inv'
  OBVIOUS
<1>1. /\ TypeOK /\ mem \in [Cells -> Elems \union {Uninit}]
      /\ NoCall.cells \in Ranges /\ NoCall.mismatch = FALSE /\ NoSource \in Sources
      /\ SliceSources \subseteq Sources
  BY BoundsAssumption DEF Inv, TypeOK, NoCall, Ranges, Contiguous, NoSource, Sources, SliceSources
<1>2. ASSUME NEW op, NEW cells \in Ranges, NEW mismatch \in BOOLEAN, NEW source \in Sources,
             NEW contents \in [Cells -> Elems \union {Uninit}],
             Begin(op, cells, mismatch, source, contents)
      PROVE  Inv'
  BY <1>1, <1>2, Fresh DEF Begin
<1>3. CASE WriteFromIter
  BY <1>1, <1>2, <1>3 DEF WriteFromIter
<1>4. CASE CopyFromSlice
  BY <1>1, <1>2, <1>4 DEF CopyFromSlice
<1>5. CASE WriteStackedSlice
  <2>1. PICK cells \in Ranges, source \in Sources, mismatch \in BOOLEAN :
          Begin("write_stacked_slice_from_iter", cells, mismatch, source,
                [c \in Cells |-> IF c \in cells THEN Uninit ELSE mem[c]])
    BY <1>5 DEF WriteStackedSlice
  <2>2. [c \in Cells |-> IF c \in cells THEN Uninit ELSE mem[c]] \in [Cells -> Elems \union {Uninit}]
    BY <1>1
  <2> QED
    BY <1>2, <2>1, <2>2
<1>6. CASE WriteStackedSliceFails
  <2>1. call'.cells = {} /\ call'.mismatch = FALSE /\ {} \in Ranges
    BY <1>1, <1>6 DEF WriteStackedSliceFails, NoCall
  <2> QED
    BY <1>1, <1>6, <2>1, Fresh DEF WriteStackedSliceFails
<1>7. CASE Forget
  BY <1>1, <1>7, Fresh DEF Forget
<1>8. CASE TakeElement
  BY <1>8, TakeElementStep
<1>9. CASE MismatchPanics \/ SourcePanics \/ AssertPanics \/ UNCHANGED vars
  BY <1>9, OnlyPc DEF MismatchPanics, SourcePanics, AssertPanics, Panic, vars
<1>10. CASE Return
  <2>1. pc = "writing" /\ count = Length /\ ~(call.mismatch /\ count = 0)
    BY <1>10 DEF Return, LoopEnded, Running, ChecksNow, AssertCount
  <2>2. ~call.mismatch
    BY <2>1 DEF Inv, Counted
  <2> QED
    BY <1>10, <2>1, <2>2, OnlyPc DEF Return
<1> QED
  BY <1>3, <1>4, <1>5, <1>6, <1>7, <1>8, <1>9, <1>10 DEF Next

-----------------------------------------------------------------------------
(***************************************************************************)
(* The invariants.                                                          *)
(***************************************************************************)
THEOREM Invariance == Spec => []Inv
  BY InitInv, NextInv, PTL DEF Spec

\* The type invariant, with the count within the slice.
THEOREM Typing == Spec => []TypeOK
<1>1. Inv => TypeOK
  BY DEF Inv
<1> QED
  BY <1>1, Invariance, PTL

\* Whenever the loop is left, by returning or by a panic, the front of the
\* slice holds what was taken from the source, and nothing else has changed.
THEOREM PrefixIsWritten == Spec => []WrittenIsWhatWasTaken
<1>1. Inv => WrittenIsWhatWasTaken
  BY LengthFacts DEF Inv, Written, Counted, WrittenIsWhatWasTaken, Rank, Below
<1> QED
  BY <1>1, Invariance, PTL

\* What is returned as valid has been written (assert!(count == self.len())).
THEOREM ReturnsInitialized == Spec => []ReturnedIsInitialized
<1>1. Inv => ReturnedIsInitialized
  <2> SUFFICES ASSUME Inv, pc = "returned", NEW c \in call.cells
               PROVE  mem[c] \in Elems
    BY DEF ReturnedIsInitialized
  <2>1. /\ call.cells \in SUBSET Cells /\ count = Cardinality(call.cells)
        /\ taken \in Seq(Elems) /\ Len(taken) = count
    BY LengthFacts DEF Inv, TypeOK, Counted
  <2> DEFINE k == Rank(call.cells, c)
  <2>2. k \in 0..(count - 1) /\ mem[c] = IF k < count THEN taken[k + 1] ELSE before[c]
    BY <2>1, RankFacts DEF Inv, Written
  <2>3. count \in Nat
    BY LengthFacts DEF Inv
  <2> HIDE DEF k
  <2>4. k < count /\ k + 1 \in 1..Len(taken)
    BY <2>1, <2>2, <2>3
  <2> QED
    BY <2>1, <2>2, <2>4, ElementOfSeq
<1> QED
  BY <1>1, Invariance, PTL

\* A scope of another runtime stops a write before it has changed anything.
THEOREM MismatchStops == Spec => []MismatchWritesNothing
<1>1. Inv => MismatchWritesNothing
  <2> SUFFICES ASSUME Inv, call.mismatch PROVE mem = before /\ pc # "returned"
    BY DEF MismatchWritesNothing
  <2>1. count = 0 /\ pc # "returned"
    BY DEF Inv, Counted
  <2>2. call.cells \in SUBSET Cells
    BY LengthFacts DEF Inv
  <2>3. \A c \in call.cells : Rank(call.cells, c) \in Nat
    BY <2>2, RankIsNat
  <2>4. \A c \in Cells : mem[c] = before[c]
    BY <2>1, <2>3 DEF Inv, Written
  <2>5. mem \in [Cells -> Elems \union {Uninit}] /\ before \in [Cells -> Elems \union {Uninit}]
    BY DEF Inv, TypeOK
  <2> QED
    BY <2>1, <2>4, <2>5
<1> QED
  BY <1>1, Invariance, PTL

-----------------------------------------------------------------------------
(***************************************************************************)
(* The loop implements the write its caller sees.                           *)
(***************************************************************************)
seen == IF pc = "writing" THEN before ELSE mem
slice == IF pc = "idle" THEN {} ELSE call.cells
known == IF pc = "writing" THEN "called" ELSE pc

\* What has been written so far, as the caller of a write would see it.
LEMMA WrittenPrefix ==
  ASSUME Inv
  PROVE  \E new \in [{c \in call.cells : Rank(call.cells, c) < count} -> Elems] :
           mem = [c \in Cells |-> IF c \in {d \in call.cells : Rank(call.cells, d) < count}
                                  THEN new[c] ELSE before[c]]
<1> DEFINE front == {c \in call.cells : Rank(call.cells, c) < count}
           new == [c \in front |-> mem[c]]
<1>1. /\ call.cells \in SUBSET Cells /\ count \in Nat
      /\ taken \in Seq(Elems) /\ Len(taken) = count
      /\ mem \in [Cells -> Elems \union {Uninit}]
  BY LengthFacts DEF Inv, TypeOK, Counted
<1>2. \A k \in 0..(count - 1) : taken[k + 1] \in Elems
  <2> SUFFICES ASSUME NEW k \in 0..(count - 1) PROVE taken[k + 1] \in Elems
    OBVIOUS
  <2>1. k + 1 \in 1..Len(taken)
    BY <1>1
  <2> QED
    BY <1>1, <2>1, ElementOfSeq
<1>3. ASSUME NEW c \in front PROVE mem[c] \in Elems
  <2> DEFINE k == Rank(call.cells, c)
  <2>1. k \in Nat /\ k < count /\ mem[c] = taken[k + 1]
    <3>1. c \in call.cells /\ c \in Cells /\ k < count
      BY <1>1
    <3>2. k \in Nat
      BY <1>1, <3>1, RankIsNat
    <3> QED
      BY <3>1, <3>2 DEF Inv, Written
  <2> HIDE DEF k
  <2>2. k \in 0..(count - 1)
    BY <1>1, <2>1
  <2> QED
    BY <1>2, <2>1, <2>2
<1>4. new \in [front -> Elems]
  BY <1>3
<1>5. \A c \in Cells : mem[c] = IF c \in front THEN new[c] ELSE before[c]
  BY DEF Inv, Written
<1>6. mem = [c \in Cells |-> IF c \in front THEN new[c] ELSE before[c]]
  BY <1>1, <1>5
<1> QED
  BY <1>4, <1>6

\* A panic leaves a first part of the slice written.
LEMMA PanicIsPanic ==
  ASSUME Inv, pc = "writing", pc' = "panicked", count = 0 \/ count < Length,
         UNCHANGED <<mem, call, before>>
  PROVE  Caller!APanic
<1> DEFINE front == {c \in call.cells : Rank(call.cells, c) < count}
<1>1. PICK new \in [front -> Elems] :
        mem = [c \in Cells |-> IF c \in front THEN new[c] ELSE before[c]]
  BY WrittenPrefix
<1>2. /\ call.cells \in SUBSET Cells /\ count \in Nat /\ Length = Cardinality(call.cells)
      /\ \A c \in call.cells : Rank(call.cells, c) \in Nat
  BY LengthFacts, RankIsNat DEF Inv, Length
<1>3. seen = before /\ seen' = mem /\ slice = call.cells /\ slice' = slice
      /\ known = "called" /\ known' = "panicked"
  BY DEF seen, slice, known
<1>4. front \in {{}} \union {{c \in call.cells : c < n} : n \in call.cells}
  <2>1. CASE count = 0
    BY <1>2, <2>1
  <2>2. CASE count # 0
    <3> DEFINE n == Slot(count)
    <3>1. n \in call.cells /\ Rank(call.cells, n) = count
      BY <1>2, <2>2, LengthFacts, SlotFacts DEF Inv
    <3>2. \A c \in call.cells : Rank(call.cells, c) < count <=> c < n
      <4> SUFFICES ASSUME NEW c \in call.cells
                   PROVE  Rank(call.cells, c) < Rank(call.cells, n) <=> c < n
        BY <3>1
      <4> QED
        BY <1>2, <3>1, RankOrder
    <3> HIDE DEF n
    <3> QED
      BY <3>1, <3>2
  <2> QED
    BY <2>1, <2>2
<1> HIDE DEF front
<1> QED
  BY <1>1, <1>3, <1>4 DEF Caller!APanic, Caller!APrefixes, Caller!AWrite, seen, slice, known

\* A write that returns has written all of the slice.
LEMMA ReturnIsReturn ==
  ASSUME Inv, Return
  PROVE  Caller!AReturn
<1>1. pc = "writing" /\ pc' = "returned" /\ count = Length /\ UNCHANGED <<mem, call, before>>
  BY DEF Return, LoopEnded, Running, AssertCount
<1>2. {c \in call.cells : Rank(call.cells, c) < count} = call.cells
  <2>1. call.cells \in SUBSET Cells /\ count \in Nat /\ count = Cardinality(call.cells)
    BY <1>1, LengthFacts DEF Inv
  <2>2. \A c \in call.cells : Rank(call.cells, c) \in 0..(Cardinality(call.cells) - 1)
    BY <2>1, RankFacts
  <2> QED
    BY <2>1, <2>2
<1>3. PICK new \in [call.cells -> Elems] :
        mem = [c \in Cells |-> IF c \in call.cells THEN new[c] ELSE before[c]]
  BY <1>2, WrittenPrefix
<1> QED
  BY <1>1, <1>3 DEF Caller!AReturn, Caller!AWrite

\* Every step of the loop is one the caller sees, or none.
LEMMA StepIsStep ==
  ASSUME Inv, [Next]_vars
  PROVE  [Caller!ANext]_Caller!avars
<1>1. call.cells \in SUBSET Cells /\ count \in Nat /\ Length \in Nat /\ count <= Length
  BY LengthFacts DEF Inv
<1>2. ASSUME NEW op, NEW cells \in Ranges, NEW mismatch, NEW source, NEW contents,
             contents \in {mem, [c \in Cells |-> IF c \in cells THEN Uninit ELSE mem[c]]},
             Begin(op, cells, mismatch, source, contents)
      PROVE  \E s \in SUBSET Cells : Caller!ACall(s)
  <2>1. /\ pc = "idle" /\ pc' = "writing" /\ call'.cells = cells /\ before' = contents
        /\ cells \in SUBSET Cells
    BY <1>2 DEF Begin, Ranges
  <2>2. Caller!ACall(cells)
    BY <1>2, <2>1 DEF Caller!ACall
  <2> QED
    BY <2>1, <2>2
<1>3. CASE WriteFromIter \/ CopyFromSlice \/ WriteStackedSlice
  <2>1. \E s \in SUBSET Cells : Caller!ACall(s)
    BY <1>2, <1>3 DEF WriteFromIter, CopyFromSlice, WriteStackedSlice
  <2> QED
    BY <2>1 DEF Caller!ANext
<1>4. CASE WriteStackedSliceFails
  <2>1. /\ pc = "idle" /\ pc' \in {"refused", "panicked"} /\ call'.cells = {} /\ mem' = mem
    BY <1>4 DEF WriteStackedSliceFails, NoCall
  <2> QED
    BY <2>1 DEF Caller!ANext, Caller!ARefuse
<1>5. CASE MismatchPanics
  <2>1. pc = "writing" /\ count = 0 /\ pc' = "panicked" /\ UNCHANGED <<mem, call, before>>
    BY <1>5 DEF MismatchPanics, ChecksNow, Panic
  <2> QED
    BY <2>1, PanicIsPanic DEF Caller!ANext
<1>6. CASE SourcePanics
  <2>1. pc = "writing" /\ count < Length /\ pc' = "panicked" /\ UNCHANGED <<mem, call, before>>
    BY <1>6 DEF SourcePanics, Running, Panic
  <2> QED
    BY <2>1, PanicIsPanic DEF Caller!ANext
<1>7. CASE AssertPanics
  <2>1. pc = "writing" /\ count # Length /\ pc' = "panicked" /\ UNCHANGED <<mem, call, before>>
    BY <1>7 DEF AssertPanics, LoopEnded, AssertCount, Running, Panic
  <2>2. count < Length
    BY <1>1, <2>1
  <2> QED
    BY <2>1, <2>2, PanicIsPanic DEF Caller!ANext
<1>8. CASE Return
  BY <1>8, ReturnIsReturn DEF Caller!ANext
<1>9. CASE Forget
  <2>1. pc \in {"returned", "panicked", "refused"} /\ pc' = "idle" /\ mem' = mem
    BY <1>9 DEF Forget
  <2> QED
    BY <2>1 DEF Caller!ANext, Caller!AForget
<1>10. CASE TakeElement \/ UNCHANGED vars
  <2>1. UNCHANGED <<pc, call, before>> /\ (pc = "writing" \/ mem' = mem)
    BY <1>10 DEF TakeElement, Running, vars
  <2> QED
    BY <2>1 DEF Caller!avars
<1> QED
  BY <1>3, <1>4, <1>5, <1>6, <1>7, <1>8, <1>9, <1>10 DEF Next

\* Writing element by element implements the write of AtomicWrite: nobody who
\* only sees the memory between calls can tell the two apart.
THEOREM WritesAreAtomic == Spec => ImplementsAtomicWrite
<1>1. Init => Caller!AInit
  BY DEF Init, Caller!AInit
<1>2. Inv /\ [Next]_vars => [Caller!ANext]_Caller!avars
  BY StepIsStep
<1> QED
  BY <1>1, <1>2, Invariance, PTL DEF Spec, ImplementsAtomicWrite, Caller!ASpec

=============================================================================
