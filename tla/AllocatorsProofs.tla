-------------------------- MODULE AllocatorsProofs --------------------------
(***************************************************************************)
(* Proofs about Allocators, for stacks and heaps of any size, layouts of any  *)
(* size and nestings of any depth, and that it implements ScopedMemory.      *)
(*                                                                         *)
(* The stack: each frame's memory, locals and caller lie one above the other  *)
(* and above all of it lies the frame it was called from; the callee-saved    *)
(* register holds the base of the innermost one, so that a return finds the   *)
(* stack pointer of its caller.  The heap: running closures have blocks that   *)
(* are held and disjoint, so that freeing one frees no other's.              *)
(***************************************************************************)
EXTENDS Allocators, FrameLemmas

-----------------------------------------------------------------------------
(***************************************************************************)
(* Alignment.                                                               *)
(***************************************************************************)
Aligns == {1, 2, 4, 8, 16, 32, 64, 128, 256, 512, 1024, 2048, 4096}

\* The alignments of LayoutsAssumption, as numbers.
LEMMA PowersOfTwo == \A k \in 0..12 : 2^k \in Aligns
<1> SUFFICES ASSUME NEW k \in 0..12 PROVE 2^k \in Aligns
  OBVIOUS
<1>1. \A n \in {0, 1, 2, 3, 4, 5, 6, 7, 8, 9, 10, 11, 12} :
        2^n \in {2^0, 2^1, 2^2, 2^3, 2^4, 2^5, 2^6, 2^7, 2^8, 2^9, 2^10, 2^11, 2^12}
  BY Zenon
<1>2. k \in {0, 1, 2, 3, 4, 5, 6, 7, 8, 9, 10, 11, 12}
  OBVIOUS
<1>3. {2^0, 2^1, 2^2, 2^3, 2^4, 2^5, 2^6, 2^7, 2^8, 2^9, 2^10, 2^11, 2^12} = Aligns
  BY DEF Aligns
<1> QED
  <2>1. 2^k \in {2^0, 2^1, 2^2, 2^3, 2^4, 2^5, 2^6, 2^7, 2^8, 2^9, 2^10, 2^11, 2^12}
    BY <1>1, <1>2, Zenon
  <2> QED
    BY <1>3, <2>1, Zenon

\* What LayoutsAssumption says of one layout, with the alignments as numbers.
LEMMA LayoutFacts ==
  ASSUME NEW l \in StackLayouts \union HeapLayouts
  PROVE  l.size \in Nat /\ l.align \in Aligns
BY LayoutsAssumption, PowersOfTwo, Zenon

\* The pointer the assembly computes is aligned for the layout and for a call,
\* and the memory from it on ends below the locals.
LEMMA PtrBelowFacts ==
  ASSUME NEW layout \in StackLayouts, NEW base \in Int
  PROVE  LET ptr == PtrBelow(base, layout)
         IN  /\ ptr \in Int /\ ptr + layout.size <= base
             /\ ptr % 16 = 0 /\ ptr % layout.align = 0
<1> DEFINE n == base - layout.size
           a == layout.align
<1>1. n \in Int /\ a \in Aligns /\ layout.size \in Nat /\ n + layout.size = base
  BY LayoutFacts
<1>2. PtrBelow(base, layout) = n - (n % FrameAlign(a))
  BY DEF PtrBelow, AlignDown
<1> HIDE DEF n, a
<1>3. LET ptr == n - (n % FrameAlign(a))
      IN  ptr \in Int /\ ptr <= n /\ ptr % 16 = 0 /\ ptr % a = 0
  BY <1>1 DEF Aligns, FrameAlign
<1> DEFINE ptr == n - (n % FrameAlign(a))
<1>4. ptr \in Int /\ ptr <= n /\ ptr % 16 = 0 /\ ptr % a = 0
  BY <1>3
<1> HIDE DEF ptr
<1>5. ptr + layout.size <= base
  BY <1>1, <1>4
<1> QED
  BY <1>2, <1>4, <1>5 DEF ptr, a

-----------------------------------------------------------------------------
(***************************************************************************)
(* The inductive invariant.                                                 *)
(***************************************************************************)
StackFrame ==
  [ptr : 0..StackBytes, layout : StackLayouts, base : 0..StackBytes,
   locals : Locals, kept : 0..StackBytes, caller : 0..StackBytes]
HeapBlock == [ptr : 1..HeapBytes, layout : HeapLayouts]

\* One frame, in the frame it was called from.
LaidOut(f, caller, kept) ==
  /\ f.ptr + f.layout.size <= f.base
  /\ f.base + f.locals = f.caller
  /\ f.caller = caller /\ f.kept = kept
  /\ f.ptr % 16 = 0 /\ f.ptr % f.layout.align = 0

CallerOf(k) == IF k = 1 THEN StackBytes ELSE frames[k - 1].ptr
KeptBy(k) == IF k = 1 THEN 0 ELSE frames[k - 1].base

StackInv ==
  /\ frames \in Seq(StackFrame)
  /\ sp = CallerOf(Depth + 1) /\ saved = KeptBy(Depth + 1)
  /\ \A k \in 1..Depth : LaidOut(frames[k], CallerOf(k), KeptBy(k))
  /\ \A j, k \in 1..Depth : j < k => frames[k].caller <= frames[j].ptr
  /\ held = {} /\ status # "corrupt"

HeapInv ==
  /\ frames \in Seq(HeapBlock)
  /\ sp = StackBytes /\ status # "corrupt"
  /\ held \in SUBSET HeapBlock /\ \A b \in held : b.layout.size > 0
  /\ \A k \in 1..Depth : frames[k] \in held /\ frames[k].ptr % frames[k].layout.align = 0
  /\ \A j, k \in 1..Depth : j < k => Disjoint(frames[k], frames[j])

Inv ==
  /\ allocator \in Allocators
  /\ status \in {"running", "overflow", "aborted", "wild", "null", "corrupt"}
  /\ allocator # "heap" => StackInv
  /\ allocator = "heap" => HeapInv

\* The depth of a stack of frames is a number, and the frames have their type.
LEMMA DepthIsNat ==
  ASSUME NEW S, frames \in Seq(S)
  PROVE  Depth \in Nat /\ \A k \in 1..Depth : frames[k] \in S
BY LenProperties, ElementOfSeq DEF Depth

\* The invariant holds before the first call.
LEMMA InitInv == Init => Inv
<1> SUFFICES ASSUME Init PROVE Inv
  OBVIOUS
<1>1. Depth = 0 /\ frames = <<>>
  BY DEF Init, Depth
<1>2. StackInv
  BY <1>1 DEF Init, StackInv, CallerOf, KeptBy
<1>3. HeapInv
  BY <1>1 DEF Init, HeapInv
<1> QED
  BY <1>2, <1>3 DEF Init, Inv

-----------------------------------------------------------------------------
(***************************************************************************)
(* The stack.                                                               *)
(***************************************************************************)
\* What the innermost closure may use lies below every frame.
LEMMA StackPointerIsLowest ==
  ASSUME StackInv
  PROVE  sp \in 0..StackBytes /\ \A k \in 1..Depth : sp <= frames[k].ptr
<1>1. Depth \in Nat /\ \A k \in 1..Depth : frames[k] \in StackFrame
  BY DepthIsNat DEF StackInv
<1>2. CASE Depth = 0
  BY <1>2, SizesAssumption DEF StackInv, CallerOf
<1>3. CASE Depth # 0
  <2>1. Depth \in 1..Depth /\ sp = frames[Depth].ptr
    BY <1>1, <1>3 DEF StackInv, CallerOf
  <2>2. frames[Depth].ptr <= frames[Depth].caller
    <3>1. LaidOut(frames[Depth], CallerOf(Depth), KeptBy(Depth))
      BY <2>1 DEF StackInv
    <3>2. frames[Depth].layout.size \in Nat /\ frames[Depth].locals \in Nat
      BY <1>1, <2>1, LayoutFacts, SizesAssumption DEF StackFrame
    <3>3. /\ frames[Depth].ptr \in Int /\ frames[Depth].base \in Int
          /\ frames[Depth].caller \in Int
      BY <1>1, <2>1 DEF StackFrame
    <3> QED
      BY <3>1, <3>2, <3>3 DEF LaidOut
  <2>3. ASSUME NEW k \in 1..Depth PROVE sp <= frames[k].ptr
    <3>1. CASE k = Depth
      BY <1>1, <2>1, <3>1 DEF StackFrame
    <3>2. CASE k # Depth
      <4>1. frames[Depth].caller <= frames[k].ptr
        BY <1>1, <2>1, <3>2 DEF StackInv
      <4>2. /\ frames[Depth].ptr \in Int /\ frames[Depth].caller \in Int
            /\ frames[k].ptr \in Int
        BY <1>1, <2>1 DEF StackFrame
      <4> QED
        BY <2>1, <2>2, <4>1, <4>2
    <3> QED
      BY <3>1, <3>2
  <2> QED
    BY <1>1, <2>1, <2>3 DEF StackFrame
<1> QED
  BY <1>2, <1>3

\* A closure is called on new memory.
LEMMA StackAllocInv ==
  ASSUME StackInv, NEW layout \in StackLayouts, NEW locals \in Locals,
         StackAlloc(layout, locals)
  PROVE  StackInv'
<1> DEFINE base == sp - locals
           ptr == PtrBelow(base, layout)
           f == [ptr |-> ptr, layout |-> layout, base |-> base,
                 locals |-> locals, kept |-> saved, caller |-> sp]
<1>1. /\ ptr >= 0 /\ sp' = ptr /\ saved' = base /\ frames' = Append(frames, f)
      /\ UNCHANGED <<held, status>>
  BY DEF StackAlloc
<1>2. sp \in 0..StackBytes /\ \A k \in 1..Depth : sp <= frames[k].ptr
  BY StackPointerIsLowest
<1>3. Depth \in Nat /\ \A k \in 1..Depth : frames[k] \in StackFrame
  BY DepthIsNat DEF StackInv
<1>4. locals \in Nat /\ layout.size \in Nat /\ StackBytes \in Nat
  BY LayoutFacts, SizesAssumption
<1>5. base \in Int /\ base + locals = sp
  BY <1>2, <1>4
<1>6. saved \in 0..StackBytes
  BY <1>3, <1>4 DEF StackInv, KeptBy, StackFrame
<1> HIDE DEF base
<1>7. ptr \in Int /\ ptr + layout.size <= base /\ ptr % 16 = 0 /\ ptr % layout.align = 0
  BY <1>5, PtrBelowFacts
<1> HIDE DEF ptr
<1>8. ptr \in 0..StackBytes /\ base \in 0..StackBytes
  <2>1. ptr >= 0 /\ sp <= StackBytes /\ sp \in Int
    BY <1>1, <1>2, <1>4
  <2> QED
    BY <1>4, <1>5, <1>7, <2>1
<1>9. f \in StackFrame
  BY <1>2, <1>6, <1>8 DEF StackFrame
<1>10. /\ frames' \in Seq(StackFrame) /\ Depth' = Depth + 1
       /\ \A k \in 1..Depth : frames'[k] = frames[k]
       /\ frames'[Depth + 1] = f
  BY <1>1, <1>9, AppendProperties DEF StackInv, Depth
<1>11. \A k \in 1..(Depth + 1) : CallerOf(k)' = CallerOf(k) /\ KeptBy(k)' = KeptBy(k)
  <2> SUFFICES ASSUME NEW k \in 1..(Depth + 1)
               PROVE  CallerOf(k)' = CallerOf(k) /\ KeptBy(k)' = KeptBy(k)
    OBVIOUS
  <2>1. k = 1 \/ k - 1 \in 1..Depth
    BY <1>3
  <2> QED
    BY <1>10, <2>1 DEF CallerOf, KeptBy
<1>12. sp' = CallerOf(Depth + 1)' /\ saved' = KeptBy(Depth + 1)'
  <2>1. Depth' + 1 # 1 /\ Depth' + 1 - 1 = Depth + 1
    BY <1>3, <1>10
  <2>2. frames'[Depth + 1].ptr = ptr /\ frames'[Depth + 1].base = base
    BY <1>10
  <2> HIDE DEF f
  <2>3. CallerOf(Depth + 1)' = ptr /\ KeptBy(Depth + 1)' = base
    BY <1>3, <1>10, <2>1, <2>2 DEF CallerOf, KeptBy
  <2> QED
    BY <1>1, <2>3
<1>13. LaidOut(f, sp, saved)
  BY <1>5, <1>7 DEF LaidOut
<1>14. \A k \in 1..Depth' : LaidOut(frames'[k], CallerOf(k)', KeptBy(k)')
  <2> SUFFICES ASSUME NEW k \in 1..(Depth + 1)
               PROVE  LaidOut(frames'[k], CallerOf(k), KeptBy(k))
    BY <1>10, <1>11
  <2>1. CASE k = Depth + 1
    BY <1>10, <1>13, <2>1 DEF StackInv
  <2>2. CASE k # Depth + 1
    <3>1. k \in 1..Depth
      BY <1>3, <2>2
    <3> QED
      BY <1>10, <3>1 DEF StackInv
  <2> QED
    BY <2>1, <2>2
<1>15. \A j, k \in 1..Depth' : j < k => frames'[k].caller <= frames'[j].ptr
  <2> SUFFICES ASSUME NEW j \in 1..(Depth + 1), NEW k \in 1..(Depth + 1), j < k
               PROVE  frames'[k].caller <= frames'[j].ptr
    BY <1>10
  <2>1. j \in 1..Depth
    BY <1>3
  <2>2. CASE k = Depth + 1
    BY <1>2, <1>10, <2>1, <2>2
  <2>3. CASE k # Depth + 1
    <3>1. k \in 1..Depth
      BY <1>3, <2>3
    <3> QED
      BY <1>10, <2>1, <3>1 DEF StackInv
  <2> QED
    BY <2>2, <2>3
<1> QED
  BY <1>1, <1>10, <1>12, <1>14, <1>15 DEF StackInv

\* A closure returns, and what it was called from is as before.
LEMMA StackReturnInv ==
  ASSUME StackInv, StackReturn
  PROVE  StackInv' /\ sp' = Top.caller
<1>1. Depth \in Nat /\ Depth > 0 /\ \A k \in 1..Depth : frames[k] \in StackFrame
  BY DepthIsNat DEF StackInv, StackReturn, InClosure
<1>2. /\ Depth \in 1..Depth /\ Depth - 1 \in 0..Len(frames)
      /\ Depth + 1 # 1 /\ Depth + 1 - 1 = Depth
  BY <1>1 DEF Depth
<1>3. LaidOut(Top, CallerOf(Depth), KeptBy(Depth)) /\ saved = Top.base
  BY <1>2 DEF StackInv, Top, KeptBy
<1>4. /\ sp' = saved + Top.locals /\ saved' = Top.kept
      /\ frames' = SubSeq(frames, 1, Depth - 1) /\ UNCHANGED <<held, status>>
  BY DEF StackReturn
<1>5. sp' = Top.caller /\ sp' = CallerOf(Depth) /\ saved' = KeptBy(Depth)
  BY <1>3, <1>4 DEF LaidOut
<1>6. /\ frames' \in Seq(StackFrame) /\ Depth' = Depth - 1
      /\ \A k \in 1..(Depth - 1) : frames'[k] = frames[k]
  BY <1>2, <1>4, CutTo DEF StackInv, Depth
<1>7. \A k \in 1..Depth : CallerOf(k)' = CallerOf(k) /\ KeptBy(k)' = KeptBy(k)
  <2> SUFFICES ASSUME NEW k \in 1..Depth
               PROVE  CallerOf(k)' = CallerOf(k) /\ KeptBy(k)' = KeptBy(k)
    OBVIOUS
  <2>1. k = 1 \/ k - 1 \in 1..(Depth - 1)
    BY <1>1
  <2> QED
    BY <1>6, <2>1 DEF CallerOf, KeptBy
<1>8. sp' = CallerOf(Depth + 1)' /\ saved' = KeptBy(Depth + 1)'
  <2>1. Depth' + 1 = Depth
    BY <1>1, <1>6
  <2>2. CallerOf(Depth + 1)' = CallerOf(Depth) /\ KeptBy(Depth + 1)' = KeptBy(Depth)
    <3>1. Depth = 1 \/ Depth - 1 \in 1..(Depth - 1)
      BY <1>1
    <3> QED
      BY <1>6, <2>1, <3>1 DEF CallerOf, KeptBy
  <2> QED
    BY <1>5, <2>2
<1>9. \A k \in 1..(Depth - 1) : k \in 1..Depth
  BY <1>1
<1>10. \A k \in 1..Depth' : LaidOut(frames'[k], CallerOf(k)', KeptBy(k)')
  BY <1>6, <1>7, <1>9 DEF StackInv
<1>11. \A j, k \in 1..Depth' : j < k => frames'[k].caller <= frames'[j].ptr
  BY <1>6, <1>9 DEF StackInv
<1> QED
  BY <1>4, <1>5, <1>6, <1>8, <1>10, <1>11 DEF StackInv

-----------------------------------------------------------------------------
(***************************************************************************)
(* The heap.                                                                *)
(***************************************************************************)
LEMMA HeapAllocInv ==
  ASSUME HeapInv, NEW layout \in HeapLayouts, HeapAlloc(layout)
  PROVE  HeapInv'
<1>1. PICK b \in Fresh(layout) :
        /\ held' = held \union {b} /\ frames' = Append(frames, b)
        /\ UNCHANGED <<sp, status>>
  BY DEF HeapAlloc
<1>2. layout.size \in Nat /\ layout.size # 0 /\ HeapBytes \in Nat
  BY LayoutFacts, SizesAssumption DEF HeapAlloc, Refuses
<1>3. /\ b \in [ptr : 1..(HeapBytes - layout.size), layout : {layout}]
      /\ b.ptr % layout.align = 0 /\ \A h \in held : Disjoint(b, h)
  BY DEF Fresh
<1>4. b \in HeapBlock /\ b.layout = layout /\ b.layout.size > 0
  BY <1>2, <1>3 DEF HeapBlock
<1>5. Depth \in Nat /\ \A k \in 1..Depth : frames[k] \in HeapBlock
  BY DepthIsNat DEF HeapInv
<1>6. /\ frames' \in Seq(HeapBlock) /\ Depth' = Depth + 1
      /\ \A k \in 1..Depth : frames'[k] = frames[k]
      /\ frames'[Depth + 1] = b
  BY <1>1, <1>4, AppendProperties DEF HeapInv, Depth
<1>7. \A k \in 1..(Depth + 1) : k \in 1..Depth \/ k = Depth + 1
  BY <1>5
<1>8. \A k \in 1..Depth' : frames'[k] \in held' /\ frames'[k].ptr % frames'[k].layout.align = 0
  <2> SUFFICES ASSUME NEW k \in 1..(Depth + 1)
               PROVE  frames'[k] \in held' /\ frames'[k].ptr % frames'[k].layout.align = 0
    BY <1>6
  <2>1. CASE k \in 1..Depth
    BY <1>1, <1>6, <2>1 DEF HeapInv
  <2>2. CASE k = Depth + 1
    BY <1>1, <1>3, <1>4, <1>6, <2>2
  <2> QED
    BY <1>7, <2>1, <2>2
<1>9. \A j, k \in 1..Depth' : j < k => Disjoint(frames'[k], frames'[j])
  <2> SUFFICES ASSUME NEW j \in 1..(Depth + 1), NEW k \in 1..(Depth + 1), j < k
               PROVE  Disjoint(frames'[k], frames'[j])
    BY <1>6
  <2>1. j \in 1..Depth
    BY <1>5
  <2>2. CASE k \in 1..Depth
    BY <1>6, <2>1, <2>2 DEF HeapInv
  <2>3. CASE k = Depth + 1
    <3>1. frames[j] \in held
      BY <2>1 DEF HeapInv
    <3> QED
      BY <1>3, <1>6, <2>1, <2>3, <3>1
  <2> QED
    BY <1>7, <2>2, <2>3
<1> QED
  BY <1>1, <1>4, <1>6, <1>8, <1>9 DEF HeapInv

\* What remains of the frames when some are gone.
LEMMA HeapCut ==
  ASSUME HeapInv, NEW n \in 0..Depth, frames' = SubSeq(frames, 1, n)
  PROVE  /\ frames' \in Seq(HeapBlock) /\ Depth' = n
         /\ \A k \in 1..n : k \in 1..Depth /\ frames'[k] = frames[k]
<1>1. Depth \in Nat
  BY DepthIsNat DEF HeapInv
<1> QED
  BY <1>1, CutTo DEF HeapInv, Depth

\* Freeing the innermost closure's block leaves every other one's held.
LEMMA HeapReturnInv ==
  ASSUME HeapInv, HeapReturn
  PROVE  HeapInv'
<1>1. Depth \in Nat /\ Depth > 0 /\ \A k \in 1..Depth : frames[k] \in HeapBlock
  BY DepthIsNat DEF HeapInv, HeapReturn, InClosure
<1>2. Depth \in 1..Depth /\ Depth - 1 \in 0..Depth
  BY <1>1
<1>3. Top \in held
  BY <1>2 DEF HeapInv, Top
<1>4. /\ frames' = SubSeq(frames, 1, Depth - 1) /\ held' = held \ {Top}
      /\ sp' = sp /\ status' = status
  BY <1>3 DEF HeapReturn, Freed
<1>5. /\ frames' \in Seq(HeapBlock) /\ Depth' = Depth - 1
      /\ \A k \in 1..(Depth - 1) : k \in 1..Depth /\ frames'[k] = frames[k]
  BY <1>2, <1>4, HeapCut
<1>6. \A k \in 1..(Depth - 1) : frames[k] # Top
  <2> SUFFICES ASSUME NEW k \in 1..(Depth - 1), frames[k] = Top PROVE FALSE
    OBVIOUS
  <2>1. k \in 1..Depth /\ k < Depth
    BY <1>1
  <2>2. Disjoint(Top, Top)
    BY <1>2, <2>1 DEF HeapInv, Top
  <2>3. Top.ptr \in Int /\ Top.layout.size \in Nat /\ Top.layout.size > 0
    BY <1>1, <1>2, <1>3, LayoutFacts DEF HeapInv, Top, HeapBlock
  <2> QED
    BY <2>2, <2>3 DEF Disjoint
<1>7. \A k \in 1..Depth' : frames'[k] \in held' /\ frames'[k].ptr % frames'[k].layout.align = 0
  BY <1>4, <1>5, <1>6 DEF HeapInv
<1>8. \A j, k \in 1..Depth' : j < k => Disjoint(frames'[k], frames'[j])
  BY <1>5 DEF HeapInv
<1> QED
  BY <1>4, <1>5, <1>7, <1>8 DEF HeapInv

\* Unwinding drops frames and frees nothing: those below still hold their
\* blocks.
LEMMA HeapUnwindsInv ==
  ASSUME HeapInv, NEW n \in 0..(Depth - 1), HeapUnwinds(n)
  PROVE  HeapInv'
<1>1. Depth \in Nat
  BY DepthIsNat DEF HeapInv
<1>2. /\ frames' \in Seq(HeapBlock) /\ Depth' = n
      /\ \A k \in 1..n : k \in 1..Depth /\ frames'[k] = frames[k]
  BY <1>1, HeapCut DEF HeapUnwinds
<1>3. sp' = sp /\ held' = held /\ status' = status
  BY DEF HeapUnwinds
<1>4. \A k \in 1..Depth' : frames'[k] \in held' /\ frames'[k].ptr % frames'[k].layout.align = 0
  BY <1>2, <1>3 DEF HeapInv
<1>5. \A j, k \in 1..Depth' : j < k => Disjoint(frames'[k], frames'[j])
  BY <1>2 DEF HeapInv
<1> QED
  BY <1>2, <1>3, <1>4, <1>5 DEF HeapInv

-----------------------------------------------------------------------------
(***************************************************************************)
(* Every step.                                                              *)
(***************************************************************************)
\* A step that only stops the process, or no step at all.
LEMMA StillInv ==
  ASSUME Inv, UNCHANGED <<allocator, frames, sp, saved, held>>,
         status' \in {status, "overflow", "aborted", "wild", "null"}
  PROVE  Inv'
<1>1. Depth' = Depth
  BY DEF Depth
<1>2. \A k \in 1..Depth : CallerOf(k)' = CallerOf(k) /\ KeptBy(k)' = KeptBy(k)
  BY DEF CallerOf, KeptBy
<1>3. CallerOf(Depth + 1)' = CallerOf(Depth + 1) /\ KeptBy(Depth + 1)' = KeptBy(Depth + 1)
  BY <1>1 DEF CallerOf, KeptBy
<1>4. StackInv => StackInv'
  BY <1>1, <1>2, <1>3 DEF StackInv
<1>5. HeapInv => HeapInv'
  BY <1>1 DEF HeapInv
<1> QED
  BY <1>4, <1>5 DEF Inv

\* Every step of either allocator keeps the invariant.
LEMMA NextInv == Inv /\ [Next]_vars => Inv'
<1> SUFFICES ASSUME Inv, [Next]_vars PROVE Inv'
  OBVIOUS
<1>1. ASSUME NEW layout \in StackLayouts, NEW locals \in Locals, StackAlloc(layout, locals)
      PROVE  Inv'
  <2>1. allocator # "heap" /\ UNCHANGED <<allocator, status>>
    BY <1>1 DEF StackAlloc, StackRuns
  <2>2. StackInv'
    BY <1>1, <2>1, StackAllocInv DEF Inv
  <2> QED
    BY <2>1, <2>2 DEF Inv
<1>2. ASSUME NEW layout \in StackLayouts, NEW locals \in Locals,
             StackOverflows(layout, locals) \/ CallsTheArgument(layout, locals)
      PROVE  Inv'
  BY <1>2, StillInv DEF StackOverflows, CallsTheArgument, Stops
<1>3. CASE StackReturn
  <2>1. allocator # "heap" /\ UNCHANGED <<allocator, status>>
    BY <1>3 DEF StackReturn, StackRuns
  <2>2. StackInv'
    BY <1>3, <2>1, StackReturnInv DEF Inv
  <2> QED
    BY <2>1, <2>2 DEF Inv
<1>4. CASE StackUnwinds
  BY <1>4, StillInv DEF StackUnwinds, Stops
<1>5. ASSUME NEW layout \in HeapLayouts, HeapAlloc(layout)
      PROVE  Inv'
  <2>1. allocator = "heap" /\ UNCHANGED <<allocator, status>>
    BY <1>5 DEF HeapAlloc, HeapRuns
  <2>2. HeapInv'
    BY <1>5, <2>1, HeapAllocInv DEF Inv
  <2> QED
    BY <2>1, <2>2 DEF Inv
<1>6. CASE HeapReturn
  <2>1. /\ allocator = "heap" /\ UNCHANGED allocator
        /\ status' \in {"running", "overflow", "aborted", "wild", "null", "corrupt"}
    BY <1>6 DEF HeapReturn, HeapRuns
  <2>2. HeapInv'
    BY <1>6, <2>1, HeapReturnInv DEF Inv
  <2> QED
    BY <2>1, <2>2 DEF Inv
<1>7. ASSUME NEW n \in 0..(Depth - 1), HeapUnwinds(n)
      PROVE  Inv'
  <2>1. allocator = "heap" /\ UNCHANGED <<allocator, status>>
    BY <1>7 DEF HeapUnwinds, HeapRuns
  <2>2. HeapInv'
    BY <1>7, <2>1, HeapUnwindsInv DEF Inv
  <2> QED
    BY <2>1, <2>2 DEF Inv
<1>8. ASSUME NEW layout \in HeapLayouts, HeapAllocGivesNull(layout)
      PROVE  Inv'
  BY <1>8, StillInv DEF HeapAllocGivesNull, Stops
<1>9. CASE UNCHANGED vars
  BY <1>9, StillInv DEF vars
<1> QED
  BY <1>1, <1>2, <1>3, <1>4, <1>5, <1>6, <1>7, <1>8, <1>9 DEF Next

\* The invariant holds of every allocator, whatever is asked of it.
THEOREM Invariance == Spec => []Inv
BY InitInv, NextInv, PTL DEF Spec

-----------------------------------------------------------------------------
(***************************************************************************)
(* What follows.                                                            *)
(***************************************************************************)
\* The state keeps its types, whatever sizes and alignments are asked for.
THEOREM Typing == Spec => []TypeOK
<1>1. Inv => TypeOK
  <2> SUFFICES ASSUME Inv PROVE TypeOK
    OBVIOUS
  <2>1. CASE allocator # "heap"
    <3>1. StackInv
      BY <2>1 DEF Inv
    <3>2. sp \in 0..StackBytes
      BY <3>1, StackPointerIsLowest
    <3>3. Depth \in Nat /\ \A k \in 1..Depth : frames[k] \in StackFrame
      BY <3>1, DepthIsNat DEF StackInv
    <3>4. saved = IF Depth = 0 THEN 0 ELSE Top.base
      BY <3>1, <3>3 DEF StackInv, KeptBy, Top
    <3>5. held = {}
      BY <3>1 DEF StackInv
    <3> QED
      BY <2>1, <3>2, <3>3, <3>4, <3>5 DEF Inv, TypeOK, StackFrame
  <2>2. CASE allocator = "heap"
    <3>1. HeapInv
      BY <2>2 DEF Inv
    <3>2. sp \in 0..StackBytes
      BY <3>1, SizesAssumption DEF HeapInv
    <3>3. Depth \in Nat /\ \A k \in 1..Depth : frames[k] \in HeapBlock
      BY <3>1, DepthIsNat DEF HeapInv
    <3> QED
      BY <2>2, <3>1, <3>2, <3>3 DEF Inv, TypeOK, HeapInv, HeapBlock
  <2> QED
    BY <2>1, <2>2
<1> QED
  BY <1>1, Invariance, PTL

\* The stack of every nesting of closures is laid out so that none reaches
\* into another's memory or locals, and is aligned for the call.
THEOREM StackStaysLaidOut == Spec => []StackIsLaidOut
<1>1. Inv => StackIsLaidOut
  <2> SUFFICES ASSUME Inv, allocator # "heap", NEW k \in 1..Depth
               PROVE  /\ frames[k].ptr + frames[k].layout.size <= frames[k].base
                      /\ frames[k].base + frames[k].locals <= frames[k].caller
                      /\ frames[k].caller <= IF k = 1 THEN StackBytes ELSE frames[k - 1].ptr
                      /\ sp <= frames[k].ptr /\ frames[k].ptr % 16 = 0
    BY DEF StackIsLaidOut
  <2>1. StackInv /\ sp <= frames[k].ptr
    BY StackPointerIsLowest DEF Inv
  <2>2. LaidOut(frames[k], CallerOf(k), KeptBy(k)) /\ frames[k] \in StackFrame
    BY <2>1, DepthIsNat DEF StackInv
  <2>3. frames[k].caller \in Int
    BY <2>2 DEF StackFrame
  <2> QED
    BY <2>1, <2>2, <2>3 DEF LaidOut, CallerOf
<1> QED
  BY <1>1, Invariance, PTL

\* Returning gives each caller the stack pointer it had.
THEOREM ReturnsPutTheStackBack == Spec => StackIsPutBack
<1>1. Inv /\ [Next]_vars => [allocator # "heap" /\ Len(frames') < Depth => sp' = Top.caller]_vars
  <2> SUFFICES ASSUME Inv, Next, allocator # "heap", Len(frames') < Depth
               PROVE  sp' = Top.caller
    OBVIOUS
  <2>1. StackInv
    BY DEF Inv
  <2>2. Depth \in Nat
    BY <2>1, DepthIsNat DEF StackInv
  <2>3. CASE StackReturn
    BY <2>1, <2>3, StackReturnInv
  <2>4. ASSUME NEW layout \in StackLayouts, NEW locals \in Locals, StackAlloc(layout, locals)
        PROVE  FALSE
    <3>1. StackInv' /\ \E f : frames' = Append(frames, f)
      BY <2>1, <2>4, StackAllocInv DEF StackAlloc
    <3>2. Len(frames') = Depth + 1
      BY <2>1, <3>1 DEF StackInv, Depth
    <3> QED
      BY <2>2, <3>2
  <2>5. UNCHANGED frames => FALSE
    BY <2>2 DEF Depth
  <2> QED
    BY <2>3, <2>4, <2>5 DEF Next, StackOverflows, CallsTheArgument, StackUnwinds, Stops,
       HeapAlloc, HeapAllocGivesNull, HeapReturn, HeapUnwinds, HeapRuns
<1> QED
  BY <1>1, Invariance, PTL DEF Spec, StackIsPutBack

\* A running closure's memory is held, and nothing is freed twice.
THEOREM ClosuresKeepTheirMemory == Spec => []RunningClosuresHoldTheirMemory
<1>1. Inv => RunningClosuresHoldTheirMemory
  BY DEF Inv, HeapInv, RunningClosuresHoldTheirMemory
<1> QED
  BY <1>1, Invariance, PTL

-----------------------------------------------------------------------------
(***************************************************************************)
(* Both allocators lend memory as ScopedMemory does.                        *)
(***************************************************************************)
Places == 0..(IF StackBytes > HeapBytes THEN StackBytes ELSE HeapBytes)
Lent == [ptr : Places, layout : StackLayouts \union HeapLayouts]
Block(f) == [ptr |-> f.ptr, layout |-> f.layout]
View(seq) == [k \in 1..Len(seq) |-> Block(seq[k])]
lent == [k \in 1..Depth |-> [ptr |-> frames[k].ptr, layout |-> frames[k].layout]]

\* The blocks of the running closures.
LEMMA ViewFacts ==
  ASSUME NEW seq, Len(seq) \in Nat, \A k \in 1..Len(seq) : Block(seq[k]) \in Lent
  PROVE  /\ View(seq) \in Seq(Lent) /\ Len(View(seq)) = Len(seq)
         /\ \A k \in 1..Len(seq) : View(seq)[k] = Block(seq[k])
<1>1. View(seq) \in [1..Len(seq) -> Lent]
  BY DEF View
<1> QED
  BY <1>1 DEF View

\* The memory of each frame is something ScopedMemory can lend.
LEMMA FramesAreLent ==
  ASSUME Inv
  PROVE  Depth \in Nat /\ \A k \in 1..Depth : Block(frames[k]) \in Lent
<1>1. CASE allocator # "heap"
  <2>1. Depth \in Nat /\ \A k \in 1..Depth : frames[k] \in StackFrame
    BY <1>1, DepthIsNat DEF Inv, StackInv
  <2>2. \A k \in 1..Depth : frames[k].ptr \in Places
    BY <2>1, SizesAssumption DEF StackFrame, Places
  <2> QED
    BY <2>1, <2>2 DEF StackFrame, Block, Lent
<1>2. CASE allocator = "heap"
  <2>1. Depth \in Nat /\ \A k \in 1..Depth : frames[k] \in HeapBlock
    BY <1>2, DepthIsNat DEF Inv, HeapInv
  <2>2. \A k \in 1..Depth : frames[k].ptr \in Places
    BY <2>1, SizesAssumption DEF HeapBlock, Places
  <2> QED
    BY <2>1, <2>2 DEF HeapBlock, Block, Lent
<1> QED
  BY <1>1, <1>2

\* When closures end, what the others have is as it was.
LEMMA ViewOfCut ==
  ASSUME Inv, NEW n \in 0..Depth
  PROVE  View(SubSeq(frames, 1, n)) = SubSeq(View(frames), 1, n)
<1>1. Depth \in Nat /\ \A k \in 1..Depth : Block(frames[k]) \in Lent
  BY FramesAreLent
<1>2. /\ View(frames) \in Seq(Lent) /\ Len(View(frames)) = Depth
      /\ \A k \in 1..Depth : View(frames)[k] = Block(frames[k])
  BY <1>1, ViewFacts DEF Depth
<1>3. \E S : frames \in Seq(S)
  BY DEF Inv, StackInv, HeapInv
<1> DEFINE cut == SubSeq(frames, 1, n)
           viewed == SubSeq(View(frames), 1, n)
<1>4. Len(cut) = n /\ \A k \in 1..n : cut[k] = frames[k]
  BY <1>3, CutTo DEF Depth
<1>5. viewed \in Seq(Lent) /\ Len(viewed) = n /\ \A k \in 1..n : viewed[k] = View(frames)[k]
  BY <1>2, CutTo
<1> HIDE DEF cut, viewed
<1>6. \A k \in 1..n : k \in 1..Depth
  BY <1>1
<1>7. /\ View(cut) \in Seq(Lent) /\ Len(View(cut)) = n
      /\ \A k \in 1..n : View(cut)[k] = Block(frames[k])
  BY <1>1, <1>4, <1>6, ViewFacts
<1>8. View(cut) = viewed
  BY <1>2, <1>5, <1>6, <1>7, SeqEqual
<1> QED
  BY <1>8 DEF cut, viewed

\* A new frame apart from all others is a loan of ScopedMemory.
LEMMA LendIsLend ==
  ASSUME Inv, NEW f, Block(f) \in Lent, frames' = Append(frames, f),
         f.ptr % f.layout.align = 0,
         \A k \in 1..Depth : Memory!Apart(Block(frames[k]), Block(f))
  PROVE  Memory!Lend
<1>1. Depth \in Nat /\ \A k \in 1..Depth : Block(frames[k]) \in Lent
  BY FramesAreLent
<1>2. /\ View(frames) \in Seq(Lent) /\ Len(View(frames)) = Depth
      /\ \A k \in 1..Depth : View(frames)[k] = Block(frames[k])
  BY <1>1, ViewFacts DEF Depth
<1>3. \E S : frames \in Seq(S)
  BY DEF Inv, StackInv, HeapInv
<1> DEFINE pushed == Append(frames, f)
           added == Append(View(frames), Block(f))
<1>4. /\ Len(pushed) = Depth + 1 /\ pushed[Depth + 1] = f
      /\ \A k \in 1..Depth : pushed[k] = frames[k]
  BY <1>3 DEF Depth
<1>5. /\ added \in Seq(Lent) /\ Len(added) = Depth + 1 /\ added[Depth + 1] = Block(f)
      /\ \A k \in 1..Depth : added[k] = View(frames)[k]
  BY <1>2, AppendProperties
<1> HIDE DEF pushed, added
<1>6. \A k \in 1..(Depth + 1) : k \in 1..Depth \/ k = Depth + 1
  BY <1>1
<1>7. \A k \in 1..(Depth + 1) : Block(pushed[k]) \in Lent
  BY <1>1, <1>4, <1>6
<1>8. /\ View(pushed) \in Seq(Lent) /\ Len(View(pushed)) = Depth + 1
      /\ \A k \in 1..(Depth + 1) : View(pushed)[k] = Block(pushed[k])
  BY <1>1, <1>4, <1>7, ViewFacts
<1>9. \A k \in 1..(Depth + 1) : View(pushed)[k] = added[k]
  BY <1>2, <1>4, <1>5, <1>6, <1>8
<1>10. View(pushed) = added
  BY <1>5, <1>8, <1>9, SeqEqual
<1>11. View(frames)' = added
  BY <1>10 DEF pushed, View
<1>12. DOMAIN View(frames) = 1..Depth
  BY DEF View, Depth
<1> DEFINE block == Block(f)
<1>13. /\ block \in Lent /\ block.ptr % block.layout.align = 0
       /\ block = [ptr |-> block.ptr, layout |-> block.layout]
       /\ \A k \in DOMAIN View(frames) : Memory!Apart(View(frames)[k], block)
  BY <1>2, <1>12 DEF Block
<1> HIDE DEF block
<1>14. /\ Len(added) = Len(View(frames)) + 1
       /\ added[Len(added)] = block
       /\ added = Append(View(frames), [ptr |-> block.ptr, layout |-> block.layout])
  BY <1>2, <1>5, <1>13 DEF added, block
<1>15. block.ptr \in Places /\ block.layout \in StackLayouts \union HeapLayouts
  BY <1>13 DEF Lent
<1> HIDE DEF added
<1> QED
  BY <1>11, <1>13, <1>14, <1>15
     DEF Memory!Lend, Memory!Fits, Memory!Block, View, Block, Depth, Places

\* Dropping the innermost frames takes back the newest loans.
LEMMA CutIsTakeBack ==
  ASSUME Inv, NEW n \in 0..(Depth - 1), frames' = SubSeq(frames, 1, n)
  PROVE  Memory!TakeBack
<1>1. Depth \in Nat /\ \A k \in 1..Depth : Block(frames[k]) \in Lent
  BY FramesAreLent
<1>2. Len(View(frames)) = Depth
  BY <1>1, ViewFacts DEF Depth
<1>3. View(frames)' = SubSeq(View(frames), 1, n)
  <2>1. View(SubSeq(frames, 1, n)) = SubSeq(View(frames), 1, n)
    BY <1>1, ViewOfCut
  <2> QED
    BY <2>1 DEF View
<1> QED
  BY <1>2, <1>3 DEF Memory!TakeBack, View, Block, Depth

\* with_alloc of the stack allocators lends the memory below all that is in
\* use.
LEMMA StackLends ==
  ASSUME Inv, NEW layout \in StackLayouts, NEW locals \in Locals, StackAlloc(layout, locals)
  PROVE  Memory!Lend
<1> DEFINE base == sp - locals
           ptr == PtrBelow(base, layout)
           f == [ptr |-> ptr, layout |-> layout, base |-> base,
                 locals |-> locals, kept |-> saved, caller |-> sp]
<1>1. ptr >= 0 /\ frames' = Append(frames, f)
  BY DEF StackAlloc
<1>2. /\ sp \in 0..StackBytes /\ \A k \in 1..Depth : sp <= frames[k].ptr
      /\ \A k \in 1..Depth : frames[k] \in StackFrame
  BY StackPointerIsLowest, DepthIsNat DEF Inv, StackInv, StackAlloc, StackRuns
<1>3. locals \in Nat /\ layout.size \in Nat /\ StackBytes \in Nat /\ HeapBytes \in Nat
  BY LayoutFacts, SizesAssumption
<1>4. base \in Int /\ base <= sp
  BY <1>2, <1>3
<1> HIDE DEF base
<1>5. ptr \in Int /\ ptr + layout.size <= base /\ ptr % layout.align = 0
  BY <1>4, PtrBelowFacts
<1>6. ptr >= 0
  BY <1>1
<1> HIDE DEF ptr
<1>7. ptr \in Places /\ ptr + layout.size <= sp
  BY <1>2, <1>3, <1>4, <1>5, <1>6 DEF Places
<1>8. Block(f) = [ptr |-> ptr, layout |-> layout]
  BY DEF Block
<1>9. \A k \in 1..Depth : Memory!Apart(Block(frames[k]), Block(f))
  <2> SUFFICES ASSUME NEW k \in 1..Depth
               PROVE  Memory!Apart(Block(frames[k]), Block(f))
    OBVIOUS
  <2>1. ptr + layout.size <= frames[k].ptr
    BY <1>2, <1>3, <1>5, <1>7 DEF StackFrame
  <2> QED
    BY <1>8, <2>1 DEF Memory!Apart, Block
<1>10. f.ptr % f.layout.align = 0
  BY <1>5
<1>11. Block(f) \in Lent
  BY <1>7, <1>8 DEF Lent
<1> HIDE DEF f
<1> QED
  BY <1>1, <1>9, <1>10, <1>11, LendIsLend

\* with_alloc of the heap lends a block apart from those held.
LEMMA HeapLends ==
  ASSUME Inv, NEW layout \in HeapLayouts, HeapAlloc(layout)
  PROVE  Memory!Lend
<1>1. PICK b \in Fresh(layout) : frames' = Append(frames, b)
  BY DEF HeapAlloc
<1>2. HeapInv /\ \A k \in 1..Depth : frames[k] \in held
  BY DEF Inv, HeapInv, HeapAlloc, HeapRuns
<1>3. layout.size \in Nat /\ HeapBytes \in Nat /\ StackBytes \in Nat
  BY LayoutFacts, SizesAssumption
<1>4. /\ b \in [ptr : 1..(HeapBytes - layout.size), layout : {layout}]
      /\ b.ptr % b.layout.align = 0 /\ \A h \in held : Disjoint(b, h)
  BY DEF Fresh
<1>5. b.ptr \in Places
  BY <1>3, <1>4 DEF Places
<1>6. Block(b) \in Lent
  BY <1>4, <1>5 DEF Lent, Block
<1>7. \A k \in 1..Depth : Memory!Apart(Block(frames[k]), Block(b))
  BY <1>2, <1>4 DEF Disjoint, Memory!Apart, Block
<1> QED
  BY <1>1, <1>4, <1>6, <1>7, LendIsLend

\* A closure starts on memory of its own layout that no other one has, and
\* ends before those it was called from: Spec implements ScopedMemory.
THEOREM AllocatorsLendScopedMemory == Spec => ImplementsScopedMemory
<1>1. Init => Memory!SInit
  BY DEF Init, Memory!SInit, Depth
<1>2. Inv /\ [Next]_vars => [Memory!SNext]_lent
  <2> SUFFICES ASSUME Inv, [Next]_vars PROVE Memory!SNext \/ UNCHANGED lent
    OBVIOUS
  <2>1. Depth \in Nat
    BY FramesAreLent
  <2>2. ASSUME NEW layout \in StackLayouts, NEW locals \in Locals, StackAlloc(layout, locals)
        PROVE  Memory!SNext
    BY <2>2, StackLends DEF Memory!SNext
  <2>3. ASSUME NEW layout \in HeapLayouts, HeapAlloc(layout)
        PROVE  Memory!SNext
    BY <2>3, HeapLends DEF Memory!SNext
  <2>4. CASE StackReturn \/ HeapReturn
    <3>1. Depth - 1 \in 0..(Depth - 1) /\ frames' = SubSeq(frames, 1, Depth - 1)
      BY <2>1, <2>4 DEF StackReturn, HeapReturn, InClosure
    <3> QED
      BY <3>1, CutIsTakeBack DEF Memory!SNext
  <2>5. ASSUME NEW n \in 0..(Depth - 1), HeapUnwinds(n)
        PROVE  Memory!SNext
    BY <2>5, CutIsTakeBack DEF Memory!SNext, HeapUnwinds
  <2>6. UNCHANGED frames => UNCHANGED lent
    BY DEF lent, Depth
  <2> QED
    BY <2>2, <2>3, <2>4, <2>5, <2>6 DEF Next, vars, StackOverflows, CallsTheArgument,
       StackUnwinds, HeapAllocGivesNull, Stops
<1> QED
  BY <1>1, <1>2, Invariance, PTL DEF Spec, ImplementsScopedMemory, Memory!SSpec, lent

=============================================================================
