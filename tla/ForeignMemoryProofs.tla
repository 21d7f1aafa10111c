------------------------ MODULE ForeignMemoryProofs ------------------------
(***************************************************************************)
(* Proofs about ForeignMemory, for every number of runtimes, cells, bit      *)
(* patterns, frames, references and values, and for builds with and without  *)
(* separate lifetimes.                                                      *)
(***************************************************************************)
EXTENDS ForeignMemory, FrameLemmas, TLAPS

-----------------------------------------------------------------------------
(***************************************************************************)
(* The inductive invariant.                                                 *)
(***************************************************************************)
\* The host's frame is the lowest; exactly callbacks lie on foreign frames,
\* those of their own runtime; no memory is allocated twice.
FramesFit ==
  /\ frames[1].kind = "host"
  /\ \A k \in 2..Depth :
       /\ frames[k].kind # "host" /\ frames[k].rt \in Runtimes
       /\ frames[k].kind = "callback" <=> frames[k - 1].kind = "foreign"
       /\ frames[k].kind = "callback" => frames[k].rt = frames[k - 1].rt
  /\ \A j, k \in 1..Depth :
       j # k => frames[j].cells \intersect frames[k].cells = {}

\* The memory of x belongs to a frame that is left no earlier than x's scope.
Held(x, mutable) ==
  \E k \in 1..Depth :
    /\ k <= x.scope
    /\ frames[k].kind = "alloc" /\ frames[k].rt = x.rt
    /\ x.cells \subseteq frames[k].cells
    /\ mutable => frames[k].mutable

\* What is bound to the active lifetime of an AllocScope is bound to the one of
\* its runtime that is not borrowed.
BoundToScope(x) == x.active => x.scope = ScopeOf(x.rt)

RefsHold ==
  \A x \in refs : x.scope <= Depth /\ Held(x, x.mutable) /\ BoundToScope(x)

\* A value borrows the one AccessScope of its runtime that is usable.
ValsHold ==
  \A v \in vals :
    /\ v.scope <= Depth /\ Held(v, FALSE) /\ BoundToScope(v)
    /\ v.borrows = <<v.rt, AccessOf(v.rt)>>

Inv ==
  /\ TypeOK /\ FramesFit /\ RefsHold /\ ValsHold
  /\ ImmutableStaysConstant /\ ValidatedStaysValid
  /\ NoValsWhileForeignRuns /\ NoUpgradesAcrossCalls

-----------------------------------------------------------------------------
(***************************************************************************)
(* Frames and scopes.                                                       *)
(***************************************************************************)
\* The stack is not empty, and its frames are typed.
LEMMA FrameFacts ==
  ASSUME TypeOK
  PROVE  /\ Depth \in Nat \ {0} /\ Depth <= MaxDepth /\ MaxDepth \in Nat
         /\ \A k \in 1..Depth : frames[k] \in FrameType
         /\ Top \in FrameType /\ Top = frames[Depth]
<1>1. MaxDepth \in Nat
  BY BoundsAssumption
<1>2. Depth \in Nat /\ Depth <= MaxDepth /\ Depth # 0
  BY <1>1 DEF TypeOK, Scopes
<1>3. \A k \in 1..Depth : frames[k] \in FrameType
  BY ElementOfSeq DEF TypeOK, Depth
<1> QED
  BY <1>1, <1>2, <1>3 DEF Top

\* The scope that is usable is the one issued last.
LEMMA ScopeFacts ==
  ASSUME TypeOK, NEW r
  PROVE  /\ ScopeOf(r) \in 1..Depth /\ AccessOf(r) \in 1..Depth
         /\ ScopeOf(r) = 1 \/ (frames[ScopeOf(r)].rt = r /\ frames[ScopeOf(r)].kind \in ScopeKinds)
         /\ AccessOf(r) = 1 \/ (frames[AccessOf(r)].rt = r /\ frames[AccessOf(r)].kind = "callback")
         /\ \A k \in 1..Depth :
              /\ frames[k].rt = r /\ frames[k].kind \in ScopeKinds => k <= ScopeOf(r)
              /\ frames[k].rt = r /\ frames[k].kind = "callback" => k <= AccessOf(r)
<1> DEFINE S == {1} \union {k \in 1..Depth : frames[k].rt = r /\ frames[k].kind \in ScopeKinds}
           A == {1} \union {k \in 1..Depth : frames[k].rt = r /\ frames[k].kind = "callback"}
<1>1. Depth \in Nat /\ S \in SUBSET (1..Depth) /\ A \in SUBSET (1..Depth) /\ S # {} /\ A # {}
  BY FrameFacts
<1>2. ScopeOf(r) = Max(S) /\ AccessOf(r) = Max(A)
  BY DEF ScopeOf, AccessOf
<1> HIDE DEF S, A
<1>3. /\ Max(S) \in S /\ \A j \in S : j <= Max(S)
      /\ Max(A) \in A /\ \A j \in A : j <= Max(A)
  BY <1>1, MaxOfFrames
<1> QED
  BY <1>1, <1>2, <1>3 DEF S, A

\* What a push does to the frames.
LEMMA PushFacts ==
  ASSUME TypeOK, NEW f \in FrameType, Push(f), Depth < MaxDepth
  PROVE  /\ frames' \in Seq(FrameType) /\ Depth' \in Scopes
         /\ Depth' = Depth + 1 /\ Top' = f /\ frames'[Depth + 1] = f
         /\ \A k \in 1..Depth : frames'[k] = frames[k]
<1>1. /\ frames' \in Seq(FrameType) /\ Depth' = Depth + 1
      /\ frames'[Depth + 1] = f /\ \A k \in 1..Depth : frames'[k] = frames[k]
  BY AppendProperties DEF TypeOK, Push, Depth
<1> QED
  BY <1>1, FrameFacts DEF Top, Scopes

\* What a pop does to the frames.
LEMMA PopFacts ==
  ASSUME TypeOK, Depth # 1, frames' = SubSeq(frames, 1, Depth - 1)
  PROVE  /\ frames' \in Seq(FrameType) /\ Depth' \in Scopes
         /\ Depth' = Depth - 1 /\ Top' = frames[Depth - 1]
         /\ \A k \in 1..(Depth - 1) : frames'[k] = frames[k]
<1>1. Depth - 1 \in 0..Len(frames)
  BY FrameFacts DEF Depth
<1>2. /\ frames' \in Seq(FrameType) /\ Depth' = Depth - 1
      /\ \A k \in 1..(Depth - 1) : frames'[k] = frames[k]
  BY <1>1, CutTo DEF TypeOK, Depth
<1> QED
  BY <1>2, FrameFacts DEF Top, Scopes

\* A pushed frame takes the scopes of its runtime over; other scopes stay.
LEMMA PushScopes ==
  ASSUME TypeOK, NEW f \in FrameType, Push(f), Depth < MaxDepth, NEW r
  PROVE  /\ f.rt = r /\ f.kind \in ScopeKinds => ScopeOf(r)' = Depth'
         /\ ~(f.rt = r /\ f.kind \in ScopeKinds) => ScopeOf(r)' = ScopeOf(r)
         /\ f.rt = r /\ f.kind = "callback" => AccessOf(r)' = Depth'
         /\ ~(f.rt = r /\ f.kind = "callback") => AccessOf(r)' = AccessOf(r)
<1> DEFINE S == {1} \union {k \in 1..Depth : frames[k].rt = r /\ frames[k].kind \in ScopeKinds}
           A == {1} \union {k \in 1..Depth : frames[k].rt = r /\ frames[k].kind = "callback"}
           T == {1} \union {k \in 1..(Depth + 1) : frames'[k].rt = r /\ frames'[k].kind \in ScopeKinds}
           B == {1} \union {k \in 1..(Depth + 1) : frames'[k].rt = r /\ frames'[k].kind = "callback"}
<1>1. /\ Depth \in Nat /\ Depth + 1 \in Nat /\ Depth' = Depth + 1
      /\ frames'[Depth + 1] = f /\ \A k \in 1..Depth : frames'[k] = frames[k]
  BY PushFacts, FrameFacts
<1>2. /\ ScopeOf(r) = Max(S) /\ AccessOf(r) = Max(A)
      /\ ScopeOf(r)' = Max(T) /\ AccessOf(r)' = Max(B)
  BY <1>1 DEF ScopeOf, AccessOf
<1>3. /\ T \in SUBSET (1..(Depth + 1)) /\ B \in SUBSET (1..(Depth + 1))
      /\ \A j \in T \union B : j <= Depth + 1
  BY <1>1
<1>4. ~(f.rt = r /\ f.kind \in ScopeKinds) => S = T
  BY <1>1
<1>5. ~(f.rt = r /\ f.kind = "callback") => A = B
  BY <1>1
<1>6. f.rt = r /\ f.kind \in ScopeKinds => Depth + 1 \in T
  BY <1>1
<1>7. f.rt = r /\ f.kind = "callback" => Depth + 1 \in B
  BY <1>1
<1> HIDE DEF S, A, T, B
<1>8. f.rt = r /\ f.kind \in ScopeKinds => Max(T) = Depth + 1
  BY <1>1, <1>3, <1>6, MaxIs
<1>9. f.rt = r /\ f.kind = "callback" => Max(B) = Depth + 1
  BY <1>1, <1>3, <1>7, MaxIs
<1> QED
  BY <1>1, <1>2, <1>4, <1>5, <1>8, <1>9

\* A pop gives back the scopes that lie below.
LEMMA PopScopes ==
  ASSUME TypeOK, Depth # 1, frames' = SubSeq(frames, 1, Depth - 1), NEW r
  PROVE  /\ ScopeOf(r) < Depth => ScopeOf(r)' = ScopeOf(r)
         /\ AccessOf(r) < Depth => AccessOf(r)' = AccessOf(r)
<1> DEFINE T == {1} \union {k \in 1..(Depth - 1) : frames'[k].rt = r /\ frames'[k].kind \in ScopeKinds}
           B == {1} \union {k \in 1..(Depth - 1) : frames'[k].rt = r /\ frames'[k].kind = "callback"}
<1>1. /\ Depth \in Nat /\ Depth - 1 \in Nat /\ Depth > 1 /\ Depth' = Depth - 1
      /\ \A k \in 1..(Depth - 1) : frames'[k] = frames[k]
  BY PopFacts, FrameFacts
<1>2. ScopeOf(r)' = Max(T) /\ AccessOf(r)' = Max(B)
  BY <1>1 DEF ScopeOf, AccessOf
<1>3. T \in SUBSET (1..(Depth - 1)) /\ B \in SUBSET (1..(Depth - 1))
  BY <1>1
<1>4. ScopeOf(r) < Depth => ScopeOf(r) \in T /\ \A j \in T : j <= ScopeOf(r)
  BY <1>1, ScopeFacts
<1>5. AccessOf(r) < Depth => AccessOf(r) \in B /\ \A j \in B : j <= AccessOf(r)
  BY <1>1, ScopeFacts
<1> HIDE DEF T, B
<1> QED
  BY <1>1, <1>2, <1>3, <1>4, <1>5, MaxIs

-----------------------------------------------------------------------------
(***************************************************************************)
(* Every step leaves the frames alone, pushes one or pops one.               *)
(***************************************************************************)
GoodRef(x) == x \in RefType /\ x.scope <= Depth /\ Held(x, x.mutable) /\ BoundToScope(x)

GoodVal(v) ==
  /\ IsVal(v) /\ v.scope <= Depth /\ Held(v, FALSE) /\ BoundToScope(v)
  /\ v.borrows = <<v.rt, AccessOf(v.rt)>>

\* What the code does between pushes and pops: it may write to mutable memory
\* under no value that stays alive, and make references and values that fit.
LEMMA SameFrames ==
  ASSUME Inv, UNCHANGED <<frames, separate>>,
         mem' \in [Cells -> Values \union {Uninit}],
         status' \in {"running", "panicked", "undefined_behaviour"},
         \A k \in 1..Depth : frames[k].kind = "alloc" /\ ~frames[k].mutable
           => \A c \in frames[k].cells : mem'[c] = mem[c],
         \A x \in refs' : x \in refs \/ GoodRef(x),
         \A v \in vals' :
           \/ v \in vals /\ \A c \in v.cells : mem'[c] = mem[c]
           \/ GoodVal(v) /\ \A c \in v.cells : mem'[c] = v.seen[c] /\ mem'[c] \in Valid,
         Top.kind = "foreign" => refs' \subseteq refs /\ vals' \subseteq vals
  PROVE  Inv'
<1>1. /\ Depth' = Depth /\ Top' = Top
      /\ \A r : ScopeOf(r)' = ScopeOf(r) /\ AccessOf(r)' = AccessOf(r)
      /\ \A x, m : Held(x, m)' <=> Held(x, m)
      /\ \A x : BoundToScope(x)' <=> BoundToScope(x)
  BY DEF Depth, Top, ScopeOf, AccessOf, Held, BoundToScope
<1>2. \A x \in refs' : GoodRef(x)
  BY DEF Inv, TypeOK, RefsHold, GoodRef
<1>3. \A v \in vals' : GoodVal(v)
  BY DEF Inv, TypeOK, ValsHold, GoodVal
<1>4. TypeOK'
  BY <1>1, <1>2, <1>3 DEF Inv, TypeOK, GoodRef, GoodVal
<1>5. FramesFit'
  BY <1>1 DEF Inv, FramesFit
<1>6. RefsHold'
  BY <1>1, <1>2 DEF RefsHold, GoodRef
<1>7. ValsHold'
  BY <1>1, <1>3 DEF ValsHold, GoodVal
<1>8. ImmutableStaysConstant'
  BY <1>1 DEF Inv, ImmutableStaysConstant
<1>9. ValidatedStaysValid'
  BY <1>3 DEF Inv, ValidatedStaysValid, GoodVal
<1>10. NoValsWhileForeignRuns'
  BY <1>1 DEF Inv, NoValsWhileForeignRuns
<1>11. NoUpgradesAcrossCalls'
  BY <1>1 DEF Inv, NoUpgradesAcrossCalls
<1> QED
  BY <1>4, <1>5, <1>6, <1>7, <1>8, <1>9, <1>10, <1>11 DEF Inv

\* A frame that fits on the stack.
Fits(f) ==
  /\ f \in FrameType /\ f.kind # "host" /\ f.rt \in Runtimes
  /\ f.kind = "callback" <=> Top.kind = "foreign"
  /\ f.kind = "callback" => f.rt = Top.rt
  /\ \A k \in 1..Depth : f.cells \intersect frames[k].cells = {}

\* What survives the push of a frame that takes the AllocScope of its runtime.
Survives(x, f) ==
  x.active => ~(x.rt = f.rt /\ f.kind \in ScopeKinds \union {"foreign"})

\* What a new frame does: it may hold new memory, with one reference to it.
LEMMA PushStep ==
  ASSUME Inv, NEW f, Fits(f), Push(f), Depth < MaxDepth, UNCHANGED <<separate, status>>,
         mem' \in [Cells -> Values \union {Uninit}],
         \A c \in Cells : c \notin f.cells => mem'[c] = mem[c],
         f.kind = "alloc" /\ ~f.mutable => \A c \in f.cells : mem'[c] = f.orig,
         \A x \in refs' :
           \/ x \in refs /\ Survives(x, f)
           \/ f.kind = "alloc" /\ x = Ref(f.rt, f.cells, f.mutable, Depth + 1, FALSE),
         vals' \subseteq vals, \A v \in vals' : Survives(v, f),
         f.kind \in {"foreign", "callback"} => \A v \in vals' : v.rt # f.rt
  PROVE  Inv'
<1>1. /\ Depth' = Depth + 1 /\ Top' = f /\ frames'[Depth + 1] = f
      /\ frames' \in Seq(FrameType) /\ Depth' \in Scopes
      /\ \A k \in 1..Depth : frames'[k] = frames[k]
  BY PushFacts DEF Inv, Fits
<1>2. Depth \in Nat \ {0} /\ Depth + 1 \in Scopes /\ Top = frames[Depth]
      /\ \A k \in 1..Depth : frames[k] \in FrameType
  BY <1>1, FrameFacts DEF Inv
<1>3. \A x : /\ x.rt = f.rt /\ f.kind \in ScopeKinds => ScopeOf(x.rt)' = Depth + 1
             /\ ~(x.rt = f.rt /\ f.kind \in ScopeKinds) => ScopeOf(x.rt)' = ScopeOf(x.rt)
             /\ ~(x.rt = f.rt /\ f.kind = "callback") => AccessOf(x.rt)' = AccessOf(x.rt)
  <2>1. SUFFICES ASSUME NEW x
                 PROVE  /\ x.rt = f.rt /\ f.kind \in ScopeKinds => ScopeOf(x.rt)' = Depth + 1
                        /\ ~(x.rt = f.rt /\ f.kind \in ScopeKinds) => ScopeOf(x.rt)' = ScopeOf(x.rt)
                        /\ ~(x.rt = f.rt /\ f.kind = "callback") => AccessOf(x.rt)' = AccessOf(x.rt)
    OBVIOUS
  <2> DEFINE r == x.rt
  <2>2. /\ f.rt = r /\ f.kind \in ScopeKinds => ScopeOf(r)' = Depth'
        /\ ~(f.rt = r /\ f.kind \in ScopeKinds) => ScopeOf(r)' = ScopeOf(r)
        /\ ~(f.rt = r /\ f.kind = "callback") => AccessOf(r)' = AccessOf(r)
    <3> HIDE DEF r
    <3> QED
      BY PushScopes DEF Inv, Fits
  <2> QED
    BY <1>1, <2>2
<1>4. \A x, m : Held(x, m) => Held(x, m)'
  BY <1>1, <1>2 DEF Held
<1>5. ASSUME NEW x \in refs'
      PROVE  x \in RefType /\ x.scope <= Depth + 1 /\ Held(x, x.mutable)' /\ BoundToScope(x)'
  <2>1. CASE x \in refs /\ Survives(x, f)
    <3>1. x \in RefType /\ x.scope <= Depth /\ Held(x, x.mutable) /\ BoundToScope(x)
      BY <2>1 DEF Inv, TypeOK, RefsHold
    <3>2. BoundToScope(x)'
      BY <1>3, <2>1, <3>1 DEF BoundToScope, Survives
    <3> QED
      BY <1>2, <1>4, <3>1, <3>2 DEF RefType, Scopes
  <2>2. CASE f.kind = "alloc" /\ x = Ref(f.rt, f.cells, f.mutable, Depth + 1, FALSE)
    <3>1. x \in RefType /\ x.scope = Depth + 1 /\ ~x.active
          /\ x.rt = f.rt /\ x.cells = f.cells /\ x.mutable = f.mutable
      BY <1>2, <2>2 DEF Ref, RefType, Fits, FrameType
    <3>2. Depth + 1 \in 1..Depth' /\ frames'[Depth + 1] = f
      BY <1>1, <1>2
    <3>3. Held(x, x.mutable)'
      <4>1. SUFFICES \E k \in 1..Depth' :
                       /\ k <= x.scope
                       /\ frames'[k].kind = "alloc" /\ frames'[k].rt = x.rt
                       /\ x.cells \subseteq frames'[k].cells
                       /\ x.mutable => frames'[k].mutable
        BY DEF Held
      <4>2. Depth + 1 <= x.scope
        BY <1>2, <3>1
      <4>3. /\ frames'[Depth + 1].kind = "alloc" /\ frames'[Depth + 1].rt = x.rt
            /\ x.cells \subseteq frames'[Depth + 1].cells
        BY <2>2, <3>1, <3>2
      <4>4. x.mutable => frames'[Depth + 1].mutable
        BY <3>1, <3>2, Zenon
      <4> QED
        BY <3>2, <4>2, <4>3, <4>4, Zenon
    <3>4. BoundToScope(x)'
      BY <3>1 DEF BoundToScope
    <3> QED
      BY <1>2, <3>1, <3>3, <3>4
  <2> QED
    BY <2>1, <2>2
<1>6. ASSUME NEW v \in vals'
      PROVE  /\ IsVal(v) /\ v.scope <= Depth + 1 /\ Held(v, FALSE)' /\ BoundToScope(v)'
             /\ v.borrows = <<v.rt, AccessOf(v.rt)'>>
             /\ \A c \in v.cells : c \in Cells /\ c \notin f.cells
  <2>1. IsVal(v) /\ v.scope <= Depth /\ Held(v, FALSE) /\ BoundToScope(v)
        /\ v.borrows = <<v.rt, AccessOf(v.rt)>>
    BY DEF Inv, TypeOK, ValsHold
  <2>2. BoundToScope(v)'
    BY <1>3, <2>1 DEF BoundToScope, Survives
  <2>3. AccessOf(v.rt)' = AccessOf(v.rt)
    BY <1>3
  <2>4. \A c \in v.cells : c \in Cells /\ c \notin f.cells
    BY <2>1 DEF IsVal, Held, Fits
  <2>5. v.scope <= Depth + 1
    <3>1. v.scope \in Nat
      BY <2>1 DEF IsVal, Scopes
    <3> QED
      BY <1>2, <2>1, <3>1
  <2>6. Held(v, FALSE)'
    BY <1>4, <2>1
  <2>7. v.borrows = <<v.rt, AccessOf(v.rt)'>>
    BY <2>1, <2>3, Zenon
  <2> QED
    BY <2>1, <2>2, <2>4, <2>5, <2>6, <2>7, Zenon
<1>7. TypeOK'
  BY <1>1, <1>5, <1>6 DEF Inv, TypeOK
<1>8. FramesFit'
  <2>1. frames'[1].kind = "host"
    BY <1>1, <1>2 DEF Inv, FramesFit
  <2>2. ASSUME NEW k \in 2..(Depth + 1)
        PROVE  /\ frames'[k].kind # "host" /\ frames'[k].rt \in Runtimes
               /\ frames'[k].kind = "callback" <=> frames'[k - 1].kind = "foreign"
               /\ frames'[k].kind = "callback" => frames'[k].rt = frames'[k - 1].rt
    <3>1. k - 1 \in 1..Depth /\ (k = Depth + 1 \/ k \in 2..Depth)
      BY <1>2
    <3>2. CASE k = Depth + 1
      BY <1>1, <1>2, <3>1, <3>2 DEF Fits
    <3>3. CASE k \in 2..Depth
      <4>1. k \in 1..Depth /\ k - 1 \in 1..Depth
        BY <3>1, <3>3
      <4>2. frames'[k] = frames[k] /\ frames'[k - 1] = frames[k - 1]
        BY <1>1, <4>1, Zenon
      <4>3. /\ frames[k].kind # "host" /\ frames[k].rt \in Runtimes
            /\ frames[k].kind = "callback" <=> frames[k - 1].kind = "foreign"
            /\ frames[k].kind = "callback" => frames[k].rt = frames[k - 1].rt
        BY <3>3, Zenon DEF Inv, FramesFit
      <4> QED
        BY <4>2, <4>3
    <3> QED
      BY <3>1, <3>2, <3>3
  <2>3. ASSUME NEW j \in 1..(Depth + 1), NEW k \in 1..(Depth + 1), j # k
        PROVE  frames'[j].cells \intersect frames'[k].cells = {}
    <3>1. CASE j = Depth + 1
      BY <1>1, <1>2, <2>3, <3>1 DEF Fits
    <3>2. CASE k = Depth + 1
      BY <1>1, <1>2, <2>3, <3>2 DEF Fits
    <3>3. CASE j \in 1..Depth /\ k \in 1..Depth
      BY <1>1, <2>3, <3>3 DEF Inv, FramesFit
    <3> QED
      BY <1>2, <3>1, <3>2, <3>3
  <2> QED
    BY <1>1, <2>1, <2>2, <2>3 DEF FramesFit
<1>9. RefsHold'
  BY <1>1, <1>5 DEF RefsHold
<1>10. ValsHold'
  BY <1>1, <1>6 DEF ValsHold
<1>11. ImmutableStaysConstant'
  <2>1. SUFFICES ASSUME NEW k \in 1..(Depth + 1), frames'[k].kind = "alloc", ~frames'[k].mutable,
                        NEW c \in frames'[k].cells
                 PROVE  mem'[c] = frames'[k].orig
    BY <1>1 DEF ImmutableStaysConstant
  <2>2. CASE k = Depth + 1
    BY <1>1, <2>1, <2>2
  <2>3. CASE k \in 1..Depth
    <3>1. frames[k].cells \subseteq Cells /\ c \in frames[k].cells /\ c \notin f.cells
      BY <1>1, <1>2, <2>1, <2>3 DEF FrameType, Fits
    <3> QED
      BY <1>1, <2>1, <2>3, <3>1 DEF Inv, ImmutableStaysConstant
  <2> QED
    BY <1>2, <2>2, <2>3
<1>12. ValidatedStaysValid'
  BY <1>6 DEF Inv, ValidatedStaysValid
<1>13. NoValsWhileForeignRuns'
  BY <1>1 DEF NoValsWhileForeignRuns
<1>14. NoUpgradesAcrossCalls'
  BY <1>1 DEF NoUpgradesAcrossCalls, Survives, Ref
<1> QED
  BY <1>7, <1>8, <1>9, <1>10, <1>11, <1>12, <1>13, <1>14 DEF Inv

\* What the end of a frame does: what was bound to it ends.
LEMMA PopStep ==
  ASSUME Inv, Top.kind # "host", Pop, UNCHANGED <<mem, status, separate>>
  PROVE  Inv'
<1>1. Depth # 1 /\ Depth \in Nat \ {0} /\ Top = frames[Depth]
      /\ \A k \in 1..Depth : frames[k] \in FrameType
  BY FrameFacts DEF Inv, FramesFit
<1>2. /\ Depth' = Depth - 1 /\ Top' = frames[Depth - 1]
      /\ frames' \in Seq(FrameType) /\ Depth' \in Scopes
      /\ \A k \in 1..(Depth - 1) : frames'[k] = frames[k]
  BY <1>1, PopFacts DEF Inv, Pop
<1>3. /\ refs' \subseteq refs /\ vals' \subseteq vals
      /\ \A x \in refs' : x.scope < Depth
      /\ \A v \in vals' : v.scope < Depth /\ v.borrows[2] < Depth
  BY DEF Pop, Outliving
<1>4. \A x : /\ ScopeOf(x.rt) < Depth => ScopeOf(x.rt)' = ScopeOf(x.rt)
             /\ AccessOf(x.rt) < Depth => AccessOf(x.rt)' = AccessOf(x.rt)
  <2>1. SUFFICES ASSUME NEW x
                 PROVE  /\ ScopeOf(x.rt) < Depth => ScopeOf(x.rt)' = ScopeOf(x.rt)
                        /\ AccessOf(x.rt) < Depth => AccessOf(x.rt)' = AccessOf(x.rt)
    OBVIOUS
  <2> DEFINE r == x.rt
  <2>2. /\ ScopeOf(r) < Depth => ScopeOf(r)' = ScopeOf(r)
        /\ AccessOf(r) < Depth => AccessOf(r)' = AccessOf(r)
    <3> HIDE DEF r
    <3> QED
      BY <1>1, PopScopes DEF Inv, Pop
  <2> QED
    BY <2>2
<1>5. \A x, m : x.scope \in Nat /\ x.scope < Depth /\ Held(x, m) => Held(x, m)'
  BY <1>1, <1>2 DEF Held
<1>6. ASSUME NEW x \in refs'
      PROVE  x \in RefType /\ x.scope <= Depth - 1 /\ Held(x, x.mutable)' /\ BoundToScope(x)'
  <2>1. x \in RefType /\ x.scope \in Nat /\ Held(x, x.mutable) /\ BoundToScope(x)
    BY <1>3 DEF Inv, TypeOK, RefsHold, RefType, Scopes
  <2>2. BoundToScope(x)'
    BY <1>3, <1>4, <2>1 DEF BoundToScope
  <2> QED
    BY <1>1, <1>3, <1>5, <2>1, <2>2
<1>7. ASSUME NEW v \in vals'
      PROVE  /\ IsVal(v) /\ v.scope <= Depth - 1 /\ Held(v, FALSE)' /\ BoundToScope(v)'
             /\ v.borrows = <<v.rt, AccessOf(v.rt)'>>
  <2>1. IsVal(v) /\ Held(v, FALSE) /\ BoundToScope(v)
        /\ v.borrows = <<v.rt, AccessOf(v.rt)>>
    BY <1>3 DEF Inv, TypeOK, ValsHold
  <2>0. v.scope \in Nat
    BY <2>1 DEF IsVal, Scopes
  <2>2. BoundToScope(v)'
    BY <1>3, <1>4, <2>1 DEF BoundToScope
  <2>3. v.borrows[2] = AccessOf(v.rt)
    BY <2>1
  <2>4. AccessOf(v.rt)' = AccessOf(v.rt)
    BY <1>3, <1>4, <2>3
  <2>5. v.scope <= Depth - 1
    BY <1>1, <1>3, <2>0
  <2>6. Held(v, FALSE)'
    BY <1>3, <1>5, <2>0, <2>1
  <2>7. v.borrows = <<v.rt, AccessOf(v.rt)'>>
    BY <2>1, <2>4, Zenon
  <2> QED
    BY <2>1, <2>2, <2>5, <2>6, <2>7, Zenon
<1>8. TypeOK'
  BY <1>2, <1>6, <1>7 DEF Inv, TypeOK
<1>9. FramesFit'
  <2>0. FramesFit
    BY DEF Inv
  <2>1. frames'[1].kind = "host"
    BY <1>1, <1>2, <2>0 DEF FramesFit
  <2>2. ASSUME NEW k \in 2..(Depth - 1)
        PROVE  /\ frames'[k].kind # "host" /\ frames'[k].rt \in Runtimes
               /\ frames'[k].kind = "callback" <=> frames'[k - 1].kind = "foreign"
               /\ frames'[k].kind = "callback" => frames'[k].rt = frames'[k - 1].rt
    <3>1. k \in 2..Depth /\ k \in 1..(Depth - 1) /\ k - 1 \in 1..(Depth - 1)
      BY <1>1
    <3>2. frames'[k] = frames[k] /\ frames'[k - 1] = frames[k - 1]
      BY <1>2, <3>1
    <3>3. /\ frames[k].kind # "host" /\ frames[k].rt \in Runtimes
          /\ frames[k].kind = "callback" <=> frames[k - 1].kind = "foreign"
          /\ frames[k].kind = "callback" => frames[k].rt = frames[k - 1].rt
      BY <2>0, <3>1, Zenon DEF FramesFit
    <3> QED
      BY <3>2, <3>3
  <2>3. ASSUME NEW j \in 1..(Depth - 1), NEW k \in 1..(Depth - 1), j # k
        PROVE  frames'[j].cells \intersect frames'[k].cells = {}
    <3>1. j \in 1..Depth /\ k \in 1..Depth
      BY <1>1
    <3>2. frames[j].cells \intersect frames[k].cells = {}
      BY <2>0, <2>3, <3>1, Zenon DEF FramesFit
    <3> QED
      BY <1>2, <3>2, Zenon
  <2> QED
    BY <1>2, <2>1, <2>2, <2>3, Zenon DEF FramesFit
<1>10. RefsHold'
  BY <1>2, <1>6 DEF RefsHold
<1>11. ValsHold'
  BY <1>2, <1>7 DEF ValsHold
<1>12. ImmutableStaysConstant'
  BY <1>1, <1>2 DEF Inv, ImmutableStaysConstant
<1>13. ValidatedStaysValid'
  BY <1>3 DEF Inv, ValidatedStaysValid
<1>14. ASSUME Top'.kind = "foreign"
       PROVE  /\ \A v \in vals' : v.rt # Top'.rt
              /\ \A x \in refs' \union vals' : x.rt = Top'.rt => ~x.active
  <2>1. Top.kind = "callback" /\ Top.rt = Top'.rt /\ Top.rt \in Runtimes
    BY <1>1, <1>2, <1>14 DEF Inv, FramesFit
  <2> DEFINE r == Top.rt
  <2>2. AccessOf(r) = Depth /\ ScopeOf(r) = Depth
    <3>1. /\ \A k \in 1..Depth : frames[k].rt = r /\ frames[k].kind \in ScopeKinds => k <= ScopeOf(r)
          /\ \A k \in 1..Depth : frames[k].rt = r /\ frames[k].kind = "callback" => k <= AccessOf(r)
          /\ ScopeOf(r) \in 1..Depth /\ AccessOf(r) \in 1..Depth
      <4> HIDE DEF r
      <4> QED
        BY ScopeFacts DEF Inv
    <3> QED
      BY <1>1, <2>1, <3>1 DEF ScopeKinds
  <2>3. ASSUME NEW v \in vals', v.rt = Top'.rt PROVE FALSE
    <3>1. v.borrows = <<v.rt, AccessOf(v.rt)>> /\ v.borrows[2] < Depth
      BY <1>3 DEF Inv, ValsHold
    <3> QED
      BY <1>1, <2>1, <2>2, <2>3, <3>1
  <2>4. ASSUME NEW x \in refs', x.rt = Top'.rt, x.active PROVE FALSE
    <3>1. x.scope = ScopeOf(x.rt) /\ x.scope < Depth
      BY <1>3, <2>4 DEF Inv, RefsHold, BoundToScope
    <3> QED
      BY <1>1, <2>1, <2>2, <2>4, <3>1
  <2> QED
    BY <2>3, <2>4
<1>15. NoValsWhileForeignRuns'
  BY <1>14 DEF NoValsWhileForeignRuns
<1>16. NoUpgradesAcrossCalls'
  BY <1>14 DEF NoUpgradesAcrossCalls
<1> QED
  BY <1>8, <1>9, <1>10, <1>11, <1>12, <1>13, <1>15, <1>16 DEF Inv

-----------------------------------------------------------------------------
(***************************************************************************)
(* The frames' operations.                                                  *)
(***************************************************************************)
\* What taking the AllocScope of r leaves alive is not bound to its active
\* lifetime.
LEMMA IdleSurvives ==
  ASSUME Inv, NEW r, NEW x \in refs \union vals, ~Active(x, r), x.active
  PROVE  x.rt # r
<1>1. x.scope = ScopeOf(x.rt)
  BY DEF Inv, RefsHold, ValsHold, BoundToScope
<1> QED
  BY <1>1 DEF Active

\* What taking the AccessScope of r leaves alive is of another runtime.
LEMMA BorrowingEnds ==
  ASSUME Inv, NEW r, NEW v \in ValsAfterBorrowing(r)
  PROVE  v \in vals /\ v.rt # r
<1>1. v \in vals /\ v.borrows # <<r, AccessOf(r)>> /\ v.borrows = <<v.rt, AccessOf(v.rt)>>
  BY DEF ValsAfterBorrowing, Inv, ValsHold
<1> QED
  BY <1>1

\* A frame that is pushed without memory fits.
LEMMA PlainFrame ==
  ASSUME Inv, NEW kind \in {"setup", "foreign", "callback"}, NEW r \in Runtimes,
         kind = "callback" <=> Top.kind = "foreign",
         kind = "callback" => r = Top.rt
  PROVE  /\ Fits(Frame(kind, r))
         /\ Frame(kind, r).kind = kind /\ Frame(kind, r).rt = r
         /\ Frame(kind, r).cells = {} /\ Frame(kind, r).kind # "alloc"
  BY DEF Fits, Frame, FrameType

\* Allocating, with and without a value written, keeps the invariant.
LEMMA AllocationStep ==
  ASSUME Inv, HostRunning, NEW r \in Runtimes, NEW cells \in FreeRanges,
         NEW mutable \in BOOLEAN, NEW contents \in Valid \union {Uninit},
         NEW keep, keep \subseteq vals, EnterAllocation(r, cells, mutable, contents, keep)
  PROVE  Inv'
<1> DEFINE f == [Frame("alloc", r) EXCEPT
                   !.cells = cells, !.mutable = mutable,
                   !.orig = IF mutable THEN Uninit ELSE contents]
<1>1. cells \subseteq Cells /\ \A k \in 1..Depth : cells \intersect frames[k].cells = {}
  BY DEF FreeRanges, Ranges
<1>2. /\ f.kind = "alloc" /\ f.rt = r /\ f.cells = cells /\ f.mutable = mutable
      /\ (~mutable => f.orig = contents)
  BY DEF Frame
<1>3. f \in FrameType
  BY <1>1 DEF Frame, FrameType
<1>4. /\ Push(f) /\ Depth < MaxDepth /\ UNCHANGED <<separate, status>>
      /\ mem' = [c \in Cells |-> IF c \in cells THEN contents ELSE mem[c]]
      /\ refs' = Idle(refs, r) \union {Ref(r, cells, mutable, Depth + 1, FALSE)}
      /\ vals' = Idle(keep, r)
  BY DEF EnterAllocation, HasRoom
<1> HIDE DEF f
<1>5. Fits(f)
  BY <1>1, <1>2, <1>3 DEF Fits, HostRunning
<1>6. mem' \in [Cells -> Values \union {Uninit}]
  BY <1>4, ValuesAssumption DEF Inv, TypeOK
<1>7. /\ \A c \in Cells : c \notin f.cells => mem'[c] = mem[c]
      /\ \A c \in f.cells : mem'[c] = contents
  BY <1>1, <1>2, <1>4
<1>8. \A x \in refs' :
        \/ x \in refs /\ Survives(x, f)
        \/ f.kind = "alloc" /\ x = Ref(f.rt, f.cells, f.mutable, Depth + 1, FALSE)
  <2>1. \A x \in Idle(refs, r) : x \in refs /\ Survives(x, f)
    BY <1>2, IdleSurvives DEF Idle, Survives
  <2> QED
    BY <1>2, <1>4, <2>1
<1>9. vals' \subseteq vals /\ \A v \in vals' : Survives(v, f)
  BY <1>2, <1>4, IdleSurvives DEF Idle, Survives
<1> QED
  BY <1>2, <1>4, <1>5, <1>6, <1>7, <1>8, <1>9, PushStep

\* Registering a callback keeps the invariant.
LEMMA SetupStep ==
  ASSUME Inv, NEW r \in Runtimes, SetupCallback(r)
  PROVE  Inv'
<1> DEFINE f == Frame("setup", r)
<1>1. /\ Fits(f) /\ f.kind = "setup" /\ f.rt = r /\ f.cells = {}
  BY PlainFrame DEF SetupCallback, HostRunning
<1>2. /\ Push(f) /\ Depth < MaxDepth /\ UNCHANGED <<mem, separate, status>>
      /\ refs' = Idle(refs, r) /\ vals' = Idle(vals, r)
  BY DEF SetupCallback, HasRoom
<1> HIDE DEF f
<1>3. /\ \A x \in refs' : x \in refs /\ Survives(x, f)
      /\ \A v \in vals' : v \in vals /\ Survives(v, f)
  BY <1>1, <1>2, IdleSurvives DEF Idle, Survives
<1> QED
  BY <1>1, <1>2, <1>3, PushStep DEF Inv, TypeOK

\* Calling foreign code keeps the invariant: it ends the values of its runtime.
LEMMA ExecuteStep ==
  ASSUME Inv, NEW r \in Runtimes, Execute(r)
  PROVE  Inv'
<1> DEFINE f == Frame("foreign", r)
<1>1. /\ Fits(f) /\ f.kind = "foreign" /\ f.rt = r /\ f.cells = {}
  BY PlainFrame DEF Execute, HostRunning
<1>2. /\ Push(f) /\ Depth < MaxDepth /\ UNCHANGED <<mem, separate, status>>
      /\ refs' = Idle(refs, r) /\ vals' = Idle(ValsAfterBorrowing(r), r)
  BY DEF Execute, HasRoom
<1> HIDE DEF f
<1>3. \A v \in vals' : v \in vals /\ v.rt # r
  BY <1>2, BorrowingEnds DEF Idle
<1>4. \A x \in refs' : x \in refs /\ Survives(x, f)
  BY <1>1, <1>2, IdleSurvives DEF Idle, Survives
<1>5. \A v \in vals' : Survives(v, f)
  BY <1>1, <1>3 DEF Survives
<1> QED
  BY <1>1, <1>2, <1>3, <1>4, <1>5, PushStep DEF Inv, TypeOK

\* A callback keeps the invariant: its AccessScope is new, and no value borrows
\* it.
LEMMA CallbackStep ==
  ASSUME Inv, EnterCallback
  PROVE  Inv'
<1> DEFINE f == Frame("callback", Top.rt)
<1>1. Top.kind = "foreign" /\ Top.rt \in Runtimes
  <2>1. Depth \in Nat \ {0} /\ Top = frames[Depth] /\ frames[1].kind = "host"
    BY FrameFacts DEF Inv, FramesFit
  <2> QED
    BY <2>1 DEF EnterCallback, ForeignRunning, Inv, FramesFit
<1>2. /\ Fits(f) /\ f.kind = "callback" /\ f.rt = Top.rt /\ f.cells = {}
  BY <1>1, PlainFrame
<1>3. /\ Push(f) /\ Depth < MaxDepth /\ UNCHANGED <<mem, refs, vals, separate, status>>
  BY DEF EnterCallback, HasRoom
<1> HIDE DEF f
<1>4. \A v \in vals : v.rt # f.rt
  BY <1>1, <1>2 DEF Inv, NoValsWhileForeignRuns
<1>5. \A x \in refs \union vals : Survives(x, f)
  BY <1>1, <1>2 DEF Inv, NoUpgradesAcrossCalls, Survives
<1> QED
  BY <1>2, <1>3, <1>4, <1>5, PushStep DEF Inv, TypeOK

-----------------------------------------------------------------------------
(***************************************************************************)
(* The references' operations.                                              *)
(***************************************************************************)
\* A live reference is a good one, and a live value too.
LEMMA LiveFacts ==
  ASSUME Inv
  PROVE  /\ \A x \in refs : GoodRef(x)
         /\ \A v \in vals : GoodVal(v)
  BY DEF Inv, TypeOK, RefsHold, ValsHold, GoodRef, GoodVal

\* Nothing is written and nothing new is alive.
LEMMA LessAlive ==
  ASSUME Inv, UNCHANGED <<frames, mem, separate>>, refs' \subseteq refs, vals' \subseteq vals,
         status' \in {"running", "panicked", "undefined_behaviour"}
  PROVE  Inv'
  BY SameFrames DEF Inv, TypeOK

\* A good new reference keeps the invariant: no frame and no value changes.
LEMMA NewRefStep ==
  ASSUME Inv, HostRunning, NEW ref, GoodRef(ref), NewRef(ref)
  PROVE  Inv'
<1>1. Top.kind # "foreign" /\ UNCHANGED <<frames, mem, vals, status, separate>>
      /\ refs' = refs \union {ref}
  BY DEF HostRunning, NewRef
<1> QED
  BY <1>1, SameFrames DEF Inv, TypeOK

\* An upgrade is bound to the frame of its scope, which lies over the memory
\* that the tracker in that scope finds.
LEMMA UpgradeStep ==
  ASSUME Inv, HostRunning, NEW r \in Runtimes, NEW cells \in SUBSET Cells,
         NEW mutable \in BOOLEAN, NEW active \in BOOLEAN, Tracks(r, cells, mutable),
         NewRef(Ref(r, cells, mutable, ScopeOf(r), active))
  PROVE  Inv'
<1> DEFINE ref == Ref(r, cells, mutable, ScopeOf(r), active)
<1>1. /\ ref.rt = r /\ ref.cells = cells /\ ref.mutable = mutable
      /\ ref.scope = ScopeOf(r) /\ ref.active = active
  BY DEF Ref
<1>2. /\ Depth \in Nat \ {0} /\ Depth <= MaxDepth /\ MaxDepth \in Nat
      /\ ScopeOf(r) \in 1..Depth
  BY FrameFacts, ScopeFacts DEF Inv
<1>3. ref \in RefType
  BY <1>2 DEF Ref, RefType, Scopes
<1>4. PICK k \in 1..Depth :
        /\ frames[k].kind = "alloc" /\ frames[k].rt = r
        /\ cells \subseteq frames[k].cells /\ (mutable => frames[k].mutable)
  BY DEF Tracks
<1>5. k <= ScopeOf(r)
  BY <1>4, ScopeFacts DEF Inv, ScopeKinds
<1> HIDE DEF ref
<1>6. Held(ref, ref.mutable)
  BY <1>1, <1>4, <1>5 DEF Held
<1>7. GoodRef(ref)
  BY <1>1, <1>2, <1>3, <1>6 DEF GoodRef, BoundToScope
<1> QED
  BY <1>7, NewRefStep DEF ref

\* A part of a reference, or one with fewer rights, is as good.
LEMMA NarrowedRef ==
  ASSUME Inv, NEW x \in refs, NEW y \in RefType, y.rt = x.rt, y.cells \subseteq x.cells,
         y.mutable => x.mutable, y.scope = x.scope, y.active = x.active
  PROVE  GoodRef(y)
<1>1. x.scope <= Depth /\ Held(x, x.mutable) /\ BoundToScope(x)
  BY DEF Inv, RefsHold
<1>2. Held(y, y.mutable)
  BY <1>1 DEF Held
<1>3. BoundToScope(y)
  BY <1>1 DEF BoundToScope
<1> QED
  BY <1>1, <1>2, <1>3 DEF GoodRef

\* Deriving a reference to a part, or an immutable one, keeps the invariant.
LEMMA NarrowStep ==
  ASSUME Inv, NEW ref \in refs,
         \/ AsImmut(ref)
         \/ \E cells \in Ranges : SubRef(ref, cells)
         \/ \E c \in ref.cells : GetElement(ref, c)
  PROVE  Inv'
<1>1. ref \in RefType
  BY DEF Inv, TypeOK
<1>2. CASE AsImmut(ref)
  <2> DEFINE y == [ref EXCEPT !.mutable = FALSE]
  <2>1. /\ y \in RefType /\ y.rt = ref.rt /\ y.cells = ref.cells /\ y.mutable = FALSE
        /\ y.scope = ref.scope /\ y.active = ref.active
    BY <1>1 DEF RefType
  <2>2. HostRunning /\ NewRef(y)
    BY <1>2 DEF AsImmut
  <2> HIDE DEF y
  <2>3. GoodRef(y)
    BY <2>1, NarrowedRef
  <2> QED
    BY <2>2, <2>3, NewRefStep
<1>3. ASSUME NEW cells \in SUBSET ref.cells, HostRunning, NewRef([ref EXCEPT !.cells = cells])
      PROVE  Inv'
  <2> DEFINE y == [ref EXCEPT !.cells = cells]
  <2>1. /\ y \in RefType /\ y.rt = ref.rt /\ y.cells = cells /\ y.mutable = ref.mutable
        /\ y.scope = ref.scope /\ y.active = ref.active
    BY <1>1 DEF RefType
  <2> HIDE DEF y
  <2>2. GoodRef(y)
    BY <2>1, NarrowedRef
  <2> QED
    BY <1>3, <2>2, NewRefStep DEF y
<1>4. CASE \E cells \in Ranges : SubRef(ref, cells)
  BY <1>3, <1>4 DEF SubRef
<1>5. CASE \E c \in ref.cells : GetElement(ref, c)
  <2>1. PICK c \in ref.cells : GetElement(ref, c)
    BY <1>5
  <2>2. {c} \in SUBSET ref.cells
    BY <2>1
  <2> QED
    BY <1>3, <2>1, <2>2 DEF GetElement
<1> QED
  BY <1>2, <1>4, <1>5

\* Borrowing a value as a reference keeps the invariant.
LEMMA AsRefStep ==
  ASSUME Inv, NEW v \in vals, AsRef(v)
  PROVE  Inv'
<1> DEFINE ref == Ref(v.rt, v.cells, FALSE, v.scope, v.active)
<1>1. /\ ref.rt = v.rt /\ ref.cells = v.cells /\ ref.mutable = FALSE
      /\ ref.scope = v.scope /\ ref.active = v.active
  BY DEF Ref
<1>2. IsVal(v) /\ v.scope <= Depth /\ Held(v, FALSE) /\ BoundToScope(v)
  BY LiveFacts DEF GoodVal
<1>3. ref \in RefType
  BY <1>2 DEF IsVal, RefType, Ref
<1>4. HostRunning /\ NewRef(ref)
  BY DEF AsRef
<1> HIDE DEF ref
<1>5. Held(ref, ref.mutable)
  BY <1>1, <1>2 DEF Held
<1>6. BoundToScope(ref)
  BY <1>1, <1>2 DEF BoundToScope
<1>7. GoodRef(ref)
  BY <1>1, <1>2, <1>3, <1>5, <1>6 DEF GoodRef
<1> QED
  BY <1>4, <1>7, NewRefStep

-----------------------------------------------------------------------------
(***************************************************************************)
(* Reading and writing.                                                     *)
(***************************************************************************)
\* Mutable memory is disjoint from immutable memory, and from every value of
\* another runtime.
LEMMA Apart ==
  ASSUME Inv, NEW k \in 1..Depth, frames[k].kind = "alloc", frames[k].mutable
  PROVE  /\ \A j \in 1..Depth : frames[j].kind = "alloc" /\ ~frames[j].mutable
              => frames[j].cells \intersect frames[k].cells = {}
         /\ \A v \in vals : v.rt # frames[k].rt => v.cells \intersect frames[k].cells = {}
<1>1. \A i, j \in 1..Depth : i # j => frames[i].cells \intersect frames[j].cells = {}
  BY DEF Inv, FramesFit
<1>2. ASSUME NEW v \in vals, v.rt # frames[k].rt
      PROVE  v.cells \intersect frames[k].cells = {}
  <2>1. PICK j \in 1..Depth : frames[j].rt = v.rt /\ v.cells \subseteq frames[j].cells
    BY DEF Inv, ValsHold, Held
  <2> QED
    BY <1>1, <1>2, <2>1
<1> QED
  BY <1>1, <1>2

\* What is written through a mutable reference reaches no value that survives
\* the borrow of the scope, and no immutable memory.
LEMMA StoreFacts ==
  ASSUME Inv, NEW ref \in refs, NEW a, Writes(ref, a),
         NEW contents, DOMAIN contents \subseteq ref.cells,
         \A c \in DOMAIN contents : contents[c] \in Values, Store(contents)
  PROVE  /\ mem' \in [Cells -> Values \union {Uninit}]
         /\ \A k \in 1..Depth : frames[k].kind = "alloc" /\ ~frames[k].mutable
              => \A c \in frames[k].cells : mem'[c] = mem[c]
         /\ \A v \in ValsAfterBorrowing(a) : v \in vals /\ \A c \in v.cells : mem'[c] = mem[c]
         /\ \A c \in DOMAIN contents : mem'[c] = contents[c]
<1>1. /\ ref.rt = a /\ ref.mutable /\ ref.cells \subseteq Cells
      /\ mem' = [c \in Cells |-> IF c \in DOMAIN contents THEN contents[c] ELSE mem[c]]
  BY DEF Writes, Reads, AccessChecks, Store, Inv, TypeOK, RefType
<1>2. PICK k \in 1..Depth :
        /\ frames[k].kind = "alloc" /\ frames[k].rt = a
        /\ ref.cells \subseteq frames[k].cells /\ frames[k].mutable
  BY <1>1 DEF Inv, RefsHold, Held
<1>3. \A c \in Cells : c \notin frames[k].cells => mem'[c] = mem[c]
  BY <1>1, <1>2
<1>4. mem' \in [Cells -> Values \union {Uninit}]
  BY <1>1 DEF Inv, TypeOK
<1>5. \A j \in 1..Depth : frames[j].kind = "alloc" /\ ~frames[j].mutable
        => \A c \in frames[j].cells : mem'[c] = mem[c]
  <2>1. \A j \in 1..Depth : frames[j].cells \subseteq Cells
    BY FrameFacts DEF Inv, FrameType
  <2> QED
    BY <1>2, <1>3, <2>1, Apart
<1>6. ASSUME NEW v \in ValsAfterBorrowing(a)
      PROVE  v \in vals /\ \A c \in v.cells : mem'[c] = mem[c]
  <2>1. v \in vals /\ v.rt # a
    BY BorrowingEnds
  <2>2. v.cells \subseteq Cells /\ v.cells \intersect frames[k].cells = {}
    BY <1>2, <2>1, Apart DEF Inv, TypeOK, IsVal
  <2> QED
    BY <1>3, <2>1, <2>2
<1>7. \A c \in DOMAIN contents : mem'[c] = contents[c]
  BY <1>1
<1> QED
  BY <1>4, <1>5, <1>6, <1>7

\* A value made of a reference by the scope of its runtime is good.
LEMMA NewValFacts ==
  ASSUME Inv, NEW ref \in refs, NEW a \in Runtimes, AccessChecks(ref, a),
         NEW contents \in [ref.cells -> Values], NEW unique \in BOOLEAN
  PROVE  /\ GoodVal(Val(ref, a, contents, unique))
         /\ Val(ref, a, contents, unique).cells = ref.cells
         /\ Val(ref, a, contents, unique).seen = contents
<1> DEFINE v == Val(ref, a, contents, unique)
<1>1. /\ v.rt = ref.rt /\ v.cells = ref.cells /\ v.scope = ref.scope
      /\ v.active = ref.active /\ v.borrows = <<a, AccessOf(a)>>
      /\ v.unique = unique /\ v.seen = contents
  BY DEF Val
<1>2. /\ ref \in RefType /\ ref.rt = a
      /\ ref.scope <= Depth /\ Held(ref, ref.mutable) /\ BoundToScope(ref)
  BY DEF Inv, TypeOK, RefsHold, AccessChecks
<1>3. AccessOf(a) \in Scopes
  BY FrameFacts, ScopeFacts DEF Inv, Scopes
<1> HIDE DEF v
<1>4. IsVal(v)
  BY <1>1, <1>2, <1>3 DEF IsVal, RefType
<1>5. Held(v, FALSE)
  BY <1>1, <1>2 DEF Held
<1>6. BoundToScope(v)
  BY <1>1, <1>2 DEF BoundToScope
<1>7. GoodVal(v)
  BY <1>1, <1>2, <1>4, <1>5, <1>6 DEF GoodVal
<1> QED
  BY <1>1, <1>7 DEF v

\* A value that has just been validated is what memory holds.
LEMMA ValidateStep ==
  ASSUME Inv, NEW ref \in refs, NEW a \in Runtimes, Validate(ref, a)
  PROVE  Inv'
<1> DEFINE contents == Contents(ref.cells)
           v == Val(ref, a, contents, FALSE)
<1>1. ref.cells \subseteq Cells /\ \A c \in ref.cells : mem[c] \in Valid
  BY DEF Inv, TypeOK, RefType, Validate, ElementsValid
<1>2. contents \in [ref.cells -> Values] /\ \A c \in ref.cells : contents[c] = mem[c]
  BY <1>1, ValuesAssumption DEF Contents, Restrict
<1>3. AccessChecks(ref, a) /\ Top.kind # "foreign"
  BY DEF Validate, Reads, HostRunning
<1>4. /\ UNCHANGED <<frames, mem, refs, status, separate>>
      /\ vals' = ValsAfterSharing(a) \union {v}
  BY DEF Validate, NewVal
<1>5. GoodVal(v) /\ v.cells = ref.cells /\ v.seen = contents
  <2> HIDE DEF contents
  <2> QED
    BY <1>2, <1>3, NewValFacts
<1> HIDE DEF v, contents
<1>6. \A w \in vals' :
        \/ w \in vals /\ \A c \in w.cells : mem'[c] = mem[c]
        \/ GoodVal(w) /\ \A c \in w.cells : mem'[c] = w.seen[c] /\ mem'[c] \in Valid
  BY <1>1, <1>2, <1>4, <1>5 DEF ValsAfterSharing
<1> QED
  BY <1>3, <1>4, <1>6, SameFrames DEF Inv, TypeOK

\* A write ends the values of its runtime, and its own value is what it wrote.
LEMMA FillStep ==
  ASSUME Inv, NEW ref \in refs, NEW a \in Runtimes, Fill(ref, a)
  PROVE  Inv'
<1>1. PICK contents \in [ref.cells -> Valid] :
        /\ Store(contents)
        /\ vals' = ValsAfterBorrowing(a) \union {Val(ref, a, contents, TRUE)}
  BY DEF Fill, NewVal
<1>2. /\ Writes(ref, a) /\ AccessChecks(ref, a) /\ Top.kind # "foreign"
      /\ UNCHANGED <<frames, refs, status, separate>>
  BY DEF Fill, Writes, Reads, HostRunning
<1>3. /\ contents \in [ref.cells -> Values] /\ DOMAIN contents = ref.cells
      /\ \A c \in ref.cells : contents[c] \in Valid /\ contents[c] \in Values
  BY ValuesAssumption
<1>4. /\ mem' \in [Cells -> Values \union {Uninit}]
      /\ \A k \in 1..Depth : frames[k].kind = "alloc" /\ ~frames[k].mutable
           => \A c \in frames[k].cells : mem'[c] = mem[c]
      /\ \A v \in ValsAfterBorrowing(a) : v \in vals /\ \A c \in v.cells : mem'[c] = mem[c]
      /\ \A c \in ref.cells : mem'[c] = contents[c]
  BY <1>1, <1>2, <1>3, StoreFacts
<1> DEFINE v == Val(ref, a, contents, TRUE)
<1>5. GoodVal(v) /\ v.cells = ref.cells /\ v.seen = contents
  BY <1>2, <1>3, NewValFacts
<1>6. vals' = ValsAfterBorrowing(a) \union {v}
  BY <1>1
<1> HIDE DEF v
<1>7. \A w \in vals' :
        \/ w \in vals /\ \A c \in w.cells : mem'[c] = mem[c]
        \/ GoodVal(w) /\ \A c \in w.cells : mem'[c] = w.seen[c] /\ mem'[c] \in Valid
  BY <1>3, <1>4, <1>5, <1>6
<1> QED
  BY <1>2, <1>4, <1>7, SameFrames DEF Inv, TypeOK

\* A write that returns no value: a copy, or a source that ends early.
LEMMA StoreStep ==
  ASSUME Inv, NEW ref \in refs, NEW a \in Runtimes, Writes(ref, a),
         NEW contents, DOMAIN contents \subseteq ref.cells,
         \A c \in DOMAIN contents : contents[c] \in Values, Store(contents),
         vals' = ValsAfterBorrowing(a), UNCHANGED <<frames, refs, separate>>,
         status' \in {"running", "panicked", "undefined_behaviour"}
  PROVE  Inv'
<1>1. Top.kind # "foreign"
  BY DEF Writes, Reads, HostRunning
<1>2. /\ mem' \in [Cells -> Values \union {Uninit}]
      /\ \A k \in 1..Depth : frames[k].kind = "alloc" /\ ~frames[k].mutable
           => \A c \in frames[k].cells : mem'[c] = mem[c]
      /\ \A v \in vals' : v \in vals /\ \A c \in v.cells : mem'[c] = mem[c]
  BY StoreFacts
<1> QED
  BY <1>1, <1>2, SameFrames

\* Every operation on the contents of a reference keeps the invariant.
LEMMA AccessStep ==
  ASSUME Inv, NEW ref \in refs, NEW a \in Runtimes, Access(ref, a)
  PROVE  Inv'
<1>1. CASE ImprintMismatch(ref, a)
  <2>1. /\ UNCHANGED <<frames, mem, refs, separate>> /\ vals' \subseteq vals
        /\ status' \in {"running", "panicked", "undefined_behaviour"}
    BY <1>1 DEF ImprintMismatch, ValsAfterSharing, ValsAfterBorrowing
  <2> QED
    BY <2>1, LessAlive
<1>2. CASE Validate(ref, a)
  BY <1>2, ValidateStep
<1>3. CASE ReadOnly(ref, a)
  <2>1. UNCHANGED <<frames, mem, refs, status, separate>> /\ vals' \subseteq vals
    BY <1>3 DEF ReadOnly, ValsAfterSharing
  <2> QED
    BY <2>1, LessAlive DEF Inv, TypeOK
<1>4. CASE ReadUninitialized(ref, a)
  BY <1>4, LessAlive DEF ReadUninitialized
<1>5. CASE Fill(ref, a)
  BY <1>5, FillStep
<1>6. CASE FillStopsShort(ref, a)
  <2>1. PICK n \in ref.cells : \E contents \in [{c \in ref.cells : c < n} -> Valid] : Store(contents)
    BY <1>6 DEF FillStopsShort
  <2>2. PICK contents \in [{c \in ref.cells : c < n} -> Valid] : Store(contents)
    BY <2>1
  <2>3. DOMAIN contents \subseteq ref.cells /\ \A c \in DOMAIN contents : contents[c] \in Values
    BY ValuesAssumption
  <2> QED
    BY <1>6, <2>2, <2>3, StoreStep DEF FillStopsShort
<1>7. CASE WriteCopy(ref, a)
  <2>1. PICK contents \in [ref.cells -> Values] : Store(contents)
    BY <1>7 DEF WriteCopy
  <2>2. DOMAIN contents \subseteq ref.cells /\ \A c \in DOMAIN contents : contents[c] \in Values
    OBVIOUS
  <2>3. status' \in {"running", "panicked", "undefined_behaviour"}
    BY <1>7 DEF WriteCopy, Inv, TypeOK
  <2> QED
    BY <1>7, <2>1, <2>2, <2>3, StoreStep DEF WriteCopy
<1> QED
  BY <1>1, <1>2, <1>3, <1>4, <1>5, <1>6, <1>7
  DEF Access

\* Foreign code writes while no value of its runtime is alive.
LEMMA ForeignWriteStep ==
  ASSUME Inv, ForeignWrite
  PROVE  Inv'
<1>1. PICK k \in 1..Depth, val \in Values :
        /\ frames[k].kind = "alloc" /\ frames[k].rt = Top.rt /\ frames[k].mutable
        /\ \E c \in frames[k].cells : mem' = [mem EXCEPT ![c] = val]
  BY DEF ForeignWrite
<1>2. PICK c \in frames[k].cells : mem' = [mem EXCEPT ![c] = val]
  BY <1>1
<1>3. /\ Top.kind = "foreign" /\ UNCHANGED <<frames, refs, vals, status, separate>>
      /\ mem \in [Cells -> Values \union {Uninit}]
      /\ status \in {"running", "panicked", "undefined_behaviour"}
  BY DEF ForeignWrite, ForeignRunning, Inv, TypeOK
<1>4. \A j \in 1..Depth : frames[j].cells \subseteq Cells
  BY FrameFacts DEF Inv, FrameType
<1>5. /\ mem' \in [Cells -> Values \union {Uninit}]
      /\ \A d \in Cells : d \notin frames[k].cells => mem'[d] = mem[d]
  BY <1>2, <1>3, <1>4
<1>6. \A j \in 1..Depth : frames[j].kind = "alloc" /\ ~frames[j].mutable
        => \A d \in frames[j].cells : mem'[d] = mem[d]
  BY <1>1, <1>4, <1>5, Apart
<1>7. ASSUME NEW v \in vals PROVE \A d \in v.cells : mem'[d] = mem[d]
  <2>1. v.rt # frames[k].rt /\ v.cells \subseteq Cells
    BY <1>1, <1>3 DEF Inv, NoValsWhileForeignRuns, TypeOK, IsVal
  <2> QED
    BY <1>1, <1>5, <2>1, Apart
<1> QED
  BY <1>3, <1>5, <1>6, <1>7, SameFrames

-----------------------------------------------------------------------------
(***************************************************************************)
(* The theorems.                                                            *)
(***************************************************************************)
LEMMA InitInv == Init => Inv
<1> SUFFICES ASSUME Init PROVE Inv
  OBVIOUS
<1>1. /\ frames = <<Frame("host", NoRuntime)>> /\ Depth = 1 /\ Depth \in Nat
      /\ Top = Frame("host", NoRuntime) /\ frames[1] = Frame("host", NoRuntime)
      /\ Frame("host", NoRuntime) \in FrameType
  BY DEF Init, Depth, Top, Frame, FrameType
<1>2. TypeOK
  <2>1. frames \in Seq(FrameType)
    BY <1>1
  <2>2. Depth \in Scopes
    BY <1>1, BoundsAssumption DEF Scopes
  <2> QED
    BY <2>1, <2>2, FlagsAssumption DEF Init, TypeOK
<1>3. FramesFit
  BY <1>1 DEF FramesFit, Frame
<1>4. RefsHold /\ ValsHold /\ ValidatedStaysValid
  BY DEF Init, RefsHold, ValsHold, ValidatedStaysValid
<1>5. ImmutableStaysConstant
  BY <1>1 DEF ImmutableStaysConstant, Frame
<1>6. NoValsWhileForeignRuns /\ NoUpgradesAcrossCalls
  BY <1>1 DEF NoValsWhileForeignRuns, NoUpgradesAcrossCalls, Frame
<1> QED
  BY <1>2, <1>3, <1>4, <1>5, <1>6 DEF Inv

\* Every step keeps the invariant.
LEMMA NextInv == Inv /\ [Next]_vars => Inv'
<1> SUFFICES ASSUME Inv, [Next]_vars PROVE Inv'
  OBVIOUS
<1>1. CASE UNCHANGED vars
  BY <1>1, LessAlive DEF vars, Inv, TypeOK
<1>2. ASSUME NEW r \in Runtimes, RuntimeStep(r) PROVE Inv'
  <2>1. CASE AllocateStacked(r)
    <3>1. PICK cells \in FreeRanges : EnterAllocation(r, cells, TRUE, Uninit, vals)
      BY <2>1 DEF AllocateStacked
    <3> QED
      BY <2>1, <3>1, AllocationStep DEF AllocateStacked
  <2>2. CASE WriteStacked(r)
    <3>1. PICK cells \in FreeRanges, mutable \in BOOLEAN, val \in Valid :
            EnterAllocation(r, cells, mutable, val, ValsAfterBorrowing(r))
      BY <2>2 DEF WriteStacked
    <3>2. ValsAfterBorrowing(r) \subseteq vals
      BY DEF ValsAfterBorrowing
    <3> QED
      BY <2>2, <3>1, <3>2, AllocationStep DEF WriteStacked
  <2>3. CASE SetupCallback(r)
    BY <2>3, SetupStep
  <2>4. CASE Execute(r)
    BY <2>4, ExecuteStep
  <2>5. CASE \E cells \in Ranges : UpgradeFromPtr(r, cells) \/ UpgradeFromPtrMut(r, cells)
    <3>1. PICK cells \in Ranges : UpgradeFromPtr(r, cells) \/ UpgradeFromPtrMut(r, cells)
      BY <2>5
    <3>2. cells \in SUBSET Cells /\ (~separate) \in BOOLEAN
      <4>1. separate \in BOOLEAN
        BY DEF Inv, TypeOK
      <4>2. (~separate) \in BOOLEAN
        BY <4>1
      <4> QED
        BY <4>2 DEF Ranges
    <3>3. CASE UpgradeFromPtr(r, cells)
      BY <1>2, <3>2, <3>3, UpgradeStep DEF UpgradeFromPtr
    <3>4. CASE UpgradeFromPtrMut(r, cells)
      BY <1>2, <3>2, <3>4, UpgradeStep DEF UpgradeFromPtrMut
    <3> QED
      BY <3>1, <3>3, <3>4
  <2> QED
    BY <1>2, <2>1, <2>2, <2>3, <2>4, <2>5 DEF RuntimeStep
<1>3. CASE EnterCallback
  BY <1>3, CallbackStep
<1>4. CASE ForeignWrite
  BY <1>4, ForeignWriteStep
<1>5. CASE FinishClosure \/ FinishForeign \/ FinishCallback
  <2>1. Top.kind # "host" /\ Pop /\ UNCHANGED <<mem, status, separate>>
    BY <1>5 DEF FinishClosure, FinishForeign, FinishCallback, ForeignRunning
  <2> QED
    BY <2>1, PopStep
<1>6. ASSUME NEW ref \in refs,
             \/ DropRef(ref)
             \/ AsImmut(ref)
             \/ \E cells \in Ranges : SubRef(ref, cells)
             \/ \E c \in ref.cells : GetElement(ref, c)
             \/ \E a \in Runtimes : Access(ref, a)
      PROVE  Inv'
  <2>1. CASE DropRef(ref)
    BY <2>1, LessAlive DEF DropRef, Inv, TypeOK
  <2> QED
    BY <1>6, <2>1, NarrowStep, AccessStep
<1>7. ASSUME NEW v \in vals, AsRef(v) \/ DropVal(v) PROVE Inv'
  <2>1. CASE DropVal(v)
    BY <2>1, LessAlive DEF DropVal, Inv, TypeOK
  <2> QED
    BY <1>7, <2>1, AsRefStep
<1> QED
  BY <1>1, <1>2, <1>3, <1>4, <1>5, <1>6, <1>7 DEF Next

\* Every reachable state satisfies the inductive invariant.
THEOREM Invariance == Spec => []Inv
  BY InitInv, NextInv, PTL DEF Spec

\* The type invariant: frames, references, values and memory keep their types,
\* and the stack its bound.
THEOREM Typing == Spec => []TypeOK
<1>1. Inv => TypeOK
  BY DEF Inv
<1> QED
  BY <1>1, Invariance, PTL

\* No interleaving of reads, writes, foreign calls, callbacks and other
\* runtimes changes what a live OGVal points at (validate, write*, copy).
THEOREM ValuesStay == Spec => []ValidatedStaysValid
<1>1. Inv => ValidatedStaysValid
  BY DEF Inv
<1> QED
  BY <1>1, Invariance, PTL

\* No reference or value outlives its allocation, whichever was the first to
\* be derived from the other (upgrade_from_ptr, sub_ref, as_immut, as_ref).
THEOREM NothingDangles == Spec => []PointsIntoLiveMemory
<1>1. Inv => PointsIntoLiveMemory
  BY DEF Inv, RefsHold, ValsHold, Held, PointsIntoLiveMemory, Tracks
<1> QED
  BY <1>1, Invariance, PTL

\* The host's own immutable values are never written (write_stacked_ref_t with
\* zero_copy_immutable).
THEOREM ImmutablesStay == Spec => []ImmutableStaysConstant
<1>1. Inv => ImmutableStaysConstant
  BY DEF Inv
<1> QED
  BY <1>1, Invariance, PTL

\* A foreign call meets no live OGVal of its runtime (execute takes the
\* AccessScope, callbacks have one of their own).
THEOREM CallsMeetNoValues == Spec => []NoValsWhileForeignRuns
<1>1. Inv => NoValsWhileForeignRuns
  BY DEF Inv
<1> QED
  BY <1>1, Invariance, PTL

\* Nor, without separate lifetimes, a reference upgraded from a pointer
\* (execute takes the AllocScope too).
THEOREM CallsMeetNoUpgrades == Spec => []NoUpgradesAcrossCalls
<1>1. Inv => NoUpgradesAcrossCalls
  BY DEF Inv
<1> QED
  BY <1>1, Invariance, PTL

=============================================================================
