----------------------------- MODULE TypedRefs ------------------------------
(***************************************************************************)
(* The address arithmetic of the references into foreign memory             *)
(* (omniglot/src/foreign_memory/): how a raw pointer is upgraded, how a      *)
(* reference to a field, an array's slice, an element is derived from        *)
(* another one, on addresses of Width bits.                                 *)
(*                                                                         *)
(* ForeignMemory follows how long references live and treats memory as       *)
(* elements.  Here it is bytes, a type is its size and alignment, and one    *)
(* reference is followed from its upgrade through any chain of derivations,   *)
(* with the iterator it may come from; the frames that bound its life are     *)
(* left out.                                                                *)
(***************************************************************************)
EXTENDS Integers, Sequences, FiniteSets, FiniteSetsExt

CONSTANTS
  Width,           \* of a usize, in bits
  Types,           \* the types of the program: [size, align]
  OuterBlocks,     \* the memory tracked at the start: [ptr, len, mutable]
  Lengths,         \* the lengths slices are asked for with
  OverflowChecks,  \* the build panics when an arithmetic operation overflows
  MaxBlocks        \* bound on the tracked blocks

\* 2^k, defined here so that it can be reasoned about for every k.
Pow2[k \in Nat] == IF k = 0 THEN 1 ELSE 2 * Pow2[k - 1]

AddrSpace == Pow2[Width]
Addresses == 0..AddrSpace - 1
UsizeMax == AddrSpace - 1
IsizeMax == Pow2[Width - 1] - 1

\* What Rust guarantees of every type and every allocation.
IsType(t) ==
  /\ t.align \in {Pow2[k] : k \in 0..Width - 1}
  /\ t.size \in 0..IsizeMax
  /\ t.size % t.align = 0

IsBlock(b) ==
  b.ptr \in Addresses \ {0} /\ b.len \in 0..IsizeMax /\ b.ptr + b.len <= UsizeMax

ASSUME WidthAssumption == Width \in Nat \ {0}
ASSUME TypesAssumption == \A t \in Types : IsType(t)
ASSUME BlocksAssumption ==
  \A b \in OuterBlocks : IsBlock(b) /\ b.mutable \in BOOLEAN
ASSUME LengthsAssumption == Lengths \subseteq Addresses
ASSUME FlagsAssumption == OverflowChecks \in BOOLEAN /\ MaxBlocks \in Nat

VARIABLES
  blocks,  \* the allocations the tracker knows
  ref,     \* the reference that is followed
  iter     \* the iterator over a slice

vars == <<blocks, ref, iter>>

NoRef == [kind |-> "none"]
NoIter == [over |-> NoRef]

\* An OGRef or OGMutRef to a t, and an OGSlice or OGMutSlice of len of them.
Ref(ptr, t, mutable) ==
  [kind |-> "ref", ptr |-> ptr, type |-> t, len |-> 1, mutable |-> mutable]
Slice(ptr, t, len, mutable) ==
  [kind |-> "slice", ptr |-> ptr, type |-> t, len |-> len, mutable |-> mutable]

\* [T; N]
ArrayOf(t, n) == [size |-> n * t.size, align |-> t.align]

\* Follow another reference; an iterator is dropped.
Follow(new) == ref' = new /\ iter' = NoIter

Init ==
  /\ blocks = OuterBlocks
  /\ ref = NoRef
  /\ iter = NoIter

-----------------------------------------------------------------------------
(***************************************************************************)
(* What the code computes.                                                  *)
(***************************************************************************)
Wrap(n) == n % AddrSpace

\* AllocTracker::is_valid and is_valid_mut
Tracks(ptr, size, mutable) ==
  \E b \in blocks :
    /\ b.ptr <= ptr /\ ptr + size <= b.ptr + b.len
    /\ mutable => b.mutable

IsAligned(ptr, t) == ptr % t.align = 0

Bit(n, k) == (n \div Pow2[k]) % 2

\* 1 << (a | b).trailing_zeros(), for a # 0
LowestBitOfOr(a, b) == Pow2[Min({k \in 0..Width - 1 : Bit(a, k) = 1 \/ Bit(b, k) = 1})]

\* Mutant: the sum is not checked for overflow.
SubRefCheckWrapping(t, u, offset) ==
  /\ Wrap(offset + u.size) <= t.size
  /\ u.align <= LowestBitOfOr(t.align, offset)

\* Mutant: only the two alignments are compared.
SubRefCheckOfTypes(t, u, offset) ==
  /\ offset + u.size <= UsizeMax
  /\ offset + u.size <= t.size
  /\ u.align <= t.align

\* Mutant: an alignment equal to the bound is refused.
SubRefCheckTooStrict(t, u, offset) ==
  /\ offset + u.size <= UsizeMax
  /\ offset + u.size <= t.size
  /\ u.align < LowestBitOfOr(t.align, offset)

\* sub_ref_check: a u at the offset fits into a t and is aligned in it.
SubRefCheck(t, u, offset) ==
  /\ offset + u.size <= UsizeMax
  /\ offset + u.size <= t.size
  /\ u.align <= LowestBitOfOr(t.align, offset)

-----------------------------------------------------------------------------
(***************************************************************************)
(* Allocating.                                                              *)
(***************************************************************************)
\* Where an allocator may place size bytes: memory nothing else occupies.
Places(size, align) ==
  {p \in Addresses \ {0} :
     /\ p % align = 0 /\ p + size <= UsizeMax
     /\ \A b \in blocks : p + size <= b.ptr \/ b.ptr + b.len <= p}

Track(ptr, size) == blocks' = blocks \union {[ptr |-> ptr, len |-> size, mutable |-> TRUE]}

\* allocate_stacked_t_mut
AllocateStackedT(t) ==
  /\ ref = NoRef /\ Cardinality(blocks) < MaxBlocks
  /\ \E p \in Places(t.size, t.align) :
       /\ Track(p, t.size)
       /\ Follow(Ref(p, t, TRUE))

\* Layout::array: the size is checked against isize::MAX, less the padding.
LayoutExists(t, len) == len * t.size <= IsizeMax - (t.align - 1)

\* allocate_stacked_slice_mut; without a layout it panics at once.
AllocateStackedSlice(t, len) ==
  /\ ref = NoRef /\ Cardinality(blocks) < MaxBlocks
  /\ LayoutExists(t, len)
  /\ \E p \in Places(len * t.size, t.align) :
       /\ Track(p, len * t.size)
       /\ Follow(Slice(p, t, len, TRUE))

-----------------------------------------------------------------------------
(***************************************************************************)
(* upgrade_from_ptr.  The pointer comes from foreign code and may be any     *)
(* number.  When it is refused (None), or the product panics, nothing        *)
(* happens.  A new reference does not depend on others, so none is followed   *)
(* when one is made.                                                        *)
(***************************************************************************)
Upgrade(new) == Follow(new) /\ UNCHANGED blocks

\* OGRef::upgrade_from_ptr
UpgradeRef(ptr, t) ==
  /\ ref = NoRef /\ IsAligned(ptr, t)
  /\ Tracks(ptr, t.size, FALSE)
  /\ Upgrade(Ref(ptr, t, FALSE))

\* OGMutRef::upgrade_from_ptr
UpgradeMutRef(ptr, t) ==
  /\ ref = NoRef /\ IsAligned(ptr, t)
  /\ Tracks(ptr, t.size, TRUE)
  /\ Upgrade(Ref(ptr, t, TRUE))

\* length * size_of::<T>() in a build that does not check it, or that does.
Overflows(t, len) == len * t.size > UsizeMax
ByteLength(t, len) == Wrap(len * t.size)
Evaluates(t, len) == OverflowChecks => ~Overflows(t, len)

\* OGSlice::upgrade_from_ptr
UpgradeSlice(ptr, t, len) ==
  /\ ref = NoRef /\ IsAligned(ptr, t) /\ Evaluates(t, len)
  /\ Tracks(ptr, ByteLength(t, len), FALSE)
  /\ Upgrade(Slice(ptr, t, len, FALSE))

\* OGMutSlice::upgrade_from_ptr
UpgradeMutSlice(ptr, t, len) ==
  /\ ref = NoRef /\ IsAligned(ptr, t) /\ Evaluates(t, len)
  /\ Tracks(ptr, ByteLength(t, len), TRUE)
  /\ Upgrade(Slice(ptr, t, len, TRUE))

-----------------------------------------------------------------------------
(***************************************************************************)
(* References made from references.                                         *)
(***************************************************************************)
Derive(new) == Follow(new) /\ UNCHANGED blocks

\* OGRef::sub_ref and OGMutRef::sub_ref; the types decide, not the pointer.
SubRef(u, offset) ==
  /\ ref.kind = "ref"
  /\ SubRefCheck(ref.type, u, offset)
  /\ Derive(Ref(Wrap(ref.ptr + offset), u, ref.mutable))

\* OGMutRef::as_immut, OGMutSlice::as_immut
AsImmut ==
  /\ ref.kind # "none"
  /\ Derive([ref EXCEPT !.mutable = FALSE])

\* as_slice: what refers to an array becomes a slice of its elements.
AsSlice(t, n) ==
  /\ ref.kind = "ref"
  /\ ref.type = ArrayOf(t, n)
  /\ Derive(Slice(ref.ptr, t, n, ref.mutable))

ElementAt(slice, idx) ==
  Ref(Wrap(slice.ptr + idx * slice.type.size), slice.type, slice.mutable)

\* OGSlice::get, OGMutSlice::get: Some
Get(idx) ==
  /\ ref.kind = "slice" /\ idx < ref.len
  /\ Derive(ElementAt(ref, idx))

\* iter: a copy of the slice and an index
StartIter ==
  /\ ref.kind = "slice"
  /\ iter' = [over |-> ref, idx |-> 0, given |-> <<>>, ended |-> FALSE]
  /\ UNCHANGED <<blocks, ref>>

\* Mutant: the index moves on before the element is taken.
IterNextTooFar ==
  /\ iter # NoIter /\ iter.idx + 1 < iter.over.len
  /\ ref' = ElementAt(iter.over, iter.idx + 1)
  /\ iter' = [iter EXCEPT !.idx = Wrap(@ + 1), !.given = Append(@, ref'.ptr)]
  /\ UNCHANGED blocks

\* Mutant: the index moves on even when there is nothing left.
IterNextNoneAdvances ==
  /\ iter # NoIter /\ iter.idx >= iter.over.len
  /\ iter' = [iter EXCEPT !.idx = Wrap(@ + 1), !.ended = TRUE]
  /\ UNCHANGED <<blocks, ref>>

\* OGSliceIter::next, OGMutSliceIter::next: Some element
IterNext ==
  /\ iter # NoIter /\ iter.idx < iter.over.len
  /\ ref' = ElementAt(iter.over, iter.idx)
  /\ iter' = [iter EXCEPT !.idx = Wrap(@ + 1), !.given = Append(@, ref'.ptr)]
  /\ UNCHANGED blocks

\* ... and None
IterNextNone ==
  /\ iter # NoIter /\ iter.idx >= iter.over.len
  /\ iter' = [iter EXCEPT !.ended = TRUE]
  /\ UNCHANGED <<blocks, ref>>

\* Follow none.
DropRef == Derive(NoRef)

-----------------------------------------------------------------------------
Next ==
  \/ \E t \in Types :
       \/ AllocateStackedT(t)
       \/ \E len \in Lengths : AllocateStackedSlice(t, len)
       \/ \E ptr \in Addresses :
            \/ UpgradeRef(ptr, t) \/ UpgradeMutRef(ptr, t)
            \/ \E len \in Lengths :
                 UpgradeSlice(ptr, t, len) \/ UpgradeMutSlice(ptr, t, len)
       \/ \E offset \in Addresses : SubRef(t, offset)
       \/ \E n \in Addresses : AsSlice(t, n)
  \/ \E idx \in Addresses : Get(idx)
  \/ DropRef \/ AsImmut \/ StartIter \/ IterNext \/ IterNextNone

Spec == Init /\ [][Next]_vars

-----------------------------------------------------------------------------
(***************************************************************************)
(* Properties.                                                              *)
(***************************************************************************)
IsRef(r) ==
  /\ r.ptr \in Addresses /\ IsType(r.type)
  /\ r.len \in Addresses /\ r.mutable \in BOOLEAN

\* Every state variable has the type its comment says.
TypeOK ==
  /\ \A b \in blocks : IsBlock(b) /\ b.mutable \in BOOLEAN
  /\ ref = NoRef \/ (ref.kind \in {"ref", "slice"} /\ IsRef(ref))
  /\ iter = NoIter \/ (IsRef(iter.over) /\ iter.idx \in 0..iter.over.len)

\* All the bytes of a reference, the last element's included, lie in one
\* allocation, a writeable one if the reference can write: the promise of the
\* upgrade_from_ptr functions, kept by every chain of derivations.
InBounds ==
  ref # NoRef => Tracks(ref.ptr, ref.len * ref.type.size, ref.mutable)

\* Every reference is aligned for its type, though sub_ref never looks at the
\* address.
WellAligned == ref # NoRef => IsAligned(ref.ptr, ref.type)

\* Where a value of a type can be at all.
Homes(t) == {p \in Addresses \ {0} : IsAligned(p, t) /\ p + t.size <= UsizeMax}

\* The types for whose references sub_ref_check tells, for every inner type and
\* offset, whether the inner value fits and is aligned at every home.
JudgedExactly ==
  {t \in Types : \A u \in Types, offset \in Addresses :
     SubRefCheck(t, u, offset) <=>
       \A p \in Homes(t) : p + offset + u.size <= p + t.size /\ IsAligned(p + offset, u)}

\* sub_ref accepts a field exactly if it is well-aligned and fits for every
\* address the reference could have had ("not well-aligned for _every_ `T`"):
\* it refuses no field of a struct, and takes nothing that is right by luck.
SubRefIsExact == ref.kind = "ref" => ref.type \in JudgedExactly

\* An iterator gives out each element once, in order, and once it has said
\* None it says so for ever ("Prevent wraparound by calling .iter() a bunch").
IteratorGivesEachElementOnce ==
  iter # NoIter =>
    /\ Len(iter.given) <= iter.over.len
    /\ \A i \in DOMAIN iter.given :
         iter.given[i] = iter.over.ptr + (i - 1) * iter.over.type.size
    /\ iter.ended => Len(iter.given) = iter.over.len

=============================================================================
