---------------------------- MODULE ScopedMemory ----------------------------
(***************************************************************************)
(* What MockRt relies on when it calls MockRtAllocator::with_alloc           *)
(* (omniglot/src/rt/mock/mod.rs): while a closure runs it has memory of the   *)
(* layout that was asked for, which no other running closure has.            *)
(***************************************************************************)
EXTENDS Integers, Sequences

CONSTANTS Layouts, Addresses  \* [size, align], and where memory can be

VARIABLE live  \* the memory of the closures that run, the innermost last

Block(ptr, layout) == [ptr |-> ptr, layout |-> layout]

\* A block of no bytes is apart from everything.
Apart(a, b) ==
  \/ a.ptr + a.layout.size <= b.ptr
  \/ b.ptr + b.layout.size <= a.ptr
  \/ a.layout.size = 0 \/ b.layout.size = 0

SInit == live = <<>>

Fits(block) ==
  /\ block.ptr \in Addresses /\ block.layout \in Layouts
  /\ block.ptr % block.layout.align = 0
  /\ \A k \in DOMAIN live : Apart(live[k], block)

\* A closure starts, on memory of its own.
Lend ==
  /\ Len(live') = Len(live) + 1
  /\ LET new == live'[Len(live')] IN
     /\ Fits(new)
     /\ live' = Append(live, Block(new.ptr, new.layout))

\* A closure returns, or the innermost ones unwind together.
TakeBack == \E n \in 0..(Len(live) - 1) : live' = SubSeq(live, 1, n)

SNext == Lend \/ TakeBack

SSpec == SInit /\ [][SNext]_live

=============================================================================
