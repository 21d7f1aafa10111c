---------------------------- MODULE MCAllocators ----------------------------
(***************************************************************************)
(* Allocators on a stack of 192 bytes and a heap of a few.                    *)
(***************************************************************************)
EXTENDS Allocators

\* Of no bytes, fewer and more than the alignment, not a multiple of it, and
\* aligned more strictly than the stack.
SomeStackLayouts ==
  {[size |-> 0, align |-> 1], [size |-> 5, align |-> 1], [size |-> 16, align |-> 8],
   [size |-> 20, align |-> 8], [size |-> 32, align |-> 32]}

\* No bytes, one, more than the alignment, and aligned strictly.
SomeHeapLayouts ==
  {[size |-> 0, align |-> 1], [size |-> 1, align |-> 1], [size |-> 3, align |-> 2],
   [size |-> 2, align |-> 4]}
=============================================================================
