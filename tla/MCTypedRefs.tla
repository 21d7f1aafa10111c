---------------------------- MODULE MCTypedRefs -----------------------------
(***************************************************************************)
(* TypedRefs with five bit addresses.                                       *)
(***************************************************************************)
EXTENDS TypedRefs

Type(size, align) == [size |-> size, align |-> align]

\* u8, u16, u32, [u8; 3], a struct of u32s, a struct of u16s and an empty array
\* of u32
SomeTypes ==
  {Type(1, 1), Type(2, 2), Type(4, 4), Type(3, 1), Type(8, 4), Type(6, 2), Type(0, 4)}

\* A writeable block that starts where no u32 may be, an immutable one that
\* ends as far up as memory can, and little room between them.
SomeBlocks ==
  {[ptr |-> 2, len |-> 15, mutable |-> TRUE], [ptr |-> 19, len |-> 12, mutable |-> FALSE]}

\* None, one and some elements, as many as fit, and products that wrap.
SomeLengths == {0, 1, 3, 11, 16}
=============================================================================
