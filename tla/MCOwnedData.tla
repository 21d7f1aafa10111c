---------------------------- MODULE MCOwnedData -----------------------------
(***************************************************************************)
(* OwnedData with two bytes, of which the second may be padding, and three    *)
(* bit patterns a byte.                                                     *)
(***************************************************************************)
EXTENDS OwnedData

WithPadding(valid) == [padding |-> {2}, valid |-> {<<b>> : b \in valid}]
Packed(valid) == [padding |-> {}, valid |-> {<<b, c>> : b \in valid, c \in Bits}]

\* With padding and an invalid pattern, without either, and with one of them.
SomeTypes == {WithPadding(Bits \ {2}), Packed(Bits), Packed(Bits \ {2})}

OnePaddedType == {WithPadding(Bits)}
=============================================================================
