------------------------------ MODULE MCMockRt ------------------------------
(***************************************************************************)
(* Values of MockRt's constants for TLC.                                    *)
(***************************************************************************)
EXTENDS MockRt

OneBlock == {[ptr |-> 2, len |-> 2]}

\* Two blocks that touch, the second up to the last address, and an empty one.
SomeBlocks == {[ptr |-> 1, len |-> 2], [ptr |-> 3, len |-> 0], [ptr |-> 3, len |-> 4]}

NoBlocks == {}
=============================================================================
