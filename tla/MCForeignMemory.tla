-------------------------- MODULE MCForeignMemory --------------------------
(* Model checking of ForeignMemory. *)
EXTENDS ForeignMemory, TLC

\* The runtimes are interchangeable, and so are the valid bit patterns.
Symmetry == Permutations(Runtimes) \union Permutations(Valid)

=============================================================================
