---------------------------- MODULE FrameLemmas ----------------------------
(***************************************************************************)
(* Facts about numbered frames that the proofs about several modules need:  *)
(* the nearest frame of a set, and the frames that a push and a pop leave    *)
(* alone.                                                                   *)
(***************************************************************************)
EXTENDS Integers, Sequences, FiniteSetsExt, SequenceTheorems, WellFoundedInduction, TLAPS

\* A non-empty set of frame numbers has a largest element, and Max names it.
LEMMA MaxOfFrames ==
  ASSUME NEW n \in Nat, NEW S \in SUBSET (1..n), S # {}
  PROVE  /\ Max(S) \in S
         /\ \A j \in S : j <= Max(S)
<1> DEFINE T == {n - j : j \in S}
<1>0. \A j \in S : j \in 1..n /\ n - j \in Nat
  OBVIOUS
<1>1. T \subseteq Nat /\ T # {}
  BY <1>0
<1>2. PICK x \in T : \A y \in T : <<y, x>> \notin OpToRel(<, Nat)
  <2> HIDE DEF T
  <2> QED BY <1>1, NatLessThanWellFounded, WFMin, Zenon
<1>3. \A y \in T : x <= y
  <2> HIDE DEF T
  <2>1. SUFFICES ASSUME NEW y \in T, y < x PROVE FALSE
    BY <1>1
  <2>2. x \in Nat /\ y \in Nat
    BY <1>1
  <2>3. <<y, x>> \in OpToRel(<, Nat)
    BY <2>1, <2>2, Zenon DEF OpToRel
  <2> QED BY <1>2, <2>3, Zenon
<1>4. PICK m \in S : x = n - m
  BY <1>2
<1>5. \A j \in S : m >= j
  BY <1>0, <1>3, <1>4
<1> HIDE DEF T
<1> QED
  BY <1>0, <1>4, <1>5 DEF Max

\* The largest element is the only one that no other exceeds.
LEMMA MaxIs ==
  ASSUME NEW n \in Nat, NEW S \in SUBSET (1..n), NEW m \in S, \A j \in S : j <= m
  PROVE  Max(S) = m
<1>1. Max(S) \in S /\ m <= Max(S) /\ Max(S) <= m
  BY MaxOfFrames
<1>2. Max(S) \in 1..n /\ m \in 1..n
  BY <1>1
<1> QED
  BY <1>1, <1>2

\* A stack cut to its first n frames keeps those.
LEMMA CutTo ==
  ASSUME NEW S, NEW seq \in Seq(S), NEW n \in 0..Len(seq)
  PROVE  /\ SubSeq(seq, 1, n) \in Seq(S)
         /\ Len(SubSeq(seq, 1, n)) = n
         /\ \A k \in 1..n : SubSeq(seq, 1, n)[k] = seq[k]
<1>1. Len(seq) \in Nat /\ n \in Nat /\ n <= Len(seq)
  BY LenProperties
<1>2. \A i \in 1..n : seq[i] \in S
  BY <1>1, ElementOfSeq
<1>3. n - 1 + 1 = n /\ (1 <= n => n - 1 + 1 = n) /\ (~(1 <= n) => n = 0)
  BY <1>1
<1>4. /\ SubSeq(seq, 1, n) \in Seq(S)
      /\ Len(SubSeq(seq, 1, n)) = IF 1 <= n THEN n - 1 + 1 ELSE 0
      /\ \A i \in 1..(n - 1 + 1) : SubSeq(seq, 1, n)[i] = seq[1 + i - 1]
  BY <1>1, <1>2, SubSeqProperties
<1>5. \A k \in 1..n : 1 + k - 1 = k
  BY <1>1
<1> QED
  BY <1>1, <1>3, <1>4, <1>5
=============================================================================
