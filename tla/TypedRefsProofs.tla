-------------------------- MODULE TypedRefsProofs ---------------------------
(***************************************************************************)
(* Proofs about TypedRefs, for addresses of any width and any types, blocks  *)
(* and lengths.                                                             *)
(*                                                                         *)
(* Alignment is about multiples: an alignment is a power of two, and a        *)
(* smaller power of two divides a greater one, so that an address keeps its   *)
(* alignment when multiples are added to it and when it wraps around.  What   *)
(* sub_ref_check computes from the lowest bit of the alignment and the        *)
(* offset is such a power that divides both.  Bounds are kept because a part  *)
(* of what lies in a block lies in it, and blocks are never given up.        *)
(***************************************************************************)
EXTENDS TypedRefs, FrameLemmas

-----------------------------------------------------------------------------
(***************************************************************************)
(* Multiples.                                                               *)
(***************************************************************************)
Divides(d, n) == \E q \in Int : n = q * d

\* A remainder of 0 is divisibility.
LEMMA DividesMeans ==
  ASSUME NEW d \in Nat \ {0}, NEW n \in Int
  PROVE  n % d = 0 <=> Divides(d, n)
<1>1. n % d = 0 => \E q \in Int : n = q * d
  OBVIOUS
<1>2. ASSUME NEW q \in Int, n = q * d PROVE n % d = 0
  BY <1>2
<1> QED
  BY <1>1, <1>2 DEF Divides

\* Sums and differences of multiples are multiples.
LEMMA DividesSum ==
  ASSUME NEW d \in Int, NEW m \in Int, NEW n \in Int, Divides(d, m), Divides(d, n)
  PROVE  Divides(d, m + n) /\ Divides(d, m - n)
<1>1. PICK p \in Int : m = p * d
  BY DEF Divides
<1>2. PICK q \in Int : n = q * d
  BY DEF Divides
<1>3. m + n = (p + q) * d /\ m - n = (p - q) * d /\ p + q \in Int /\ p - q \in Int
  BY <1>1, <1>2
<1> QED
  BY <1>3, Zenon DEF Divides

\* A multiple of a multiple is a multiple.
LEMMA DividesMultiple ==
  ASSUME NEW d \in Int, NEW n \in Int, Divides(d, n), NEW k \in Int
  PROVE  Divides(d, k * n)
<1>1. PICK q \in Int : n = q * d
  BY DEF Divides
<1>2. k * n = (k * q) * d /\ k * q \in Int
  BY <1>1
<1> QED
  BY <1>2, Zenon DEF Divides

\* Divisibility is transitive.
LEMMA DividesTransitive ==
  ASSUME NEW d \in Int, NEW e \in Int, NEW n \in Int, Divides(d, e), Divides(e, n)
  PROVE  Divides(d, n)
<1>1. PICK q \in Int : n = q * e
  BY DEF Divides
<1>2. Divides(d, q * e)
  BY DividesMultiple
<1> QED
  BY <1>1, <1>2

\* What wraps around at a multiple keeps its alignment.
LEMMA DividesRemainder ==
  ASSUME NEW d \in Int, NEW e \in Nat \ {0}, NEW n \in Int, Divides(d, n), Divides(d, e)
  PROVE  Divides(d, n % e)
<1> DEFINE r == n % e
           q == n \div e
<1>1. r \in Int /\ q \in Int /\ r = n - q * e
  OBVIOUS
<1> HIDE DEF r, q
<1>2. Divides(d, q * e) /\ q * e \in Int
  BY <1>1, DividesMultiple
<1>3. Divides(d, n - q * e)
  BY <1>2, DividesSum
<1> QED
  BY <1>1, <1>3 DEF r

-----------------------------------------------------------------------------
(***************************************************************************)
(* Powers of two.  That the recursive definition defines a function: for     *)
(* every n there is one table of the powers up to n.                         *)
(***************************************************************************)
\* In a set of natural numbers that is not empty one is the smallest.
LEMMA Smallest ==
  ASSUME NEW S \in SUBSET Nat, S # {}
  PROVE  \E x \in S : \A y \in S : x <= y
<1>1. PICK x \in S : \A y \in S : <<y, x>> \notin OpToRel(<, Nat)
  BY NatLessThanWellFounded, WFMin, Zenon
<1>2. ASSUME NEW y \in S PROVE x <= y
  <2>1. SUFFICES ASSUME y < x PROVE FALSE
    OBVIOUS
  <2>2. <<y, x>> \in OpToRel(<, Nat)
    BY <2>1, Zenon DEF OpToRel
  <2> QED
    BY <1>1, <2>2, Zenon
<1> QED
  BY <1>2

Table(g, n) ==
  /\ g \in [0..n -> Nat \ {0}] /\ g[0] = 1
  /\ \A k \in 0..(n - 1) : g[k + 1] = 2 * g[k]

\* How a table of powers grows.
LEMMA TableStep ==
  ASSUME NEW n \in Nat, NEW g, Table(g, n), NEW k \in 0..(n - 1)
  PROVE  g[k + 1] = 2 * g[k]
BY DEF Table

\* There is a table of powers up to every number.
LEMMA TableExists == \A n \in Nat : \E g : Table(g, n)
<1> DEFINE T == {n \in Nat : ~ \E g : Table(g, n)}
<1> SUFFICES ASSUME T # {} PROVE FALSE
  BY Zenon
<1>1. PICK n \in T : \A y \in T : n <= y
  <2>1. T \in SUBSET Nat
    OBVIOUS
  <2> HIDE DEF T
  <2> QED
    BY <2>1, Smallest
<1>2. n \in Nat /\ ~ \E g : Table(g, n)
  OBVIOUS
<1>3. n # 0
  <2>1. Table([k \in 0..0 |-> 1], 0)
    BY DEF Table
  <2> QED
    BY <1>2, <2>1
<1>4. n - 1 \in Nat /\ n - 1 \notin T
  <2>1. n - 1 \in Nat /\ ~ (n <= n - 1)
    BY <1>2, <1>3
  <2> QED
    BY <1>1, <2>1, Zenon
<1>5. PICK g : Table(g, n - 1)
  BY <1>4
<1> DEFINE h == [k \in 0..n |-> IF k = n THEN 2 * g[n - 1] ELSE g[k]]
<1>6. Table(h, n)
  <2>1. /\ g \in [0..(n - 1) -> Nat \ {0}] /\ g[0] = 1
        /\ \A k \in 0..(n - 2) : g[k + 1] = 2 * g[k]
    BY <1>4, <1>5 DEF Table
  <2>2. g[n - 1] \in Nat \ {0}
    BY <1>4, <2>1
  <2>3. h \in [0..n -> Nat \ {0}] /\ h[0] = 1
    BY <1>2, <1>3, <2>1, <2>2
  <2>4. ASSUME NEW k \in 0..(n - 1) PROVE h[k + 1] = 2 * h[k]
    <3>1. CASE k = n - 1
      BY <1>2, <3>1
    <3>2. CASE k # n - 1
      <4>1. k \in 0..(n - 2) /\ k # n /\ k + 1 # n /\ k \in 0..n /\ k + 1 \in 0..n
        BY <1>2, <3>2
      <4> QED
        BY <2>1, <4>1
    <3> QED
      BY <3>1, <3>2
  <2> QED
    BY <2>3, <2>4 DEF Table
<1> QED
  BY <1>2, <1>6

\* Two tables agree where both are defined.
LEMMA TablesAgree ==
  ASSUME NEW n \in Nat, NEW g, NEW h, Table(g, n), Table(h, n + 1)
  PROVE  g[n] = h[n]
<1> DEFINE T == {k \in 0..n : g[k] # h[k]}
<1> SUFFICES ASSUME T # {} PROVE FALSE
  OBVIOUS
<1>1. PICK k \in T : \A y \in T : k <= y
  <2>1. T \in SUBSET Nat
    OBVIOUS
  <2> HIDE DEF T
  <2> QED
    BY <2>1, Smallest
<1>2. k \in 0..n /\ g[k] # h[k]
  OBVIOUS
<1>3. k # 0
  BY <1>2 DEF Table
<1>4. k - 1 \in 0..n /\ k - 1 \notin T
  <2>1. k - 1 \in 0..n /\ ~ (k <= k - 1)
    BY <1>2, <1>3
  <2> QED
    BY <1>1, <2>1, Zenon
<1>5. g[k - 1] = h[k - 1]
  BY <1>4
<1> DEFINE j == k - 1
<1>6. j \in 0..(n - 1) /\ j \in 0..((n + 1) - 1) /\ j + 1 = k /\ n + 1 \in Nat
  BY <1>2, <1>3
<1>7. g[j] = h[j]
  BY <1>5
<1> HIDE DEF j
<1>8. g[j + 1] = 2 * g[j] /\ h[j + 1] = 2 * h[j]
  BY <1>6, TableStep
<1> QED
  BY <1>2, <1>6, <1>7, <1>8

\* Pow2 is what its definition says.
LEMMA PowFacts ==
  /\ Pow2[0] = 1
  /\ \A k \in Nat : Pow2[k] \in Nat \ {0} /\ Pow2[k + 1] = 2 * Pow2[k]
<1> DEFINE t == [n \in Nat |-> CHOOSE g : Table(g, n)]
           f == [n \in Nat |-> t[n][n]]
           D(F) == F = [k \in Nat |-> IF k = 0 THEN 1 ELSE 2 * F[k - 1]]
<1>1. \A n \in Nat : Table(t[n], n)
  BY TableExists
<1> HIDE DEF t
<1>2. \A n \in Nat : f[n] \in Nat \ {0}
  BY <1>1 DEF Table
<1>3. f[0] = 1
  BY <1>1 DEF Table
<1>4. \A n \in Nat : f[n + 1] = 2 * f[n]
  <2> SUFFICES ASSUME NEW n \in Nat PROVE f[n + 1] = 2 * f[n]
    OBVIOUS
  <2>1. Table(t[n], n) /\ Table(t[n + 1], n + 1) /\ n + 1 \in Nat
    BY <1>1
  <2>2. t[n][n] = t[n + 1][n]
    BY <2>1, TablesAgree
  <2>3. n \in 0..((n + 1) - 1)
    OBVIOUS
  <2>4. t[n + 1][n + 1] = 2 * t[n + 1][n]
    BY <2>1, <2>3, TableStep
  <2> QED
    BY <2>1, <2>2, <2>4
<1>5. f = [k \in Nat |-> f[k]]
  OBVIOUS
<1> HIDE DEF f
<1>6. \A k \in Nat : f[k] = IF k = 0 THEN 1 ELSE 2 * f[k - 1]
  <2> SUFFICES ASSUME NEW k \in Nat PROVE f[k] = IF k = 0 THEN 1 ELSE 2 * f[k - 1]
    OBVIOUS
  <2>1. CASE k = 0
    BY <1>3, <2>1
  <2>2. CASE k # 0
    <3>1. k - 1 \in Nat /\ (k - 1) + 1 = k
      BY <2>2
    <3> QED
      BY <1>4, <2>2, <3>1
  <2> QED
    BY <2>1, <2>2
<1>7. D(f)
  BY <1>5, <1>6
<1>8. Pow2 = CHOOSE F : D(F)
  BY DEF Pow2
<1>9. D(Pow2)
  <2> HIDE DEF D
  <2> QED
    BY <1>7, <1>8, Zenon
<1>10. \A k \in Nat : Pow2[k] = IF k = 0 THEN 1 ELSE 2 * Pow2[k - 1]
  BY <1>9
<1>11. \A k \in Nat : Pow2[k + 1] = 2 * Pow2[k]
  <2> SUFFICES ASSUME NEW k \in Nat PROVE Pow2[k + 1] = 2 * Pow2[k]
    OBVIOUS
  <2>1. k + 1 \in Nat /\ k + 1 # 0 /\ (k + 1) - 1 = k
    OBVIOUS
  <2> QED
    BY <1>10, <2>1
<1>12. Pow2[0] = 1
  BY <1>10
<1>13. \A k \in Nat : Pow2[k] \in Nat \ {0}
  <2> DEFINE T == {k \in Nat : Pow2[k] \notin Nat \ {0}}
  <2> SUFFICES ASSUME T # {} PROVE FALSE
    OBVIOUS
  <2>1. PICK k \in T : \A y \in T : k <= y
    <3>1. T \in SUBSET Nat
      OBVIOUS
    <3> HIDE DEF T
    <3> QED
      BY <3>1, Smallest
  <2>2. k \in Nat /\ Pow2[k] \notin Nat \ {0} /\ k # 0
    BY <1>12
  <2>3. k - 1 \in Nat /\ k - 1 \notin T /\ (k - 1) + 1 = k
    BY <2>1, <2>2
  <2>4. Pow2[k - 1] \in Nat \ {0} /\ Pow2[k] = 2 * Pow2[k - 1]
    BY <1>11, <2>3
  <2> QED
    BY <2>2, <2>4
<1> QED
  BY <1>11, <1>12, <1>13

\* A smaller power of two divides a greater one.
LEMMA PowDivides ==
  ASSUME NEW j \in Nat, NEW k \in Nat, j <= k
  PROVE  \E c \in Nat \ {0} : Pow2[k] = c * Pow2[j]
<1> DEFINE T == {n \in Nat : j <= n /\ ~ \E c \in Nat \ {0} : Pow2[n] = c * Pow2[j]}
<1>0. T = {} => \E c \in Nat \ {0} : Pow2[k] = c * Pow2[j]
  BY Zenon
<1> SUFFICES ASSUME T # {} PROVE FALSE
  BY <1>0
<1>1. PICK n \in T : \A y \in T : n <= y
  <2>1. T \in SUBSET Nat
    OBVIOUS
  <2> HIDE DEF T
  <2> QED
    BY <2>1, Smallest
<1>2. n \in Nat /\ j <= n /\ ~ \E c \in Nat \ {0} : Pow2[n] = c * Pow2[j]
  OBVIOUS
<1>3. n # j
  <2>1. Pow2[j] = 1 * Pow2[j] /\ 1 \in Nat \ {0}
    BY PowFacts
  <2> QED
    BY <1>2, <2>1, Zenon
<1>4. n - 1 \in Nat /\ j <= n - 1 /\ (n - 1) + 1 = n /\ ~ (n <= n - 1)
  BY <1>2, <1>3
<1>5. n - 1 \notin T
  BY <1>1, <1>4, Zenon
<1>6. PICK c \in Nat \ {0} : Pow2[n - 1] = c * Pow2[j]
  BY <1>4, <1>5
<1>7. Pow2[n] = 2 * Pow2[n - 1]
  BY <1>4, PowFacts
<1>8. Pow2[n] = (2 * c) * Pow2[j] /\ 2 * c \in Nat \ {0}
  BY <1>6, <1>7, PowFacts
<1> QED
  BY <1>2, <1>8, Zenon

\* A power of two divides every greater one.
LEMMA PowOrder ==
  ASSUME NEW j \in Nat, NEW k \in Nat, Pow2[j] <= Pow2[k]
  PROVE  Divides(Pow2[j], Pow2[k])
<1>1. j <= k
  <2> SUFFICES ASSUME k + 1 <= j PROVE FALSE
    OBVIOUS
  <2>1. PICK c \in Nat \ {0} : Pow2[j] = c * Pow2[k + 1]
    BY PowDivides
  <2>2. Pow2[k + 1] = 2 * Pow2[k] /\ Pow2[k] \in Nat \ {0} /\ Pow2[j] \in Nat
    BY PowFacts
  <2> DEFINE p == Pow2[k]
             q == Pow2[j]
  <2>3. q = c * (2 * p) /\ p \in Nat \ {0} /\ q \in Nat /\ q <= p
    BY <2>1, <2>2
  <2> HIDE DEF p, q
  <2>4. c * (2 * p) >= 2 * p
    BY <2>3
  <2> QED
    BY <2>3, <2>4
<1>2. PICK c \in Nat \ {0} : Pow2[k] = c * Pow2[j]
  BY <1>1, PowDivides
<1> QED
  BY <1>2, PowFacts DEF Divides

-----------------------------------------------------------------------------
(***************************************************************************)
(* Bits.                                                                    *)
(***************************************************************************)
\* A number whose lowest bits are zero is a multiple.
LEMMA LowBitsZero ==
  ASSUME NEW n \in Nat, NEW m \in Nat, \A k \in 0..(m - 1) : Bit(n, k) = 0
  PROVE  Divides(Pow2[m], n)
<1> DEFINE T == {k \in 0..m : ~ Divides(Pow2[k], n)}
<1> SUFFICES ASSUME T # {} PROVE FALSE
  OBVIOUS
<1>1. PICK k \in T : \A y \in T : k <= y
  <2>1. T \in SUBSET Nat
    OBVIOUS
  <2> HIDE DEF T
  <2> QED
    BY <2>1, Smallest
<1>2. k \in 0..m /\ ~ Divides(Pow2[k], n)
  OBVIOUS
<1>3. k # 0
  <2>1. n = n * 1
    OBVIOUS
  <2>2. Divides(Pow2[0], n)
    BY <2>1, PowFacts DEF Divides
  <2> QED
    BY <1>2, <2>2
<1> DEFINE j == k - 1
<1>4. j \in 0..m /\ j \in 0..(m - 1) /\ j \in Nat /\ j + 1 = k /\ ~ (k <= j)
  BY <1>2, <1>3
<1>5. j \notin T
  BY <1>1, <1>4, Zenon
<1>6. Divides(Pow2[j], n)
  BY <1>4, <1>5
<1> HIDE DEF j, T
<1> DEFINE p == Pow2[j]
<1>7. p \in Nat \ {0} /\ Pow2[k] = 2 * p
  BY <1>4, PowFacts
<1>8. PICK q \in Int : n = q * p
  BY <1>6 DEF Divides
<1>9. (n \div p) % 2 = 0
  BY <1>4 DEF Bit
<1> HIDE DEF p
<1>10. n \div p = q
  BY <1>7, <1>8
<1>11. PICK r \in Int : q = r * 2
  BY <1>9, <1>10
<1>12. n = r * (2 * p)
  BY <1>7, <1>8, <1>11
<1> QED
  BY <1>2, <1>7, <1>12, Zenon DEF Divides

\* What sub_ref_check compares an alignment with is a power of two that divides
\* both the outer alignment and the offset.
LEMMA LowestBit ==
  ASSUME NEW i \in 0..(Width - 1), NEW b \in Nat
  PROVE  \E m \in Nat : /\ LowestBitOfOr(Pow2[i], b) = Pow2[m]
                        /\ Divides(Pow2[m], Pow2[i]) /\ Divides(Pow2[m], b)
<1> DEFINE a == Pow2[i]
           S == {k \in 0..(Width - 1) : Bit(a, k) = 1 \/ Bit(b, k) = 1}
           m == Min(S)
<1>0. Width \in Nat \ {0} /\ a \in Nat \ {0}
  BY WidthAssumption, PowFacts
<1>1. i \in S
  <2>1. a \div a = 1
    BY <1>0
  <2> QED
    BY <2>1 DEF Bit
<1>2. m \in S /\ \A y \in S : m <= y
  <2>1. S \in SUBSET Nat
    BY <1>0
  <2> HIDE DEF S
  <2>2. \E x \in S : \A y \in S : x <= y
    BY <1>1, <2>1, Smallest
  <2> QED
    BY <2>2, Zenon DEF Min
<1>3. m \in 0..(Width - 1)
  BY <1>2
<1> HIDE DEF m
<1>4. \A k \in 0..(m - 1) : Bit(a, k) = 0 /\ Bit(b, k) = 0
  <2> SUFFICES ASSUME NEW k \in 0..(m - 1) PROVE Bit(a, k) = 0 /\ Bit(b, k) = 0
    OBVIOUS
  <2>1. k \in 0..(Width - 1) /\ ~ (m <= k) /\ k \in Nat
    BY <1>0, <1>3
  <2>2. k \notin S
    BY <1>2, <2>1, Zenon
  <2>3. Bit(a, k) # 1 /\ Bit(b, k) # 1
    BY <2>1, <2>2
  <2> DEFINE x == a \div Pow2[k]
             y == b \div Pow2[k]
  <2>4. x \in Int /\ y \in Int
    BY <1>0, <2>1, PowFacts
  <2>5. Bit(a, k) = x % 2 /\ Bit(b, k) = y % 2
    BY DEF Bit
  <2> HIDE DEF x, y, a
  <2> QED
    BY <2>3, <2>4, <2>5
<1>5. Divides(Pow2[m], a) /\ Divides(Pow2[m], b)
  BY <1>0, <1>3, <1>4, LowBitsZero
<1>6. LowestBitOfOr(a, b) = Pow2[m]
  BY DEF LowestBitOfOr, m
<1> QED
  BY <1>3, <1>5, <1>6

-----------------------------------------------------------------------------
(***************************************************************************)
(* Addresses, types and the inductive invariant.                            *)
(***************************************************************************)
LEMMA AddressFacts ==
  /\ AddrSpace \in Nat /\ AddrSpace >= 2 /\ UsizeMax = AddrSpace - 1
  /\ IsizeMax \in Nat /\ IsizeMax < UsizeMax
<1> DEFINE p == Pow2[Width - 1]
<1>1. Width - 1 \in Nat /\ Width - 1 + 1 = Width
  BY WidthAssumption
<1>2. p \in Nat \ {0} /\ AddrSpace = 2 * p
  BY <1>1, PowFacts DEF AddrSpace
<1>3. UsizeMax = AddrSpace - 1 /\ IsizeMax = p - 1
  BY DEF UsizeMax, IsizeMax
<1> HIDE DEF p
<1> QED
  BY <1>2, <1>3

\* What TypesAssumption says of one type.
LEMMA TypeFacts ==
  ASSUME NEW t \in Types
  PROVE  /\ t.size \in 0..IsizeMax /\ t.align \in Nat \ {0} /\ t.size % t.align = 0
         /\ \E i \in 0..(Width - 1) : t.align = Pow2[i]
<1>1. IsType(t)
  BY TypesAssumption
<1>2. PICK i \in 0..(Width - 1) : t.align = Pow2[i]
  BY <1>1 DEF IsType
<1>3. i \in Nat
  BY WidthAssumption
<1> QED
  BY <1>1, <1>2, <1>3, PowFacts DEF IsType

\* Wrapping gives an address, changes none, and keeps alignment.
LEMMA WrapFacts ==
  ASSUME NEW n \in Nat
  PROVE  /\ Wrap(n) \in Addresses
         /\ n <= UsizeMax => Wrap(n) = n
         /\ \A t \in Types : IsAligned(n, t) => IsAligned(Wrap(n), t)
<1>1. AddrSpace \in Nat \ {0} /\ UsizeMax = AddrSpace - 1
  BY AddressFacts
<1>2. Wrap(n) \in Addresses /\ (n <= UsizeMax => Wrap(n) = n)
  BY <1>1 DEF Wrap, Addresses
<1>3. ASSUME NEW t \in Types, IsAligned(n, t) PROVE IsAligned(Wrap(n), t)
  <2>1. PICK i \in 0..(Width - 1) : t.align = Pow2[i]
    BY TypeFacts
  <2>2. t.align \in Nat \ {0}
    BY TypeFacts
  <2>3. i \in Nat /\ Width \in Nat /\ i <= Width
    BY WidthAssumption
  <2>4. PICK c \in Nat \ {0} : AddrSpace = c * t.align
    BY <2>1, <2>3, PowDivides DEF AddrSpace
  <2>5. Divides(t.align, AddrSpace)
    BY <2>4 DEF Divides
  <2>6. Divides(t.align, n)
    BY <1>3, <2>2, DividesMeans DEF IsAligned
  <2>7. Divides(t.align, n % AddrSpace)
    BY <1>1, <2>2, <2>5, <2>6, DividesRemainder
  <2>8. n % AddrSpace \in Int
    BY <1>1
  <2> QED
    BY <2>2, <2>7, <2>8, DividesMeans DEF Wrap, IsAligned
<1> QED
  BY <1>2, <1>3

References ==
  [kind : {"ref", "slice"}, ptr : Addresses, type : Types, len : Addresses, mutable : BOOLEAN]

RefOK(r) ==
  /\ r \in References
  /\ IsAligned(r.ptr, r.type)
  /\ r.kind = "ref" => r.len = 1

Bounded(r) == Tracks(r.ptr, r.len * r.type.size, r.mutable)

BlocksOK == \A b \in blocks : IsBlock(b) /\ b.mutable \in BOOLEAN

IterOK ==
  /\ iter \in [over : References, idx : Addresses, given : Seq(Addresses), ended : BOOLEAN]
  /\ RefOK(iter.over) /\ iter.over.kind = "slice"
  /\ iter.idx <= iter.over.len /\ Len(iter.given) = iter.idx
  /\ iter.ended => iter.idx = iter.over.len

IterBounded ==
  /\ Bounded(iter.over)
  /\ \A i \in 1..Len(iter.given) :
       iter.given[i] = iter.over.ptr + (i - 1) * iter.over.type.size

Inv ==
  /\ BlocksOK
  /\ ref = NoRef \/ RefOK(ref)
  /\ iter = NoIter \/ IterOK
  /\ OverflowChecks => /\ ref # NoRef => Bounded(ref)
                       /\ iter # NoIter => IterBounded

\* The parts of a reference have their types.
LEMMA RefFacts ==
  ASSUME NEW r, RefOK(r)
  PROVE  /\ r # NoRef
         /\ r.ptr \in Nat /\ r.ptr \in Addresses /\ r.len \in Nat /\ r.len \in Addresses
         /\ r.type \in Types /\ r.type.size \in Nat /\ r.type.align \in Nat \ {0}
         /\ r.mutable \in BOOLEAN
<1>1. r \in References
  BY DEF RefOK
<1>2. /\ r.kind \in {"ref", "slice"} /\ r.ptr \in Addresses /\ r.type \in Types
      /\ r.len \in Addresses /\ r.mutable \in BOOLEAN
  BY <1>1 DEF References
<1>3. r.ptr \in Nat /\ r.len \in Nat
  BY <1>2, AddressFacts DEF Addresses
<1>4. r.type.size \in Nat /\ r.type.align \in Nat \ {0}
  BY <1>2, TypeFacts, AddressFacts
<1>5. r # NoRef
  BY <1>2 DEF NoRef
<1> QED
  BY <1>2, <1>3, <1>4, <1>5

\* A part of what lies in a block lies in it.
LEMMA TracksPart ==
  ASSUME BlocksOK, NEW ptr \in Int, NEW size \in Int, NEW mutable, Tracks(ptr, size, mutable),
         NEW p \in Int, NEW n \in Int, ptr <= p, p + n <= ptr + size,
         NEW m, m => mutable
  PROVE  Tracks(p, n, m) /\ p + n <= UsizeMax
<1>1. PICK b \in blocks : /\ b.ptr <= ptr /\ ptr + size <= b.ptr + b.len
                          /\ mutable => b.mutable
  BY DEF Tracks
<1>2. b.ptr \in Int /\ b.len \in Int /\ b.ptr + b.len <= UsizeMax /\ UsizeMax \in Int
  BY AddressFacts DEF BlocksOK, IsBlock, Addresses
<1>3. b.ptr <= p /\ p + n <= b.ptr + b.len /\ p + n <= UsizeMax
  BY <1>1, <1>2
<1> QED
  BY <1>1, <1>3 DEF Tracks

\* An element of a slice.
LEMMA ElementFacts ==
  ASSUME BlocksOK, NEW s, RefOK(s), NEW idx \in Nat, idx < s.len
  PROVE  /\ RefOK(ElementAt(s, idx))
         /\ Bounded(s) => /\ Bounded(ElementAt(s, idx))
                          /\ ElementAt(s, idx).ptr = s.ptr + idx * s.type.size
<1> DEFINE size == s.type.size
           off == idx * size
           p == Wrap(s.ptr + off)
           e == ElementAt(s, idx)
<1>1. /\ s.ptr \in Nat /\ s.len \in Nat /\ s.type \in Types /\ s.mutable \in BOOLEAN
      /\ size \in Nat /\ s.type.align \in Nat \ {0}
  BY RefFacts
<1>2. off \in Nat /\ off + size <= s.len * size
  <2>1. s.len = idx + 1 + (s.len - (idx + 1)) /\ s.len - (idx + 1) \in Nat
    BY <1>1
  <2> DEFINE d == s.len - (idx + 1)
  <2>2. s.len * size = idx * size + size + d * size /\ d * size >= 0 /\ idx * size \in Nat
    <3>1. s.len = idx + 1 + d /\ d \in Nat
      BY <2>1
    <3> HIDE DEF d, size
    <3> QED
      BY <1>1, <3>1
  <2> HIDE DEF size
  <2>3. d * size \in Int /\ s.len * size \in Int
    BY <1>1, <2>1
  <2> QED
    BY <1>1, <2>2, <2>3
<1>3. e = [kind |-> "ref", ptr |-> p, type |-> s.type, len |-> 1, mutable |-> s.mutable]
  BY DEF ElementAt, Ref
<1>4. 1 \in Addresses
  BY AddressFacts DEF Addresses
<1>5. IsAligned(s.ptr + off, s.type)
  <2>1. s.ptr % s.type.align = 0 /\ size % s.type.align = 0
    BY <1>1, TypeFacts DEF RefOK, IsAligned
  <2>2. Divides(s.type.align, s.ptr) /\ Divides(s.type.align, size)
    BY <1>1, <2>1, DividesMeans
  <2>3. Divides(s.type.align, off)
    BY <1>1, <2>2, DividesMultiple
  <2> HIDE DEF off, size
  <2> DEFINE d == s.type.align
             a == s.ptr
  <2>4. d \in Int /\ a \in Int /\ off \in Int /\ a + off \in Int /\ Divides(d, a) /\ Divides(d, off)
    BY <1>1, <1>2, <2>2, <2>3
  <2> HIDE DEF d, a
  <2>5. Divides(d, a + off)
    BY <2>4, DividesSum
  <2>6. Divides(s.type.align, s.ptr + off) /\ s.ptr + off \in Int
    BY <2>4, <2>5 DEF d, a
  <2> QED
    BY <1>1, <2>6, DividesMeans DEF IsAligned
<1> HIDE DEF off, e, size
<1>6. s.ptr + off \in Nat
  BY <1>1, <1>2
<1>7. p \in Addresses /\ IsAligned(p, s.type) /\ (s.ptr + off <= UsizeMax => p = s.ptr + off)
  BY <1>1, <1>5, <1>6, WrapFacts
<1>8. RefOK(e)
  BY <1>1, <1>3, <1>4, <1>7 DEF RefOK, References
<1>9. ASSUME Bounded(s) PROVE Bounded(e) /\ e.ptr = s.ptr + off
  <2>1. Tracks(s.ptr, s.len * size, s.mutable)
    BY <1>9 DEF Bounded, size
  <2> DEFINE total == s.len * size
             q == s.ptr + off
  <2>2. total \in Int /\ off + size <= total /\ q \in Int /\ q = s.ptr + off
    BY <1>1, <1>2, <1>6
  <2>3. Tracks(s.ptr, total, s.mutable)
    BY <2>1
  <2> HIDE DEF total, q
  <2>4. s.ptr <= q /\ q + size <= s.ptr + total
    BY <1>1, <1>2, <2>2
  <2>5. Tracks(q, size, s.mutable) /\ q + size <= UsizeMax
    BY <1>1, <2>2, <2>3, <2>4, TracksPart
  <2>6. q <= UsizeMax
    BY <1>1, <2>2, <2>5, AddressFacts
  <2>7. p = q
    BY <1>7, <2>6 DEF q
  <2>8. 1 * size = size
    BY <1>1
  <2> QED
    BY <1>3, <2>2, <2>5, <2>7, <2>8 DEF Bounded, size
<1> QED
  BY <1>8, <1>9 DEF e, off, size

-----------------------------------------------------------------------------
(***************************************************************************)
(* The steps.                                                               *)
(***************************************************************************)
LEMMA InitInv == Init => Inv
BY BlocksAssumption DEF Init, Inv, BlocksOK

\* What makes a reference safe to follow.
Safe(new) == RefOK(new) /\ (OverflowChecks => Bounded(new))

\* Following another reference keeps the invariant, if it is safe.
LEMMA FollowInv ==
  ASSUME Inv, NEW new, new = NoRef \/ Safe(new), Follow(new), UNCHANGED blocks
  PROVE  Inv'
<1>1. ref' = new /\ iter' = NoIter /\ blocks' = blocks
  BY DEF Follow
<1>2. BlocksOK'
  BY <1>1 DEF Inv, BlocksOK
<1>3. ref' = NoRef \/ RefOK(ref')
  BY <1>1 DEF Safe
<1>4. OverflowChecks => (ref' # NoRef => Bounded(ref)')
  BY <1>1 DEF Safe, Bounded, Tracks
<1> QED
  BY <1>1, <1>2, <1>3, <1>4 DEF Inv, RefOK

\* What sub_ref_check accepts is aligned wherever the outer value is.
LEMMA SubRefAligned ==
  ASSUME NEW t \in Types, NEW u \in Types, NEW offset \in Nat, NEW ptr \in Nat,
         SubRefCheck(t, u, offset), IsAligned(ptr, t)
  PROVE  IsAligned(ptr + offset, u)
<1>1. PICK i \in 0..(Width - 1) : t.align = Pow2[i]
  BY TypeFacts
<1>2. PICK j \in 0..(Width - 1) : u.align = Pow2[j]
  BY TypeFacts
<1>3. PICK m \in Nat : /\ LowestBitOfOr(Pow2[i], offset) = Pow2[m]
                       /\ Divides(Pow2[m], Pow2[i]) /\ Divides(Pow2[m], offset)
  BY LowestBit
<1>4. j \in Nat /\ i \in Nat
  BY WidthAssumption
<1>5. Pow2[j] <= Pow2[m]
  BY <1>1, <1>2, <1>3 DEF SubRefCheck
<1> DEFINE a == Pow2[i]
           b == Pow2[j]
           c == Pow2[m]
<1>6. Divides(b, c)
  BY <1>4, <1>5, PowOrder
<1>7. a \in Nat \ {0} /\ b \in Nat \ {0} /\ c \in Nat \ {0}
  BY <1>4, PowFacts
<1>8. Divides(c, a) /\ Divides(c, offset) /\ ptr % a = 0
  BY <1>1, <1>3 DEF IsAligned
<1> HIDE DEF a, b, c
<1>9. Divides(a, ptr)
  BY <1>7, <1>8, DividesMeans
<1>10. Divides(b, a) /\ Divides(b, offset)
  BY <1>6, <1>7, <1>8, DividesTransitive
<1>11. Divides(b, ptr)
  BY <1>7, <1>9, <1>10, DividesTransitive
<1>12. Divides(b, ptr + offset)
  BY <1>7, <1>10, <1>11, DividesSum
<1>13. (ptr + offset) % b = 0
  BY <1>7, <1>12, DividesMeans
<1> QED
  BY <1>2, <1>13 DEF IsAligned, b

\* sub_ref makes an aligned reference, within bounds if its reference is.
LEMMA SubRefSafe ==
  ASSUME Inv, NEW u \in Types, NEW offset \in Addresses, SubRef(u, offset)
  PROVE  Safe(Ref(Wrap(ref.ptr + offset), u, ref.mutable))
<1>1. ref # NoRef /\ ref.kind = "ref" /\ SubRefCheck(ref.type, u, offset)
  BY DEF SubRef, NoRef
<1>2. RefOK(ref) /\ ref.len = 1
  BY <1>1 DEF Inv, RefOK
<1>3. /\ ref.ptr \in Nat /\ ref.type \in Types /\ ref.type.size \in Nat
      /\ ref.mutable \in BOOLEAN
  BY <1>2, RefFacts
<1>4. offset \in Nat /\ 1 \in Addresses
  BY AddressFacts DEF Addresses
<1>5. u.size \in Nat
  BY TypeFacts, AddressFacts
<1> DEFINE q == ref.ptr + offset
           p == Wrap(q)
           new == Ref(p, u, ref.mutable)
<1>6. q \in Nat /\ IsAligned(q, u)
  BY <1>1, <1>2, <1>3, <1>4, SubRefAligned DEF RefOK
<1>7. new = [kind |-> "ref", ptr |-> p, type |-> u, len |-> 1, mutable |-> ref.mutable]
  BY DEF Ref
<1>8. p \in Addresses /\ IsAligned(p, u) /\ (q <= UsizeMax => p = q)
  BY <1>6, WrapFacts
<1> HIDE DEF p, new
<1>9. RefOK(new)
  BY <1>3, <1>4, <1>7, <1>8 DEF RefOK, References
<1>10. ASSUME OverflowChecks PROVE Bounded(new)
  <2>1. Bounded(ref) /\ BlocksOK
    BY <1>1, <1>10 DEF Inv
  <2>2. 1 * ref.type.size = ref.type.size /\ 1 * u.size = u.size
    BY <1>3, <1>5
  <2>3. Tracks(ref.ptr, ref.type.size, ref.mutable)
    BY <1>2, <2>1, <2>2 DEF Bounded
  <2>4. offset + u.size <= ref.type.size
    BY <1>1 DEF SubRefCheck
  <2>5. ref.ptr <= q /\ q + u.size <= ref.ptr + ref.type.size
    BY <1>3, <1>4, <1>5, <2>4
  <2>6. /\ ref.ptr \in Int /\ ref.type.size \in Int /\ q \in Int /\ u.size \in Int
        /\ ref.mutable => ref.mutable
    BY <1>3, <1>5, <1>6
  <2> HIDE DEF q
  <2>7. Tracks(q, u.size, ref.mutable) /\ q + u.size <= UsizeMax
    BY <2>1, <2>3, <2>5, <2>6, TracksPart
  <2>8. p = q
    BY <1>5, <1>6, <1>8, <2>7, AddressFacts
  <2> QED
    BY <1>7, <2>2, <2>7, <2>8 DEF Bounded
<1> QED
  BY <1>9, <1>10 DEF Safe, new, p, q

\* as_immut makes a reference that is as good.
LEMMA AsImmutSafe ==
  ASSUME Inv, AsImmut
  PROVE  Safe([ref EXCEPT !.mutable = FALSE])
<1>1. ref # NoRef
  BY DEF AsImmut, NoRef
<1>2. RefOK(ref)
  BY <1>1 DEF Inv
<1> DEFINE new == [ref EXCEPT !.mutable = FALSE]
<1>3. /\ new \in References /\ new.ptr = ref.ptr /\ new.type = ref.type
      /\ new.len = ref.len /\ new.kind = ref.kind /\ new.mutable = FALSE
  BY <1>2 DEF RefOK, References
<1> HIDE DEF new
<1>4. RefOK(new)
  BY <1>2, <1>3 DEF RefOK
<1>5. OverflowChecks => Bounded(new)
  BY <1>1, <1>3 DEF Inv, Bounded, Tracks
<1> QED
  BY <1>4, <1>5 DEF Safe, new

\* The slice that covers an array is as good as the array's reference.
LEMMA AsSliceSafe ==
  ASSUME Inv, NEW t \in Types, NEW n \in Addresses, AsSlice(t, n)
  PROVE  Safe(Slice(ref.ptr, t, n, ref.mutable))
<1>1. ref # NoRef /\ ref.kind = "ref" /\ ref.type = ArrayOf(t, n)
  BY DEF AsSlice, NoRef
<1>2. RefOK(ref) /\ ref.len = 1
  BY <1>1 DEF Inv, RefOK
<1>3. ref.ptr \in Addresses /\ ref.mutable \in BOOLEAN /\ ref.type.size \in Nat
  BY <1>2, RefFacts
<1>4. ref.type.align = t.align /\ ref.type.size = n * t.size
  BY <1>1 DEF ArrayOf
<1> DEFINE new == Slice(ref.ptr, t, n, ref.mutable)
<1>5. new = [kind |-> "slice", ptr |-> ref.ptr, type |-> t, len |-> n, mutable |-> ref.mutable]
  BY DEF Slice
<1> HIDE DEF new
<1>6. RefOK(new)
  BY <1>2, <1>3, <1>4, <1>5 DEF RefOK, References, IsAligned
<1>7. ASSUME OverflowChecks PROVE Bounded(new)
  <2>1. Tracks(ref.ptr, 1 * ref.type.size, ref.mutable)
    BY <1>1, <1>2, <1>7 DEF Inv, Bounded
  <2>2. 1 * ref.type.size = ref.type.size
    BY <1>3
  <2>3. Tracks(ref.ptr, n * t.size, ref.mutable)
    BY <1>4, <2>1, <2>2
  <2> QED
    BY <1>5, <2>3 DEF Bounded
<1> QED
  BY <1>6, <1>7 DEF Safe, new

\* An element of a slice is aligned, and within bounds if the slice is.
LEMMA GetSafe ==
  ASSUME Inv, NEW idx \in Addresses, Get(idx)
  PROVE  Safe(ElementAt(ref, idx))
<1>1. ref # NoRef /\ idx < ref.len /\ idx \in Nat
  BY AddressFacts DEF Get, NoRef, Addresses
<1>2. RefOK(ref) /\ BlocksOK /\ (OverflowChecks => Bounded(ref))
  BY <1>1 DEF Inv
<1> QED
  BY <1>1, <1>2, ElementFacts DEF Safe

\* upgrade_from_ptr: what passes the checks is a safe reference.
LEMMA UpgradeOneSafe ==
  ASSUME NEW ptr \in Addresses, NEW t \in Types, NEW m \in BOOLEAN,
         IsAligned(ptr, t), Tracks(ptr, t.size, m)
  PROVE  Safe(Ref(ptr, t, m))
<1>1. 1 \in Addresses /\ t.size \in Nat
  BY AddressFacts, TypeFacts DEF Addresses
<1>2. 1 * t.size = t.size
  BY <1>1
<1> DEFINE new == Ref(ptr, t, m)
<1>3. new = [kind |-> "ref", ptr |-> ptr, type |-> t, len |-> 1, mutable |-> m]
  BY DEF Ref
<1> HIDE DEF new
<1>4. RefOK(new)
  BY <1>1, <1>3 DEF RefOK, References
<1>5. Bounded(new)
  BY <1>2, <1>3 DEF Bounded
<1> QED
  BY <1>4, <1>5 DEF Safe, new

\* An upgrade that passes its checks makes an aligned reference, and with
\* overflow checks one within bounds.
LEMMA UpgradeSomeSafe ==
  ASSUME NEW ptr \in Addresses, NEW t \in Types, NEW len \in Lengths, NEW m \in BOOLEAN,
         IsAligned(ptr, t), Evaluates(t, len), Tracks(ptr, ByteLength(t, len), m)
  PROVE  Safe(Slice(ptr, t, len, m))
<1>1. len \in Addresses /\ len \in Nat /\ t.size \in Nat
  BY LengthsAssumption, AddressFacts, TypeFacts DEF Addresses
<1>2. len * t.size \in Nat
  BY <1>1
<1> DEFINE new == Slice(ptr, t, len, m)
<1>3. new = [kind |-> "slice", ptr |-> ptr, type |-> t, len |-> len, mutable |-> m]
  BY DEF Slice
<1> HIDE DEF new
<1>4. RefOK(new)
  BY <1>1, <1>3 DEF RefOK, References
<1>5. ASSUME OverflowChecks PROVE Bounded(new)
  <2> DEFINE total == len * t.size
  <2>1. ~ (total > UsizeMax) /\ total \in Nat
    BY <1>2, <1>5 DEF Evaluates, Overflows
  <2>2. ByteLength(t, len) = Wrap(total)
    BY DEF ByteLength
  <2> HIDE DEF total
  <2>3. Wrap(total) = total
    BY <2>1, WrapFacts, AddressFacts
  <2>4. Tracks(ptr, total, m)
    BY <2>2, <2>3
  <2> QED
    BY <1>3, <2>4 DEF Bounded, total
<1> QED
  BY <1>4, <1>5 DEF Safe, new

\* The allocators' memory becomes a block, and the reference covers it.
LEMMA AllocateInv ==
  ASSUME Inv, NEW size \in Nat, NEW t \in Types, NEW p \in Places(size, t.align),
         size <= IsizeMax, Track(p, size), NEW new, new \in References,
         new.ptr = p, new.type = t, new.mutable = TRUE, new.len * t.size = size,
         new.kind = "ref" => new.len = 1, Follow(new)
  PROVE  Inv'
<1> DEFINE b == [ptr |-> p, len |-> size, mutable |-> TRUE]
<1>1. ref' = new /\ iter' = NoIter /\ blocks' = blocks \union {b}
  BY DEF Follow, Track
<1>2. p \in Addresses \ {0} /\ p % t.align = 0 /\ p + size <= UsizeMax
  BY DEF Places
<1>3. IsBlock(b) /\ b.mutable \in BOOLEAN
  BY <1>2, AddressFacts DEF IsBlock
<1>4. BlocksOK'
  BY <1>1, <1>3 DEF Inv, BlocksOK
<1>5. RefOK(new)
  BY <1>2 DEF RefOK, IsAligned
<1>6. Bounded(ref)'
  <2>1. p \in Int /\ p + size \in Int
    BY <1>2, AddressFacts DEF Addresses
  <2>2. b \in blocks' /\ b.ptr = p /\ b.ptr + b.len = p + size /\ b.mutable = TRUE
    BY <1>1
  <2> HIDE DEF b
  <2>3. \E x \in blocks' : x.ptr <= p /\ p + size <= x.ptr + x.len /\ (TRUE => x.mutable)
    BY <2>1, <2>2
  <2> QED
    BY <1>1, <2>3 DEF Bounded, Tracks
<1> QED
  BY <1>1, <1>4, <1>5, <1>6 DEF Inv

\* Allocating one T keeps the invariant.
LEMMA AllocateStackedTInv ==
  ASSUME Inv, NEW t \in Types, AllocateStackedT(t)
  PROVE  Inv'
<1>1. PICK p \in Places(t.size, t.align) : Track(p, t.size) /\ Follow(Ref(p, t, TRUE))
  BY DEF AllocateStackedT
<1>2. t.size \in Nat /\ t.size <= IsizeMax /\ 1 \in Addresses /\ 1 * t.size = t.size
  BY TypeFacts, AddressFacts DEF Addresses
<1>3. p \in Addresses
  BY DEF Places
<1> DEFINE new == Ref(p, t, TRUE)
<1>4. new = [kind |-> "ref", ptr |-> p, type |-> t, len |-> 1, mutable |-> TRUE]
  BY DEF Ref
<1>5. Track(p, t.size) /\ Follow(new)
  BY <1>1
<1> HIDE DEF new
<1>6. new \in References
  BY <1>2, <1>3, <1>4 DEF References
<1> QED
  BY <1>2, <1>4, <1>5, <1>6, AllocateInv

\* Allocating a slice keeps the invariant.
LEMMA AllocateStackedSliceInv ==
  ASSUME Inv, NEW t \in Types, NEW len \in Lengths, AllocateStackedSlice(t, len)
  PROVE  Inv'
<1> DEFINE size == len * t.size
<1>1. PICK p \in Places(size, t.align) : Track(p, size) /\ Follow(Slice(p, t, len, TRUE))
  BY DEF AllocateStackedSlice
<1>2. t.size \in Nat /\ t.align \in Nat \ {0} /\ len \in Addresses /\ len \in Nat
  BY TypeFacts, LengthsAssumption, AddressFacts DEF Addresses
<1>3. size \in Nat /\ size <= IsizeMax - (t.align - 1)
  BY <1>2 DEF AllocateStackedSlice, LayoutExists
<1>4. p \in Addresses
  BY DEF Places
<1> DEFINE new == Slice(p, t, len, TRUE)
<1>5. new = [kind |-> "slice", ptr |-> p, type |-> t, len |-> len, mutable |-> TRUE]
  BY DEF Slice
<1>6. Track(p, size) /\ Follow(new)
  BY <1>1
<1> HIDE DEF new
<1>7. new.len * t.size = size
  BY <1>5
<1> HIDE DEF size
<1>8. size <= IsizeMax
  BY <1>2, <1>3, AddressFacts
<1>9. new \in References
  BY <1>2, <1>4, <1>5 DEF References
<1> QED
  BY <1>3, <1>5, <1>6, <1>7, <1>8, <1>9, AllocateInv

-----------------------------------------------------------------------------
(***************************************************************************)
(* The iterator.                                                            *)
(***************************************************************************)
LEMMA StartIterInv ==
  ASSUME Inv, StartIter
  PROVE  Inv'
<1>1. /\ ref # NoRef /\ ref.kind = "slice" /\ UNCHANGED <<blocks, ref>>
      /\ iter' = [over |-> ref, idx |-> 0, given |-> <<>>, ended |-> FALSE]
  BY DEF StartIter, NoRef
<1>2. RefOK(ref) /\ ref \in References
  BY <1>1 DEF Inv, RefOK
<1>3. ref.len \in Nat /\ 0 \in Addresses
  BY <1>2, RefFacts, AddressFacts DEF Addresses
<1>4. /\ iter' \in [over : References, idx : Addresses, given : Seq(Addresses), ended : BOOLEAN]
      /\ iter'.over = ref /\ iter'.idx = 0 /\ iter'.ended = FALSE
      /\ iter'.given = <<>> /\ Len(iter'.given) = 0
  BY <1>1, <1>2, <1>3
<1>5. IterOK'
  BY <1>1, <1>2, <1>3, <1>4 DEF IterOK, RefOK
<1>6. Bounded(ref) => IterBounded'
  BY <1>1, <1>4 DEF IterBounded, Bounded, Tracks
<1> QED
  BY <1>1, <1>5, <1>6 DEF Inv, BlocksOK, RefOK, Bounded, Tracks

\* next() that gives an element keeps the invariant: it is the one at idx.
LEMMA IterNextInv ==
  ASSUME Inv, IterNext
  PROVE  Inv'
<1> DEFINE s == iter.over
           i == iter.idx
           e == ElementAt(s, i)
<1>1. /\ iter # NoIter /\ i < s.len /\ ref' = e /\ blocks' = blocks
      /\ iter' = [iter EXCEPT !.idx = Wrap(i + 1), !.given = Append(iter.given, e.ptr)]
  BY DEF IterNext
<1>2. IterOK /\ BlocksOK
  BY <1>1 DEF Inv
<1>3. /\ iter \in [over : References, idx : Addresses, given : Seq(Addresses), ended : BOOLEAN]
      /\ RefOK(s) /\ s.kind = "slice" /\ Len(iter.given) = i /\ ~ iter.ended
  <2>1. iter.ended => i = s.len
    BY <1>2 DEF IterOK
  <2>2. s.len \in Nat
    BY <1>2, RefFacts DEF IterOK
  <2> QED
    BY <1>1, <1>2, <2>1, <2>2 DEF IterOK
<1>4. i \in Nat /\ s.len \in Nat /\ s.len <= UsizeMax
  BY <1>3, RefFacts, AddressFacts DEF Addresses
<1>5. RefOK(e) /\ (Bounded(s) => Bounded(e) /\ e.ptr = s.ptr + i * s.type.size)
  BY <1>1, <1>2, <1>3, <1>4, ElementFacts
<1>6. e.ptr \in Addresses
  BY <1>5, RefFacts
<1> DEFINE given == Append(iter.given, e.ptr)
<1>7. Wrap(i + 1) = i + 1 /\ i + 1 \in Addresses
  <2>1. i + 1 \in Nat /\ i + 1 <= UsizeMax
    BY <1>1, <1>4, AddressFacts
  <2> QED
    BY <2>1, WrapFacts
<1>8. iter.given \in Seq(Addresses)
  BY <1>3
<1>9. /\ given \in Seq(Addresses) /\ Len(given) = i + 1 /\ given[i + 1] = e.ptr
      /\ \A k \in 1..i : given[k] = iter.given[k]
  BY <1>3, <1>6, <1>8, AppendProperties
<1> HIDE DEF e, given
<1>10. /\ iter' \in [over : References, idx : Addresses, given : Seq(Addresses), ended : BOOLEAN]
       /\ iter'.over = s /\ iter'.idx = i + 1 /\ iter'.given = given /\ iter'.ended = iter.ended
  BY <1>1, <1>3, <1>7, <1>9 DEF given
<1> HIDE DEF s, i
<1>11. IterOK'
  BY <1>1, <1>3, <1>4, <1>9, <1>10 DEF IterOK, RefOK
<1>12. ASSUME OverflowChecks PROVE Bounded(ref)' /\ IterBounded'
  <2>1. IterBounded
    BY <1>1, <1>12 DEF Inv
  <2>2. Bounded(s) /\ Bounded(e) /\ e.ptr = s.ptr + i * s.type.size
    BY <1>5, <2>1 DEF IterBounded, s
  <2>3. \A k \in 1..i : iter.given[k] = s.ptr + (k - 1) * s.type.size
    BY <1>3, <2>1 DEF IterBounded, s
  <2>4. \A k \in 1..(i + 1) : given[k] = s.ptr + (k - 1) * s.type.size
    <3> SUFFICES ASSUME NEW k \in 1..(i + 1)
                 PROVE  given[k] = s.ptr + (k - 1) * s.type.size
      OBVIOUS
    <3>1. CASE k = i + 1
      <4>1. (i + 1) - 1 = i
        BY <1>4
      <4> QED
        BY <1>9, <2>2, <3>1, <4>1
    <3>2. CASE k # i + 1
      <4>1. k \in 1..i
        BY <1>4, <3>2
      <4> QED
        BY <1>9, <2>3, <4>1
    <3> QED
      BY <3>1, <3>2
  <2>5. Bounded(iter.over)' /\ Bounded(ref)'
    <3>1. Tracks(s.ptr, s.len * s.type.size, s.mutable) /\ Tracks(e.ptr, e.len * e.type.size, e.mutable)
      BY <2>2 DEF Bounded
    <3>2. /\ \E b \in blocks : /\ b.ptr <= s.ptr /\ s.ptr + s.len * s.type.size <= b.ptr + b.len
                               /\ s.mutable => b.mutable
          /\ \E b \in blocks : /\ b.ptr <= e.ptr /\ e.ptr + e.len * e.type.size <= b.ptr + b.len
                               /\ e.mutable => b.mutable
      BY <3>1 DEF Tracks
    <3> QED
      BY <1>1, <1>10, <3>2 DEF Bounded, Tracks
  <2>6. \A k \in 1..Len(iter'.given) :
          iter'.given[k] = iter'.over.ptr + (k - 1) * iter'.over.type.size
    BY <1>9, <1>10, <2>4
  <2> QED
    BY <2>5, <2>6 DEF IterBounded
<1>13. BlocksOK' /\ RefOK(ref')
  BY <1>1, <1>2, <1>5 DEF BlocksOK
<1> QED
  BY <1>11, <1>12, <1>13 DEF Inv, RefOK

\* None: nothing has moved.
LEMMA IterNextNoneInv ==
  ASSUME Inv, IterNextNone
  PROVE  Inv'
<1>1. /\ iter # NoIter /\ iter.idx >= iter.over.len /\ UNCHANGED <<blocks, ref>>
      /\ iter' = [iter EXCEPT !.ended = TRUE]
  BY DEF IterNextNone
<1>2. IterOK
  BY <1>1 DEF Inv
<1>3. iter.idx = iter.over.len
  <2>1. iter.over.len \in Nat /\ iter.idx \in Nat
    BY <1>2, RefFacts, AddressFacts DEF IterOK, Addresses
  <2> QED
    BY <1>1, <1>2, <2>1 DEF IterOK
<1>4. /\ iter' \in [over : References, idx : Addresses, given : Seq(Addresses), ended : BOOLEAN]
      /\ iter'.over = iter.over /\ iter'.idx = iter.idx /\ iter'.given = iter.given
  BY <1>1, <1>2 DEF IterOK
<1>5. IterOK'
  BY <1>2, <1>3, <1>4 DEF IterOK, RefOK
<1>6. IterBounded => IterBounded'
  BY <1>1, <1>4 DEF IterBounded, Bounded, Tracks
<1>7. Bounded(ref) => Bounded(ref)'
  BY <1>1 DEF Bounded, Tracks
<1> QED
  BY <1>1, <1>5, <1>6, <1>7 DEF Inv, BlocksOK, RefOK

-----------------------------------------------------------------------------
\* Every step keeps the invariant.
LEMMA NextInv == Inv /\ [Next]_vars => Inv'
<1> SUFFICES ASSUME Inv, [Next]_vars PROVE Inv'
  OBVIOUS
<1>1. ASSUME NEW t \in Types, AllocateStackedT(t) PROVE Inv'
  BY <1>1, AllocateStackedTInv
<1>2. ASSUME NEW t \in Types, NEW len \in Lengths, AllocateStackedSlice(t, len) PROVE Inv'
  BY <1>2, AllocateStackedSliceInv
<1>3. ASSUME NEW t \in Types, NEW ptr \in Addresses, UpgradeRef(ptr, t) PROVE Inv'
  <2>1. IsAligned(ptr, t) /\ Tracks(ptr, t.size, FALSE)
    BY <1>3 DEF UpgradeRef
  <2>2. Safe(Ref(ptr, t, FALSE))
    BY <2>1, UpgradeOneSafe
  <2> QED
    BY <1>3, <2>2, FollowInv DEF UpgradeRef, Upgrade
<1>4. ASSUME NEW t \in Types, NEW ptr \in Addresses, UpgradeMutRef(ptr, t) PROVE Inv'
  <2>1. IsAligned(ptr, t) /\ Tracks(ptr, t.size, TRUE)
    BY <1>4 DEF UpgradeMutRef
  <2>2. Safe(Ref(ptr, t, TRUE))
    BY <2>1, UpgradeOneSafe
  <2> QED
    BY <1>4, <2>2, FollowInv DEF UpgradeMutRef, Upgrade
<1>5. ASSUME NEW t \in Types, NEW ptr \in Addresses, NEW len \in Lengths,
             UpgradeSlice(ptr, t, len)
      PROVE  Inv'
  <2>1. IsAligned(ptr, t) /\ Evaluates(t, len) /\ Tracks(ptr, ByteLength(t, len), FALSE)
    BY <1>5 DEF UpgradeSlice
  <2>2. Safe(Slice(ptr, t, len, FALSE))
    BY <2>1, UpgradeSomeSafe
  <2> QED
    BY <1>5, <2>2, FollowInv DEF UpgradeSlice, Upgrade
<1>6. ASSUME NEW t \in Types, NEW ptr \in Addresses, NEW len \in Lengths,
             UpgradeMutSlice(ptr, t, len)
      PROVE  Inv'
  <2>1. IsAligned(ptr, t) /\ Evaluates(t, len) /\ Tracks(ptr, ByteLength(t, len), TRUE)
    BY <1>6 DEF UpgradeMutSlice
  <2>2. Safe(Slice(ptr, t, len, TRUE))
    BY <2>1, UpgradeSomeSafe
  <2> QED
    BY <1>6, <2>2, FollowInv DEF UpgradeMutSlice, Upgrade
<1>7. ASSUME NEW t \in Types, NEW offset \in Addresses, SubRef(t, offset) PROVE Inv'
  BY <1>7, SubRefSafe, FollowInv DEF SubRef, Derive
<1>8. ASSUME NEW t \in Types, NEW n \in Addresses, AsSlice(t, n) PROVE Inv'
  BY <1>8, AsSliceSafe, FollowInv DEF AsSlice, Derive
<1>9. ASSUME NEW idx \in Addresses, Get(idx) PROVE Inv'
  BY <1>9, GetSafe, FollowInv DEF Get, Derive
<1>10. CASE DropRef
  BY <1>10, FollowInv DEF DropRef, Derive
<1>11. CASE AsImmut
  BY <1>11, AsImmutSafe, FollowInv DEF AsImmut, Derive
<1>12. CASE StartIter
  BY <1>12, StartIterInv
<1>13. CASE IterNext
  BY <1>13, IterNextInv
<1>14. CASE IterNextNone
  BY <1>14, IterNextNoneInv
<1>15. CASE UNCHANGED vars
  <2>1. blocks' = blocks /\ ref' = ref /\ iter' = iter
    BY <1>15 DEF vars
  <2>2. IterOK => IterOK'
    BY <2>1 DEF IterOK, RefOK
  <2>3. IterBounded => IterBounded'
    BY <2>1 DEF IterBounded, Bounded, Tracks
  <2>4. Bounded(ref) => Bounded(ref)'
    BY <2>1 DEF Bounded, Tracks
  <2> QED
    BY <2>1, <2>2, <2>3, <2>4 DEF Inv, BlocksOK, RefOK
<1> QED
  BY <1>1, <1>2, <1>3, <1>4, <1>5, <1>6, <1>7, <1>8, <1>9, <1>10, <1>11, <1>12, <1>13,
     <1>14, <1>15 DEF Next

\* The invariant holds of every chain of derivations.
THEOREM Invariance == Spec => []Inv
BY InitInv, NextInv, PTL DEF Spec

-----------------------------------------------------------------------------
(***************************************************************************)
(* What follows.                                                            *)
(***************************************************************************)
\* The state keeps its types: a reference's address is a usize, whatever was
\* added to it.
THEOREM Typing == Spec => []TypeOK
<1>1. Inv => TypeOK
  <2> SUFFICES ASSUME Inv PROVE TypeOK
    OBVIOUS
  <2>1. ASSUME NEW r, RefOK(r) PROVE r.kind \in {"ref", "slice"} /\ IsRef(r)
    <3>1. r \in References
      BY <2>1 DEF RefOK
    <3> QED
      BY <3>1, TypesAssumption DEF References, IsRef
  <2>2. iter # NoIter => IsRef(iter.over) /\ iter.idx \in 0..iter.over.len
    <3> SUFFICES ASSUME iter # NoIter
                 PROVE  IsRef(iter.over) /\ iter.idx \in 0..iter.over.len
      OBVIOUS
    <3>1. IterOK
      BY DEF Inv
    <3>2. iter.idx \in Nat /\ iter.over.len \in Nat
      BY <3>1, RefFacts, AddressFacts DEF IterOK, Addresses
    <3> QED
      BY <2>1, <3>1, <3>2 DEF IterOK
  <2> QED
    BY <2>1, <2>2 DEF Inv, BlocksOK, TypeOK
<1> QED
  BY <1>1, Invariance, PTL

\* Every reference is aligned for its type, also when address arithmetic has
\* wrapped around.
THEOREM ReferencesAreAligned == Spec => []WellAligned
<1>1. Inv => WellAligned
  BY DEF Inv, RefOK, WellAligned
<1> QED
  BY <1>1, Invariance, PTL

\* Where the product of length and size is checked, every reference lies in one
\* block, through any chain of derivations.
THEOREM ReferencesStayInBounds ==
  ASSUME OverflowChecks
  PROVE  Spec => []InBounds
<1>1. Inv => InBounds
  BY DEF Inv, Bounded, InBounds
<1> QED
  BY <1>1, Invariance, PTL

\* Where it is checked, an iterator gives each element once, in order, and ends
\* for good.
THEOREM IteratorsGiveEachElementOnce ==
  ASSUME OverflowChecks
  PROVE  Spec => []IteratorGivesEachElementOnce
<1>1. Inv => IteratorGivesEachElementOnce
  <2> SUFFICES ASSUME Inv, iter # NoIter
               PROVE  /\ Len(iter.given) <= iter.over.len
                      /\ \A i \in DOMAIN iter.given :
                           iter.given[i] = iter.over.ptr + (i - 1) * iter.over.type.size
                      /\ iter.ended => Len(iter.given) = iter.over.len
    BY DEF IteratorGivesEachElementOnce
  <2>1. IterOK /\ IterBounded
    BY DEF Inv
  <2>2. DOMAIN iter.given = 1..Len(iter.given)
    BY <2>1, LenProperties DEF IterOK
  <2> QED
    BY <2>1, <2>2 DEF IterOK, IterBounded
<1> QED
  BY <1>1, Invariance, PTL

-----------------------------------------------------------------------------
(***************************************************************************)
(* sub_ref_check takes exactly the fields that fit for every address.        *)
(***************************************************************************)
LEMMA PowMonotonic ==
  ASSUME NEW j \in Nat, NEW k \in Nat, j <= k
  PROVE  Pow2[j] <= Pow2[k]
<1>1. PICK c \in Nat \ {0} : Pow2[k] = c * Pow2[j]
  BY PowDivides
<1> DEFINE p == Pow2[j]
           q == Pow2[k]
<1>2. p \in Nat \ {0} /\ q = c * p
  BY <1>1, PowFacts
<1> HIDE DEF p, q
<1>3. p <= q
  BY <1>2
<1> QED
  BY <1>3 DEF p, q

\* A multiple has zeros for its lowest bits.
LEMMA MultipleHasLowZeros ==
  ASSUME NEW j \in Nat, NEW n \in Int, Divides(Pow2[j], n), NEW k \in Nat, k < j
  PROVE  Bit(n, k) = 0
<1>1. PICK q \in Int : n = q * Pow2[j]
  BY DEF Divides
<1>2. PICK c \in Nat \ {0} : Pow2[j] = c * Pow2[k + 1]
  BY PowDivides
<1> DEFINE p == Pow2[k]
<1>3. p \in Nat \ {0} /\ Pow2[k + 1] = 2 * p
  BY PowFacts
<1> HIDE DEF p
<1>4. n = q * (c * (2 * p))
  BY <1>1, <1>2, <1>3
<1> DEFINE r == q * c
<1>5. r \in Int /\ n = (r * 2) * p
  BY <1>3, <1>4
<1> HIDE DEF r
<1>6. n \div p = r * 2
  BY <1>3, <1>5
<1>7. (r * 2) % 2 = 0
  BY <1>5
<1> QED
  BY <1>6, <1>7 DEF Bit, p

\* Of the powers of two that divide both, the lowest bit is the greatest.
LEMMA LowestBitIsGreatest ==
  ASSUME NEW i \in 0..(Width - 1), NEW b \in Nat, NEW j \in Nat,
         Divides(Pow2[j], Pow2[i]), Divides(Pow2[j], b)
  PROVE  Pow2[j] <= LowestBitOfOr(Pow2[i], b)
<1> DEFINE a == Pow2[i]
           S == {k \in 0..(Width - 1) : Bit(a, k) = 1 \/ Bit(b, k) = 1}
           m == Min(S)
<1>0. Width \in Nat \ {0} /\ a \in Nat \ {0} /\ i \in Nat
  BY WidthAssumption, PowFacts
<1>1. i \in S
  <2>1. a \div a = 1
    BY <1>0
  <2> QED
    BY <2>1 DEF Bit
<1>2. m \in S
  <2>1. S \in SUBSET Nat
    BY <1>0
  <2> HIDE DEF S
  <2>2. \E x \in S : \A y \in S : x <= y
    BY <1>1, <2>1, Smallest
  <2> QED
    BY <2>2, Zenon DEF Min
<1>3. m \in Nat /\ (Bit(a, m) = 1 \/ Bit(b, m) = 1)
  BY <1>0, <1>2
<1>4. LowestBitOfOr(a, b) = Pow2[m]
  BY DEF LowestBitOfOr
<1> HIDE DEF m, S, a
<1>5. ~ (m < j)
  <2> SUFFICES ASSUME m < j PROVE FALSE
    OBVIOUS
  <2>1. Bit(a, m) = 0 /\ Bit(b, m) = 0
    BY <1>0, <1>3, MultipleHasLowZeros DEF a
  <2> QED
    BY <1>3, <2>1
<1>6. Pow2[j] <= Pow2[m]
  BY <1>3, <1>5, PowMonotonic
<1> QED
  BY <1>4, <1>6 DEF a

\* A type's alignment is a home of it, and so is twice the alignment unless no
\* alignment is greater.
LEMMA HomesExist ==
  ASSUME NEW t \in Types, NEW i \in 0..(Width - 1), t.align = Pow2[i]
  PROVE  /\ t.align \in Homes(t)
         /\ i < Width - 1 => 2 * t.align \in Homes(t)
<1> DEFINE a == Pow2[i]
           h == Pow2[Width - 1]
<1>1. i \in Nat /\ Width - 1 \in Nat /\ i <= Width - 1 /\ (Width - 1) + 1 = Width
  BY WidthAssumption
<1>2. a \in Nat \ {0} /\ h \in Nat \ {0} /\ AddrSpace = 2 * h
  BY <1>1, PowFacts DEF AddrSpace
<1>3. a <= h /\ (i < Width - 1 => 2 * a <= h)
  <2>1. a <= h
    BY <1>1, PowMonotonic
  <2>2. i < Width - 1 => Pow2[i + 1] <= h
    BY <1>1, PowMonotonic
  <2>3. Pow2[i + 1] = 2 * a
    BY <1>1, PowFacts
  <2> QED
    BY <2>1, <2>2, <2>3
<1>4. UsizeMax = AddrSpace - 1 /\ IsizeMax = h - 1 /\ Addresses = 0..(AddrSpace - 1)
  BY DEF UsizeMax, IsizeMax, Addresses
<1>5. t.size \in 0..IsizeMax /\ t.align = a
  BY TypeFacts
<1> HIDE DEF a, h
<1>6. a % a = 0 /\ (2 * a) % a = 0
  BY <1>2
<1>7. a \in Addresses \ {0} /\ a + t.size <= UsizeMax
  BY <1>2, <1>3, <1>4, <1>5
<1>8. i < Width - 1 => 2 * a \in Addresses \ {0} /\ 2 * a + t.size <= UsizeMax
  BY <1>2, <1>3, <1>4, <1>5
<1> QED
  BY <1>5, <1>6, <1>7, <1>8 DEF Homes, IsAligned

\* What fits and is aligned at every home of T passes sub_ref_check.
LEMMA CheckIsNecessary ==
  ASSUME NEW t \in Types, NEW u \in Types, NEW offset \in Nat,
         \A p \in Homes(t) : p + offset + u.size <= p + t.size /\ IsAligned(p + offset, u)
  PROVE  SubRefCheck(t, u, offset)
<1>1. PICK i \in 0..(Width - 1) : t.align = Pow2[i]
  BY TypeFacts
<1>2. PICK j \in 0..(Width - 1) : u.align = Pow2[j]
  BY TypeFacts
<1>3. i \in Nat /\ j \in Nat /\ Width \in Nat
  BY WidthAssumption
<1> DEFINE a == Pow2[i]
           b == Pow2[j]
<1>4. a \in Nat \ {0} /\ b \in Nat \ {0}
  BY <1>3, PowFacts
<1>5. a \in Homes(t) /\ (i < Width - 1 => 2 * a \in Homes(t))
  BY <1>1, HomesExist
<1>6. t.size \in Nat /\ u.size \in Nat /\ t.size <= UsizeMax /\ UsizeMax \in Nat
  BY TypeFacts, AddressFacts
<1>7. /\ a + offset + u.size <= a + t.size /\ (a + offset) % b = 0
      /\ i < Width - 1 => (2 * a + offset) % b = 0
  BY <1>2, <1>5 DEF IsAligned
<1> HIDE DEF a, b
<1>8. offset + u.size <= t.size /\ offset + u.size <= UsizeMax
  BY <1>4, <1>6, <1>7
<1>9. Divides(b, a + offset)
  BY <1>4, <1>7, DividesMeans
<1>10. Divides(b, a)
  <2>1. CASE j <= i
    BY <1>3, <2>1, PowMonotonic, PowOrder DEF a, b
  <2>2. CASE ~ (j <= i)
    <3>1. i < Width - 1
      BY <1>2, <1>3, <2>2
    <3>2. 2 * a + offset \in Int /\ a + offset \in Int /\ (2 * a + offset) - (a + offset) = a
      BY <1>4
    <3>3. Divides(b, 2 * a + offset)
      BY <1>4, <1>7, <3>1, <3>2, DividesMeans
    <3> DEFINE x == 2 * a + offset
               y == a + offset
    <3>4. x \in Int /\ y \in Int /\ x - y = a /\ Divides(b, x) /\ Divides(b, y) /\ b \in Int
      BY <1>4, <1>9, <3>2, <3>3
    <3> HIDE DEF x, y
    <3>5. Divides(b, x - y)
      BY <3>4, DividesSum
    <3> QED
      BY <3>4, <3>5
  <2> QED
    BY <2>1, <2>2
<1>11. Divides(b, offset)
  <2> DEFINE y == a + offset
  <2>1. y \in Int /\ a \in Int /\ b \in Int /\ y - a = offset /\ Divides(b, y)
    BY <1>4, <1>9
  <2> HIDE DEF y
  <2>2. Divides(b, y - a)
    BY <1>10, <2>1, DividesSum
  <2> QED
    BY <2>1, <2>2
<1>12. b <= LowestBitOfOr(Pow2[i], offset)
  BY <1>3, <1>10, <1>11, LowestBitIsGreatest DEF a, b
<1> QED
  BY <1>1, <1>2, <1>8, <1>12 DEF SubRefCheck, b

\* What passes sub_ref_check fits and is aligned at every home of T.
LEMMA CheckIsSufficient ==
  ASSUME NEW t \in Types, NEW u \in Types, NEW offset \in Nat, SubRefCheck(t, u, offset),
         NEW p \in Homes(t)
  PROVE  p + offset + u.size <= p + t.size /\ IsAligned(p + offset, u)
<1>1. p \in Nat /\ IsAligned(p, t)
  BY AddressFacts DEF Homes, Addresses
<1>2. t.size \in Nat /\ u.size \in Nat /\ offset + u.size <= t.size
  BY TypeFacts, AddressFacts DEF SubRefCheck
<1> QED
  BY <1>1, <1>2, SubRefAligned

\* sub_ref refuses no field that is right for every address, and accepts none
\* that is right only for some, whatever the types.
THEOREM SubRefChecksExactly == Spec => []SubRefIsExact
<1>1. \A t, u \in Types, offset \in Addresses :
        SubRefCheck(t, u, offset) <=>
          \A p \in Homes(t) : p + offset + u.size <= p + t.size /\ IsAligned(p + offset, u)
  <2> SUFFICES ASSUME NEW t \in Types, NEW u \in Types, NEW offset \in Addresses
               PROVE  SubRefCheck(t, u, offset) <=>
                        \A p \in Homes(t) :
                          p + offset + u.size <= p + t.size /\ IsAligned(p + offset, u)
    OBVIOUS
  <2>1. offset \in Nat
    BY AddressFacts DEF Addresses
  <2> QED
    BY <2>1, CheckIsNecessary, CheckIsSufficient
<1>2. Inv => SubRefIsExact
  <2> SUFFICES ASSUME Inv, ref.kind = "ref" PROVE ref.type \in JudgedExactly
    BY DEF SubRefIsExact
  <2>1. RefOK(ref)
    BY DEF Inv, NoRef
  <2>2. ref.type \in Types
    BY <2>1, RefFacts
  <2> QED
    BY <1>1, <2>2 DEF JudgedExactly
<1> QED
  BY <1>2, Invariance, PTL

=============================================================================
