--------------------------- MODULE BrandingProofs ---------------------------
(***************************************************************************)
(* The identities of runtimes are unique for any number of threads and any  *)
(* width of the counter.  The argument: the ids given out are always exactly *)
(* those below the counter, because the only step that gives one out does   *)
(* so while the thread's view is the counter; and a view is never ahead of   *)
(* the counter, so a thread that sees no successor has seen the last one.   *)
(* With that, Identities: an imprint in use was given to one runtime or one *)
(* open lifetime closure, so comparing imprints tells scopes apart.         *)
(***************************************************************************)
EXTENDS Identities, FrameLemmas, SequenceTheorems, TLAPS

\* What the threads and the brandings know of the counter.
CounterInv ==
  /\ \A t \in Threads : prev[t] <= ctr
  /\ \A n \in DOMAIN brands : brands[n].id < ctr
  /\ \A id \in 0..(ctr - 1) : \E n \in DOMAIN brands : brands[n].id = id
  /\ UniqueBrands
  /\ \A t \in Threads : pc[t] = "panicked" => ctr = MaxId

Inv == TypeOK /\ CounterInv

\* checked_add, as the provers use it.
LEMMA CheckedAddIs ==
  ASSUME NEW id \in 0..MaxId
  PROVE  /\ \A n \in CheckedAdd(id) : n = id + 1 /\ n \in 0..MaxId
         /\ CheckedAdd(id) = {} => id = MaxId
  <1>1. \A n \in CheckedAdd(id) : n = id + 1 /\ n \in 0..MaxId
    BY MaxIdAssumption DEF CheckedAdd
  <1>2. ASSUME CheckedAdd(id) = {} PROVE id = MaxId
    <2>1. id + 1 \notin CheckedAdd(id)
      BY <1>2
    <2>. QED BY <2>1, MaxIdAssumption DEF CheckedAdd
  <1>. QED BY <1>1, <1>2

\* What is known of a branding, and of one that is appended.
LEMMA BrandTypes ==
  ASSUME TypeOK, NEW b \in [by : Threads, id : 0..MaxId]
  PROVE  /\ \A n \in DOMAIN brands : brands[n].id \in 0..MaxId
         /\ Append(brands, b) \in Seq([by : Threads, id : 0..MaxId])
         /\ Len(brands) \in Nat
         /\ DOMAIN brands = 1..Len(brands)
         /\ DOMAIN Append(brands, b) = 1..(Len(brands) + 1)
         /\ Append(brands, b)[Len(brands) + 1] = b
         /\ \A n \in DOMAIN brands : Append(brands, b)[n] = brands[n]
  <1>. DEFINE B == [by : Threads, id : 0..MaxId]
  <1>1. brands \in Seq(B)
    BY DEF TypeOK
  <1>2. \A x \in B : x.id \in 0..MaxId
    OBVIOUS
  <1>3. \A n \in DOMAIN brands : brands[n] \in B
    <2>. HIDE DEF B
    <2>. QED BY <1>1
  <1>4. \A n \in DOMAIN brands : brands[n].id \in 0..MaxId
    BY <1>2, <1>3
  <1>5. /\ Append(brands, b) \in Seq(B)
        /\ Len(brands) \in Nat
        /\ DOMAIN brands = 1..Len(brands)
        /\ DOMAIN Append(brands, b) = 1..(Len(brands) + 1)
        /\ Append(brands, b)[Len(brands) + 1] = b
        /\ \A n \in DOMAIN brands : Append(brands, b)[n] = brands[n]
    <2>. b \in B
      OBVIOUS
    <2>. HIDE DEF B
    <2>. QED BY <1>1
  <1>. QED BY <1>4, <1>5

\* The invariant holds before the first call.
LEMMA InitInv == Init => Inv
  BY MaxIdAssumption DEF Init, Inv, TypeOK, CounterInv, UniqueBrands

\* A successful exchange is the only step that gives out an id.
LEMMA ExchangeInv ==
  ASSUME Inv, NEW t \in Threads, Exchange(t)
  PROVE  Inv'
  <1>. DEFINE b == [by |-> t, id |-> ctr]
  <1>. USE DEF Inv
  <1>1. /\ ctr \in 0..MaxId /\ prev[t] = ctr /\ pc[t] = "update"
        /\ ctr' \in CheckedAdd(ctr)
        /\ brands' = Append(brands, b) /\ prev' = prev
        /\ pc' = [pc EXCEPT ![t] = "idle"]
    BY DEF Exchange, Go, TypeOK
  <1>2. ctr' = ctr + 1 /\ ctr' \in 0..MaxId
    BY <1>1, CheckedAddIs
  <1>3. b \in [by : Threads, id : 0..MaxId]
    BY <1>1
  <1>4. /\ DOMAIN brands' = 1..(Len(brands) + 1)
        /\ DOMAIN brands = 1..Len(brands)
        /\ brands'[Len(brands) + 1] = b
        /\ \A n \in DOMAIN brands : brands'[n] = brands[n]
        /\ brands' \in Seq([by : Threads, id : 0..MaxId])
        /\ Len(brands) \in Nat
    <2>. HIDE DEF b
    <2>. QED BY <1>1, <1>3, BrandTypes
  <1>5. TypeOK'
    BY <1>1, <1>2, <1>4 DEF TypeOK
  <1>ids. /\ \A n \in DOMAIN brands : brands'[n].id = brands[n].id /\ brands[n].id \in 0..MaxId
          /\ brands'[Len(brands) + 1].id = ctr
    <2>1. \A n \in DOMAIN brands : brands[n].id \in 0..MaxId
      <3>. HIDE DEF b
      <3>. QED BY <1>3, BrandTypes
    <2>2. b.id = ctr
      OBVIOUS
    <2>. HIDE DEF b
    <2>. QED BY <1>4, <2>1, <2>2
  <1>. HIDE DEF b
  <1>6. \A n \in DOMAIN brands' : brands'[n].id < ctr'
    <2>1. \A n \in DOMAIN brands : brands'[n].id < ctr'
      <3>. TAKE n \in DOMAIN brands
      <3>1. brands[n].id < ctr /\ brands'[n].id = brands[n].id /\ brands[n].id \in 0..MaxId
        BY <1>ids DEF CounterInv
      <3>. QED BY <1>1, <1>2, <3>1, MaxIdAssumption
    <2>2. brands'[Len(brands) + 1].id < ctr'
      BY <1>1, <1>2, <1>ids, MaxIdAssumption
    <2>. QED BY <1>4, <2>1, <2>2
  <1>7. \A id \in 0..(ctr' - 1) : \E n \in DOMAIN brands' : brands'[n].id = id
    <2>. TAKE id \in 0..(ctr' - 1)
    <2>1. CASE id = ctr
      BY <1>4, <1>ids, <2>1
    <2>2. CASE id # ctr
      <3>1. id \in 0..(ctr - 1)
        BY <1>1, <1>2, <2>2, MaxIdAssumption
      <3>2. PICK n \in DOMAIN brands : brands[n].id = id
        BY <3>1 DEF CounterInv
      <3>. QED BY <1>4, <1>ids, <3>2
    <2>. QED BY <2>1, <2>2
  <1>8. UniqueBrands'
    <2>1. \A n \in DOMAIN brands : brands[n].id # ctr
      <3>. TAKE n \in DOMAIN brands
      <3>1. brands[n].id < ctr /\ brands[n].id \in 0..MaxId
        BY <1>ids DEF CounterInv
      <3>. QED BY <1>1, <3>1, MaxIdAssumption
    <2>. QED BY <1>4, <1>ids, <2>1 DEF CounterInv, UniqueBrands
  <1>9. \A u \in Threads : prev'[u] <= ctr' /\ pc'[u] # "panicked"
    <2>. TAKE u \in Threads
    <2>1. ctr # MaxId
      BY <1>1, <1>2, MaxIdAssumption
    <2>2. prev[u] <= ctr /\ prev[u] \in 0..MaxId
      BY DEF CounterInv, TypeOK
    <2>3. prev'[u] <= ctr'
      BY <1>1, <1>2, <2>2, MaxIdAssumption
    <2>4. pc[u] # "panicked"
      BY <2>1 DEF CounterInv
    <2>5. pc'[u] # "panicked"
      BY <1>1, <2>4 DEF TypeOK
    <2>. QED BY <2>3, <2>5
  <1>. QED BY <1>5, <1>6, <1>7, <1>8, <1>9 DEF CounterInv

\* Every step keeps it.
LEMMA NextInv == Inv /\ [Next]_vars => Inv'
  <1>. SUFFICES ASSUME Inv, [Next]_vars PROVE Inv'
    OBVIOUS
  <1>1. ASSUME NEW t \in Threads, Load(t) PROVE Inv'
    BY <1>1 DEF Inv, TypeOK, CounterInv, UniqueBrands, Load, Go
  <1>2. ASSUME NEW t \in Threads, Exchange(t) PROVE Inv'
    BY <1>2, ExchangeInv
  <1>3. ASSUME NEW t \in Threads, Retry(t) PROVE Inv'
    BY <1>3 DEF Inv, TypeOK, CounterInv, UniqueBrands, Retry
  <1>4. ASSUME NEW t \in Threads, Overflow(t) PROVE Inv'
    <2>1. prev[t] = MaxId
      BY <1>4, CheckedAddIs DEF Inv, TypeOK, Overflow
    <2>2. ctr = MaxId
      BY <2>1, MaxIdAssumption DEF Inv, TypeOK, CounterInv
    <2>. QED BY <1>4, <2>2 DEF Inv, TypeOK, CounterInv, UniqueBrands, Overflow, Go
  <1>5. CASE UNCHANGED vars
    BY <1>5 DEF Inv, TypeOK, CounterInv, UniqueBrands, vars
  <1>. QED BY <1>1, <1>2, <1>3, <1>4, <1>5 DEF Next

\* The inductive invariant holds throughout.
LEMMA BrandingInv == Spec => []Inv
  BY InitInv, NextInv, PTL DEF Spec

\* The counter never leaves its range, so it never wraps.
THEOREM BrandingTypeCorrect == Spec => []TypeOK
  <1>1. Inv => TypeOK
    BY DEF Inv
  <1>. QED BY <1>1, BrandingInv, PTL

\* No two runtimes share an id: the imprint checks of the runtimes compare
\* values that really tell them apart.
THEOREM BrandsAreUnique == Spec => []UniqueBrands
  <1>1. Inv => UniqueBrands
    BY DEF Inv, CounterInv
  <1>. QED BY <1>1, BrandingInv, PTL

\* new() refuses an id only when the counter has given out all of them.
THEOREM NoEarlyPanic == Spec => []PanicsOnlyWhenExhausted
  <1>1. Inv => PanicsOnlyWhenExhausted
    <2>. SUFFICES ASSUME Inv, NEW t \in Threads, pc[t] = "panicked"
                  PROVE  Ids = 0..(MaxId - 1)
      BY DEF PanicsOnlyWhenExhausted
    <2>1. ctr = MaxId
      BY DEF Inv, CounterInv
    <2>2. \A n \in DOMAIN brands : brands[n].id \in 0..(MaxId - 1)
      <3>. TAKE n \in DOMAIN brands
      <3>1. brands[n].id < ctr
        BY DEF Inv, CounterInv
      <3>2. brands[n].id \in 0..MaxId
        <4>1. [by |-> t, id |-> 0] \in [by : Threads, id : 0..MaxId]
          BY MaxIdAssumption
        <4>. QED BY <4>1, BrandTypes DEF Inv
      <3>. QED BY <2>1, <3>1, <3>2, MaxIdAssumption
    <2>3. \A id \in 0..(MaxId - 1) : \E n \in DOMAIN brands : brands[n].id = id
      BY <2>1 DEF Inv, CounterInv
    <2>. QED BY <2>2, <2>3 DEF Ids
  <1>. QED BY <1>1, BrandingInv, PTL

-----------------------------------------------------------------------------
(***************************************************************************)
(* The same for what is made with the identities, runtimes and scopes.  For  *)
(* a runtime whose type all share, the argument rests on the theorem above;  *)
(* for one with a lifetime of its own, on a closure that lends its branding   *)
(* once and takes everything of its type with it.                            *)
(***************************************************************************)
\* Each step of Identities is one of Branding or leaves its variables alone.
LEMMA IdSpecIsSpec == IdSpec => Spec
  <1>1. IdInit => Init
    BY DEF IdInit
  <1>2. [IdNext]_idvars => [Next]_vars
    BY DEF IdNext, idvars, NewBranding, EnterLifetime, LeaveLifetime,
           NewRuntimeBranded, NewLifetimeBranded, DropRuntime
  <1>. QED BY <1>1, <1>2, PTL DEF IdSpec, Spec

Lifetimes == {LifetimeType(k) : k \in 1..types}
Closures == [type : Lifetimes, left : BOOLEAN]

\* No two closures that run have the same type.
OpenOK ==
  /\ types \in Nat
  /\ open \in [Threads -> Seq(Closures)]
  /\ \A t, u \in Threads : \A i \in 1..Len(open[t]), j \in 1..Len(open[u]) :
       open[t][i].type = open[u][j].type => t = u /\ i = j

\* What there is of a runtime has the shared type and the id of a branding that
\* is used up, or a lifetime of which no branding is left.
Origins ==
  /\ used \subseteq DOMAIN brands
  /\ made \in Nat
  /\ \A r \in runtimes : r.n \in 1..made
  /\ \A s \in scopes : s.of \in 1..made
  /\ \A x \in runtimes \union scopes :
       \/ x.type = SharedType /\ \E b \in used : x.imprint = brands[b].id
       \/ x.type \in Lifetimes
  /\ \A t \in Threads : \A i \in 1..Len(open[t]) :
       open[t][i].left => \A x \in runtimes \union scopes : x.type # open[t][i].type

\* Of one type, exactly the scopes of a runtime have its imprint.
ImprintsTell ==
  \A r \in runtimes, s \in scopes : r.type = s.type => (r.imprint = s.imprint <=> s.of = r.n)

IdInv == OpenOK /\ Origins /\ ImprintsTell

\* What is known of a closure that runs.
LEMMA OpenFacts ==
  ASSUME OpenOK, NEW t \in Threads
  PROVE  /\ open[t] \in Seq(Closures) /\ Len(open[t]) \in Nat
         /\ \A i \in 1..Len(open[t]) : open[t][i] \in Closures /\ open[t][i].type \in Lifetimes
  <1>1. open[t] \in Seq(Closures)
    BY DEF OpenOK
  <1>2. Len(open[t]) \in Nat /\ \A i \in 1..Len(open[t]) : open[t][i] \in Closures
    BY <1>1, ElementOfSeq, LenProperties
  <1>3. \A c \in Closures : c.type \in Lifetimes
    BY DEF Closures
  <1>. QED BY <1>1, <1>2, <1>3

\* A sequence over a set is one over a larger set.
LEMMA SeqWidens ==
  ASSUME NEW S, NEW T, S \subseteq T, NEW seq \in Seq(S)
  PROVE  seq \in Seq(T)
  <1>1. seq \in [1..Len(seq) -> S] /\ Len(seq) \in Nat
    BY LenProperties
  <1>2. seq \in [1..Len(seq) -> T]
    BY <1>1
  <1>. QED BY <1>1, <1>2

\* A runtime with a new type and imprint, and its scopes, fit in.
LEMMA NewRuntimeFits ==
  ASSUME IdInv, NEW type, NEW imprint, NewRuntime(type, imprint),
         \A x \in runtimes \union scopes : x.type = type => x.imprint # imprint
  PROVE  /\ made' \in Nat
         /\ \A r \in runtimes' : r.n \in 1..made'
         /\ \A s \in scopes' : s.of \in 1..made'
         /\ ImprintsTell'
         /\ \A x \in runtimes' \union scopes' :
              x \in runtimes \union scopes \/ (x.type = type /\ x.imprint = imprint)
  <1>1. /\ made \in Nat /\ made' = made + 1
        /\ \A r \in runtimes : r.n \in 1..made
        /\ \A s \in scopes : s.of \in 1..made
    BY DEF IdInv, Origins, NewRuntime
  <1>2. \A r \in runtimes' :
          r \in runtimes \/ (r.n = made + 1 /\ r.type = type /\ r.imprint = imprint)
    BY DEF NewRuntime
  <1>3. \A s \in scopes' :
          s \in scopes \/ (s.of = made + 1 /\ s.type = type /\ s.imprint = imprint)
    BY DEF NewRuntime
  <1>4. ImprintsTell'
    <2>. SUFFICES ASSUME NEW r \in runtimes', NEW s \in scopes', r.type = s.type
                  PROVE  r.imprint = s.imprint <=> s.of = r.n
      BY DEF ImprintsTell
    <2>1. CASE r \in runtimes /\ s \in scopes
      BY <2>1 DEF IdInv, ImprintsTell
    <2>2. CASE r \in runtimes /\ s \notin scopes
      BY <1>1, <1>3, <2>2
    <2>3. CASE r \notin runtimes /\ s \in scopes
      BY <1>1, <1>2, <2>3
    <2>4. CASE r \notin runtimes /\ s \notin scopes
      BY <1>2, <1>3, <2>4
    <2>. QED BY <2>1, <2>2, <2>3, <2>4
  <1>. QED BY <1>1, <1>2, <1>3, <1>4

\* The brandings that exist stay as they are.
LEMMA BrandsStay ==
  ASSUME Inv, [Next]_vars
  PROVE  /\ DOMAIN brands \subseteq DOMAIN brands'
         /\ \A n \in DOMAIN brands : brands'[n] = brands[n]
  <1>1. ASSUME NEW t \in Threads, Exchange(t)
        PROVE  /\ DOMAIN brands \subseteq DOMAIN brands'
               /\ \A n \in DOMAIN brands : brands'[n] = brands[n]
    <2>. DEFINE b == [by |-> t, id |-> prev[t]]
    <2>1. b \in [by : Threads, id : 0..MaxId] /\ brands' = Append(brands, b)
      BY <1>1 DEF Inv, TypeOK, Exchange
    <2>. HIDE DEF b
    <2>. QED BY <2>1, BrandTypes DEF Inv
  <1>2. CASE UNCHANGED brands
    BY <1>2
  <1>. QED BY <1>1, <1>2 DEF Next, vars, Load, Retry, Overflow

\* A new lifetime closure has a type that no other has had.
LEMMA EnterLifetimeInv ==
  ASSUME IdInv, NEW t \in Threads, EnterLifetime(t)
  PROVE  IdInv'
  <1>. DEFINE new == [type |-> LifetimeType(types + 1), left |-> TRUE]
  <1>1. /\ types' = types + 1 /\ types \in Nat
        /\ open' = [open EXCEPT ![t] = Append(open[t], new)]
        /\ UNCHANGED <<brands, used, made, runtimes, scopes>>
    BY DEF EnterLifetime, IdInv, OpenOK, vars
  <1>2. LifetimeType(types + 1) \notin Lifetimes /\ Lifetimes \subseteq Lifetimes'
    BY <1>1 DEF LifetimeType, Lifetimes
  <1>3. LifetimeType(types + 1) # SharedType /\ LifetimeType(types + 1) \in Lifetimes'
    BY <1>1 DEF LifetimeType, SharedType, Lifetimes
  <1>4. new.type = LifetimeType(types + 1) /\ new \in Closures'
    BY <1>3 DEF Closures
  <1>. HIDE DEF new
  <1>5. Closures \subseteq Closures'
    BY <1>2 DEF Closures
  <1>6. \A u \in Threads :
          /\ open[u] \in Seq(Closures) /\ open[u] \in Seq(Closures')
          /\ \A i \in 1..Len(open[u]) : open[u][i].type \in Lifetimes
    BY <1>5, OpenFacts, SeqWidens DEF IdInv
  <1>7. /\ open' \in [Threads -> Seq(Closures')]
        /\ \A u \in Threads \ {t} : open'[u] = open[u]
        /\ Len(open[t]) \in Nat /\ Len(open'[t]) = Len(open[t]) + 1
        /\ open'[t][Len(open[t]) + 1] = new
        /\ \A i \in 1..Len(open[t]) : open'[t][i] = open[t][i]
    <2>1. open'[t] = Append(open[t], new) /\ \A u \in Threads \ {t} : open'[u] = open[u]
      BY <1>1 DEF IdInv, OpenOK
    <2>2. /\ Append(open[t], new) \in Seq(Closures')
          /\ Len(open[t]) \in Nat /\ Len(Append(open[t], new)) = Len(open[t]) + 1
          /\ Append(open[t], new)[Len(open[t]) + 1] = new
          /\ \A i \in 1..Len(open[t]) : Append(open[t], new)[i] = open[t][i]
      BY <1>4, <1>6, AppendProperties, LenProperties
    <2>. QED BY <1>1, <1>6, <2>1, <2>2 DEF IdInv, OpenOK
  <1>8. \A u \in Threads : \A i \in 1..Len(open'[u]) :
          \/ i \in 1..Len(open[u]) /\ open'[u][i] = open[u][i]
          \/ u = t /\ i = Len(open[t]) + 1 /\ open'[u][i] = new
    BY <1>7
  <1>9. OpenOK'
    <2>1. ASSUME NEW u \in Threads, NEW v \in Threads,
                 NEW i \in 1..Len(open'[u]), NEW j \in 1..Len(open'[v]),
                 open'[u][i].type = open'[v][j].type
          PROVE  u = v /\ i = j
      <3>1. CASE i \in 1..Len(open[u]) /\ j \in 1..Len(open[v])
                 /\ open'[u][i] = open[u][i] /\ open'[v][j] = open[v][j]
        BY <2>1, <3>1 DEF IdInv, OpenOK
      <3>2. CASE i \in 1..Len(open[u]) /\ open'[u][i] = open[u][i] /\ open'[v][j] = new
        BY <1>2, <1>4, <1>6, <2>1, <3>2
      <3>3. CASE j \in 1..Len(open[v]) /\ open'[v][j] = open[v][j] /\ open'[u][i] = new
        BY <1>2, <1>4, <1>6, <2>1, <3>3
      <3>4. CASE u = t /\ i = Len(open[t]) + 1 /\ v = t /\ j = Len(open[t]) + 1
        BY <3>4
      <3>. QED BY <1>8, <3>1, <3>2, <3>3, <3>4
    <2>. QED BY <1>1, <1>7, <2>1 DEF OpenOK
  <1>10. Origins'
    <2>1. \A x \in runtimes \union scopes : x.type # new.type
      BY <1>2, <1>3, <1>4 DEF IdInv, Origins
    <2>2. \A u \in Threads : \A i \in 1..Len(open'[u]) :
            open'[u][i].left => \A x \in runtimes \union scopes : x.type # open'[u][i].type
      BY <1>8, <2>1 DEF IdInv, Origins
    <2>. QED BY <1>1, <1>2, <2>2 DEF IdInv, Origins
  <1>. QED BY <1>1, <1>9, <1>10 DEF IdInv, ImprintsTell

\* Leaving a lifetime closure takes along all that was made with its type.
LEMMA LeaveLifetimeInv ==
  ASSUME IdInv, NEW t \in Threads, LeaveLifetime(t)
  PROVE  IdInv'
  <1>1. /\ open[t] # <<>>
        /\ open' = [open EXCEPT ![t] = SubSeq(open[t], 1, Len(open[t]) - 1)]
        /\ runtimes' \subseteq runtimes /\ scopes' \subseteq scopes
        /\ UNCHANGED <<brands, types, used, made>>
    BY DEF LeaveLifetime, vars
  <1>2. open[t] \in Seq(Closures) /\ Len(open[t]) \in Nat \ {0}
    BY <1>1, EmptySeq, LenProperties DEF IdInv, OpenOK
  <1>3. /\ SubSeq(open[t], 1, Len(open[t]) - 1) \in Seq(Closures)
        /\ Len(SubSeq(open[t], 1, Len(open[t]) - 1)) = Len(open[t]) - 1
        /\ \A i \in 1..(Len(open[t]) - 1) : SubSeq(open[t], 1, Len(open[t]) - 1)[i] = open[t][i]
    BY <1>2, CutTo
  <1>4. /\ open' \in [Threads -> Seq(Closures)]
        /\ \A u \in Threads : \A i \in 1..Len(open'[u]) : i \in 1..Len(open[u]) /\ open'[u][i] = open[u][i]
    BY <1>1, <1>2, <1>3 DEF IdInv, OpenOK
  <1>5. OpenOK'
    <2>1. Closures' = Closures /\ types' \in Nat
      BY <1>1 DEF Closures, Lifetimes, IdInv, OpenOK
    <2>2. ASSUME NEW u \in Threads, NEW v \in Threads,
                 NEW i \in 1..Len(open'[u]), NEW j \in 1..Len(open'[v]),
                 open'[u][i].type = open'[v][j].type
          PROVE  u = v /\ i = j
      <3>1. /\ i \in 1..Len(open[u]) /\ j \in 1..Len(open[v])
            /\ open[u][i].type = open[v][j].type
        BY <1>4, <2>2
      <3>. QED BY <3>1 DEF IdInv, OpenOK
    <2>. QED BY <1>4, <2>1, <2>2 DEF OpenOK
  <1>6. Origins'
    BY <1>1, <1>4 DEF IdInv, Origins, Lifetimes
  <1>. QED BY <1>1, <1>5, <1>6 DEF IdInv, ImprintsTell

\* A runtime made with an unused branding gets an id no other has.
LEMMA NewRuntimeBrandedInv ==
  ASSUME Inv, IdInv, NEW b \in DOMAIN brands, NewRuntimeBranded(b)
  PROVE  IdInv'
  <1>1. /\ b \notin used /\ used' = used \union {b}
        /\ NewRuntime(SharedType, brands[b].id)
        /\ UNCHANGED <<brands, open, types>>
    BY DEF NewRuntimeBranded, Imprint, vars
  <1>2. SharedType \notin Lifetimes
    BY DEF SharedType, Lifetimes, LifetimeType
  <1>3. \A x \in runtimes \union scopes : x.type = SharedType => x.imprint # brands[b].id
    BY <1>1, <1>2 DEF IdInv, Origins, Inv, CounterInv, UniqueBrands
  <1>4. /\ made' \in Nat
        /\ \A r \in runtimes' : r.n \in 1..made'
        /\ \A s \in scopes' : s.of \in 1..made'
        /\ ImprintsTell'
        /\ \A x \in runtimes' \union scopes' :
             x \in runtimes \union scopes \/ (x.type = SharedType /\ x.imprint = brands[b].id)
    BY <1>1, <1>3, NewRuntimeFits
  <1>5. \A t \in Threads : \A i \in 1..Len(open[t]) : open[t][i].type # SharedType
    BY <1>2, OpenFacts DEF IdInv
  <1>6. OpenOK'
    BY <1>1 DEF IdInv, OpenOK, Closures, Lifetimes
  <1>7. Origins'
    BY <1>1, <1>4, <1>5 DEF IdInv, Origins, Lifetimes
  <1>. QED BY <1>4, <1>6, <1>7 DEF IdInv

\* A lifetime closure's branding makes one runtime, the only one of its type.
LEMMA NewLifetimeBrandedInv ==
  ASSUME IdInv, NEW t \in Threads, NEW k \in 1..Len(open[t]), NewLifetimeBranded(t, k)
  PROVE  IdInv'
  <1>. DEFINE type == open[t][k].type
  <1>1. /\ open[t][k].left
        /\ open' = [open EXCEPT ![t] = [open[t] EXCEPT ![k] = [open[t][k] EXCEPT !.left = FALSE]]]
        /\ NewRuntime(type, UnitImprint)
        /\ UNCHANGED <<brands, types, used>>
    BY DEF NewLifetimeBranded, vars
  <1>2. \A u \in Threads : /\ open[u] \in Seq(Closures) /\ Len(open[u]) \in Nat
                           /\ \A i \in 1..Len(open[u]) : open[u][i] \in Closures
    BY OpenFacts DEF IdInv
  <1>3. type \in Lifetimes /\ \A x \in runtimes \union scopes : x.type # type
    BY <1>1, <1>2 DEF IdInv, Origins, Closures
  <1>. HIDE DEF type
  <1>4. /\ made' \in Nat
        /\ \A r \in runtimes' : r.n \in 1..made'
        /\ \A s \in scopes' : s.of \in 1..made'
        /\ ImprintsTell'
        /\ \A x \in runtimes' \union scopes' :
             x \in runtimes \union scopes \/ (x.type = type /\ x.imprint = UnitImprint)
    BY <1>1, <1>3, NewRuntimeFits
  <1>5. /\ open' \in [Threads -> Seq(Closures)]
        /\ \A u \in Threads : Len(open'[u]) = Len(open[u])
        /\ \A u \in Threads : \A i \in 1..Len(open[u]) :
             /\ open'[u][i].type = open[u][i].type
             /\ open'[u][i].left => open[u][i].left /\ ~(u = t /\ i = k)
    <2>. DEFINE new == [open[t][k] EXCEPT !.left = FALSE]
    <2>1. new \in Closures /\ new.type = open[t][k].type /\ ~new.left
      BY <1>2 DEF Closures
    <2>. HIDE DEF new
    <2>2. /\ [open[t] EXCEPT ![k] = new] \in Seq(Closures)
          /\ Len([open[t] EXCEPT ![k] = new]) = Len(open[t])
          /\ \A i \in 1..Len(open[t]) :
               [open[t] EXCEPT ![k] = new][i] = IF i = k THEN new ELSE open[t][i]
      BY <1>2, <2>1, ExceptSeq
    <2>3. /\ open'[t] = [open[t] EXCEPT ![k] = new]
          /\ \A u \in Threads \ {t} : open'[u] = open[u]
          /\ DOMAIN open' = Threads
          /\ open' \in [Threads -> Seq(Closures)]
      BY <1>1, <2>2 DEF IdInv, OpenOK, new
    <2>4. \A u \in Threads : Len(open'[u]) = Len(open[u])
      BY <2>2, <2>3, Zenon
    <2>5. ASSUME NEW u \in Threads, NEW i \in 1..Len(open[u])
          PROVE  /\ open'[u][i].type = open[u][i].type
                 /\ open'[u][i].left => open[u][i].left /\ ~(u = t /\ i = k)
      <3>1. CASE u # t
        <4>1. open'[u] = open[u]
          BY <2>3, <3>1, Zenon
        <4>. QED BY <3>1, <4>1, Zenon
      <3>2. CASE u = t
        <4>1. open'[t][i] = IF i = k THEN new ELSE open[t][i]
          BY <2>2, <2>3, <3>2, Zenon
        <4>2. i = k => open'[t][i] = new
          BY <4>1, Zenon
        <4>3. i # k => open'[t][i] = open[t][i]
          BY <4>1, Zenon
        <4>4. CASE i = k
          BY <2>1, <3>2, <4>2, <4>4
        <4>5. CASE i # k
          BY <3>2, <4>3, <4>5, Zenon
        <4>. QED BY <4>4, <4>5, Zenon
      <3>. QED BY <3>1, <3>2, Zenon
    <2>. QED BY <2>3, <2>4, <2>5, Zenon
  <1>6. OpenOK'
    <2>1. Closures' = Closures /\ types' \in Nat
      BY <1>1 DEF Closures, Lifetimes, IdInv, OpenOK
    <2>2. ASSUME NEW u \in Threads, NEW v \in Threads,
                 NEW i \in 1..Len(open'[u]), NEW j \in 1..Len(open'[v]),
                 open'[u][i].type = open'[v][j].type
          PROVE  u = v /\ i = j
      BY <1>5, <2>2 DEF IdInv, OpenOK
    <2>. QED BY <1>5, <2>1, <2>2 DEF OpenOK
  <1>7. \A u \in Threads : \A i \in 1..Len(open'[u]) :
          open'[u][i].left => \A x \in runtimes' \union scopes' : x.type # open'[u][i].type
    BY <1>4, <1>5 DEF IdInv, OpenOK, Origins, type
  <1>8. Origins'
    BY <1>1, <1>3, <1>4, <1>7 DEF IdInv, Origins, Lifetimes
  <1>. QED BY <1>4, <1>6, <1>8 DEF IdInv

\* Every step of Identities keeps the invariant.
LEMMA IdNextInv == Inv /\ IdInv /\ [IdNext]_idvars => IdInv'
  <1>. SUFFICES ASSUME Inv, IdInv, [IdNext]_idvars PROVE IdInv'
    OBVIOUS
  <1>1. ASSUME UNCHANGED identities, [Next]_vars PROVE IdInv'
    <2>1. /\ DOMAIN brands \subseteq DOMAIN brands'
          /\ \A n \in DOMAIN brands : brands'[n] = brands[n]
      BY <1>1, BrandsStay
    <2>2. UNCHANGED <<open, types, used, made, runtimes, scopes>>
      BY <1>1 DEF identities
    <2>3. Origins'
      BY <2>1, <2>2 DEF IdInv, Origins, Lifetimes
    <2>. QED BY <2>2, <2>3 DEF IdInv, OpenOK, ImprintsTell, Closures, Lifetimes
  <1>2. ASSUME NEW r \in runtimes, DropRuntime(r) PROVE IdInv'
    <2>1. runtimes' \subseteq runtimes /\ UNCHANGED <<brands, open, types, used, made, scopes>>
      BY <1>2 DEF DropRuntime, vars
    <2>. QED BY <2>1 DEF IdInv, OpenOK, Origins, ImprintsTell, Closures, Lifetimes
  <1>3. CASE NewBranding \/ UNCHANGED idvars
    BY <1>1, <1>3 DEF NewBranding, idvars
  <1>. QED BY <1>2, <1>3, EnterLifetimeInv, LeaveLifetimeInv, NewRuntimeBrandedInv,
              NewLifetimeBrandedInv DEF IdNext

\* The invariant holds before any runtime is made.
LEMMA IdInitInv == IdInit => IdInv
  BY DEF IdInit, IdInv, OpenOK, Origins, ImprintsTell, Closures

\* An operation that the compiler accepts goes ahead with the scopes of its own
\* runtime and with no other (id_imprint_check), whichever threads made the
\* runtimes and in whichever closures they run.
THEOREM OnlyItsOwnScopes == IdSpec => []AcceptsOnlyItsOwnScopes
  <1>1. IdInv => AcceptsOnlyItsOwnScopes
    BY DEF IdInv, ImprintsTell, AcceptsOnlyItsOwnScopes, IdImprintCheck
  <1>2. IdSpec => []Inv
    BY IdSpecIsSpec, BrandingInv, PTL
  <1>. QED BY <1>1, <1>2, IdInitInv, IdNextInv, PTL DEF IdSpec

=============================================================================
