-------------------------- MODULE OwnedDataProofs ---------------------------
(***************************************************************************)
(* Proofs about OwnedData, for every type, size, and number of copies, and    *)
(* for builds that keep the padding and builds that do not.  The argument:    *)
(* moving a MaybeUninit<T> changes nothing but padding, so the rest of a copy *)
(* is what it was first made of, and initialized; an OGRet that claims to be  *)
(* a T was one; and every byte that is written is initialized or padding.     *)
(***************************************************************************)
EXTENDS OwnedData, TLAPS

\* What an OGRet made of a T still holds.
ValidsAreValid == \A c \in owned : c.form = "Valid" => DataOf(c.bytes) \in ValidData

Inv ==
  /\ TypeOK /\ ValidsAreValid /\ WhatWasWrittenIsThere
  /\ JudgedExactly /\ CopiesAreSnapshots

\* What TypesAssumption says of T.
LEMMA TypeFacts ==
  ASSUME type \in Types
  PROVE  /\ Padding \subseteq 1..Size /\ DataBytes = (1..Size) \ Padding
         /\ ValidData \subseteq Data
  BY TypesAssumption DEF Padding, ValidData, DataBytes, DataBytesOf, Data

\* Moving changes padding only.
LEMMA MovedFacts ==
  ASSUME type \in Types, NEW b \in RawBytes, NEW m \in Moved(b)
  PROVE  m \in RawBytes /\ DataOf(m) = DataOf(b)
<1>1. m \in RawBytes /\ \A i \in DataBytes : m[i] = b[i]
  BY TypeFacts DEF Moved
<1> QED
  BY <1>1 DEF DataOf

\* Without padding, what has data in every place is initialized.
LEMMA DataIsInitialized ==
  ASSUME type \in Types, Padding = {}, NEW b, DataOf(b) \in Data
  PROVE  Initialized(b)
<1>1. \A i \in 1..Size : DataOf(b)[i] = b[i] /\ DataOf(b)[i] \in Bits
  BY TypeFacts DEF DataOf, Data
<1> QED
  BY <1>1, BitsAssumption DEF Initialized

\* Bytes that are all written are raw bytes, with data where T has.
LEMMA BytesAreRaw ==
  ASSUME type \in Types, NEW b \in Bytes
  PROVE  b \in RawBytes /\ DataOf(b) \in Data
  BY TypeFacts DEF Bytes, RawBytes, DataOf, Data

\* A T of the host has data where T has.
LEMMA LaidFacts ==
  ASSUME type \in Types, NEW data \in ValidData
  PROVE  Laid(data) \in RawBytes /\ DataOf(Laid(data)) = data /\ data \in Data
<1>1. data \in [DataBytes -> Bits] /\ DataBytes \subseteq 1..Size
  BY TypeFacts DEF Data
<1>2. Laid(data) \in RawBytes /\ \A i \in DataBytes : Laid(data)[i] = data[i]
  BY <1>1 DEF Laid, RawBytes
<1>3. DataOf(Laid(data)) = data
  BY <1>1, <1>2 DEF DataOf
<1> QED
  BY <1>1, <1>2, <1>3 DEF Data

-----------------------------------------------------------------------------
(***************************************************************************)
(* The steps: the host gains a copy, judges one, or the memory changes.      *)
(***************************************************************************)
LEMMA GainStep ==
  ASSUME Inv, NEW form \in Unjudged \union {"Valid"}, NEW b \in RawBytes,
         NEW from \in Data, DataOf(b) = from, form = "Valid" => from \in ValidData,
         NEW others, others \subseteq owned, Gain(form, b, from, others),
         UNCHANGED <<type, memory, written, status>>,
         given' \subseteq ValidData,
         refused' \subseteq Data, refused' \intersect ValidData = {}
  PROVE  Inv'
<1>1. PICK m \in Moved(b) : owned' = others \union {Owned(form, m, from)}
  BY DEF Gain
<1>2. m \in RawBytes /\ DataOf(m) = from
  BY MovedFacts DEF Inv, TypeOK
<1> DEFINE new == Owned(form, m, from)
<1>3. new.form = form /\ new.bytes = m /\ new.from = from
  BY DEF Owned
<1>4. owned' = others \union {new}
  BY <1>1
<1> HIDE DEF new
<1>5. /\ Padding' = Padding /\ ValidData' = ValidData /\ Data' = Data
      /\ \A x : DataOf(x)' = DataOf(x)
  BY DEF Padding, ValidData, Data, DataOf, DataBytes
<1>6. \A c \in owned' :
        /\ c.form \in Unjudged \union {"Valid"} /\ c.bytes \in RawBytes /\ c.from \in Data
        /\ c.form = "Valid" => DataOf(c.bytes) \in ValidData
        /\ DataOf(c.bytes) = c.from
  BY <1>2, <1>3, <1>4 DEF Inv, TypeOK, ValidsAreValid, CopiesAreSnapshots
<1>7. TypeOK'
  BY <1>5, <1>6, TypeFacts DEF Inv, TypeOK
<1>8. ValidsAreValid' /\ CopiesAreSnapshots'
  BY <1>5, <1>6 DEF ValidsAreValid, CopiesAreSnapshots
<1>9. WhatWasWrittenIsThere' /\ JudgedExactly'
  BY <1>5 DEF Inv, WhatWasWrittenIsThere, JudgedExactly
<1> QED
  BY <1>7, <1>8, <1>9 DEF Inv

\* What is left of the copies is as it was, and what is judged is judged right.
LEMMA JudgedStep ==
  ASSUME Inv, owned' \subseteq owned, UNCHANGED <<type, memory, written, status>>,
         given' \subseteq ValidData,
         refused' \subseteq Data, refused' \intersect ValidData = {}
  PROVE  Inv'
<1>1. /\ Padding' = Padding /\ ValidData' = ValidData /\ Data' = Data
      /\ \A x : DataOf(x)' = DataOf(x)
  BY DEF Padding, ValidData, Data, DataOf, DataBytes
<1>2. TypeOK'
  BY <1>1, TypeFacts DEF Inv, TypeOK
<1>3. ValidsAreValid' /\ CopiesAreSnapshots' /\ WhatWasWrittenIsThere' /\ JudgedExactly'
  BY <1>1 DEF Inv, ValidsAreValid, CopiesAreSnapshots, WhatWasWrittenIsThere, JudgedExactly
<1> QED
  BY <1>2, <1>3 DEF Inv

\* Only the memory and the status change, and what is written is there.
LEMMA MemoryStep ==
  ASSUME Inv, UNCHANGED <<type, owned, given, refused>>,
         memory' \in RawBytes, written' \subseteq 1..Size,
         \A i \in written' : memory'[i] = Uninit => i \in Padding,
         status' \in {"running", "panicked", "undefined"},
         status' = "undefined" => Padding # {} \/ written' # 1..Size
  PROVE  Inv'
<1>1. /\ Padding' = Padding /\ ValidData' = ValidData /\ Data' = Data
      /\ \A x : DataOf(x)' = DataOf(x)
  BY DEF Padding, ValidData, Data, DataOf, DataBytes
<1>2. TypeOK'
  BY <1>1 DEF Inv, TypeOK
<1>3. ValidsAreValid' /\ CopiesAreSnapshots' /\ WhatWasWrittenIsThere' /\ JudgedExactly'
  BY <1>1 DEF Inv, ValidsAreValid, CopiesAreSnapshots, WhatWasWrittenIsThere, JudgedExactly
<1> QED
  BY <1>2, <1>3 DEF Inv

\* Without padding, memory that is written as a whole is initialized.
LEMMA WrittenIsInitialized ==
  ASSUME Inv, Padding = {}, written = 1..Size
  PROVE  Initialized(memory)
BY DEF Inv, WhatWasWrittenIsThere, Initialized

\* Reading what nobody wrote needs padding, or memory that is not all written.
LEMMA ReadsUninitStep ==
  ASSUME Inv, NEW b, Padding = {} /\ written = 1..Size => Initialized(b), ReadsUninit(b)
  PROVE  Inv'
<1>1. Padding # {} \/ written # 1..Size
  BY DEF ReadsUninit
<1>2. UNCHANGED <<type, memory, written, owned, given, refused>> /\ status' = "undefined"
  BY DEF ReadsUninit
<1> QED
  BY <1>1, <1>2, MemoryStep DEF Inv, TypeOK, WhatWasWrittenIsThere

\* The slices that have the size of T are its bytes.
LEMMA FromBytesFacts ==
  ASSUME type \in Types, NEW bs \in Slices, NEW b \in FromBytes(bs)
  PROVE  b \in RawBytes /\ DataOf(b) \in Data
<1>1. PICK n \in 0..(Size + 1) : bs \in [1..n -> Bits]
  BY DEF Slices
<1>2. bs \in Seq(Bits) /\ Len(bs) = n
  BY <1>1, SizeAssumption
<1>3. b \in Bytes
  BY <1>1, <1>2 DEF FromBytes, Bytes
<1> QED
  BY <1>3, BytesAreRaw

\* Making a copy keeps the invariant.
LEMMA MakeStep ==
  ASSUME Inv, Make
  PROVE  Inv'
<1> USE DEF Unjudged
<1>1. /\ type \in Types /\ memory \in RawBytes
      /\ given \subseteq ValidData /\ refused \subseteq Data /\ refused \intersect ValidData = {}
  BY DEF Inv, TypeOK, JudgedExactly
<1>2. ASSUME NEW bs \in Slices, FromBytesPanics(bs) PROVE Inv'
  BY <1>2, MemoryStep DEF FromBytesPanics, Inv, TypeOK, WhatWasWrittenIsThere
<1>3. ASSUME NEW bs \in Slices, NEW form \in Unjudged, TakeBytes(bs, form) PROVE Inv'
  <2>1. PICK b \in FromBytes(bs) : Gain(form, b, DataOf(b), owned)
    BY <1>3 DEF TakeBytes
  <2> QED
    BY <1>1, <1>3, <2>1, FromBytesFacts, GainStep DEF TakeBytes
<1>4. CASE Zeroed
  <2>1. Zeroes \in Bytes
    BY BitsAssumption DEF Bytes, Zeroes
  <2> QED
    BY <1>1, <1>4, <2>1, BytesAreRaw, GainStep DEF Zeroed
<1>5. ASSUME NEW data \in ValidData, New(data) \/ FromValidValue(data) PROVE Inv'
  <2>1. Laid(data) \in RawBytes /\ DataOf(Laid(data)) = data /\ data \in Data
    BY <1>1, LaidFacts
  <2>2. ASSUME NEW form \in {"OGCopy", "Valid"}, Gain(form, Laid(data), data, owned),
               UNCHANGED <<type, memory, written, given, refused, status>>
        PROVE  Inv'
    <3>1. /\ form \in Unjudged \union {"Valid"}
          /\ given' \subseteq ValidData /\ refused' \subseteq Data /\ refused' \intersect ValidData = {}
      BY <1>1, <2>2
    <3> QED
      BY <2>1, <2>2, <3>1, GainStep
  <2> QED
    BY <1>5, <2>2 DEF New, FromValidValue
<1>6. ASSUME NEW data \in ValidData, Write(data) PROVE Inv'
  <2>1. Laid(data) \in RawBytes /\ data \in [DataBytes -> Bits]
    BY <1>1, LaidFacts DEF Data
  <2>2. \A i \in 1..Size : Laid(data)[i] = Uninit => i \in Padding
    BY <1>1, <2>1, TypeFacts, BitsAssumption DEF Laid
  <2> QED
    BY <1>6, <2>1, <2>2, MemoryStep DEF Write, Running
<1>7. CASE Copy
  <2>1. memory \in Bytes
    BY <1>1, <1>7 DEF Copy, Initialized, RawBytes, Bytes
  <2> QED
    BY <1>1, <1>7, <2>1, BytesAreRaw, GainStep DEF Copy
<1>8. CASE CopyReadsUninit
  BY <1>8, WrittenIsInitialized, ReadsUninitStep DEF CopyReadsUninit
<1> QED
  BY <1>2, <1>3, <1>4, <1>5, <1>6, <1>7, <1>8 DEF Make

\* Whatever is done with a copy keeps the invariant.
LEMMA UseStep ==
  ASSUME Inv, NEW c \in owned, Use(c)
  PROVE  Inv'
<1> USE DEF Unjudged
<1>1. /\ c.form \in Unjudged \union {"Valid"} /\ c.bytes \in RawBytes
      /\ c.from \in Data /\ DataOf(c.bytes) = c.from
      /\ c.form = "Valid" => c.from \in ValidData
      /\ given \subseteq ValidData /\ refused \subseteq Data /\ refused \intersect ValidData = {}
  BY DEF Inv, TypeOK, ValidsAreValid, JudgedExactly, CopiesAreSnapshots
<1>2. owned \ {c} \subseteq owned
  OBVIOUS
<1>3. CASE FromOGCopy(c)
  BY <1>1, <1>2, <1>3, GainStep DEF FromOGCopy
<1>4. CASE Clone(c)
  BY <1>1, <1>4, GainStep DEF Clone
<1>5. CASE CloneReadsUninit(c) \/ JudgingReadsUninit(c) \/ WriteCopyReadsUninit(c)
  <2>1. Padding = {} => Initialized(c.bytes)
    BY <1>1, DataIsInitialized DEF Inv, TypeOK
  <2> QED
    BY <1>5, <2>1, ReadsUninitStep DEF CloneReadsUninit, JudgingReadsUninit, WriteCopyReadsUninit
<1>6. CASE ValidateOk(c)
  BY <1>1, <1>6, JudgedStep DEF ValidateOk, Accepts
<1>7. CASE ValidateErr(c)
  <2>1. /\ Gain(c.form, c.bytes, c.from, owned \ {c})
        /\ UNCHANGED <<type, memory, written, status>>
        /\ given' = {} /\ refused' = {DataOf(c.bytes)} /\ DataOf(c.bytes) \notin ValidData
    BY <1>7 DEF ValidateErr, Accepts
  <2> QED
    BY <1>1, <1>2, <2>1, GainStep
<1>8. CASE ValidateRef(c)
  BY <1>1, <1>8, JudgedStep DEF ValidateRef, Accepts
<1>9. CASE Valid(c)
  BY <1>1, <1>9, JudgedStep DEF Valid
<1>10. CASE ValidRef(c)
  BY <1>1, <1>10, JudgedStep DEF ValidRef
<1>11. CASE WriteCopy(c)
  BY <1>1, <1>11, MemoryStep DEF WriteCopy, Running, Initialized
<1> QED
  BY <1>3, <1>4, <1>5, <1>6, <1>7, <1>8, <1>9, <1>10, <1>11 DEF Use

\* The invariant holds before the first copy.
LEMMA InitInv == Init => Inv
<1> SUFFICES ASSUME Init PROVE Inv
  OBVIOUS
<1>1. [i \in 1..Size |-> Uninit] \in RawBytes
  BY DEF RawBytes
<1>2. type \in Types /\ memory \in RawBytes
  BY <1>1, BytesAreRaw DEF Init
<1>3. TypeOK
  BY <1>2 DEF Init, TypeOK
<1> QED
  BY <1>3 DEF Init, Inv, ValidsAreValid, WhatWasWrittenIsThere, JudgedExactly, CopiesAreSnapshots

\* Every step keeps the invariant.
LEMMA NextInv == Inv /\ [Next]_vars => Inv'
<1> SUFFICES ASSUME Inv, [Next]_vars PROVE Inv'
  OBVIOUS
<1>1. ASSUME NEW i \in 1..Size, NEW byte \in Bits, ForeignWrite(i, byte) PROVE Inv'
  <2>1. memory' \in RawBytes /\ memory' = [memory EXCEPT ![i] = byte]
    BY <1>1 DEF ForeignWrite, Inv, TypeOK, RawBytes
  <2>2. written' = written \union {i} /\ written \subseteq 1..Size /\ memory \in RawBytes
    BY <1>1 DEF ForeignWrite, Inv, TypeOK
  <2>3. \A j \in written' : memory'[j] = Uninit => j \in Padding
    BY <2>1, <2>2, BitsAssumption DEF Inv, WhatWasWrittenIsThere, RawBytes
  <2> QED
    BY <1>1, <2>1, <2>2, <2>3, MemoryStep DEF ForeignWrite, Running
<1>2. CASE UNCHANGED vars
  BY <1>2, MemoryStep DEF vars, Inv, TypeOK, WhatWasWrittenIsThere
<1> QED
  BY <1>1, <1>2, MakeStep, UseStep DEF Next

-----------------------------------------------------------------------------
\* What a copy is made of and judged by, in every reachable state, whatever T
\* is.
THEOREM Invariance == Spec => []Inv
  BY InitInv, NextInv, PTL DEF Spec

\* The type invariant: memory and copies keep the size of the type, and copies
\* were made of initialized data.
THEOREM Typing == Spec => []TypeOK
<1>1. Inv => TypeOK
  BY DEF Inv
<1> QED
  BY <1>1, Invariance, PTL

\* validate and validate_ref hand out a T exactly when the contents are one,
\* after any conversions, clones and moves.
THEOREM JudgementsAreExact == Spec => []JudgedExactly
<1>1. Inv => JudgedExactly
  BY DEF Inv
<1> QED
  BY <1>1, Invariance, PTL

\* A copy keeps what it was first made of, through clones, conversions and
\* refusals, whatever becomes of the memory.
THEOREM CopiesKeep == Spec => []CopiesAreSnapshots
<1>1. Inv => CopiesAreSnapshots
  BY DEF Inv
<1> QED
  BY <1>1, Invariance, PTL

\* What is written stays written, and as_bytes reads what is not initialized
\* only of a type with padding or of memory that is not all written, for every
\* type and every build.
THEOREM WrittenIsKept == Spec => []WhatWasWrittenIsThere
<1>1. Inv => WhatWasWrittenIsThere
  BY DEF Inv
<1> QED
  BY <1>1, Invariance, PTL

=============================================================================
