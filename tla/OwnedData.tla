----------------------------- MODULE OwnedData ------------------------------
(***************************************************************************)
(* Copies of foreign memory that the host owns (omniglot/src/maybe_valid.rs,  *)
(* foreign_memory/og_copy.rs and og_ret.rs): bytes of the size of a type T    *)
(* that need not be a valid T, taken from an OGMutRef<T>, from a byte slice   *)
(* or from a T, moved around, judged, and written back.                      *)
(*                                                                         *)
(* T may have padding.  A value of type T has nothing there, and a            *)
(* MaybeUninit<T> that is moved or copied keeps its other bytes but not       *)
(* necessarily those: this is what the compiler may do with every return.    *)
(* Memory starts as it was allocated, which may be without any contents.     *)
(***************************************************************************)
EXTENDS Integers, Sequences, FiniteSets

CONSTANTS
  Size,       \* size_of::<T>()
  Types,      \* what T can be: [padding, valid], the bytes that are padding
              \* and the contents of the others that are a valid T
  Bits,       \* what a byte can hold
  Zero,       \* one of them
  Uninit,     \* what nobody wrote
  KeepsPadding,  \* this build moves and copies all bytes of a MaybeUninit<T>
  MaxCopies      \* bound on the copies at a time

DataBytesOf(t) == (1..Size) \ t.padding
Bytes == [1..Size -> Bits]
RawBytes == [1..Size -> Bits \union {Uninit}]

ASSUME SizeAssumption == Size \in Nat /\ MaxCopies \in Nat /\ KeepsPadding \in BOOLEAN
ASSUME BitsAssumption == Zero \in Bits /\ Uninit \notin Bits
ASSUME TypesAssumption ==
  \A t \in Types : t.padding \subseteq 1..Size /\ t.valid \subseteq [DataBytesOf(t) -> Bits]

VARIABLES
  type,     \* T
  memory,   \* the foreign memory behind an OGMutRef<T>
  written,  \* history: the bytes of it that somebody has written
  owned,    \* the copies the host has: their form, bytes, and, as history,
            \* the data they were first made of
  given,    \* history: what the last judgement handed out as a T, if anything
  refused,  \* history: what it found not to be one
  status    \* "running", "panicked" or "undefined"

vars == <<type, memory, written, owned, given, refused, status>>

Padding == type.padding
ValidData == type.valid
DataBytes == DataBytesOf(type)
Data == [DataBytes -> Bits]
DataOf(b) == [i \in DataBytes |-> b[i]]
Initialized(b) == Uninit \notin {b[i] : i \in 1..Size}

\* An OGCopy<T>, or an OGRet<T> that is one or the other of its variants.
Owned(form, b, from) == [form |-> form, bytes |-> b, from |-> from]
Unjudged == {"OGCopy", "Initialized"}

\* The outcomes of moving or copying a MaybeUninit<T>.
Moved(b) ==
  {m \in RawBytes : \A i \in 1..Size :
     m[i] = b[i] \/ (~KeepsPadding /\ i \in Padding /\ m[i] = Uninit)}

\* A T as it lies in memory.
Laid(data) == [i \in 1..Size |-> IF i \in DataBytes THEN data[i] ELSE Uninit]

\* Foreign code or write_stacked_* has written the memory, or it comes from
\* allocate_stacked_*_mut, which writes nothing.
Init ==
  /\ type \in Types
  /\ memory \in Bytes \union {[i \in 1..Size |-> Uninit]}
  /\ written = {i \in 1..Size : memory[i] # Uninit}
  /\ owned = {}
  /\ given = {} /\ refused = {}
  /\ status = "running"

Running == status = "running"

\* The host gets something of this form and contents, first made of that data.
Gain(form, b, from, others) ==
  /\ \E m \in Moved(b) : owned' = others \union {Owned(form, m, from)}
  /\ Cardinality(owned') <= MaxCopies

\* MaybeValid::as_bytes: the bytes are transmuted to initialized ones, which
\* is undefined behaviour when they are not.
ReadsUninit(b) ==
  /\ ~Initialized(b)
  /\ status' = "undefined"
  /\ UNCHANGED <<type, memory, written, owned, given, refused>>

-----------------------------------------------------------------------------
\* Mutant: the two slices are zipped although their lengths differ.
FromBytesZips(bs) == {[i \in 1..Size |-> IF i <= Len(bs) THEN bs[i] ELSE Uninit]}

\* MaybeValid::from_bytes: what it makes of a slice, if it returns.
FromBytes(bs) == {b \in {bs} : Len(bs) = Size}

\* A copy, or an OGRet made from what foreign code put somewhere.
TakeBytes(bs, form) ==
  /\ Running
  /\ \E b \in FromBytes(bs) : Gain(form, b, DataOf(b), owned)
  /\ UNCHANGED <<type, memory, written, given, refused, status>>

FromBytesPanics(bs) ==
  /\ Running /\ FromBytes(bs) = {}
  /\ status' = "panicked"
  /\ UNCHANGED <<type, memory, written, owned, given, refused>>

Zeroes == [i \in 1..Size |-> Zero]

Zeroed ==
  /\ Running
  /\ Gain("OGCopy", Zeroes, DataOf(Zeroes), owned)
  /\ UNCHANGED <<type, memory, written, given, refused, status>>

\* OGCopy::new asks for T: IntoBytes, which a type with padding is not.
New(data) ==
  /\ Running /\ Padding = {}
  /\ Gain("OGCopy", Laid(data), data, owned)
  /\ UNCHANGED <<type, memory, written, given, refused, status>>

FromValidValue(data) ==
  /\ Running
  /\ Gain("Valid", Laid(data), data, owned)
  /\ UNCHANGED <<type, memory, written, given, refused, status>>

FromOGCopy(c) ==
  /\ Running /\ c.form = "OGCopy"
  /\ Gain("Initialized", c.bytes, c.from, owned \ {c})
  /\ UNCHANGED <<type, memory, written, given, refused, status>>

\* OGCopy copies byte for byte through a slice, OGRet as its T is copied.
Clone(c) ==
  /\ Running
  /\ c.form = "OGCopy" => Initialized(c.bytes)
  /\ Gain(c.form, c.bytes, c.from, owned)
  /\ UNCHANGED <<type, memory, written, given, refused, status>>

CloneReadsUninit(c) == Running /\ c.form = "OGCopy" /\ ReadsUninit(c.bytes)

-----------------------------------------------------------------------------
(***************************************************************************)
(* Judging.                                                                 *)
(***************************************************************************)
\* Mutant: nothing is judged.
AcceptsAnything(c) == TRUE

\* try_ref_from_bytes on what foreign code wrote; a T of the host is one.
Accepts(c) == c.form = "Valid" \/ DataOf(c.bytes) \in ValidData

Readable(c) == c.form \in Unjudged => Initialized(c.bytes)

\* validate consumes what it is given, and gives back what it refuses.
ValidateOk(c) ==
  /\ Running /\ Readable(c) /\ Accepts(c)
  /\ owned' = owned \ {c}
  /\ given' = {DataOf(c.bytes)} /\ refused' = {}
  /\ UNCHANGED <<type, memory, written, status>>

\* Mutant: the error value is made anew.
ValidateErrZeroed(c) ==
  /\ Running /\ Readable(c) /\ ~Accepts(c)
  /\ Gain(c.form, Zeroes, c.from, owned \ {c})
  /\ refused' = {DataOf(c.bytes)} /\ given' = {}
  /\ UNCHANGED <<type, memory, written, status>>

ValidateErr(c) ==
  /\ Running /\ Readable(c) /\ ~Accepts(c)
  /\ Gain(c.form, c.bytes, c.from, owned \ {c})
  /\ refused' = {DataOf(c.bytes)} /\ given' = {}
  /\ UNCHANGED <<type, memory, written, status>>

ValidateRef(c) ==
  /\ Running /\ Readable(c)
  /\ given' = {d \in {DataOf(c.bytes)} : Accepts(c)}
  /\ refused' = {d \in {DataOf(c.bytes)} : ~Accepts(c)}
  /\ UNCHANGED <<type, memory, written, owned, status>>

JudgingReadsUninit(c) == Running /\ c.form \in Unjudged /\ ReadsUninit(c.bytes)

\* valid and valid_ptr ask for a T of which all contents are valid, and read
\* nothing but the T.
Valid(c) ==
  /\ Running /\ ValidData = Data
  /\ owned' = owned \ {c}
  /\ given' = {DataOf(c.bytes)} /\ refused' = {}
  /\ UNCHANGED <<type, memory, written, status>>

ValidRef(c) ==
  /\ Running /\ ValidData = Data
  /\ given' = {DataOf(c.bytes)} /\ refused' = {}
  /\ UNCHANGED <<type, memory, written, owned, status>>

-----------------------------------------------------------------------------
(***************************************************************************)
(* Foreign memory.                                                          *)
(***************************************************************************)
ForeignWrite(i, byte) ==
  /\ Running
  /\ memory' = [memory EXCEPT ![i] = byte]
  /\ written' = written \union {i}
  /\ UNCHANGED <<type, owned, given, refused, status>>

\* OGMutRef::write, for any T: MaybeUninit::write stores what the T has.
Write(data) ==
  /\ Running
  /\ memory' = Laid(data) /\ written' = 1..Size
  /\ UNCHANGED <<type, owned, given, refused, status>>

\* Mutant: the memory is moved out as it is, not copied as initialized bytes.
CopyMoves ==
  /\ Running
  /\ Gain("OGCopy", memory, DataOf(memory), owned)
  /\ UNCHANGED <<type, memory, written, given, refused, status>>

Copy ==
  /\ Running /\ Initialized(memory)
  /\ Gain("OGCopy", memory, DataOf(memory), owned)
  /\ UNCHANGED <<type, memory, written, given, refused, status>>

CopyReadsUninit == Running /\ ReadsUninit(memory)

WriteCopy(c) ==
  /\ Running /\ c.form = "OGCopy" /\ Initialized(c.bytes)
  /\ memory' = c.bytes /\ written' = 1..Size
  /\ UNCHANGED <<type, owned, given, refused, status>>

WriteCopyReadsUninit(c) == Running /\ c.form = "OGCopy" /\ ReadsUninit(c.bytes)

-----------------------------------------------------------------------------
Slices == UNION {[1..n -> Bits] : n \in 0..(Size + 1)}

Make ==
  \/ \E bs \in Slices : FromBytesPanics(bs) \/ \E form \in Unjudged : TakeBytes(bs, form)
  \/ Zeroed
  \/ \E data \in ValidData : New(data) \/ FromValidValue(data) \/ Write(data)
  \/ Copy \/ CopyReadsUninit

Use(c) ==
  \/ FromOGCopy(c) \/ Clone(c) \/ CloneReadsUninit(c)
  \/ ValidateOk(c) \/ ValidateErr(c) \/ ValidateRef(c) \/ JudgingReadsUninit(c)
  \/ Valid(c) \/ ValidRef(c)
  \/ WriteCopy(c) \/ WriteCopyReadsUninit(c)

Next ==
  \/ Make
  \/ \E c \in owned : Use(c)
  \/ \E i \in 1..Size, byte \in Bits : ForeignWrite(i, byte)

Spec == Init /\ [][Next]_vars

-----------------------------------------------------------------------------
(***************************************************************************)
(* Properties.                                                              *)
(***************************************************************************)
\* Every state variable has the type its comment says.
TypeOK ==
  /\ type \in Types
  /\ memory \in RawBytes /\ written \subseteq 1..Size
  /\ \A c \in owned : /\ c.form \in Unjudged \union {"Valid"}
                      /\ c.bytes \in RawBytes /\ c.from \in Data
  /\ given \subseteq Data /\ refused \subseteq Data
  /\ status \in {"running", "panicked", "undefined"}

\* No sequence of conversions, clones and judgements makes a T of contents
\* that are not one, or refuses contents that are.
JudgedExactly == given \subseteq ValidData /\ refused \intersect ValidData = {}

\* A copy keeps what it was first made of: through any chain of moves, clones,
\* conversions and refusals, whatever happens to the memory meanwhile.
CopiesAreSnapshots == \A c \in owned : DataOf(c.bytes) = c.from

\* What the host or foreign code wrote to the memory stays there, but for
\* padding, and once all of it is written only padding makes as_bytes read what
\* is not initialized: also of copies taken before, moved, cloned or converted.
WhatWasWrittenIsThere ==
  /\ \A i \in written : memory[i] = Uninit => i \in Padding
  /\ status = "undefined" => Padding # {} \/ written # 1..Size

\* A MaybeValid "representing initialized bytes": of memory that has been
\* written as a whole, no byte is read that nobody wrote.
WrittenIsReadable == status = "undefined" => written # 1..Size

=============================================================================
