--------------------------- MODULE ForeignMemory ---------------------------
(***************************************************************************)
(* The references into foreign memory (omniglot/src/foreign_memory/) and    *)
(* the two scopes that govern them (omniglot/src/markers.rs).               *)
(*                                                                         *)
(* An OGRef, OGMutRef, OGSlice or OGMutSlice is a range of memory that may   *)
(* hold anything and that foreign code may change whenever it runs; it lives *)
(* as long as the frame whose AllocScope issued it.  An OGVal is a Rust      *)
(* reference to such a range: what it points at must not change while it     *)
(* lives.  It borrows an AccessScope, and whatever takes that scope with     *)
(* `&mut' ends it: the compiler rejects any later use.  A runtime's frames   *)
(* come and go as in MockRt; here a frame is what a lifetime is bound to.    *)
(*                                                                         *)
(* All runtimes share the type of their identity (OGRuntimeBranding), so     *)
(* the compiler lets a reference of one meet the scope of another: only the  *)
(* imprint check keeps them apart.                                          *)
(***************************************************************************)
EXTENDS Integers, Sequences, FiniteSets, FiniteSetsExt, Functions

CONSTANTS
  Runtimes,           \* the runtimes of the process
  NoRuntime,          \* the runtime of the host's bottom frame
  Cells,              \* the addresses, an interval; one holds an element
  Values,             \* what an element of initialized memory may hold
  Valid,              \* the bit patterns that are a valid element
  Uninit,             \* what an element holds that was never written
  LifetimeFeatures,   \* how the feature below may be set
  MaxDepth,           \* bound on the frames
  MaxRefs,            \* bound on the live references that are tracked
  MaxVals             \* bound on the live OGVals that are tracked

ASSUME RuntimesAssumption == NoRuntime \notin Runtimes
ASSUME CellsAssumption == Cells \subseteq Nat
ASSUME ValuesAssumption == Valid \subseteq Values /\ Uninit \notin Values
ASSUME FlagsAssumption == LifetimeFeatures \subseteq BOOLEAN
ASSUME BoundsAssumption == MaxDepth \in Nat \ {0} /\ MaxRefs \in Nat /\ MaxVals \in Nat

VARIABLES
  frames,  \* the closures that run, the innermost last
  mem,     \* the contents of each cell
  refs,    \* the references that are alive
  vals,    \* the OGVals that are alive
  status,  \* how the process is doing
  separate  \* this build has alloc_scope_separate_active_valid_lt

vars == <<frames, mem, refs, vals, status, separate>>

Frame(kind, r) ==
  [kind |-> kind, rt |-> r,
   cells |-> {}, mutable |-> FALSE,  \* alloc: the memory
   orig |-> Uninit]                  \* alloc: what an immutable one holds

Depth == Len(frames)
Top == frames[Depth]
HostRunning == status = "running" /\ Top.kind # "foreign"
ForeignRunning == status = "running" /\ Top.kind = "foreign"
HasRoom == Depth < MaxDepth

Push(f) == frames' = Append(frames, f)

ScopeKinds == {"alloc", "setup", "callback"}

\* The frame that issued the AllocScope, and the AccessScope, that code of
\* the host can use for a runtime: outer ones are borrowed.
ScopeOf(r) ==
  Max({1} \union {k \in 1..Depth : frames[k].rt = r /\ frames[k].kind \in ScopeKinds})
AccessOf(r) ==
  Max({1} \union {k \in 1..Depth : frames[k].rt = r /\ frames[k].kind = "callback"})

Init ==
  /\ frames = <<Frame("host", NoRuntime)>>
  /\ mem = [c \in Cells |-> Uninit]
  /\ refs = {}
  /\ vals = {}
  /\ status = "running"
  /\ separate \in LifetimeFeatures

-----------------------------------------------------------------------------
(***************************************************************************)
(* Lifetimes.                                                               *)
(***************************************************************************)
\* `&mut AccessScope' ends every OGVal that borrows it.
ValsAfterBorrowing(r) == {v \in vals : v.borrows # <<r, AccessOf(r)>>}

\* `&AccessScope' ends only a value from a write, which borrows it uniquely.
ValsAfterSharing(r) == {v \in vals : v.borrows = <<r, AccessOf(r)>> => ~v.unique}

\* `&mut AllocScope' ends the references bound to its active lifetime, and with
\* them the values.
Active(x, r) ==
  x.active /\ x.rt = r /\ x.scope = ScopeOf(r)
Idle(set, r) == {x \in set : ~Active(x, r)}

\* Mutant: nothing is bound to the frame that ends.
OutlivingAll(set) == set

\* What outlives the innermost frame.
Outliving(set) == {x \in set : x.scope < Depth}

Pop ==
  /\ frames' = SubSeq(frames, 1, Depth - 1)
  /\ refs' = Outliving(refs)
  /\ vals' = {v \in Outliving(vals) : v.borrows[2] < Depth}

-----------------------------------------------------------------------------
(***************************************************************************)
(* Frames.                                                                  *)
(***************************************************************************)
\* Memory in one piece.  An empty range reaches nothing and is left out.
Ranges ==
  {range \in SUBSET Cells : range # {} /\ \A x, y \in range : x..y \subseteq range}

\* Memory no live allocation occupies.
FreeRanges == {range \in Ranges : \A k \in 1..Depth : range \intersect frames[k].cells = {}}

\* An active reference is bound to the active lifetime of its scope, any other
\* to the one in which the scope is valid.
Ref(r, cells, mutable, scope, active) ==
  [rt |-> r, cells |-> cells, mutable |-> mutable, scope |-> scope, active |-> active]

\* The runtime's closure gets a reference to the new allocation.
EnterAllocation(r, cells, mutable, contents, keep) ==
  /\ HasRoom /\ Cardinality(Idle(refs, r)) < MaxRefs
  /\ mem' = [c \in Cells |-> IF c \in cells THEN contents ELSE mem[c]]
  /\ Push([Frame("alloc", r) EXCEPT
             !.cells = cells, !.mutable = mutable,
             !.orig = IF mutable THEN Uninit ELSE contents])
  /\ refs' = Idle(refs, r) \union {Ref(r, cells, mutable, Depth + 1, FALSE)}
  /\ vals' = Idle(keep, r)
  /\ UNCHANGED <<status, separate>>

\* allocate_stacked_t_mut, allocate_stacked_slice_mut: the memory is what it
\* happens to be.
AllocateStacked(r) ==
  /\ HostRunning
  /\ \E cells \in FreeRanges : EnterAllocation(r, cells, TRUE, Uninit, vals)

\* write_stacked_t(_mut), write_stacked_ref_t(_mut), write_stacked_slice*: they
\* take both scopes, and the OGVal of the write is dropped at once.
WriteStacked(r) ==
  /\ HostRunning
  /\ \E cells \in FreeRanges, mutable \in BOOLEAN, val \in Valid :
       EnterAllocation(r, cells, mutable, val, ValsAfterBorrowing(r))

\* setup_callback: a new AllocScope, and no memory.
SetupCallback(r) ==
  /\ HostRunning /\ HasRoom
  /\ Push(Frame("setup", r))
  /\ refs' = Idle(refs, r)
  /\ vals' = Idle(vals, r)
  /\ UNCHANGED <<mem, status, separate>>

\* The closure of an allocation or a registration returns.
FinishClosure ==
  /\ HostRunning /\ Top.kind \in {"alloc", "setup"}
  /\ Pop
  /\ UNCHANGED <<mem, status, separate>>

\* Mutant: the foreign code runs while the AllocScope is only shared.
ExecuteSharesAlloc(r) ==
  /\ HostRunning /\ HasRoom
  /\ Push(Frame("foreign", r))
  /\ vals' = ValsAfterBorrowing(r)
  /\ UNCHANGED <<mem, refs, status, separate>>

\* Mutant: the foreign code runs while the AccessScope is only shared.
ExecuteSharesAccess(r) ==
  /\ HostRunning /\ HasRoom
  /\ Push(Frame("foreign", r))
  /\ refs' = Idle(refs, r)
  /\ vals' = Idle(vals, r)
  /\ UNCHANGED <<mem, status, separate>>

\* OGRuntime::execute takes both scopes with `&mut'.
Execute(r) ==
  /\ HostRunning /\ HasRoom
  /\ Push(Frame("foreign", r))
  /\ refs' = Idle(refs, r)
  /\ vals' = Idle(ValsAfterBorrowing(r), r)
  /\ UNCHANGED <<mem, status, separate>>

\* Foreign code writes where it may: the mutable memory of its own runtime.
ForeignWrite ==
  /\ ForeignRunning
  /\ \E k \in 1..Depth, val \in Values :
       /\ frames[k].kind = "alloc" /\ frames[k].rt = Top.rt /\ frames[k].mutable
       /\ \E c \in frames[k].cells : mem' = [mem EXCEPT ![c] = val]
  /\ UNCHANGED <<frames, refs, vals, status, separate>>

FinishForeign ==
  /\ ForeignRunning
  /\ Pop
  /\ UNCHANGED <<mem, status, separate>>

\* A callback runs with scopes of its own.
EnterCallback ==
  /\ ForeignRunning /\ HasRoom
  /\ Push(Frame("callback", Top.rt))
  /\ UNCHANGED <<mem, refs, vals, status, separate>>

FinishCallback ==
  /\ HostRunning /\ Top.kind = "callback"
  /\ Pop
  /\ UNCHANGED <<mem, status, separate>>

-----------------------------------------------------------------------------
(***************************************************************************)
(* References.                                                              *)
(***************************************************************************)
\* AllocTracker::is_valid and is_valid_mut: what MockRt's trackers promise.  A
\* runtime made with all_upgrades_valid promises nothing, and is in MockRt only.
Tracks(r, cells, mutable) ==
  \E k \in 1..Depth :
    /\ frames[k].kind = "alloc" /\ frames[k].rt = r
    /\ cells \subseteq frames[k].cells
    /\ mutable => frames[k].mutable

NewRef(ref) ==
  /\ ref \notin refs /\ Cardinality(refs) < MaxRefs
  /\ refs' = refs \union {ref}
  /\ UNCHANGED <<frames, mem, vals, status, separate>>

\* upgrade_from_ptr of OGRef and OGSlice: Some reference, or None and nothing
\* happens.  It borrows the AllocScope, unless the build separates lifetimes.
UpgradeFromPtr(r, cells) ==
  /\ HostRunning
  /\ Tracks(r, cells, FALSE)
  /\ NewRef(Ref(r, cells, FALSE, ScopeOf(r), ~separate))

\* upgrade_from_ptr of OGMutRef and OGMutSlice
UpgradeFromPtrMut(r, cells) ==
  /\ HostRunning
  /\ Tracks(r, cells, TRUE)
  /\ NewRef(Ref(r, cells, TRUE, ScopeOf(r), ~separate))

AsImmut(ref) ==
  /\ HostRunning
  /\ NewRef([ref EXCEPT !.mutable = FALSE])

\* Mutant: only where the part starts is checked.
SubRefUnbounded(ref, cells) ==
  /\ HostRunning
  /\ Min(cells) \in ref.cells
  /\ NewRef([ref EXCEPT !.cells = cells])

\* sub_ref: a part of the range, with the same lifetime and rights.
SubRef(ref, cells) ==
  /\ HostRunning
  /\ cells \subseteq ref.cells
  /\ NewRef([ref EXCEPT !.cells = cells])

\* get and iter of the slices
GetElement(ref, c) ==
  /\ HostRunning
  /\ c \in ref.cells
  /\ NewRef([ref EXCEPT !.cells = {c}])

\* A reference that is not used again.
DropRef(ref) ==
  /\ HostRunning
  /\ refs' = refs \ {ref}
  /\ UNCHANGED <<frames, mem, vals, status, separate>>

-----------------------------------------------------------------------------
(***************************************************************************)
(* Reading and writing.  Each takes the AccessScope of some runtime a.       *)
(***************************************************************************)
\* Mutant: any scope of the right type is accepted.
AccessChecksDropped(ref, a) == TRUE

\* check_access_scope_imprint
AccessChecks(ref, a) == ref.rt = a

\* The check panics; the host may catch that on the spot.  The scope was
\* borrowed as the operation asked.
ImprintMismatch(ref, a) ==
  /\ HostRunning
  /\ ~AccessChecks(ref, a)
  /\ vals' \in {ValsAfterSharing(a), ValsAfterBorrowing(a)}
  /\ status' \in {"running", "panicked"}
  /\ UNCHANGED <<frames, mem, refs, separate>>

Val(ref, a, contents, unique) ==
  [rt |-> ref.rt, cells |-> ref.cells, scope |-> ref.scope, active |-> ref.active,
   borrows |-> <<a, AccessOf(a)>>, unique |-> unique, seen |-> contents]

\* Mutant: the value spans more than the reference it was made from.
ContentsTooLong(cells) == mem

Contents(cells) == Restrict(mem, cells)

NewVal(kept, val) ==
  /\ Cardinality(kept) < MaxVals
  /\ vals' = kept \union {val}

\* OGRef::validate, OGSlice::validate: every element has to be valid.
ElementsValid(ref) == \A c \in ref.cells : mem[c] \in Valid

Reads(ref, a) == HostRunning /\ AccessChecks(ref, a)
Initialized(ref) == \A c \in ref.cells : mem[c] # Uninit

\* validate, and valid for types of which every bit pattern is valid
Validate(ref, a) ==
  /\ Reads(ref, a) /\ Initialized(ref)
  /\ ElementsValid(ref)
  /\ NewVal(ValsAfterSharing(a), Val(ref, a, Contents(ref.cells), FALSE))
  /\ UNCHANGED <<frames, mem, refs, status, separate>>

\* validate returns None; copy returns owned bytes: neither keeps a borrow.
ReadOnly(ref, a) ==
  /\ Reads(ref, a) /\ Initialized(ref)
  /\ vals' = ValsAfterSharing(a)
  /\ UNCHANGED <<frames, mem, refs, status, separate>>

\* validate and copy look at memory that was never written.
ReadUninitialized(ref, a) ==
  /\ Reads(ref, a) /\ ~Initialized(ref)
  /\ status' = "undefined_behaviour"
  /\ UNCHANGED <<frames, mem, refs, vals, separate>>

Store(contents) ==
  mem' = [c \in Cells |-> IF c \in DOMAIN contents THEN contents[c] ELSE mem[c]]

Writes(ref, a) == Reads(ref, a) /\ ref.mutable

\* write, write_ref, write_from_iter, copy_from_slice: the whole range is
\* written, and a value that borrows the scope uniquely is returned.
Fill(ref, a) ==
  /\ Writes(ref, a)
  /\ \E contents \in [ref.cells -> Valid] :
       /\ Store(contents)
       /\ NewVal(ValsAfterBorrowing(a), Val(ref, a, contents, TRUE))
  /\ UNCHANGED <<frames, refs, status, separate>>

\* write_from_iter and copy_from_slice when the source ends early: what there is
\* is written, then an assertion panics.
FillStopsShort(ref, a) ==
  /\ Writes(ref, a)
  /\ \E n \in ref.cells :
       \E contents \in [{c \in ref.cells : c < n} -> Valid] : Store(contents)
  /\ vals' = ValsAfterBorrowing(a)
  /\ status' \in {"running", "panicked"}
  /\ UNCHANGED <<frames, refs, separate>>

\* write_copy: the bytes need not be valid, and no value is returned.
WriteCopy(ref, a) ==
  /\ Writes(ref, a)
  /\ \E contents \in [ref.cells -> Values] : Store(contents)
  /\ vals' = ValsAfterBorrowing(a)
  /\ UNCHANGED <<frames, refs, status, separate>>

\* OGVal::as_ref
AsRef(val) ==
  /\ HostRunning
  /\ NewRef(Ref(val.rt, val.cells, FALSE, val.scope, val.active))

\* A value that is not used again.
DropVal(val) ==
  /\ HostRunning
  /\ vals' = vals \ {val}
  /\ UNCHANGED <<frames, mem, refs, status, separate>>

-----------------------------------------------------------------------------
RuntimeStep(r) ==
  \/ AllocateStacked(r) \/ WriteStacked(r) \/ SetupCallback(r) \/ Execute(r)
  \/ \E cells \in Ranges : UpgradeFromPtr(r, cells) \/ UpgradeFromPtrMut(r, cells)

Access(ref, a) ==
  \/ ImprintMismatch(ref, a)
  \/ Validate(ref, a) \/ ReadOnly(ref, a) \/ ReadUninitialized(ref, a)
  \/ Fill(ref, a) \/ FillStopsShort(ref, a) \/ WriteCopy(ref, a)

Next ==
  \/ \E r \in Runtimes : RuntimeStep(r)
  \/ EnterCallback \/ ForeignWrite
  \/ FinishClosure \/ FinishForeign \/ FinishCallback
  \/ \E ref \in refs : DropRef(ref) \/ AsImmut(ref)
  \/ \E ref \in refs, cells \in Ranges : SubRef(ref, cells)
  \/ \E ref \in refs : \E c \in ref.cells : GetElement(ref, c)
  \/ \E ref \in refs, a \in Runtimes : Access(ref, a)
  \/ \E val \in vals : AsRef(val) \/ DropVal(val)

Spec == Init /\ [][Next]_vars

-----------------------------------------------------------------------------
(***************************************************************************)
(* Properties.                                                              *)
(***************************************************************************)
Scopes == 1..MaxDepth

FrameType ==
  [kind : {"host", "alloc", "setup", "foreign", "callback"},
   rt : Runtimes \union {NoRuntime}, cells : SUBSET Cells,
   mutable : BOOLEAN, orig : Valid \union {Uninit}]

RefType ==
  [rt : Runtimes, cells : SUBSET Cells, mutable : BOOLEAN,
   scope : Scopes, active : BOOLEAN]

IsVal(v) ==
  /\ v.rt \in Runtimes /\ v.cells \subseteq Cells /\ v.scope \in Scopes
  /\ v.borrows \in Runtimes \X Scopes /\ v.active \in BOOLEAN /\ v.unique \in BOOLEAN
  /\ v.seen \in [v.cells -> Values]

\* The type invariant.
TypeOK ==
  /\ frames \in Seq(FrameType)
  /\ Depth \in Scopes
  /\ mem \in [Cells -> Values \union {Uninit}]
  /\ refs \subseteq RefType
  /\ \A v \in vals : IsVal(v)
  /\ status \in {"running", "panicked", "undefined_behaviour"}
  /\ separate \in BOOLEAN

\* What an OGVal points at does not change while it lives, and is valid:
\* through every interleaving of reads, writes, foreign calls, callbacks and
\* other runtimes, a plain Rust reference to foreign memory can be relied on.
ValidatedStaysValid ==
  \A v \in vals, c \in Cells :
    c \in v.cells => mem[c] = v.seen[c] /\ mem[c] \in Valid

\* Every live reference and value points into one live allocation of its
\* runtime, and a mutable reference into a mutable one: none survives the
\* closure it was made for, so no freed memory is ever reached.
PointsIntoLiveMemory ==
  /\ \A x \in refs \union vals : Tracks(x.rt, x.cells, FALSE)
  /\ \A x \in refs : x.mutable => Tracks(x.rt, x.cells, TRUE)

\* An immutable allocation (the host's own value, with zero_copy_immutable)
\* keeps its contents until its closure ends, whatever references are upgraded
\* to it or derived from others, and whatever foreign code runs.
ImmutableStaysConstant ==
  \A k \in 1..Depth :
    frames[k].kind = "alloc" /\ ~frames[k].mutable
      => \A c \in frames[k].cells : mem[c] = frames[k].orig

\* While foreign code of a runtime runs, no OGVal of that runtime's memory is
\* alive in any frame.
NoValsWhileForeignRuns ==
  Top.kind = "foreign" => \A v \in vals : v.rt # Top.rt

\* The comment on alloc_scope_separate_active_valid_lt: without that feature
\* a call may invalidate earlier references, so while foreign code of a
\* runtime runs nothing upgraded from a pointer of its, in any frame, is alive:
\* all that borrows an AllocScope borrows the one that the call takes.
NoUpgradesAcrossCalls ==
  Top.kind = "foreign" => \A x \in refs \union vals : x.rt = Top.rt => ~x.active

\* OGMutRef: "the memory backing this reference is initialized and
\* allocated", so reading through a reference is always defined.
ReadsAreDefined == status # "undefined_behaviour"

=============================================================================
