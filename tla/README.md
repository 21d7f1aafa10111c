# Omniglot in TLA+

Omniglot lets a Rust host call an untrusted foreign library. The host reads and
writes the library's memory only through reference types that are governed by
two marker types: an `AllocScope` vouches that memory is allocated, an
`AccessScope` that nobody else touches it. This directory holds TLA+ models of
the code that makes this work, the TLC runs that check them, and the theorems
TLAPS proves about them.

Paths below are relative to `src/omniglot/src/` of the repository.

## 1. Inventory

| component | state | operations | who it talks to |
|---|---|---|---|
| Mock runtime, `rt/mock/mod.rs` | the Rust call stack (each runtime method keeps its data in its own frame and runs a closure), the static `ACTIVE_ALLOC_CHAIN_HEAD_ROG`, the trampolines the library has been handed | `execute`, `setup_callback`, `allocate_stacked_*`, `write_stacked_*`, the trampolines and `mock_rt_callback_dispatch` | host closures, foreign code, the allocators, the identities |
| Allocators, `rt/mock/stack_alloc.rs`, `heap_alloc.rs` | the stack pointer and a callee-saved register; the heap's blocks | `with_alloc` runs a closure on fresh memory | mock runtime |
| `OGRuntime`, `rt/mod.rs` | none | the promise of a runtime, and default methods on top of it | everybody |
| Identities, `id/runtime.rs`, `id/lifetime.rs` | a global atomic counter | `OGRuntimeBranding::new`, imprints | the scopes, all imprint checks |
| Scopes and trackers, `markers.rs`, `alloc_tracker.rs` | imprint, tracker | borrowed `&` or `&mut` by every operation on memory | references, runtimes |
| References, `foreign_memory/` | a pointer and an imprint; a validated value is a Rust reference | `upgrade_from_ptr`, `sub_ref`, `validate`, `copy`, `write*` | scopes, trackers |
| Owned data, `og_copy.rs`, `og_ret.rs`, `maybe_valid.rs` | bytes that need not be a valid `T` | `from_bytes`, `new`, `validate`, `valid`, clones, conversions | references |
| Errors, `lib.rs` | none | documented meaning of each error | everybody |
| ABI markers, architecture runtimes, utilities, build | none | types, casts, build plumbing | none |

### What is hard here

* **Nesting.** Everything is a closure in a frame of the runtime. Foreign code
  calls back while it runs; the callback may allocate, register and call again.
  A single static variable has to follow all of that.
* **Identity.** A trampoline is a number that is looked up in whatever chain is
  active when it is called. All runtimes may share one identity *type*, so
  only dynamic imprint comparisons keep two runtimes apart.
* **Exclusion.** A callback is given an `AccessScope` made out of thin air. It
  is sound only if no other one of that runtime is free, anywhere on the stack.
* **Staleness.** A value is validated once and dereferenced later, with writes,
  calls and callbacks in between.
* **Assembly.** The stack allocator moves the stack pointer itself and shares
  its registers with the compiler, again at every level of nesting.
* **Failure.** Panics unwind through frames that have changed the static;
  a short iterator leaves a slice half written; the allocator returns null; the
  pool of trampolines is finite; an iterator's `len()` is wrong, or it never ends.
* **Edges.** Address arithmetic at the top of the address space, sizes that
  overflow, fields that are aligned only by luck; the counter of identities at
  its maximum, with threads racing for the last one.

`PROJECT.json` lists each of these under `hazards`, at its line, with the
properties that cover it.

### What makes each component correct

* Mock runtime: the head is the innermost live registration; ids number the
  live registrations; an upgrade succeeds exactly for memory that is allocated
  and visible; one owner per memory at any time.
* Allocators: a running closure has memory of the layout it asked for and shares
  it with no other frame; each return finds its caller's stack.
* Identities: no id twice, no id lost, every call of `new` ends; an operation
  goes ahead exactly with the scopes of its own runtime.
* References: a validated value does not change while it lives; no reference
  outlives its memory or reaches beyond it; what was handed out as immutable is
  never written; a slice write is all or a prefix.
* Owned data: a copy keeps what it was first made of; a `T` is only made of
  contents that are one; of what was written, only padding is ever lost.

## 2. Modules

| module | models | state and actions |
|---|---|---|
| `MockRt` | `rt/mock/` with `id_imprint_check`, scopes and trackers | `stack` is the Rust call stack, a frame per running closure with the scopes its code can use; `head` the static; `handed` the trampolines the library holds; `status` running, aborted, ... One action per method (`AllocateStackedMut`, `AllocateStackedT`, `WriteStackedT`, `WriteStackedSlice`, `AllocateStackedUntracked`, `SetupCallback`, `Execute`), one for each kind of return, three for what a trampoline call can meet (`DispatchCallback`, `DispatchFails`, `DispatchDangling`), two for panics |
| `ForeignAccess` | what `OGRuntime` and the markers promise about calls | abstract: the calls in progress and whose `turn` it is per memory. No head, chains or ids |
| `Branding` | `id/runtime.rs` | `ctr`, and per thread `pc` and `prev` of `fetch_update`; `Load`, `Exchange`, `Retry`, `Overflow` |
| `Identities` | `id/`, `MockRt::new`, `id_imprint_check` | extends `Branding` with the lifetime closures each thread is in, the runtimes and the scopes made with them |
| `Allocators` | `rt/mock/stack_alloc.rs`, `heap_alloc.rs` | `frames` are the calls of `with_alloc`; `sp`, `saved` the stack pointer and `r12`/`s2`; `held` the heap's blocks |
| `ScopedMemory` | what `MockRt` takes an allocator to be | abstract: `live`, a stack of blocks that are apart |
| `ForeignMemory` | `foreign_memory/`, `markers.rs`, the `write_stacked_*` defaults of `rt/mod.rs` | `frames` only as lifetimes; `mem`; the live `refs` and `vals` (values); one action per operation on a reference, with the borrow its signature takes (the writes that return a value are all `Fill`) |
| `TypedRefs` | the address arithmetic of `foreign_memory/` and of the `allocate_stacked_*` defaults | `blocks` the tracker knows; one `ref` through its upgrade and every derivation; `iter` |
| `SliceWrite` | `write_from_iter`, `copy_from_slice`, the `write_stacked_slice*` defaults | the loop: `count`, the iterator `src`, what was `taken`; `pc` |
| `AtomicWrite` | what a slice write promises | abstract: call, then all or a prefix in one step |
| `OwnedData` | `og_copy.rs`, `og_ret.rs`, `maybe_valid.rs`, and `copy`, `write`, `write_copy` of the references | `type`; `memory` byte by byte, at first written or as allocated, and `written`, the bytes somebody has written since; `owned`, the copies in their forms, with the data they were first made of |
| `MC*` | | values of the constants for TLC |
| `MockRtProofs`, `BrandingProofs` (with `Identities`), `ForeignMemoryProofs`, `TypedRefsProofs`, `SliceWriteProofs`, `AllocatorsProofs`, `OwnedDataProofs` | | theorems and proofs about the module they extend |
| `FrameLemmas` | | lemmas about stacks of numbered frames that several of them need |

How they fit:

* `MockRt` implements `ForeignAccess` (`ImplementsForeignAccess`, with `Turn` as
  the refinement mapping).
* `MockRt` takes allocations from a set of blocks. `Allocators` implements
  `ScopedMemory` with both allocators, which is what justifies that.
* `Identities` is composed with `Branding`, whose actions are part of its steps:
  the ids are the ones threads really get. Its `AcceptsOnlyItsOwnScopes`
  justifies that two elements of `Runtimes` have different imprints, which
  `MockRt` and `ForeignMemory` take for granted.
* `ForeignMemory` uses of the runtime only what `MockRt` shows: one `AccessScope`
  of a runtime is usable at a time (`AccessOf`, from `UniqueAccess`), and the
  tracker answers truthfully (`Tracks`, from `UpgradesExactlyVisible`).
* `ForeignMemory` writes a slice in one step, all or a prefix. `SliceWrite`, which
  takes it element by element, implements `AtomicWrite`, which is that step.
* `ForeignMemory` treats memory as elements. That a reference covers whole,
  aligned elements of one allocation is `TypedRefs` (`InBounds`, `WellAligned`).

### Choices worth knowing

* A chain of trackers is the *set of frame numbers* its iterator visits: a
  tracker lives in the frame that made it, and nearer means larger. A dangling
  pointer is the value `Dangling`.
* Borrows are modelled by their effect. In `MockRt` an operation that takes
  `&mut scope` removes it from what the inner frame can use. In
  `ForeignMemory` taking `&mut AccessScope` ends the values that borrow it: the
  compiler rejects a program that would use one afterwards. Dropping a `&mut`
  from a signature is therefore a change the model can express, and several
  mutants do exactly that.
* A callback closure may use what it captured at its registration, as far as
  nobody on the way down has borrowed it since (`captured` in
  `DispatchCallback`).
* Foreign code is arbitrary within its contract: it calls any trampoline it was
  ever handed, in any order, and writes any bit pattern to its mutable memory.
  `ParallelRuntimes` decides whether a library may call one while another
  runtime's registration is the head.
* Undefined behaviour ends a behaviour with a `status` of its own.
* `ForeignMemory` and `TypedRefs` have trackers that answer truthfully. The
  `all_upgrades_valid` of a mock runtime, whose base tracker accepts any pointer
  (`rt/mock/mod.rs:403`), is in `MockRt` only (`AllUpgradesValid`): with it there
  is nothing that references could be held to.
* References of `ForeignMemory` cover at least one cell: an empty one reaches
  nothing (`TypedRefs` has types and slices of size zero). A reference is `active`
  when it borrows its `AllocScope`, as upgrades do unless the build separates the
  two lifetimes.
* `TypedRefs` follows one reference at a time: what is derived from it depends on
  nothing else. Addresses have `Width` bits and wrap like a `usize`; a build
  with overflow checks (`OverflowChecks`) panics instead.
* In `Allocators` the compiler picks a register for an operand among those that
  the constraints leave (`CbRegisters`); of the registers only the ones the
  assembly names or may collide with are modelled.
* When the heap gives null, `Allocators` stops (`HeapAllocGivesNull`), as it does
  when the stack overflows: neither allocator promises anything from there on.
  What the runtime then does with the pointer is in `MockRt` (`HeapMayFail`).
* In `OwnedData` a move may lose the padding of a `MaybeUninit<T>`
  (`Moved`), which is all the language promises; `KeepsPadding` is a compiler
  that keeps it.
* A build feature, an allocator, or the type `T` is a variable that `Init`
  chooses and no step changes, so that one run covers all of them.
* The unsound features that switch checks off (`disable_*_checks`) are off.
* The values passed in registers and symbol lookup are left out: no property
  depends on them.

## 3. Runs

| run | bounds | shows |
|---|---|---|
| `mockrt_calls` | 2 runtimes, 3 trampolines, 1 block, 10 frames | `TypeOK`, `HeadIsInnermostSetup`, `IdsFollowNesting`, `UniqueAccess`, `ForeignRunsAlone`, `ReentryOnlyByOwnCall`, `ImplementsForeignAccess` |
| `mockrt_memory` | 3 blocks in 8 addresses (one empty, one that ends at the last address that can be represented), heap, zero-copy, caught panics, 5 frames | `LiveHeadIsInnermost`, `UpgradesExactlyVisible` |
| `foreign_memory` | 2 runtimes, 2 cells, 2 valid and 1 invalid bit pattern, 4 frames, 2 references and 2 values at a time, with and without separate lifetimes | `TypeOK`, `ValidatedStaysValid`, `PointsIntoLiveMemory`, `ImmutableStaysConstant`, `NoValsWhileForeignRuns`, `NoUpgradesAcrossCalls` |
| `typed_refs` | 5 bit addresses, 7 types of sizes 0 to 8, 5 lengths, a writeable and an immutable block and one more that is allocated | `TypeOK`, `InBounds`, `WellAligned`, `SubRefIsExact`, `IteratorGivesEachElementOnce` |
| `slice_write` | 4 cells, 2 elements, slices of up to 4 cells, sources of up to 4 elements that end, panic or go on | `TypeOK`, `WrittenIsWhatWasTaken`, `ReturnedIsInitialized`, `MismatchWritesNothing`, `EveryWriteEnds`, `ImplementsAtomicWrite` |
| `allocators` | both architectures with 192 bytes of stack, 5 layouts, frames of 16 and 24 bytes; a heap of 8 bytes, 4 layouts; 4 calls deep | `TypeOK`, `StackIsLaidOut`, `RunningClosuresHoldTheirMemory`, `StackIsPutBack`, `ImplementsScopedMemory` |
| `owned_data` | types of 2 bytes, with and without padding and invalid contents, 3 bit patterns a byte, 2 copies at a time | `TypeOK`, `JudgedExactly`, `CopiesAreSnapshots`, `WhatWasWrittenIsThere` |
| `identities` | 2 threads, `MaxId` 2 (in the code 2^64 - 1), 2 lifetimes | `TypeOK`, `UniqueBrands`, `PanicsOnlyWhenExhausted`, `AcceptsOnlyItsOwnScopes`, `EveryCallEnds` |
| `mockrt_panic`, `foreign_uninit`, `typed_refs_wrap`, `allocators_registers` | small | the disagreements of section 5 |

Why the bounds are enough to be interesting: ten frames hold three rounds of
register, call and call back, so heads are saved and restored across two
callbacks, and either runtime is entered again below the other. Two runtimes are
enough for every confusion of scopes, which always involves one wrong runtime.
Two cells distinguish the whole of a slice from a part of it, and two valid
patterns a changed value from an invalid one. Two references at a time are one and
what is derived from it (`as_immut`, `sub_ref`, `get` and `iter`, `as_ref` of a value
besides its origin), or two upgrades of overlapping memory.
Eight addresses put a block
against each end of the address space. Five bits hold types with fields of three
alignments, arrays of them, and products of length and size that wrap; one block
starts where a `u32` may not. A source that is shorter than, as long as and
longer than the slice exists, the empty one included. The stack is small
enough to overflow at the fourth call and large enough that layouts of every
kind nest before. Two threads lose every kind of race for an id, and two
lifetimes are open at once, in one thread and in two. `MaxDepth`, `MaxRefs`,
`MaxVals`, `MaxBlocks`, `MaxCopies`, `MaxTypes` and `MaxLen` are bounds of the
models (`MaxLen` stands for the longest slice that has a `Layout`),
`NumTrampolines`, `AddrSpace`, `Width` and `MaxId` scaled down constants of the
code.

`identities` checks for deadlock: somebody can always ask for an id. The other runs
do not: a process may abort or overflow its stack or stop at a panic, a slice write
that is over stops, and the bounds stop a run.

**Fairness.** `MockRt`, `ForeignMemory`, `TypedRefs`, `Allocators` and `OwnedData`
have none and state no liveness: a closure or the library may run forever.
`SliceWrite` assumes that the loop of a write goes on (`WF` of `Step`): each
call of the source's `next` returns or panics, but the source need never say
`None`. `Branding`, and `Identities` with it, assumes that a thread inside `new`
keeps running (`WF` of `Retry` and `Overflow`) and that an exchange that can
succeed again and again eventually does (`SF` of `Exchange`): the weak exchange
may fail spuriously, but the hardware's reservations make progress. It is
lock-free only, so without the finite number of ids other threads could win for
ever; `EveryCallEnds` relies on their number being finite. Nothing obliges a
thread to call `new` (no fairness on `Load`).

Every property of a passing run has a mutant: a changed definition of the model,
each one a plausible slip in the code (a head that is not saved, a `&mut` that
became `&`, an imprint check left out, an addition that wraps, a store without
compare, a pointer aligned in the wrong direction), under which TLC finds that property violated.

## 4. Theorems

`tlapm` checks these for every value of the constants. Together they state every
safety, action and refinement property of the passing runs.

| module | theorem | states |
|---|---|---|
| `MockRtProofs` | `TypeCorrect` | `TypeOK` |
| | `LiveHeadsAreInnermost` | `LiveHeadIsInnermost` |
| | `HeadCorrect` | `HeadIsInnermostSetup`, if `~PanicUnwinds` |
| | `IdsNumberRegistrations` | `IdsFollowNesting` |
| | `UpgradesAreExact` | `UpgradesExactlyVisible` |
| | `AccessIsUnique` | `UniqueAccess`, if `~ParallelRuntimes` |
| | `ForeignCodeRunsAlone` | `ForeignRunsAlone`, if `~ParallelRuntimes` |
| | `ReentryIsOwnCall` | `ReentryOnlyByOwnCall`, if `~ParallelRuntimes` |
| | `RuntimeImplementsForeignAccess` | `ImplementsForeignAccess`, if `~ParallelRuntimes` and `~PanicUnwinds` |
| `BrandingProofs` | `BrandingTypeCorrect` | `TypeOK` |
| | `BrandsAreUnique` | `UniqueBrands` |
| | `NoEarlyPanic` | `PanicsOnlyWhenExhausted` |
| | `OnlyItsOwnScopes` | `AcceptsOnlyItsOwnScopes` of `Identities` |
| `ForeignMemoryProofs` | `Typing` | `TypeOK` |
| | `ValuesStay` | `ValidatedStaysValid` |
| | `NothingDangles` | `PointsIntoLiveMemory` |
| | `ImmutablesStay` | `ImmutableStaysConstant` |
| | `CallsMeetNoValues` | `NoValsWhileForeignRuns` |
| | `CallsMeetNoUpgrades` | `NoUpgradesAcrossCalls` |
| `TypedRefsProofs` | `Typing` | `TypeOK` |
| | `ReferencesAreAligned` | `WellAligned` |
| | `ReferencesStayInBounds` | `InBounds`, if `OverflowChecks` |
| | `SubRefChecksExactly` | `SubRefIsExact` |
| | `IteratorsGiveEachElementOnce` | `IteratorGivesEachElementOnce`, if `OverflowChecks` |
| `SliceWriteProofs` | `Typing` | `TypeOK` |
| | `PrefixIsWritten` | `WrittenIsWhatWasTaken` |
| | `ReturnsInitialized` | `ReturnedIsInitialized` |
| | `MismatchStops` | `MismatchWritesNothing` |
| | `WritesAreAtomic` | `ImplementsAtomicWrite` |
| `AllocatorsProofs` | `Typing` | `TypeOK` |
| | `StackStaysLaidOut` | `StackIsLaidOut` |
| | `ReturnsPutTheStackBack` | `StackIsPutBack` |
| | `ClosuresKeepTheirMemory` | `RunningClosuresHoldTheirMemory` |
| | `AllocatorsLendScopedMemory` | `ImplementsScopedMemory` |
| `OwnedDataProofs` | `Typing` | `TypeOK` |
| | `JudgementsAreExact` | `JudgedExactly` |
| | `CopiesKeep` | `CopiesAreSnapshots` |
| | `WrittenIsKept` | `WhatWasWrittenIsThere` |

**Assumptions.** Only those the models declare, of their constants. They say what
kind of thing a constant is; those that say more are: no runtime is `NoRuntime`,
no value is `Uninit`, a valid bit pattern is a bit pattern; a block
of `MockRt` lies below the last address; the cells of a slice write are
finitely many; the size of a type is at most `isize::MAX` and a multiple of its
alignment, which is a power of two (in `Allocators` one up to a page); a stack has at
least the host's frame (`MaxDepth` of `ForeignMemory` is not 0).

**Hypotheses.** Each one is needed, and there is a configuration that violates the
conclusion without it. `mockrt_panic` violates `HeadIsInnermostSetup` when panics are
caught; what holds then is `LiveHeadIsInnermost`. `MockRtParallel.cfg` violates
`UniqueAccess` with parallel runtimes. `typed_refs_wrap` violates `InBounds`
without overflow checks, and an iterator over the slice it shows wraps to
address 0. The other theorems hold with caught panics, parallel
runtimes and wrapping arithmetic.

### The arguments

Each inductive invariant was checked by TLC, on the bounds of the run of
its component, before it was proved.

**MockRt.** Each action is first reduced to its *shape*: it pushes a certain frame,
pops one, unwinds, or stops. The invariants are then proved per shape. A property
of the whole stack is not inductive: when a frame returns, it must hold of what
is below. So each invariant makes its claim for every frame, of the frames below it.

* `TypeOK` is inductive because everything a frame refers to lies at or below it.
* `HeadInv`: the head, and the head saved in each registration, is either stale or
  the innermost registration below. Restoring it is then right. Without
  unwinding nothing is ever stale (`NoneStale`).
* `ScopeInv`: what the chain of a usable scope yields is its own runtime's tracker,
  all live registrations of its runtime, and exactly the allocations visible from
  it; no newer tracker of the runtime lies above.
* `IdInv`, from it: a registration's id is the number of its runtime's
  registrations below it.
* `BlockInv`: tracked blocks are blocks the allocator can give out. A pointer
  that passes the comparisons of `Matches` then lies inside one
  (`MatchesIsInBlock`), at either end of the address space, too.
* `AccessInv`: just below each frame at most one `AccessScope` of each runtime was
  free, and what a frame can use or has lent are scopes that existed then.
* `CallInv`: what each foreign call took and each callback was given, so that the
  return of a callback finds the turn with the call it came from. With it, each
  shape is a step of `ForeignAccess` or leaves `Turn` as it is.

**Branding.** `CounterInv`: the ids given out are exactly those below the counter,
and no thread's view is ahead of it. A successful exchange gives out the
counter's value, which is therefore new; a thread that sees no successor has
seen the last value, so all ids are gone.

**Identities.** `IdInv`: no lifetime is open twice (`OpenOK`), every runtime and
scope goes back to one branding or one open lifetime (`Origins`), and equal
imprints to the same one (`ImprintsTell`).

**ForeignMemory.** `Inv` has three parts. `FramesFit`: allocations are disjoint, and
callbacks lie on the foreign calls of their own runtime. `RefsHold`: a reference's
memory belongs to a frame that is left no earlier than its scope. `ValsHold`: each
value borrows the one usable `AccessScope` of its runtime and still reads
what it read. A step that writes memory takes that scope mutably, or is foreign
code, which runs only while it is lent; either way the values are gone.

**TypedRefs.** Alignment is reasoned about as multiples of powers of two. That
`2^k` as a recursive function is what it should be is an induction, and the
library's theorem for it is out of reach (see below); `PowFacts` instead takes
the least counterexample, which well-foundedness of the naturals provides
(`WFMin`). A smaller power divides a greater one; hence an aligned address stays
aligned when it wraps, and the lowest bit that `sub_ref_check` isolates is the
greatest power that divides both alignment and offset. `Bounded` keeps all bytes of a
reference inside one block and is inductive if products are checked.

**SliceWrite.** The cells of a slice are numbered by how many of its cells are below
them. `Counted`: the count is how many elements were taken. `Written`: the cells
numbered below the count hold them, all others what they held before. At the
return the count is the length. The refinement maps all steps of the loop
but the last to stuttering.

**Allocators.** `StackInv` chains each frame to the one above: locals below the
caller's stack pointer, memory below the locals, and the callee-saved register holds the
base of the innermost frame, which `with_alloc` turns back into its caller's stack
pointer. `HeapInv`: running closures hold blocks that are allocated and disjoint. With
these each step is one of `ScopedMemory`, or none; a step that unwinds several
frames included.

**OwnedData.** Moves change nothing but padding (`MovedFacts`), so every copy has the
data it was first made of, which was initialized; what an `OGRet` made of a `T`
holds is still one (`ValidsAreValid`). For a type without padding, copies are then
initialized as a whole, and so is memory once all of it is written: a read that is
not has met padding or memory as it was allocated.

### Only model-checked

Liveness: `EveryCallEnds` and `EveryWriteEnds`. They rest on fairness, and so on
`ENABLED`, which the installed provers do not handle. The library's induction
theorems cannot be used either, as they take an operator as a parameter; where a
proof needs induction it uses well-foundedness, as above.

## 5. Where code and documentation disagree

These are runs that expect a violation (`findings` in `PROJECT.json`):

* `mockrt_panic`: "We'll put it back after running our closure"
  (`rt/mock/mod.rs:261-263`) does not happen when the closure panics and the
  host catches it; the head then dangles.
* `foreign_uninit`: `OGMutRef` promises initialized memory
  (`foreign_memory/og_mut_ref.rs:20-24`); `allocate_stacked_t_mut` hands out
  one over `MaybeUninit::uninit()`.
* `typed_refs_wrap`: `upgrade_from_ptr` of the slices promises that
  `[ptr; ptr + length * size_of::<T>())` lies in one region
  (`foreign_memory/og_mut_slice.rs:75-77`); the product wraps in a build without
  overflow checks, and a slice is made that no allocation contains.
* `allocators_registers`: the x86-64 assembly loads `rdi` before it calls
  `{cb_reg}`, and nothing keeps the compiler from choosing `rdi` for that
  operand (`rt/mock/stack_alloc.rs:139-161`). The RISC-V version declares it.

More of the kind have a configuration of their own, which can be run by hand
(`tlc -config X.cfg M`) and ends in a violation as well:

* `MockRtParallel.cfg` (`MCMockRt`): the comment at `rt/mock/mod.rs:93-95`
  justifies the new `AccessScope` of a callback by the one borrowed by the
  trampoline. If a library calls a trampoline under another runtime's head, that
  other runtime gets a second one. The TODO at line 63 knows that parallel
  runtimes are not supported.
* `MockRtSlots.cfg` (`MCMockRt`): `SetupCallbackInsufficientSlots`
  (`lib.rs:55-57`) is never returned; the index at `rt/mock/mod.rs:275` panics.
* `MockRtHeapNull.cfg` (`MCMockRt`): `AllocNoMem` (`lib.rs:43-49`) is never
  returned; a null pointer from the heap is tracked as an allocation.
* `AllocatorsLeak.cfg` (`MCAllocators`): "freeing allocations once we pop the
  current stack frame" (`rt/mock/heap_alloc.rs:15-17`) does not happen when the
  closure unwinds.
* `SliceWriteExact.cfg` (`SliceWrite`): "This will panic if the iterator did not
  yield exactly `src.len()` elements" (`rt/mod.rs:261-262`); additional elements
  are left in the iterator, and the call succeeds.
* `SliceWriteMismatch.cfg` (`SliceWrite`): `IDMismatch` (`lib.rs:59-67`) is not
  returned by `write_stacked_slice_from_iter_mut`, which panics after the
  allocation.
* `OwnedDataPadding.cfg` (`MCOwnedData`): `MaybeValid` represents initialized
  bytes (`maybe_valid.rs:5`); `OGMutRef::write` stores any `T`, whose padding is
  not initialized, and `copy` then reads it, although all of the memory has been
  written (`WrittenIsReadable`). That memory as allocated is read, for any `T`, is
  `foreign_uninit`.

## 6. Not modelled

* Of `id/lifetime.rs`, why two invariant lifetimes are different types: a fact of
  the type system. The test-only branding that can be duplicated.
* `abi/`, `rt/sysv_amd64.rs`, `rt/rv32i_c.rs`: type-level declarations.
* `util/`: pointer casts.
* Getters, `Debug` and the `AsRef`-like conversions of the references and values:
  they neither change state nor make a reference that others do not.
* Two threads that each use a mock runtime: the static head is a `static mut`, and
  the code does not support that.
* Build scripts, the example, Nix packaging.
* The isolating runtimes (memory protection keys, RISC-V PMP) are not part of
  this repository.

## 7. Plan

All components with state of their own are modelled, and every property of theirs
but liveness is proved. What could follow:

1. The links between the modules as theorems, where now the README argues: that
   `AccessOf` and `Tracks` of `ForeignMemory` are what `UniqueAccess` and
   `UpgradesExactlyVisible` of `MockRt` provide.
2. The safety half of `EveryWriteEnds`, as an action property: each step of the loop
   leaves less of the slice to write, or ends it.
3. The part of the hazards without a property, if the code gains the checks they
   ask for (`heap_alloc.rs:18`, `stack_alloc.rs:129`, the `static mut` head).
