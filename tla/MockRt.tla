------------------------------- MODULE MockRt -------------------------------
(***************************************************************************)
(* The mock runtime of Omniglot (omniglot/src/rt/mock/).  One host thread   *)
(* nests closures: every stacked allocation, every callback registration   *)
(* and every foreign call runs a closure inside the runtime's own frame.   *)
(* Foreign code may call back through a trampoline while it runs.  The     *)
(* allocation trackers are linked through those frames, and one static     *)
(* variable points at the tracker the trampolines start from.              *)
(*                                                                         *)
(* The Rust call stack is the sequence `stack'; its last frame runs.  A     *)
(* tracker is named by the frame that owns it, so a chain of trackers is    *)
(* the set of frame numbers its iterator yields (the nearest is the         *)
(* largest).  A scope is a pair <<imprint, frame number>>: an AllocScope    *)
(* names the frame of its tracker, an AccessScope the frame that made it.   *)
(***************************************************************************)
EXTENDS Integers, Sequences, FiniteSets, FiniteSetsExt

CONSTANTS
  Runtimes,           \* the MockRt instances, each with a branding of its own
  NoRuntime,          \* the runtime of the host's bottom frame
  NumTrampolines,     \* length of the trampoline pool (512 in the code)
  Blocks,             \* what the allocator may hand out: [ptr, len]
  AddrSpace,          \* 2^w for w-bit addresses
  AllUpgradesValid,   \* MockRt::new's all_upgrades_valid
  ZeroCopyImmutable,  \* MockRt::new's zero_copy_immutable
  Allocator,          \* "stack" or "heap"
  HeapMayFail,        \* std::alloc::alloc may return null
  PanicUnwinds,       \* built with panic=unwind, and closures may panic
  ParallelRuntimes,   \* a library may call back under another runtime's head
  MaxDepth            \* bound on the call depth

ASSUME RuntimesAssumption == NoRuntime \notin Runtimes
ASSUME NumTrampolinesAssumption == NumTrampolines \in Nat
ASSUME MaxDepthAssumption == MaxDepth \in Nat
ASSUME BlocksAssumption ==
  /\ AddrSpace \in Nat
  /\ Blocks \subseteq [ptr : 1..AddrSpace, len : 0..AddrSpace]
  /\ \A b \in Blocks : b.ptr + b.len < AddrSpace
ASSUME FlagsAssumption ==
  /\ AllUpgradesValid \in BOOLEAN
  /\ ZeroCopyImmutable \in BOOLEAN
  /\ HeapMayFail \in BOOLEAN
  /\ PanicUnwinds \in BOOLEAN
  /\ ParallelRuntimes \in BOOLEAN
  /\ Allocator \in {"stack", "heap"}

VARIABLES
  stack,    \* the frames of the thread
  head,     \* ACTIVE_ALLOC_CHAIN_HEAD_ROG
  handed,   \* the trampolines each library has been given so far
  status    \* how the process is doing

vars == <<stack, head, handed, status>>

NoHead == 0         \* the static is None
Dangling == -1      \* the static points into a frame that no longer exists

Kinds == {"host", "alloc", "local", "untracked", "setup", "foreign", "callback"}
AllocKinds == {"alloc", "local"}

NoBlock == [ptr |-> 0, len |-> 0, mutable |-> FALSE]

Frame(kind, r, scopes, access) ==
  [kind    |-> kind,      \* which closure this frame runs
   rt      |-> r,         \* the runtime that entered it
   scopes  |-> scopes,    \* the AllocScopes its code can use
   access  |-> access,    \* the AccessScopes its code can use
   loans   |-> {},        \* the AccessScopes execute() holds for it
   chain   |-> {},        \* the trackers the frame's own tracker yields
   id      |-> 0,         \* setup: the callback id
   block   |-> NoBlock,   \* allocations: the memory
   outer   |-> NoHead,    \* setup: the saved head
   closure |-> 0]         \* callback: the setup frame whose closure it runs

Depth == Len(stack)
Top == stack[Depth]
HostRunning == status = "running" /\ Top.kind # "foreign"
ForeignRunning == status = "running" /\ Top.kind = "foreign"

Push(f) == stack' = Append(stack, f)
PopTo(k) == stack' = SubSeq(stack, 1, k)
HasRoom == Depth < MaxDepth

(***************************************************************************)
(* MockRtAllocation::matches and the walks over MockRtAllocChain.           *)
(***************************************************************************)
\* Mutant: the sum wraps instead of being checked.
MatchesWrapping(b, ptr, len, mutable) ==
  /\ ptr >= b.ptr
  /\ (ptr + len) % AddrSpace <= b.ptr + b.len
  /\ mutable => b.mutable

Matches(b, ptr, len, mutable) ==
  /\ ptr >= b.ptr
  /\ ptr + len < AddrSpace              \* checked_add
  /\ ptr + len <= b.ptr + b.len
  /\ mutable => b.mutable

IsValidInt(chain, ptr, len, mutable) ==
  \E n \in chain :
    \/ stack[n].kind = "host" /\ AllUpgradesValid
    \/ stack[n].kind \in AllocKinds /\ Matches(stack[n].block, ptr, len, mutable)

\* Mutant: the new tracker does not refer to its predecessor.
LinkDropsPredecessor(chain) == {Depth + 1}

\* The chain of a tracker made in the next frame on top of another one.
Link(chain) == chain \union {Depth + 1}

CallbackNodes(chain) == {n \in chain : stack[n].kind = "setup"}

\* Mutant: numbers from the outermost registration instead of the nearest.
NextCallbackIdFromOutermost(chain) ==
  IF CallbackNodes(chain) = {} THEN 0 ELSE stack[Min(CallbackNodes(chain))].id + 1

NextCallbackId(chain) ==
  IF CallbackNodes(chain) = {} THEN 0 ELSE stack[Max(CallbackNodes(chain))].id + 1

Descriptors(chain, id) == {n \in CallbackNodes(chain) : stack[n].id = id}

\* Mutant: any scope of the right type is accepted.
IdImprintCheckDropped(r, imprints) == TRUE

\* id_imprint_check: every scope passed to r must carry r's imprint.
IdImprintCheck(r, imprints) == imprints \subseteq {r}

-----------------------------------------------------------------------------
Init ==
  /\ stack = <<[Frame("host", NoRuntime, Runtimes \X {1}, Runtimes \X {1})
                  EXCEPT !.chain = {1}]>>
  /\ head = NoHead
  /\ handed = [r \in Runtimes |-> {}]
  /\ status = "running"

(***************************************************************************)
(* Allocations.  The closure gets a scope whose tracker extends the one it *)
(* was passed; the outer scope stays borrowed, so it is out of reach.       *)
(***************************************************************************)
Extend(s) == (Top.scopes \ {s}) \union {<<s[1], Depth + 1>>}

Overlaps(b, c) ==
  /\ b.len > 0 /\ c.len > 0 /\ c.ptr > 0
  /\ b.ptr < c.ptr + c.len /\ c.ptr < b.ptr + b.len

\* Memory that no live allocation occupies; two immutable ones may alias,
\* as both may be the same host value.
FreeBlocks(mutable) ==
  {[ptr |-> b.ptr, len |-> b.len, mutable |-> mutable] :
     b \in {b \in Blocks : \A k \in 1..Depth :
              (mutable \/ stack[k].block.mutable) => ~Overlaps(b, stack[k].block)}}

\* with_alloc: the heap refuses an empty layout, and passes on a null pointer.
WithAlloc ==
  IF Allocator = "stack" THEN FreeBlocks(TRUE)
  ELSE {b \in FreeBlocks(TRUE) : b.len > 0}
       \union {[ptr |-> 0, len |-> c.len, mutable |-> TRUE] :
                 c \in {c \in Blocks : HeapMayFail /\ c.len > 0}}

TrackAllocation(kind, r, s, b) ==
  /\ Push([Frame(kind, r, Extend(s), Top.access) EXCEPT
             !.chain = Link(stack[s[2]].chain),
             !.block = b])
  /\ UNCHANGED <<head, handed, status>>

AllocateStackedMut(r, s) ==
  /\ HostRunning /\ HasRoom
  /\ IdImprintCheck(r, {s[1]})
  /\ \E b \in WithAlloc : TrackAllocation("alloc", r, s, b)

\* A local of the runtime's own frame: the allocator is not involved.
AllocateStackedT(r, s) ==
  /\ HostRunning /\ HasRoom
  /\ IdImprintCheck(r, {s[1]})
  /\ \E b \in FreeBlocks(TRUE) : TrackAllocation("local", r, s, b)

\* write_stacked_t and write_stacked_ref_t
WriteStackedT(r, s, a) ==
  /\ HostRunning /\ HasRoom
  /\ IdImprintCheck(r, {s[1], a[1]})
  /\ \/ ZeroCopyImmutable /\ \E b \in FreeBlocks(FALSE) : TrackAllocation("local", r, s, b)
     \/ ~ZeroCopyImmutable /\ \E b \in FreeBlocks(TRUE) : TrackAllocation("local", r, s, b)

WriteStackedSlice(r, s, a) ==
  /\ HostRunning /\ HasRoom
  /\ IdImprintCheck(r, {s[1], a[1]})
  /\ \/ ZeroCopyImmutable /\ \E b \in FreeBlocks(FALSE) : TrackAllocation("local", r, s, b)
     \/ ~ZeroCopyImmutable /\ \E b \in WithAlloc : TrackAllocation("alloc", r, s, b)

AllocateStackedUntracked(r) ==
  /\ HostRunning /\ HasRoom
  /\ \E b \in WithAlloc :
       Push([Frame("untracked", r, Top.scopes, Top.access) EXCEPT !.block = b])
  /\ UNCHANGED <<head, handed, status>>

FinishAllocation ==
  /\ HostRunning /\ Top.kind \in AllocKinds \union {"untracked"}
  /\ PopTo(Depth - 1)
  /\ UNCHANGED <<head, handed, status>>

(***************************************************************************)
(* Callback registration.  The head is saved in the frame, replaced, and    *)
(* put back when the closure returns.                                       *)
(***************************************************************************)
\* Mutant: the previous head is not saved.
SetupCallbackForgetsHead(r, s) ==
  /\ HostRunning /\ HasRoom
  /\ IdImprintCheck(r, {s[1]})
  /\ LET id == NextCallbackId(stack[s[2]].chain) IN
     /\ id < NumTrampolines
     /\ Push([Frame("setup", s[1], Extend(s), Top.access) EXCEPT
                !.chain = Link(stack[s[2]].chain),
                !.id = id])
     /\ handed' = [handed EXCEPT ![r] = @ \union {id}]
  /\ head' = Depth + 1
  /\ UNCHANGED status

\* Mutant: the head is only replaced when there is none.
SetupCallbackKeepsHead(r, s) ==
  /\ HostRunning /\ HasRoom
  /\ IdImprintCheck(r, {s[1]})
  /\ LET id == NextCallbackId(stack[s[2]].chain) IN
     /\ id < NumTrampolines
     /\ Push([Frame("setup", s[1], Extend(s), Top.access) EXCEPT
                !.chain = Link(stack[s[2]].chain),
                !.id = id,
                !.outer = head])
     /\ handed' = [handed EXCEPT ![r] = @ \union {id}]
  /\ head' = IF head = NoHead THEN Depth + 1 ELSE head
  /\ UNCHANGED status

SetupCallback(r, s) ==
  /\ HostRunning /\ HasRoom
  /\ IdImprintCheck(r, {s[1]})
  /\ LET id == NextCallbackId(stack[s[2]].chain) IN
     /\ id < NumTrampolines
     /\ Push([Frame("setup", s[1], Extend(s), Top.access) EXCEPT
                !.chain = Link(stack[s[2]].chain),
                !.id = id,
                !.outer = head])
     /\ handed' = [handed EXCEPT ![r] = @ \union {id}]
  /\ head' = Depth + 1
  /\ UNCHANGED status

\* Unwinding stops at an `extern "C"' frame, which aborts the process.
Barrier(f) ==
  \/ f.kind \in {"foreign", "callback"}
  \/ f.kind \in {"alloc", "untracked"} /\ Allocator = "stack"

CatchFrames == {k \in 1..Depth : \A j \in (k + 1)..Depth : ~Barrier(stack[j])}

UnwindTo(k) ==
  /\ PopTo(k)
  /\ UNCHANGED <<handed, status>>

\* The pool has no trampoline for the id: the index panics, and the head
\* already points at the new tracker.
SetupOutOfTrampolines(r, s) ==
  /\ HostRunning /\ HasRoom
  /\ IdImprintCheck(r, {s[1]})
  /\ NextCallbackId(stack[s[2]].chain) >= NumTrampolines
  /\ \/ /\ PanicUnwinds
        /\ \E k \in CatchFrames : UnwindTo(k)
        /\ head' = Dangling
     \/ /\ status' = "out_of_trampolines"
        /\ UNCHANGED <<stack, head, handed>>

\* Mutant: the head keeps pointing at the frame that returns.
FinishSetupKeepsHead ==
  /\ HostRunning /\ Top.kind = "setup"
  /\ PopTo(Depth - 1)
  /\ UNCHANGED <<head, handed, status>>

\* Mutant: the same, with the head seen as what it then is.
FinishSetupLeavesDangling ==
  /\ HostRunning /\ Top.kind = "setup"
  /\ PopTo(Depth - 1)
  /\ head' = Dangling
  /\ UNCHANGED <<handed, status>>

FinishSetup ==
  /\ HostRunning /\ Top.kind = "setup"
  /\ PopTo(Depth - 1)
  /\ head' = Top.outer
  /\ UNCHANGED <<handed, status>>

(***************************************************************************)
(* Foreign calls and the trampolines.                                       *)
(***************************************************************************)
\* Mutant: execute() does not hold the AccessScope.
ExecuteWithoutLoan(r, s, a) ==
  /\ HostRunning /\ HasRoom
  /\ IdImprintCheck(r, {s[1], a[1]})
  /\ Push(Frame("foreign", r, Top.scopes \ {s}, Top.access))
  /\ UNCHANGED <<head, handed, status>>

Execute(r, s, a) ==
  /\ HostRunning /\ HasRoom
  /\ IdImprintCheck(r, {s[1], a[1]})
  /\ Push([Frame("foreign", r, Top.scopes \ {s}, Top.access \ {a}) EXCEPT
             !.loans = {a}])
  /\ UNCHANGED <<head, handed, status>>

FinishForeign ==
  /\ ForeignRunning
  /\ PopTo(Depth - 1)
  /\ UNCHANGED <<head, handed, status>>

\* The foreign code calls a trampoline it holds.
CallsTrampoline(id) ==
  /\ ForeignRunning /\ HasRoom
  /\ id \in handed[Top.rt]
  /\ ~ParallelRuntimes /\ head \notin {NoHead, Dangling} => stack[head].rt = Top.rt

\* mock_rt_callback_dispatch: the scopes are built from the head alone.  The
\* closure also reaches what it captured where it was registered, as far as
\* nobody on the way down has borrowed it.
DispatchCallback(id) ==
  /\ CallsTrampoline(id)
  /\ head \notin {NoHead, Dangling}
  /\ \E d \in Descriptors(stack[head].chain, id) :
       /\ \A e \in Descriptors(stack[head].chain, id) : e <= d
       /\ LET r == stack[head].rt
              captured(own, seen) == {x \in own \intersect seen : x[1] # r}
          IN Push([Frame("callback", r,
                         captured(stack[d - 1].scopes, Top.scopes) \union {<<r, Depth + 1>>},
                         captured(stack[d - 1].access, Top.access) \union {<<r, Depth + 1>>})
                     EXCEPT !.chain = Link(stack[head].chain),
                            !.closure = d])
  /\ UNCHANGED <<head, handed, status>>

\* unwrap() of an empty head, or "Callback not found!", in an extern "C" frame.
DispatchFails(id) ==
  /\ CallsTrampoline(id)
  /\ \/ head = NoHead
     \/ head \notin {NoHead, Dangling} /\ Descriptors(stack[head].chain, id) = {}
  /\ status' = "aborted"
  /\ UNCHANGED <<stack, head, handed>>

DispatchDangling(id) ==
  /\ CallsTrampoline(id)
  /\ head = Dangling
  /\ status' = "undefined_behaviour"
  /\ UNCHANGED <<stack, head, handed>>

FinishCallback ==
  /\ HostRunning /\ Top.kind = "callback"
  /\ PopTo(Depth - 1)
  /\ UNCHANGED <<head, handed, status>>

(***************************************************************************)
(* A closure panics.  Nothing restores the head while frames unwind.        *)
(***************************************************************************)
PanicCaught(k) ==
  /\ HostRunning /\ PanicUnwinds
  /\ k < Depth
  /\ UnwindTo(k)
  /\ head' = IF head > k THEN Dangling ELSE head

PanicUncaught ==
  /\ HostRunning
  /\ status' = "aborted"
  /\ UNCHANGED <<stack, head, handed>>

-----------------------------------------------------------------------------
HostStep(r) ==
  \/ AllocateStackedUntracked(r)
  \/ \E s \in Top.scopes :
       \/ AllocateStackedMut(r, s)
       \/ AllocateStackedT(r, s)
       \/ SetupCallback(r, s)
       \/ SetupOutOfTrampolines(r, s)
       \/ \E a \in Top.access :
            \/ WriteStackedT(r, s, a)
            \/ WriteStackedSlice(r, s, a)
            \/ Execute(r, s, a)

Return == FinishAllocation \/ FinishSetup \/ FinishForeign \/ FinishCallback

Next ==
  \/ \E r \in Runtimes : HostStep(r)
  \/ \E id \in 0..(NumTrampolines - 1) :
       DispatchCallback(id) \/ DispatchFails(id) \/ DispatchDangling(id)
  \/ Return
  \/ \E k \in CatchFrames : PanicCaught(k)
  \/ PanicUncaught

Spec == Init /\ [][Next]_vars

(***************************************************************************)
(* Properties.                                                              *)
(***************************************************************************)
Frames ==
  [kind : Kinds, rt : Runtimes \union {NoRuntime},
   scopes : SUBSET (Runtimes \X Nat), access : SUBSET (Runtimes \X Nat),
   loans : SUBSET (Runtimes \X Nat), chain : SUBSET Nat, id : Nat,
   block : [ptr : Nat, len : Nat, mutable : BOOLEAN],
   outer : Int, closure : Nat]

\* The frames up to k that registered a callback and have not returned.
Setups(k) == {j \in 1..k : stack[j].kind = "setup"}
Heads(k) == {NoHead, Dangling} \union Setups(k)

\* Everything a frame with n frames below it refers to lies at or below it.
FrameOK(f, n) ==
  /\ f.scopes \subseteq Runtimes \X (1..(n + 1))
  /\ f.access \subseteq Runtimes \X (1..(n + 1))
  /\ f.loans \subseteq Runtimes \X (1..(n + 1))
  /\ f.chain \subseteq 1..(n + 1)
  /\ f.outer \in Heads(n)
  /\ f.closure \in {0} \union Setups(n)
  /\ f.kind = "host" \/ f.rt \in Runtimes

StackOK ==
  /\ stack \in Seq(Frames) /\ Depth > 0
  /\ stack[1].kind = "host"
  /\ \A k \in 1..Depth : FrameOK(stack[k], k - 1)

\* The type invariant: every frame is well formed, its references point down
\* the stack, and a head that is neither None nor dangling names a live frame
\* that registered a callback.
TypeOK ==
  /\ StackOK
  /\ head \in Heads(Depth)
  /\ handed \in [Runtimes -> SUBSET (0..(NumTrampolines - 1))]
  /\ status \in {"running", "aborted", "out_of_trampolines", "undefined_behaviour"}

InnermostSetup(h, k) ==
  \/ h = NoHead /\ Setups(k) = {}
  \/ h \in Setups(k) /\ \A j \in Setups(k) : j <= h

\* "We'll put it back after running our closure": between any two steps the
\* static head is the innermost live registration, whatever has nested and
\* returned before, so a trampoline never walks a chain that is gone.
HeadIsInnermostSetup == InnermostSetup(head, Depth)

\* After a caught panic the head may be stale, but a head that is not is
\* still the innermost registration: no panic makes a trampoline start from
\* an outer registration while an inner one is live.
LiveHeadIsInnermost == head \in {NoHead, Dangling} \/ InnermostSetup(head, Depth)

\* The AccessScopes the first n frames made, and those execute() holds.
AccessScopes(n) ==
  (Runtimes \X {1}) \union
  {<<stack[k].rt, k>> : k \in {j \in 1..n : stack[j].kind = "callback"}}
Lent(n) == UNION {stack[k].loans : k \in 1..n}
Free(n) == AccessScopes(n) \ Lent(n)

\* The comment in mock_rt_callback_dispatch: the AccessScope a callback gets
\* is sound because the only other one is borrowed by the foreign call
\* below.  At most one AccessScope per runtime is ever free.
UniqueAccess == \A a, b \in Free(Depth) : a[1] = b[1] => a = b

\* While the foreign code of a runtime runs, no AccessScope of that runtime
\* is free anywhere: no host reference can be read or written meanwhile.
ForeignRunsAlone ==
  Top.kind = "foreign" => \A a \in Free(Depth) : a[1] # Top.rt

Callbacks == {k \in 1..Depth : stack[k].kind = "callback"}

\* A callback closure is an FnMut behind one `&mut': it is entered again, while
\* an activation of it has not returned, only by a foreign call that borrows
\* that activation's own AccessScope.  Neither a kept trampoline nor another
\* runtime's foreign code gets into it behind its back.
ReentryOnlyByOwnCall ==
  \A k \in Callbacks : \A j \in {j \in Callbacks : j < k /\ stack[j].closure = stack[k].closure} :
    \E f \in (j + 1)..(k - 1) :
      stack[f].kind = "foreign" /\ <<stack[j].rt, j>> \in stack[f].loans

\* Callback ids: the live registrations of one runtime have different ids,
\* numbered from 0 upwards, so a trampoline selects one closure.
IdsFollowNesting ==
  \A k \in Setups(Depth) :
    stack[k].id = Cardinality({j \in Setups(k - 1) : stack[j].rt = stack[k].rt})

\* Which live allocations of r a scope made at frame n reaches: a callback
\* starts from the registration it was dispatched from, so what was allocated
\* between the two is hidden from it.
Visible(r, k, n) ==
  /\ stack[k].kind \in AllocKinds /\ stack[k].rt = r
  /\ \A c \in (k + 1)..n :
       stack[c].kind = "callback" /\ stack[c].rt = r
         => \E d \in Setups(c) : d > k /\ stack[d].rt = r

InBlock(b, ptr, len) ==
  \A i \in 0..len : ((ptr + i) % AddrSpace) \in b.ptr..(b.ptr + b.len)

\* A pointer upgrade through any scope the running code can use succeeds
\* exactly for ranges inside one live, visible allocation of that runtime
\* (mutable ones for mutable upgrades), address wrap-around included.
UpgradesExactlyVisible ==
  \A s \in Top.scopes, ptr, len \in 0..(AddrSpace - 1), mutable \in BOOLEAN :
    IsValidInt(stack[s[2]].chain, ptr, len, mutable) <=>
      \/ AllUpgradesValid
      \/ \E k \in 1..s[2] :
           /\ Visible(s[1], k, s[2])
           /\ InBlock(stack[k].block, ptr, len)
           /\ mutable => stack[k].block.mutable

\* OGError::AllocNoMem: a request the heap cannot serve is an error, so every
\* allocation a tracker vouches for is memory that was really obtained.
TrackedMemoryExists ==
  \A k \in 1..Depth : stack[k].kind \in AllocKinds => stack[k].block.ptr # 0

\* OGError::SetupCallbackInsufficientSlots: a registration for which no slot
\* is left is an error, it does not take the process down.
OutOfSlotsIsAnError == status # "out_of_trampolines"

(***************************************************************************)
(* The runtime implements ForeignAccess: the head, the chains, the ids and  *)
(* the scopes together hand the memory of each runtime back and forth, and  *)
(* a callback always runs a closure that is registered with the runtime     *)
(* whose foreign code is calling.                                           *)
(***************************************************************************)
CallsInProgress ==
  [k \in 1..Depth |-> [kind |-> stack[k].kind, rt |-> stack[k].rt,
                       closure |-> stack[k].closure]]

Turn == [r \in Runtimes |->
           IF \E a \in Free(Depth) : a[1] = r THEN "host" ELSE "foreign"]

Phase == CASE status = "running" -> "running"
           [] status \in {"aborted", "out_of_trampolines"} -> "stopped"
           [] OTHER -> "broken"

Abstract == INSTANCE ForeignAccess
              WITH calls <- CallsInProgress, turn <- Turn, phase <- Phase

\* Every step of the runtime is a step of ForeignAccess or invisible to it.
ImplementsForeignAccess == Abstract!ASpec

=============================================================================
