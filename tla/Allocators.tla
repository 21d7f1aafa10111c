----------------------------- MODULE Allocators -----------------------------
(***************************************************************************)
(* The two allocators a mock runtime may be made with, and their with_alloc  *)
(* (omniglot/src/rt/mock/stack_alloc.rs, heap_alloc.rs): a closure runs on    *)
(* fresh memory, and in it closures run on more, to any depth.               *)
(*                                                                         *)
(* StackAllocator moves the stack pointer down in assembly, of which there    *)
(* are two versions, and puts it back from a callee-saved register.  The      *)
(* assembly chooses some registers itself and leaves others to the compiler,  *)
(* which may put an operand anywhere its constraints permit.                  *)
(*                                                                         *)
(* HeapAllocator takes the memory from the global heap and gives it back      *)
(* after the call.  When the heap gives none, the closure runs on the null    *)
(* pointer: this model stops there, and MockRt goes on (HeapMayFail).         *)
(***************************************************************************)
EXTENDS Integers, Sequences

CONSTANTS
  Allocators,    \* of "amd64", "riscv" (StackAllocator there) and "heap"
  StackBytes,    \* the size of the stack, which ends at address 0
  StackLayouts,  \* what is asked for: [size, align]
  Locals,        \* the bytes compiled functions take for themselves
  HeapBytes,     \* the size of the heap, which ends at address 1
  HeapLayouts,
  PanicUnwinds,  \* built with panic=unwind, and closures may panic
  MaxDepth       \* bound on the nesting

ASSUME AllocatorsAssumption == Allocators \subseteq {"amd64", "riscv", "heap"}
ASSUME SizesAssumption == StackBytes \in Nat /\ HeapBytes \in Nat /\ Locals \subseteq Nat
ASSUME LayoutsAssumption ==
  \A l \in StackLayouts \union HeapLayouts : l.size \in Nat /\ l.align \in {2^k : k \in 0..12}
ASSUME BoundsAssumption == MaxDepth \in Nat /\ PanicUnwinds \in BOOLEAN

VARIABLES
  allocator,  \* of the runtime
  frames,  \* the calls of with_alloc in progress, the innermost last
  sp,      \* the stack pointer
  saved,   \* the callee-saved register, r12 or s2
  held,    \* the blocks std::alloc has given out and not got back
  status   \* "running", "overflow", "aborted", "wild": a jump to elsewhere,
           \* "null": a closure without memory, or "corrupt": a block was freed
           \* that had not been given out

vars == <<allocator, frames, sp, saved, held, status>>

Depth == Len(frames)
Top == frames[Depth]

Init ==
  /\ allocator \in Allocators
  /\ frames = <<>>
  /\ sp = StackBytes
  /\ saved = 0  \* whatever the program keeps in it
  /\ held = {}
  /\ status = "running"

HasRoom == Depth < MaxDepth
InClosure == Depth > 0
StackRuns == allocator # "heap" /\ status = "running"
HeapRuns == allocator = "heap" /\ status = "running"

-----------------------------------------------------------------------------
(***************************************************************************)
(* StackAllocator.                                                          *)
(***************************************************************************)
\* core::cmp::max(16, align)
FrameAlign(align) == IF align < 16 THEN 16 ELSE align

\* Mutant: the pointer is aligned upward.
AlignUp(n, align) == n + ((align - (n % align)) % align)

\* and sp, !(align - 1)
AlignDown(n, align) == n - (n % align)

\* Where the compiler may put cb: `in(reg)', less what is an `out'.  The
\* clobbers of clobber_abi are late outputs, which an input may share.
CbRegisters == IF allocator = "riscv" THEN {"other"} ELSE {"argument", "other"}

\* Mutant: the stack pointer is aligned before it is moved down.
AlignThenSubtract(base, layout) == AlignDown(base, FrameAlign(layout.align)) - layout.size

\* The allocation the assembly makes with the stack pointer at base.
PtrBelow(base, layout) == AlignDown(base - layout.size, FrameAlign(layout.align))

\* Mutant: the register is not declared to be overwritten, so the compiler
\* does not keep its value.
StackAllocKeepsNothing(layout, locals) ==
  /\ StackRuns /\ HasRoom
  /\ LET base == sp - locals
         ptr == PtrBelow(base, layout)
     IN  /\ ptr >= 0
         /\ sp' = ptr
         /\ saved' = base
         /\ frames' = Append(frames, [ptr |-> ptr, layout |-> layout, base |-> base,
                                      locals |-> locals, kept |-> base, caller |-> sp])
  /\ UNCHANGED <<allocator, held, status>>

\* The compiled function makes room for its locals, Data among them, and keeps
\* the callee-saved register there; the assembly saves the stack pointer in it
\* and moves on.  The closure then runs.
StackAlloc(layout, locals) ==
  /\ StackRuns /\ HasRoom
  /\ LET base == sp - locals
         ptr == PtrBelow(base, layout)
     IN  /\ ptr >= 0
         /\ sp' = ptr
         /\ saved' = base
         /\ frames' = Append(frames, [ptr |-> ptr, layout |-> layout, base |-> base,
                                      locals |-> locals, kept |-> saved, caller |-> sp])
  /\ UNCHANGED <<allocator, held, status>>

\* The process goes no further.
Stops(how) == status' = how /\ UNCHANGED <<allocator, frames, sp, saved, held>>

\* The stack has no room.  Nothing probes it.
StackOverflows(layout, locals) ==
  /\ StackRuns /\ HasRoom
  /\ PtrBelow(sp - locals, layout) < 0
  /\ Stops("overflow")

\* The argument is moved over the address of the callback, which is then
\* called.
CallsTheArgument(layout, locals) ==
  /\ StackRuns /\ HasRoom
  /\ "argument" \in CbRegisters
  /\ PtrBelow(sp - locals, layout) >= 0
  /\ Stops("wild")

\* The closure returns: the assembly puts the stack pointer back, the function
\* its caller's register and, by the size of its locals, its caller's stack.
StackReturn ==
  /\ StackRuns /\ InClosure
  /\ sp' = saved + Top.locals
  /\ saved' = Top.kept
  /\ frames' = SubSeq(frames, 1, Depth - 1)
  /\ UNCHANGED <<allocator, held, status>>

\* The closure panics in an extern "C" function, which does not unwind.
StackUnwinds == StackRuns /\ InClosure /\ Stops("aborted")

-----------------------------------------------------------------------------
(***************************************************************************)
(* HeapAllocator.                                                           *)
(***************************************************************************)
Disjoint(a, b) == a.ptr + a.layout.size <= b.ptr \/ b.ptr + b.layout.size <= a.ptr

\* std::alloc::alloc: memory nobody has.
Fresh(layout) ==
  {b \in [ptr : 1..(HeapBytes - layout.size), layout : {layout}] :
     b.ptr % layout.align = 0 /\ \A h \in held : Disjoint(b, h)}

\* Mutant: an empty layout is passed on to std::alloc.
RefusesNothing(layout) == FALSE

\* Err(InvalidLayout), before anything has happened.
Refuses(layout) == layout.size = 0

\* Mutant: the memory is freed before the closure runs.
HeapAllocFreesFirst(layout) ==
  /\ HeapRuns /\ HasRoom /\ ~Refuses(layout)
  /\ \E b \in Fresh(layout) : frames' = Append(frames, b)
  /\ UNCHANGED <<allocator, sp, saved, held, status>>

HeapAlloc(layout) ==
  /\ HeapRuns /\ HasRoom /\ ~Refuses(layout)
  /\ \E b \in Fresh(layout) :
       /\ held' = held \union {b}
       /\ frames' = Append(frames, b)
  /\ UNCHANGED <<allocator, sp, saved, status>>

\* std::alloc::alloc gives null, full or not, and nothing looks at it: the
\* closure is called with that.
HeapAllocGivesNull(layout) ==
  /\ HeapRuns /\ HasRoom /\ ~Refuses(layout)
  /\ Stops("null")

\* Mutant: what is freed is the outermost call's.
FreedOutermost == frames[1]

Freed == Top

\* The closure returns, and the block is freed.
HeapReturn ==
  /\ HeapRuns /\ InClosure
  /\ status' = IF Freed \in held THEN status ELSE "corrupt"
  /\ held' = held \ {Freed}
  /\ frames' = SubSeq(frames, 1, Depth - 1)
  /\ UNCHANGED <<allocator, sp, saved>>

\* A closure panics, and code of the host above some calls catches it: their
\* frames are gone, and nothing in them has a destructor.
HeapUnwinds(k) ==
  /\ HeapRuns /\ PanicUnwinds /\ InClosure
  /\ frames' = SubSeq(frames, 1, k)
  /\ UNCHANGED <<allocator, sp, saved, held, status>>

-----------------------------------------------------------------------------
Next ==
  \/ \E layout \in StackLayouts, locals \in Locals :
       \/ StackAlloc(layout, locals)
       \/ StackOverflows(layout, locals)
       \/ CallsTheArgument(layout, locals)
  \/ StackReturn \/ StackUnwinds
  \/ \E layout \in HeapLayouts : HeapAlloc(layout) \/ HeapAllocGivesNull(layout)
  \/ HeapReturn
  \/ \E k \in 0..(Depth - 1) : HeapUnwinds(k)

Spec == Init /\ [][Next]_vars

-----------------------------------------------------------------------------
(***************************************************************************)
(* Properties.                                                              *)
(***************************************************************************)
\* Every state variable has the type its comment says, the callee-saved
\* register is the innermost function's own, and no block is empty, which
\* std::alloc does not allow.
TypeOK ==
  /\ allocator \in Allocators
  /\ sp \in 0..StackBytes
  /\ allocator # "heap" =>
       /\ saved = (IF Depth = 0 THEN 0 ELSE Top.base)
       /\ \A k \in 1..Depth : frames[k].layout \in StackLayouts /\ frames[k].ptr \in 0..StackBytes
  /\ allocator = "heap" => \A k \in 1..Depth : frames[k].layout \in HeapLayouts
  /\ \A b \in held : b.ptr \in 1..HeapBytes /\ b.layout \in HeapLayouts /\ b.layout.size > 0
  /\ status \in {"running", "overflow", "aborted", "wild", "null", "corrupt"}

\* The stack holds, downward from each caller's stack pointer, the locals of
\* with_alloc and the allocation, and then what the closure uses: the closure
\* can overwrite none of it, at any depth, and is called with the stack aligned
\* as calling an extern "C" function requires.
StackIsLaidOut ==
  allocator # "heap" =>
    \A k \in 1..Depth :
      /\ frames[k].ptr + frames[k].layout.size <= frames[k].base
      /\ frames[k].base + frames[k].locals <= frames[k].caller
      /\ frames[k].caller <= IF k = 1 THEN StackBytes ELSE frames[k - 1].ptr
      /\ sp <= frames[k].ptr /\ frames[k].ptr % 16 = 0

\* Whatever the closures did in between, with_alloc returns with the stack
\* pointer its caller had.
StackIsPutBack == [][allocator # "heap" /\ Len(frames') < Depth => sp' = Top.caller]_vars

\* Whatever has returned or unwound before, the memory of a running closure has
\* not been freed, and no block is freed twice or by another layout.
RunningClosuresHoldTheirMemory ==
  allocator = "heap" =>
    /\ status # "corrupt"
    /\ \A k \in 1..Depth : frames[k] \in held

\* Both are allocators as MockRt relies on, panics included, up to the first
\* null from the heap.
Memory == INSTANCE ScopedMemory WITH
  Layouts <- StackLayouts \union HeapLayouts,
  Addresses <- 0..(IF StackBytes > HeapBytes THEN StackBytes ELSE HeapBytes),
  live <- [k \in 1..Depth |-> [ptr |-> frames[k].ptr, layout |-> frames[k].layout]]

ImplementsScopedMemory == Memory!SSpec

\* "Now, call the function, with the allocated pointer (equal to rsp) loaded
\* in the first argument register": what is called is the function.
CallsTheFunction == status # "wild"

\* HeapAllocator: "providing similar semantics by freeing allocations once we
\* pop the current stack frame": what is held belongs to a frame.
FreedWithTheFrame == \A b \in held : \E k \in 1..Depth : frames[k] = b

=============================================================================
