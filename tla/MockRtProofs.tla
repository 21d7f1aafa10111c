---------------------------- MODULE MockRtProofs ----------------------------
(***************************************************************************)
(* Proofs about MockRt, for every set of runtimes, pool size, depth and      *)
(* choice of blocks.  Each step is first reduced to its shape: it pushes a    *)
(* certain frame, pops some, or stops.  Every invariant is then proved per   *)
(* shape, as a claim about each frame and the frames below it, so that it    *)
(* still holds when the frames above have returned or unwound.               *)
(***************************************************************************)
EXTENDS MockRt, FrameLemmas, FiniteSetTheorems, TLAPS

-----------------------------------------------------------------------------
(***************************************************************************)
(* Lemmas about the operators.                                              *)
(***************************************************************************)

\* The id a registration gets is a number.
LEMMA NextCallbackIdType ==
  ASSUME StackOK, NEW chain \in SUBSET (1..Depth)
  PROVE  NextCallbackId(chain) \in Nat
<1>1. CASE CallbackNodes(chain) = {}
  BY <1>1 DEF NextCallbackId
<1>2. CASE CallbackNodes(chain) # {}
  <2>1. CallbackNodes(chain) \subseteq 1..Depth /\ Depth \in Nat
    BY LenProperties DEF CallbackNodes, StackOK, Depth
  <2>2. Max(CallbackNodes(chain)) \in 1..Depth
    BY <1>2, <2>1, MaxOfFrames
  <2>3. \A k \in 1..Depth : stack[k] \in Frames
    BY ElementOfSeq DEF StackOK, Depth
  <2>4. stack[Max(CallbackNodes(chain))].id \in Nat
    BY <2>2, <2>3 DEF Frames
  <2> QED BY <1>2, <2>4 DEF NextCallbackId
<1> QED BY <1>1, <1>2

\* Pushing a well-formed frame keeps the stack well formed and the frames
\* below as they are.
LEMMA PushFrame ==
  ASSUME StackOK, NEW f \in Frames, FrameOK(f, Depth), Push(f)
  PROVE  /\ StackOK'
         /\ Depth' = Depth + 1
         /\ \A k \in 1..Depth : stack'[k] = stack[k]
         /\ stack'[Depth + 1] = f
<1>1. /\ stack' \in Seq(Frames)
      /\ Depth' = Depth + 1
      /\ \A k \in 1..Depth : stack'[k] = stack[k]
      /\ stack'[Depth + 1] = f
  BY AppendProperties DEF StackOK, Push, Depth
<1>2. Depth \in Nat
  BY LenProperties DEF StackOK, Depth
<1>3. \A k \in 0..Depth : Setups(k)' = Setups(k) /\ Heads(k)' = Heads(k)
  BY <1>1, <1>2 DEF Setups, Heads
<1>4. \A k \in 1..(Depth + 1) : FrameOK(stack[k], k - 1)'
  <2>1. SUFFICES ASSUME NEW k \in 1..(Depth + 1) PROVE FrameOK(stack[k], k - 1)'
    OBVIOUS
  <2>2. k - 1 \in 0..Depth
    BY <1>2
  <2>3. CASE k \in 1..Depth
    BY <1>1, <1>3, <2>2, <2>3 DEF StackOK, FrameOK
  <2>4. CASE k = Depth + 1
    <3>1. k - 1 = Depth
      BY <1>2, <2>4
    <3> QED
      BY <1>1, <1>3, <2>2, <2>4, <3>1 DEF FrameOK
  <2> QED BY <1>2, <2>3, <2>4
<1> QED
  BY <1>1, <1>2, <1>4 DEF StackOK

\* Popping frames keeps the stack well formed and the frames below as they are.
LEMMA PopFrames ==
  ASSUME StackOK, NEW n \in 1..Depth, PopTo(n)
  PROVE  /\ StackOK'
         /\ Depth' = n
         /\ \A k \in 1..n : stack'[k] = stack[k]
         /\ \A k \in 0..n : Setups(k)' = Setups(k)
<1>1. Depth \in Nat /\ n \in Nat /\ n >= 1 /\ n <= Depth
  BY LenProperties DEF StackOK, Depth
<1>2. \A i \in 1..n : stack[i] \in Frames
  BY <1>1, ElementOfSeq DEF StackOK, Depth
<1>3. /\ stack' \in Seq(Frames)
      /\ Depth' = n
      /\ \A k \in 1..n : stack'[k] = stack[k]
  BY <1>1, <1>2, SubSeqProperties DEF PopTo, Depth
<1>4. \A k \in 0..n : Setups(k)' = Setups(k) /\ Heads(k)' = Heads(k)
  BY <1>1, <1>3 DEF Setups, Heads
<1>5. \A k \in 1..n : FrameOK(stack[k], k - 1)'
  <2>1. SUFFICES ASSUME NEW k \in 1..n PROVE FrameOK(stack[k], k - 1)'
    OBVIOUS
  <2>2. k - 1 \in 0..n /\ k \in 1..Depth
    BY <1>1
  <2> QED BY <1>3, <1>4, <2>2 DEF StackOK, FrameOK
<1> QED
  BY <1>1, <1>3, <1>4, <1>5 DEF StackOK

\* The running frame is a well-formed frame.
LEMMA TopType ==
  ASSUME StackOK
  PROVE  /\ Depth \in Nat \ {0}
         /\ \A k \in 1..Depth : stack[k] \in Frames /\ FrameOK(stack[k], k - 1)
         /\ Top \in Frames /\ FrameOK(Top, Depth - 1)
BY LenProperties, ElementOfSeq DEF StackOK, Depth, Top

\* The scopes of a frame name frames at or below it.
LEMMA FrameScopes ==
  ASSUME StackOK, NEW k \in 1..Depth
  PROVE  /\ stack[k].scopes \subseteq Runtimes \X (1..k)
         /\ stack[k].access \subseteq Runtimes \X (1..k)
         /\ stack[k].loans \subseteq Runtimes \X (1..k)
         /\ stack[k].chain \subseteq 1..k
<1>1. k - 1 + 1 = k
  BY TopType
<1>2. FrameOK(stack[k], k - 1)
  BY TopType
<1> QED
  BY <1>1, <1>2 DEF FrameOK

\* The scopes of the running frame are fit for the frame pushed next.
LEMMA TopScopes ==
  ASSUME StackOK
  PROVE  /\ Depth \in Nat /\ 1..(Depth + 1) \subseteq Nat
         /\ Top.scopes \in SUBSET (Runtimes \X (1..(Depth + 1)))
         /\ Top.access \in SUBSET (Runtimes \X (1..(Depth + 1)))
<1>1. Depth \in Nat
  BY TopType
<1>2. /\ Top.scopes \subseteq Runtimes \X (1..Depth)
      /\ Top.access \subseteq Runtimes \X (1..Depth)
  BY TopType, FrameScopes DEF Top
<1>3. Runtimes \X (1..Depth) \subseteq Runtimes \X (1..(Depth + 1))
  BY <1>1
<1> QED
  BY <1>1, <1>2, <1>3

\* What a scope of the running frame gives the frame pushed next.
LEMMA ScopeType ==
  ASSUME StackOK, NEW s \in Top.scopes
  PROVE  /\ s[1] \in Runtimes /\ s[2] \in 1..Depth
         /\ stack[s[2]].chain \in SUBSET (1..Depth)
         /\ Link(stack[s[2]].chain) \subseteq 1..(Depth + 1)
         /\ Extend(s) \subseteq Runtimes \X (1..(Depth + 1))
         /\ Top.scopes \subseteq Runtimes \X (1..(Depth + 1))
         /\ Top.access \subseteq Runtimes \X (1..(Depth + 1))
<1>1. Depth \in Nat
  BY TopType
<1>2. /\ Top.scopes \subseteq Runtimes \X (1..Depth)
      /\ Top.access \subseteq Runtimes \X (1..Depth)
  BY TopType, FrameScopes DEF Top
<1>3. s[1] \in Runtimes /\ s[2] \in 1..Depth
  BY <1>2
<1>4. stack[s[2]].chain \in SUBSET (1..s[2])
  BY <1>3, FrameScopes
<1>5. stack[s[2]].chain \in SUBSET (1..Depth)
  BY <1>1, <1>3, <1>4
<1>6. Runtimes \X (1..Depth) \subseteq Runtimes \X (1..(Depth + 1))
  BY <1>1
<1>7. <<s[1], Depth + 1>> \in Runtimes \X (1..(Depth + 1))
  BY <1>1, <1>3
<1> QED
  BY <1>1, <1>2, <1>3, <1>5, <1>6, <1>7 DEF Link, Extend

\* A step that pushes a well-formed frame, and moves the head at most to it.
LEMMA PushTypeOK ==
  ASSUME TypeOK, NEW f \in Frames, FrameOK(f, Depth), Push(f),
         head' = head \/ (f.kind = "setup" /\ head' = Depth + 1),
         handed' \in [Runtimes -> SUBSET (0..(NumTrampolines - 1))],
         status' = status
  PROVE  TypeOK'
<1>1. /\ StackOK' /\ Depth' = Depth + 1
      /\ \A k \in 1..Depth : stack'[k] = stack[k]
      /\ stack'[Depth + 1] = f
  BY PushFrame DEF TypeOK
<1>2. Depth \in Nat
  BY TopType DEF TypeOK
<1>3. head' \in Heads(Depth)'
  BY <1>1, <1>2 DEF TypeOK, Heads, Setups
<1> QED
  BY <1>1, <1>3 DEF TypeOK

\* A step that pops frames and leaves a head that is still there.
LEMMA PopTypeOK ==
  ASSUME TypeOK, NEW n \in 1..Depth, PopTo(n), head' \in Heads(n),
         UNCHANGED <<handed, status>>
  PROVE  TypeOK'
<1>1. StackOK' /\ Depth' = n /\ \A k \in 0..n : Setups(k)' = Setups(k)
  BY PopFrames DEF TypeOK
<1>2. n \in 0..n
  BY TopType DEF TypeOK
<1>3. head' \in Heads(Depth)'
  BY <1>1, <1>2 DEF Heads
<1> QED
  BY <1>1, <1>3 DEF TypeOK

\* Allocators hand out well-formed blocks.
LEMMA BlockType ==
  ASSUME NEW mutable \in BOOLEAN
  PROVE  /\ FreeBlocks(mutable) \subseteq [ptr : Nat, len : Nat, mutable : BOOLEAN]
         /\ WithAlloc \subseteq [ptr : Nat, len : Nat, mutable : BOOLEAN]
<1>1. \A b \in Blocks : b.ptr \in Nat /\ b.len \in Nat
  BY BlocksAssumption
<1>2. ASSUME NEW m \in BOOLEAN, NEW x \in FreeBlocks(m)
      PROVE  x \in [ptr : Nat, len : Nat, mutable : BOOLEAN]
  <2>1. PICK b \in Blocks : x = [ptr |-> b.ptr, len |-> b.len, mutable |-> m]
    BY <1>2, Zenon DEF FreeBlocks
  <2> QED
    BY <1>1, <1>2, <2>1
<1>3. ASSUME NEW x \in WithAlloc
      PROVE  x \in [ptr : Nat, len : Nat, mutable : BOOLEAN]
  <2>1. CASE x \in FreeBlocks(TRUE)
    BY <1>2, <2>1
  <2>2. CASE x \notin FreeBlocks(TRUE)
    <3>1. PICK c \in Blocks : x = [ptr |-> 0, len |-> c.len, mutable |-> TRUE]
      BY <1>3, <2>2, Zenon DEF WithAlloc
    <3> QED
      BY <1>1, <3>1
  <2> QED BY <2>1, <2>2
<1> QED
  BY <1>2, <1>3

\* A block ends before the last address, so that no range that wraps around
\* lies in it; a null pointer from the heap leaves room for one more address.
BlockOK(b) == b.ptr + b.len < AddrSpace /\ (b.ptr = 0 => b.len + 1 < AddrSpace)

\* Allocators hand out blocks that no range wraps around in.
LEMMA BlocksEnd ==
  ASSUME NEW b, b \in WithAlloc \/ \E m \in BOOLEAN : b \in FreeBlocks(m)
  PROVE  BlockOK(b)
<1>1. \A c \in Blocks : /\ c.ptr \in Nat /\ c.len \in Nat /\ c.ptr > 0
                       /\ c.ptr + c.len < AddrSpace /\ AddrSpace \in Nat
  BY BlocksAssumption
<1>2. ASSUME NEW m \in BOOLEAN, b \in FreeBlocks(m)
      PROVE  BlockOK(b)
  <2>1. PICK c \in Blocks : b = [ptr |-> c.ptr, len |-> c.len, mutable |-> m]
    BY <1>2, Zenon DEF FreeBlocks
  <2> QED
    BY <1>1, <2>1 DEF BlockOK
<1>3. CASE b \in WithAlloc /\ b \notin FreeBlocks(TRUE)
  <2>1. PICK c \in Blocks : b = [ptr |-> 0, len |-> c.len, mutable |-> TRUE]
    BY <1>3, Zenon DEF WithAlloc
  <2> QED
    BY <1>1, <2>1 DEF BlockOK
<1> QED
  BY <1>2, <1>3

\* The values the fields of a new frame start from.
LEMMA BlankType ==
  NoBlock \in [ptr : Nat, len : Nat, mutable : BOOLEAN] /\ NoHead \in Int
BY DEF NoBlock, NoHead

-----------------------------------------------------------------------------
(***************************************************************************)
(* Every step of the runtime has one of six shapes.                         *)
(***************************************************************************)
Pushes(f) == f \in Frames /\ FrameOK(f, Depth) /\ Push(f)

\* The frame's tracker extends the one of a scope the running code has.
Extends(f, s) ==
  f.rt = s[1] /\ f.scopes = Extend(s) /\ f.chain = Link(stack[s[2]].chain)

AllocationShape(f) ==
  /\ HostRunning
  /\ Pushes(f)
  /\ \/ /\ f.kind \in AllocKinds /\ BlockOK(f.block)
        /\ \E s \in Top.scopes : Extends(f, s)
     \/ f.kind = "untracked" /\ f.scopes = Top.scopes
  /\ f.access = Top.access /\ f.loans = {} /\ f.closure = 0
  /\ UNCHANGED <<head, handed, status>>

SetupShape(f) ==
  /\ HostRunning
  /\ Pushes(f)
  /\ f.kind = "setup" /\ f.outer = head
  /\ \E s \in Top.scopes :
       Extends(f, s) /\ f.id = NextCallbackId(stack[s[2]].chain)
  /\ f.access = Top.access /\ f.loans = {} /\ f.closure = 0
  /\ head' = Depth + 1
  /\ handed' \in [Runtimes -> SUBSET (0..(NumTrampolines - 1))]
  /\ UNCHANGED status

ExecuteShape(f, a) ==
  /\ HostRunning
  /\ Pushes(f)
  /\ f.kind = "foreign" /\ f.rt = a[1]
  /\ f.scopes \subseteq Top.scopes
  /\ f.access = Top.access \ {a} /\ f.loans = {a} /\ f.closure = 0
  /\ UNCHANGED <<head, handed, status>>

CallbackShape(f) ==
  /\ ForeignRunning
  /\ Pushes(f)
  /\ f.kind = "callback"
  /\ head \in Setups(Depth) /\ f.rt = stack[head].rt
  /\ ~ParallelRuntimes => f.rt = Top.rt
  /\ f.chain = Link(stack[head].chain)
  /\ f.closure \in CallbackNodes(stack[head].chain)
  /\ f.scopes \subseteq {x \in Top.scopes : x[1] # f.rt} \union {<<f.rt, Depth + 1>>}
  /\ f.access \subseteq Top.access \union {<<f.rt, Depth + 1>>} /\ f.loans = {}
  /\ UNCHANGED <<head, handed, status>>

PopShape(n) ==
  /\ PopTo(n)
  /\ status = "running"
  /\ head' \in Heads(n)
  /\ \/ n = Depth - 1 /\ head' = IF Top.kind = "setup" THEN Top.outer ELSE head
     \/ PanicUnwinds /\ head' \in {head, Dangling}
  /\ UNCHANGED <<handed, status>>

HaltShape ==
  /\ \/ UNCHANGED status
     \/ status = "running" /\ status' \in {"aborted", "out_of_trampolines"}
     \/ status' = "undefined_behaviour" /\ head = Dangling
  /\ UNCHANGED <<stack, head, handed>>

\* What TrackAllocation does has the shape of an allocation.
LEMMA TrackAllocationStep ==
  ASSUME TypeOK, NEW r \in Runtimes, NEW s \in Top.scopes,
         NEW kind \in AllocKinds,
         NEW b \in [ptr : Nat, len : Nat, mutable : BOOLEAN], BlockOK(b),
         HostRunning, IdImprintCheck(r, {s[1]}), TrackAllocation(kind, r, s, b)
  PROVE  \E f : AllocationShape(f)
<1> DEFINE g == Frame(kind, r, Extend(s), Top.access)
           f == [g EXCEPT !.chain = Link(stack[s[2]].chain), !.block = b]
<1>1. Push(f) /\ UNCHANGED <<head, handed, status>> /\ r = s[1]
  BY DEF TrackAllocation, IdImprintCheck
<1>2. /\ kind \in Kinds
      /\ Extend(s) \in SUBSET (Runtimes \X (1..(Depth + 1)))
      /\ Top.access \in SUBSET (Runtimes \X (1..(Depth + 1)))
      /\ Link(stack[s[2]].chain) \in SUBSET (1..(Depth + 1))
      /\ 1..(Depth + 1) \subseteq Nat
  BY ScopeType, TopType DEF TypeOK, AllocKinds, Kinds
<1>3. /\ g \in Frames
      /\ g.kind = kind /\ g.rt = r /\ g.scopes = Extend(s) /\ g.access = Top.access
      /\ g.loans = {} /\ g.outer = NoHead /\ g.closure = 0
  <2>1. /\ Extend(s) \in SUBSET (Runtimes \X Nat)
        /\ Top.access \in SUBSET (Runtimes \X Nat)
    BY <1>2
  <2>2. g \in Frames
    BY <1>2, <2>1, BlankType DEF Frame, Frames
  <2> QED
    BY <2>2 DEF Frame
<1> HIDE DEF g
<1>4. /\ f \in Frames
      /\ f.kind = kind /\ f.rt = r /\ f.scopes = Extend(s) /\ f.access = Top.access
      /\ f.loans = {} /\ f.outer = NoHead /\ f.closure = 0
      /\ f.chain = Link(stack[s[2]].chain) /\ f.block = b
  BY <1>2, <1>3 DEF Frames
<1> HIDE DEF f
<1>5. FrameOK(f, Depth)
  BY <1>2, <1>4 DEF FrameOK, Heads
<1> QED
  BY <1>1, <1>4, <1>5 DEF AllocationShape, Pushes, Extends

\* So has allocate_stacked_untracked.
LEMMA UntrackedStep ==
  ASSUME TypeOK, NEW r \in Runtimes, AllocateStackedUntracked(r)
  PROVE  \E f : AllocationShape(f)
<1> DEFINE g == Frame("untracked", r, Top.scopes, Top.access)
<1>1. PICK b \in WithAlloc : Push([g EXCEPT !.block = b])
  BY DEF AllocateStackedUntracked
<1> DEFINE f == [g EXCEPT !.block = b]
<1>2. /\ Top.scopes \in SUBSET (Runtimes \X (1..(Depth + 1)))
      /\ Top.access \in SUBSET (Runtimes \X (1..(Depth + 1)))
      /\ 1..(Depth + 1) \subseteq Nat
      /\ b \in [ptr : Nat, len : Nat, mutable : BOOLEAN]
  BY TopScopes, BlockType DEF TypeOK
<1>3. /\ g \in Frames
      /\ g.kind = "untracked" /\ g.rt = r /\ g.scopes = Top.scopes /\ g.access = Top.access
      /\ g.loans = {} /\ g.chain = {} /\ g.outer = NoHead /\ g.closure = 0
  <2>1. /\ Top.scopes \in SUBSET (Runtimes \X Nat)
        /\ Top.access \in SUBSET (Runtimes \X Nat)
    BY <1>2
  <2>2. g \in Frames
    BY <1>2, <2>1, BlankType DEF Frame, Frames, Kinds
  <2> QED
    BY <2>2 DEF Frame
<1> HIDE DEF g
<1>4. /\ f \in Frames
      /\ f.kind = "untracked" /\ f.rt = r /\ f.scopes = Top.scopes /\ f.access = Top.access
      /\ f.loans = {} /\ f.chain = {} /\ f.outer = NoHead /\ f.closure = 0
  BY <1>2, <1>3 DEF Frames
<1>5. Push(f) /\ UNCHANGED <<head, handed, status>> /\ HostRunning
  BY <1>1 DEF AllocateStackedUntracked
<1> HIDE DEF f
<1>6. FrameOK(f, Depth)
  BY <1>2, <1>4 DEF FrameOK, Heads
<1> QED
  BY <1>4, <1>5, <1>6 DEF AllocationShape, Pushes

\* A registration has the shape of a setup.
LEMMA SetupStep ==
  ASSUME TypeOK, NEW r \in Runtimes, NEW s \in Top.scopes, SetupCallback(r, s)
  PROVE  \E f : SetupShape(f)
<1> DEFINE id == NextCallbackId(stack[s[2]].chain)
           g == Frame("setup", s[1], Extend(s), Top.access)
           f == [g EXCEPT !.chain = Link(stack[s[2]].chain), !.id = id, !.outer = head]
<1>1. /\ Push(f) /\ head' = Depth + 1 /\ UNCHANGED status
      /\ id < NumTrampolines
      /\ handed' = [handed EXCEPT ![r] = @ \union {id}]
      /\ HostRunning
  BY DEF SetupCallback
<1>2. /\ s[1] \in Runtimes
      /\ Extend(s) \in SUBSET (Runtimes \X (1..(Depth + 1)))
      /\ Top.access \in SUBSET (Runtimes \X (1..(Depth + 1)))
      /\ Link(stack[s[2]].chain) \in SUBSET (1..(Depth + 1))
      /\ 1..(Depth + 1) \subseteq Nat
      /\ id \in Nat
  BY ScopeType, TopType, NextCallbackIdType DEF TypeOK
<1>3. head \in Int /\ head \in Heads(Depth)
  BY <1>2, TopType DEF TypeOK, Heads, Setups, NoHead, Dangling
<1>4. handed' \in [Runtimes -> SUBSET (0..(NumTrampolines - 1))]
  BY <1>1, <1>2, NumTrampolinesAssumption DEF TypeOK
<1> HIDE DEF id
<1>5. /\ g \in Frames
      /\ g.kind = "setup" /\ g.rt = s[1] /\ g.scopes = Extend(s) /\ g.access = Top.access
      /\ g.loans = {} /\ g.closure = 0
  <2>1. /\ Extend(s) \in SUBSET (Runtimes \X Nat)
        /\ Top.access \in SUBSET (Runtimes \X Nat)
    BY <1>2
  <2>2. g \in Frames
    BY <1>2, <2>1, BlankType DEF Frame, Frames, Kinds
  <2> QED
    BY <2>2 DEF Frame
<1> HIDE DEF g
<1>6. /\ f \in Frames
      /\ f.kind = "setup" /\ f.rt = s[1] /\ f.scopes = Extend(s) /\ f.access = Top.access
      /\ f.loans = {} /\ f.outer = head /\ f.closure = 0
      /\ f.chain = Link(stack[s[2]].chain) /\ f.id = id
  BY <1>2, <1>3, <1>5 DEF Frames
<1> HIDE DEF f
<1>7. FrameOK(f, Depth)
  BY <1>2, <1>3, <1>6 DEF FrameOK
<1> QED
  BY <1>1, <1>4, <1>6, <1>7 DEF SetupShape, Pushes, Extends, id

\* execute() pushes a foreign frame that lends the scope it was given.
LEMMA ExecuteStep ==
  ASSUME TypeOK, NEW r \in Runtimes, NEW s \in Top.scopes, NEW a \in Top.access,
         Execute(r, s, a)
  PROVE  \E f : ExecuteShape(f, a)
<1> DEFINE g == Frame("foreign", r, Top.scopes \ {s}, Top.access \ {a})
           f == [g EXCEPT !.loans = {a}]
<1>1. Push(f) /\ UNCHANGED <<head, handed, status>> /\ a[1] = r /\ HostRunning
  BY DEF Execute, IdImprintCheck
<1>2. /\ Top.scopes \ {s} \in SUBSET (Runtimes \X (1..(Depth + 1)))
      /\ Top.access \ {a} \in SUBSET (Runtimes \X (1..(Depth + 1)))
      /\ {a} \in SUBSET (Runtimes \X (1..(Depth + 1)))
      /\ 1..(Depth + 1) \subseteq Nat
  BY TopScopes DEF TypeOK
<1>3. /\ g \in Frames
      /\ g.kind = "foreign" /\ g.rt = r
      /\ g.scopes = Top.scopes \ {s} /\ g.access = Top.access \ {a}
      /\ g.chain = {} /\ g.outer = NoHead /\ g.closure = 0
  <2>1. /\ Top.scopes \ {s} \in SUBSET (Runtimes \X Nat)
        /\ Top.access \ {a} \in SUBSET (Runtimes \X Nat)
    BY <1>2
  <2>2. g \in Frames
    BY <1>2, <2>1, BlankType DEF Frame, Frames, Kinds
  <2> QED
    BY <2>2 DEF Frame
<1>4. {a} \in SUBSET (Runtimes \X Nat)
  BY <1>2
<1> HIDE DEF g
<1>5. /\ f \in Frames
      /\ f.kind = "foreign" /\ f.rt = r
      /\ f.scopes = Top.scopes \ {s} /\ f.access = Top.access \ {a} /\ f.loans = {a}
      /\ f.chain = {} /\ f.outer = NoHead /\ f.closure = 0
  BY <1>3, <1>4 DEF Frames
<1> HIDE DEF f
<1>6. FrameOK(f, Depth)
  BY <1>2, <1>5 DEF FrameOK, Heads
<1> QED
  BY <1>1, <1>5, <1>6 DEF ExecuteShape, Pushes

\* A dispatched callback pushes a frame with an AccessScope of its own.
LEMMA CallbackStep ==
  ASSUME TypeOK, NEW id, DispatchCallback(id)
  PROVE  \E f : CallbackShape(f)
<1> DEFINE rt == stack[head].rt
           captured(own, seen) == {x \in own \intersect seen : x[1] # rt}
<1>1. /\ ForeignRunning /\ head \notin {NoHead, Dangling}
      /\ ~ParallelRuntimes => rt = Top.rt
  BY DEF DispatchCallback, CallsTrampoline, ForeignRunning
<1>2. PICK d \in Descriptors(stack[head].chain, id) :
        Push([Frame("callback", rt,
                captured(stack[d - 1].scopes, Top.scopes) \union {<<rt, Depth + 1>>},
                captured(stack[d - 1].access, Top.access) \union {<<rt, Depth + 1>>})
              EXCEPT !.chain = Link(stack[head].chain), !.closure = d])
  BY DEF DispatchCallback
<1> DEFINE scopes == captured(stack[d - 1].scopes, Top.scopes) \union {<<rt, Depth + 1>>}
           access == captured(stack[d - 1].access, Top.access) \union {<<rt, Depth + 1>>}
           chain == Link(stack[head].chain)
           g == Frame("callback", rt, scopes, access)
           f == [g EXCEPT !.chain = chain, !.closure = d]
<1>3. head \in Setups(Depth) /\ head \in 1..Depth
  BY <1>1 DEF TypeOK, Heads, Setups
<1>4. rt \in Runtimes
  <2>1. stack[head].kind = "setup" /\ FrameOK(stack[head], head - 1)
    BY <1>3, TopType DEF TypeOK, Setups
  <2> QED
    BY <2>1 DEF FrameOK
<1>5. stack[head].chain \subseteq 1..Depth
  <2>1. stack[head].chain \subseteq 1..head
    BY <1>3, FrameScopes DEF TypeOK
  <2> QED
    BY <1>3, <2>1, TopType DEF TypeOK
<1>6. d \in Setups(Depth) /\ d \in Nat /\ d \in CallbackNodes(stack[head].chain)
  BY <1>5, TopType DEF TypeOK, Descriptors, CallbackNodes, Setups
<1>7. /\ 1..(Depth + 1) \subseteq Nat
      /\ chain \in SUBSET (1..(Depth + 1))
      /\ scopes \in SUBSET (Runtimes \X (1..(Depth + 1)))
      /\ access \in SUBSET (Runtimes \X (1..(Depth + 1)))
  <2>1. Depth \in Nat /\ 1..(Depth + 1) \subseteq Nat
    BY TopScopes DEF TypeOK
  <2>2. chain \in SUBSET (1..(Depth + 1))
    BY <1>5, <2>1 DEF Link
  <2>3. <<rt, Depth + 1>> \in Runtimes \X (1..(Depth + 1))
    BY <1>4, <2>1
  <2>4. /\ Top.scopes \in SUBSET (Runtimes \X (1..(Depth + 1)))
        /\ Top.access \in SUBSET (Runtimes \X (1..(Depth + 1)))
    BY TopScopes DEF TypeOK
  <2> QED
    BY <2>1, <2>2, <2>3, <2>4
<1>8. /\ access \subseteq Top.access \union {<<rt, Depth + 1>>}
      /\ scopes \subseteq {x \in Top.scopes : x[1] # rt} \union {<<rt, Depth + 1>>}
  OBVIOUS
<1> HIDE DEF rt, scopes, access, chain
<1>9. /\ g \in Frames
      /\ g.kind = "callback" /\ g.rt = rt /\ g.scopes = scopes /\ g.access = access
      /\ g.loans = {} /\ g.outer = NoHead
  <2>1. scopes \in SUBSET (Runtimes \X Nat) /\ access \in SUBSET (Runtimes \X Nat)
    BY <1>7
  <2>2. g \in Frames
    BY <1>4, <1>7, <2>1, BlankType DEF Frame, Frames, Kinds
  <2> QED
    BY <2>2 DEF Frame
<1>10. Push(f) /\ UNCHANGED <<head, handed, status>>
  BY <1>2 DEF DispatchCallback, rt, scopes, access, chain
<1> HIDE DEF g
<1>11. /\ f \in Frames
       /\ f.kind = "callback" /\ f.rt = rt /\ f.scopes = scopes /\ f.access = access
       /\ f.loans = {} /\ f.outer = NoHead /\ f.closure = d /\ f.chain = chain
  BY <1>6, <1>7, <1>9 DEF Frames
<1> HIDE DEF f
<1>12. FrameOK(f, Depth)
  BY <1>4, <1>6, <1>7, <1>11 DEF FrameOK, Heads
<1> QED
  BY <1>1, <1>3, <1>6, <1>8, <1>10, <1>11, <1>12 DEF CallbackShape, Pushes, rt, chain

\* A finished closure or call: one frame goes.
LEMMA ReturnStep ==
  ASSUME TypeOK, Return
  PROVE  \E n \in 1..Depth : PopShape(n)
<1>1. Depth \in Nat /\ Top = stack[Depth] /\ stack[1].kind = "host" /\ Depth > 0
  BY TopType DEF TypeOK, StackOK, Top
<1>2. /\ Top.kind # "host" => Depth - 1 \in 1..Depth
      /\ status = "running"
  BY <1>1 DEF Return, FinishAllocation, FinishSetup, FinishForeign, FinishCallback,
              HostRunning, ForeignRunning
<1>3. Top.kind # "setup" => head \in Heads(Depth - 1)
  BY <1>1 DEF TypeOK, Heads, Setups
<1>4. CASE FinishAllocation
  <2>1. Top.kind # "host" /\ Top.kind # "setup"
    BY <1>4 DEF FinishAllocation, AllocKinds
  <2>2. PopShape(Depth - 1)
    BY <1>2, <1>3, <1>4, <2>1 DEF PopShape, FinishAllocation
  <2> QED BY <1>2, <2>1, <2>2
<1>5. CASE FinishSetup
  <2>1. Top.kind = "setup"
    BY <1>5 DEF FinishSetup
  <2>2. Top.outer \in Heads(Depth - 1)
    BY TopType DEF TypeOK, FrameOK
  <2>3. PopShape(Depth - 1)
    BY <1>2, <1>5, <2>1, <2>2 DEF PopShape, FinishSetup
  <2> QED BY <1>2, <2>1, <2>3
<1>6. CASE FinishForeign
  <2>1. Top.kind # "host" /\ Top.kind # "setup"
    BY <1>6 DEF FinishForeign, ForeignRunning
  <2>2. PopShape(Depth - 1)
    BY <1>2, <1>3, <1>6, <2>1 DEF PopShape, FinishForeign
  <2> QED BY <1>2, <2>1, <2>2
<1>7. CASE FinishCallback
  <2>1. Top.kind # "host" /\ Top.kind # "setup"
    BY <1>7 DEF FinishCallback
  <2>2. PopShape(Depth - 1)
    BY <1>2, <1>3, <1>7, <2>1 DEF PopShape, FinishCallback
  <2> QED BY <1>2, <2>1, <2>2
<1> QED
  BY <1>4, <1>5, <1>6, <1>7 DEF Return

\* A caught panic: every frame above the one that catches it goes.
LEMMA PanicStep ==
  ASSUME TypeOK, NEW k \in CatchFrames, PanicCaught(k)
  PROVE  \E n \in 1..Depth : PopShape(n)
<1>1. k \in 1..Depth
  BY DEF CatchFrames
<1>2. head' \in Heads(k)
  BY <1>1, TopType DEF PanicCaught, TypeOK, Heads, Setups, Dangling, NoHead
<1> QED
  BY <1>1, <1>2 DEF PanicCaught, UnwindTo, PopShape, HostRunning

\* Without a free trampoline the process unwinds or stops.
LEMMA OutOfTrampolinesStep ==
  ASSUME TypeOK, NEW r, NEW s, SetupOutOfTrampolines(r, s)
  PROVE  (\E n \in 1..Depth : PopShape(n)) \/ HaltShape
<1>1. CASE PanicUnwinds /\ (\E k \in CatchFrames : UnwindTo(k)) /\ head' = Dangling
  <2>1. PICK k \in CatchFrames : UnwindTo(k)
    BY <1>1
  <2> QED
    BY <1>1, <2>1 DEF SetupOutOfTrampolines, HostRunning, UnwindTo, PopShape, CatchFrames, Heads
<1>2. CASE status' = "out_of_trampolines" /\ UNCHANGED <<stack, head, handed>>
  BY <1>2 DEF SetupOutOfTrampolines, HostRunning, HaltShape
<1> QED
  BY <1>1, <1>2 DEF SetupOutOfTrampolines

\* Every step of the specification has one of the shapes.
LEMMA StepShapes ==
  ASSUME TypeOK, [Next]_vars
  PROVE  \/ \E f : AllocationShape(f)
         \/ \E f : SetupShape(f)
         \/ \E a \in Top.access : \E f : ExecuteShape(f, a)
         \/ \E f : CallbackShape(f)
         \/ \E n \in 1..Depth : PopShape(n)
         \/ HaltShape
<1>1. ASSUME NEW r \in Runtimes, NEW s \in Top.scopes, AllocateStackedMut(r, s)
      PROVE  \E f : AllocationShape(f)
  <2>1. PICK b \in WithAlloc : TrackAllocation("alloc", r, s, b)
    BY <1>1 DEF AllocateStackedMut
  <2> QED
    BY <1>1, <2>1, TrackAllocationStep, BlockType, BlocksEnd DEF AllocKinds, AllocateStackedMut
<1>2. ASSUME NEW r \in Runtimes, NEW s \in Top.scopes, AllocateStackedT(r, s)
      PROVE  \E f : AllocationShape(f)
  <2>1. PICK b \in FreeBlocks(TRUE) : TrackAllocation("local", r, s, b)
    BY <1>2 DEF AllocateStackedT
  <2> QED
    BY <1>2, <2>1, TrackAllocationStep, BlockType, BlocksEnd DEF AllocKinds, AllocateStackedT
<1>3. ASSUME NEW r \in Runtimes, NEW s \in Top.scopes, NEW a, WriteStackedT(r, s, a)
      PROVE  \E f : AllocationShape(f)
  <2>1. PICK m \in BOOLEAN : \E b \in FreeBlocks(m) : TrackAllocation("local", r, s, b)
    BY <1>3 DEF WriteStackedT
  <2>2. HostRunning /\ IdImprintCheck(r, {s[1]})
    BY <1>3 DEF WriteStackedT, IdImprintCheck
  <2> QED
    BY <2>1, <2>2, TrackAllocationStep, BlockType, BlocksEnd DEF AllocKinds
<1>4. ASSUME NEW r \in Runtimes, NEW s \in Top.scopes, NEW a, WriteStackedSlice(r, s, a)
      PROVE  \E f : AllocationShape(f)
  <2>0. HostRunning /\ IdImprintCheck(r, {s[1]})
    BY <1>4 DEF WriteStackedSlice, IdImprintCheck
  <2>1. CASE \E b \in FreeBlocks(FALSE) : TrackAllocation("local", r, s, b)
    BY <2>0, <2>1, TrackAllocationStep, BlockType, BlocksEnd DEF AllocKinds
  <2>2. CASE \E b \in WithAlloc : TrackAllocation("alloc", r, s, b)
    BY <2>0, <2>2, TrackAllocationStep, BlockType, BlocksEnd DEF AllocKinds
  <2> QED
    BY <1>4, <2>1, <2>2 DEF WriteStackedSlice
<1>5. ASSUME NEW r \in Runtimes, HostStep(r)
      PROVE  \/ \E f : AllocationShape(f)
             \/ \E f : SetupShape(f)
             \/ \E a \in Top.access : \E f : ExecuteShape(f, a)
             \/ \E n \in 1..Depth : PopShape(n)
             \/ HaltShape
  <2>1. CASE AllocateStackedUntracked(r)
    BY <2>1, UntrackedStep
  <2>2. ASSUME NEW s \in Top.scopes,
               \/ AllocateStackedMut(r, s) \/ AllocateStackedT(r, s)
               \/ SetupCallback(r, s) \/ SetupOutOfTrampolines(r, s)
        PROVE  \/ \E f : AllocationShape(f)
               \/ \E f : SetupShape(f)
               \/ \E n \in 1..Depth : PopShape(n)
               \/ HaltShape
    BY <1>1, <1>2, <2>2, SetupStep, OutOfTrampolinesStep
  <2>3. ASSUME NEW s \in Top.scopes, NEW a \in Top.access,
               WriteStackedT(r, s, a) \/ WriteStackedSlice(r, s, a) \/ Execute(r, s, a)
        PROVE  (\E f : AllocationShape(f)) \/ (\E f : ExecuteShape(f, a))
    BY <1>3, <1>4, <2>3, ExecuteStep
  <2> QED
    BY <1>5, <2>1, <2>2, <2>3 DEF HostStep
<1>6. ASSUME NEW id, DispatchFails(id) \/ DispatchDangling(id)
      PROVE  HaltShape
  BY <1>6 DEF DispatchFails, DispatchDangling, CallsTrampoline, ForeignRunning, HaltShape
<1>7. CASE PanicUncaught
  BY <1>7 DEF PanicUncaught, HostRunning, HaltShape
<1>8. CASE UNCHANGED vars
  BY <1>8 DEF vars, HaltShape
<1> QED
  BY <1>5, <1>6, <1>7, <1>8, CallbackStep, ReturnStep, PanicStep DEF Next

-----------------------------------------------------------------------------
(***************************************************************************)
(* Type correctness.                                                        *)
(***************************************************************************)
\* The initial state is well formed.
LEMMA InitTypeOK == Init => TypeOK
<1> SUFFICES ASSUME Init PROVE TypeOK
  OBVIOUS
<1> DEFINE g == Frame("host", NoRuntime, Runtimes \X {1}, Runtimes \X {1})
           f == [g EXCEPT !.chain = {1}]
<1>1. stack = <<f>> /\ head = NoHead
  BY DEF Init
<1>2. /\ g \in Frames /\ g.kind = "host"
      /\ g.scopes = Runtimes \X {1} /\ g.access = Runtimes \X {1} /\ g.loans = {}
      /\ g.outer = NoHead /\ g.closure = 0
  <2>1. g \in Frames
    BY BlankType DEF Frame, Frames, Kinds
  <2> QED
    BY <2>1 DEF Frame
<1> HIDE DEF g
<1>3. /\ f \in Frames /\ f.kind = "host"
      /\ f.scopes = Runtimes \X {1} /\ f.access = Runtimes \X {1} /\ f.loans = {}
      /\ f.outer = NoHead /\ f.closure = 0 /\ f.chain = {1}
  BY <1>2 DEF Frames
<1> HIDE DEF f
<1>4. Depth = 1 /\ stack \in Seq(Frames) /\ stack[1] = f
  BY <1>1, <1>3 DEF Depth
<1>5. FrameOK(stack[1], 0)
  BY <1>3, <1>4 DEF FrameOK, Heads
<1>6. StackOK
  BY <1>3, <1>4, <1>5 DEF StackOK
<1> QED
  BY <1>1, <1>6 DEF TypeOK, Heads, Init

\* Every step keeps the state well formed.
LEMMA NextTypeOK == TypeOK /\ [Next]_vars => TypeOK'
<1> SUFFICES ASSUME TypeOK, [Next]_vars PROVE TypeOK'
  OBVIOUS
<1>1. ASSUME NEW f, AllocationShape(f) PROVE TypeOK'
  BY <1>1, PushTypeOK DEF AllocationShape, Pushes, TypeOK
<1>2. ASSUME NEW f, SetupShape(f) PROVE TypeOK'
  BY <1>2, PushTypeOK DEF SetupShape, Pushes, TypeOK
<1>3. ASSUME NEW f, NEW a, ExecuteShape(f, a) PROVE TypeOK'
  BY <1>3, PushTypeOK DEF ExecuteShape, Pushes, TypeOK
<1>4. ASSUME NEW f, CallbackShape(f) PROVE TypeOK'
  BY <1>4, PushTypeOK DEF CallbackShape, Pushes, TypeOK
<1>5. ASSUME NEW n \in 1..Depth, PopShape(n) PROVE TypeOK'
  BY <1>5, PopTypeOK DEF PopShape
<1>6. CASE HaltShape
  BY <1>6 DEF HaltShape, TypeOK, StackOK, FrameOK, Heads, Setups, Depth
<1> QED
  BY <1>1, <1>2, <1>3, <1>4, <1>5, <1>6, StepShapes

\* For every number of runtimes, trampolines, blocks and nested calls, and
\* with panics and parallel runtimes allowed: frames refer only to live frames
\* below them, and the head names a live registration, or is None or dangling.
THEOREM TypeCorrect == Spec => []TypeOK
<1>1. Init => TypeOK
  BY InitTypeOK
<1>2. TypeOK /\ [Next]_vars => TypeOK'
  BY NextTypeOK
<1> QED
  BY <1>1, <1>2, PTL DEF Spec

-----------------------------------------------------------------------------
(***************************************************************************)
(* The head is the innermost registration, or stale after a panic.  What    *)
(* every frame saved must be as good for the frames below it, or the inner  *)
(* return would put back something else.                                    *)
(***************************************************************************)
StaleOrInnermost(h, k) == h = Dangling \/ InnermostSetup(h, k)

HeadInv ==
  /\ StaleOrInnermost(head, Depth)
  /\ \A k \in 1..Depth :
       stack[k].kind = "setup" => StaleOrInnermost(stack[k].outer, k - 1)

\* What a push leaves alone, and what it adds.
LEMMA PushedSetups ==
  ASSUME TypeOK, NEW f, Pushes(f)
  PROVE  /\ Depth' = Depth + 1 /\ Depth \in Nat
         /\ \A k \in 1..Depth : stack'[k] = stack[k]
         /\ stack'[Depth + 1] = f
         /\ \A k \in 0..Depth : Setups(k)' = Setups(k)
         /\ Setups(Depth)' = Setups(Depth) \union
              (IF f.kind = "setup" THEN {Depth + 1} ELSE {})
<1>1. /\ Depth' = Depth + 1
      /\ \A k \in 1..Depth : stack'[k] = stack[k]
      /\ stack'[Depth + 1] = f
  BY PushFrame DEF Pushes, TypeOK
<1>2. Depth \in Nat
  BY TopType DEF TypeOK
<1> QED
  BY <1>1, <1>2 DEF Setups

\* A push only has to look at the head, and at what the new frame saved.
LEMMA PushedHeads ==
  ASSUME TypeOK, HeadInv, NEW f, Pushes(f), StaleOrInnermost(head, Depth)',
         f.kind = "setup" => StaleOrInnermost(f.outer, Depth)
  PROVE  HeadInv'
<1>1. /\ Depth' = Depth + 1 /\ Depth \in Nat
      /\ \A k \in 1..Depth : stack'[k] = stack[k]
      /\ stack'[Depth + 1] = f
      /\ \A k \in 0..Depth : Setups(k)' = Setups(k)
  BY PushedSetups
<1>2. SUFFICES ASSUME NEW k \in 1..(Depth + 1), stack'[k].kind = "setup"
               PROVE  StaleOrInnermost(stack[k].outer, k - 1)'
  BY <1>1 DEF HeadInv
<1>3. CASE k \in 1..Depth
  <2>1. k - 1 \in 0..Depth /\ StaleOrInnermost(stack[k].outer, k - 1)
    BY <1>1, <1>2, <1>3 DEF HeadInv
  <2> QED
    BY <1>1, <1>3, <2>1 DEF StaleOrInnermost, InnermostSetup
<1>4. CASE k = Depth + 1
  <2>1. k - 1 = Depth /\ k - 1 \in 0..Depth
    BY <1>1, <1>4
  <2>2. StaleOrInnermost(f.outer, Depth)
    BY <1>1, <1>2, <1>4
  <2> QED
    BY <1>1, <1>4, <2>1, <2>2 DEF StaleOrInnermost, InnermostSetup
<1> QED
  BY <1>1, <1>3, <1>4

\* Every step keeps the head on the innermost live registration, or stale.
LEMMA NextHeadInv ==
  ASSUME TypeOK, HeadInv, [Next]_vars
  PROVE  HeadInv'
<1>1. ASSUME NEW f, Pushes(f), f.kind # "setup", head' = head
      PROVE  HeadInv'
  <2>1. Setups(Depth)' = Setups(Depth) /\ Depth' = Depth + 1
    BY <1>1, PushedSetups
  <2>2. StaleOrInnermost(head, Depth)'
    BY <1>1, <2>1 DEF HeadInv, StaleOrInnermost, InnermostSetup
  <2> QED
    BY <1>1, <2>2, PushedHeads
<1>2. ASSUME NEW f, SetupShape(f) PROVE HeadInv'
  <2>1. Pushes(f) /\ f.kind = "setup" /\ f.outer = head /\ head' = Depth + 1
    BY <1>2 DEF SetupShape
  <2>2. /\ Setups(Depth)' = Setups(Depth) \union {Depth + 1}
        /\ Depth' = Depth + 1 /\ Depth \in Nat
    BY <2>1, PushedSetups
  <2>3. \A j \in Setups(Depth) : j <= Depth + 1
    BY <2>2 DEF Setups
  <2>4. StaleOrInnermost(head, Depth)'
    BY <2>1, <2>2, <2>3 DEF StaleOrInnermost, InnermostSetup
  <2> QED
    BY <2>1, <2>4, PushedHeads DEF HeadInv
<1>3. ASSUME NEW n \in 1..Depth, PopShape(n) PROVE HeadInv'
  <2>1. /\ Depth' = n /\ n \in Nat /\ n <= Depth /\ Depth \in Nat
        /\ \A k \in 1..n : stack'[k] = stack[k]
        /\ \A k \in 0..n : Setups(k)' = Setups(k)
    BY <1>3, PopFrames, TopType DEF PopShape, TypeOK
  <2>2. ASSUME NEW k \in 1..n, stack'[k].kind = "setup"
        PROVE  StaleOrInnermost(stack[k].outer, k - 1)'
    <3>1. k - 1 \in 0..n /\ StaleOrInnermost(stack[k].outer, k - 1)
      BY <2>1, <2>2 DEF HeadInv
    <3> QED
      BY <2>1, <3>1 DEF StaleOrInnermost, InnermostSetup
  <2>3. n \in 0..n /\ Setups(n) \subseteq Setups(Depth) /\ head' \in Heads(n)
    BY <1>3, <2>1 DEF Setups, PopShape
  <2>4. StaleOrInnermost(head', n)
    <3>1. CASE n = Depth - 1 /\ Top.kind = "setup" /\ head' = Top.outer
      BY <2>1, <3>1, TopType DEF HeadInv, Top, TypeOK
    <3>2. CASE head' = head
      <4>1. \A h \in Setups(Depth) : h # NoHead /\ h # Dangling
        BY <2>1 DEF Setups, NoHead, Dangling
      <4> QED
        BY <2>3, <3>2, <4>1 DEF HeadInv, StaleOrInnermost, InnermostSetup, Heads
    <3>3. CASE head' = Dangling
      BY <3>3 DEF StaleOrInnermost
    <3> QED
      BY <1>3, <3>1, <3>2, <3>3 DEF PopShape
  <2>5. StaleOrInnermost(head, Depth)'
    BY <2>1, <2>3, <2>4 DEF StaleOrInnermost, InnermostSetup
  <2> QED
    BY <2>1, <2>2, <2>5 DEF HeadInv
<1>4. CASE HaltShape
  BY <1>4 DEF HaltShape, HeadInv, StaleOrInnermost, InnermostSetup, Setups, Depth
<1>5. ASSUME NEW f, AllocationShape(f) PROVE HeadInv'
  BY <1>1, <1>5 DEF AllocationShape, AllocKinds
<1>6. ASSUME NEW f, NEW a, ExecuteShape(f, a) PROVE HeadInv'
  BY <1>1, <1>6 DEF ExecuteShape
<1>7. ASSUME NEW f, CallbackShape(f) PROVE HeadInv'
  BY <1>1, <1>7 DEF CallbackShape
<1> QED
  BY <1>2, <1>3, <1>4, <1>5, <1>6, <1>7, StepShapes

\* The head and the frames agree in every reachable state.
LEMMA HeadInvariance == Spec => [](TypeOK /\ HeadInv)
<1>1. ASSUME Init PROVE HeadInv
  <2>1. Depth = 1 /\ stack[1].kind = "host" /\ head = NoHead
    BY <1>1 DEF Init, Depth, Frame
  <2>2. Setups(Depth) = {}
    BY <2>1 DEF Setups
  <2> QED
    BY <2>1, <2>2 DEF HeadInv, StaleOrInnermost, InnermostSetup
<1>2. TypeOK /\ HeadInv /\ [Next]_vars => HeadInv'
  BY NextHeadInv
<1> QED
  BY <1>1, <1>2, TypeCorrect, PTL DEF Spec

\* However panics unwind through registrations and calls, and whatever the
\* frames that caught them saved: a static head that names a registration
\* names the innermost live one.
THEOREM LiveHeadsAreInnermost == Spec => []LiveHeadIsInnermost
<1>1. HeadInv => LiveHeadIsInnermost
  BY DEF HeadInv, StaleOrInnermost, LiveHeadIsInnermost
<1> QED
  BY <1>1, HeadInvariance, PTL

\* Without panics no head becomes stale, so none that was saved is.
NoneStale ==
  /\ head # Dangling
  /\ \A k \in 1..Depth : stack[k].kind = "setup" => stack[k].outer # Dangling

\* Without unwinding, no step leaves a stale head.
LEMMA NextNoneStale ==
  ASSUME ~PanicUnwinds, TypeOK, NoneStale, [Next]_vars
  PROVE  NoneStale'
<1>1. ASSUME NEW f, Pushes(f), head' # Dangling, f.kind = "setup" => f.outer = head
      PROVE  NoneStale'
  BY <1>1, PushedSetups DEF NoneStale
<1>2. ASSUME NEW f, SetupShape(f) PROVE NoneStale'
  BY <1>1, <1>2, TopType DEF SetupShape, TypeOK, Dangling
<1>3. ASSUME NEW n \in 1..Depth, PopShape(n) PROVE NoneStale'
  <2>1. /\ Depth' = n /\ n \in Nat /\ n <= Depth /\ Depth \in Nat
        /\ \A k \in 1..n : stack'[k] = stack[k]
    BY <1>3, PopFrames, TopType DEF PopShape, TypeOK
  <2>2. head' # Dangling
    BY <1>3, TopType DEF PopShape, NoneStale, Top, TypeOK
  <2> QED
    BY <2>1, <2>2 DEF NoneStale
<1>4. CASE HaltShape
  BY <1>4 DEF HaltShape, NoneStale, Depth
<1>5. ASSUME NEW f, AllocationShape(f) PROVE NoneStale'
  BY <1>1, <1>5 DEF AllocationShape, AllocKinds, NoneStale
<1>6. ASSUME NEW f, NEW a, ExecuteShape(f, a) PROVE NoneStale'
  BY <1>1, <1>6 DEF ExecuteShape, NoneStale
<1>7. ASSUME NEW f, CallbackShape(f) PROVE NoneStale'
  BY <1>1, <1>7 DEF CallbackShape, NoneStale
<1> QED
  BY <1>2, <1>3, <1>4, <1>5, <1>6, <1>7, StepShapes

\* As long as no panic unwinds, however registrations, allocations, foreign
\* calls and callbacks of any number of runtimes nest: the static head is the
\* innermost live registration, so no trampoline starts from a dead chain.
THEOREM HeadCorrect ==
  ASSUME ~PanicUnwinds
  PROVE  Spec => []HeadIsInnermostSetup
<1>1. Init => NoneStale
  BY DEF Init, NoneStale, Depth, Frame, NoHead, Dangling
<1>2. TypeOK /\ NoneStale /\ [Next]_vars => NoneStale'
  BY NextNoneStale
<1>3. HeadInv /\ NoneStale => HeadIsInnermostSetup
  BY DEF HeadInv, NoneStale, StaleOrInnermost, HeadIsInnermostSetup
<1> QED
  BY <1>1, <1>2, <1>3, HeadInvariance, PTL DEF Spec

-----------------------------------------------------------------------------
(***************************************************************************)
(* One free AccessScope per runtime.  Stated for every prefix of the stack, *)
(* so that what holds below a frame still holds when it is popped.          *)
(***************************************************************************)
AccessOK(n) ==
  /\ \A a, b \in Free(n) : a[1] = b[1] => a = b
  /\ stack[n].access \subseteq Free(n)
  /\ stack[n].kind = "foreign" => \A a \in Free(n) : a[1] # stack[n].rt

AccessInv == \A n \in 1..Depth : AccessOK(n)

\* The free scopes of the frames below do not depend on what is pushed.
LEMMA FreeBelow ==
  ASSUME NEW m \in Nat, \A k \in 1..m : stack'[k] = stack[k]
  PROVE  \A n \in 1..m : Free(n)' = Free(n)
BY DEF Free, AccessScopes, Lent

\* A push adds the scope a callback gets, and takes what execute() borrows.
LEMMA FreeAfterPush ==
  ASSUME TypeOK, NEW f, Pushes(f)
  PROVE  Free(Depth)' =
           (IF f.kind = "callback" THEN Free(Depth) \union {<<f.rt, Depth + 1>>}
                                   ELSE Free(Depth)) \ f.loans
<1>1. /\ Depth' = Depth + 1 /\ Depth \in Nat
      /\ \A k \in 1..Depth : stack'[k] = stack[k]
      /\ stack'[Depth + 1] = f
  BY PushedSetups
<1>2. 1..(Depth + 1) = (1..Depth) \union {Depth + 1}
  BY <1>1
<1>3. AccessScopes(Depth)' =
        IF f.kind = "callback" THEN AccessScopes(Depth) \union {<<f.rt, Depth + 1>>}
                               ELSE AccessScopes(Depth)
  BY <1>1, <1>2 DEF AccessScopes
<1>4. Lent(Depth)' = Lent(Depth) \union f.loans
  BY <1>1, <1>2 DEF Lent
<1>5. <<f.rt, Depth + 1>> \notin Lent(Depth)
  <2>1. SUFFICES ASSUME NEW k \in 1..Depth, <<f.rt, Depth + 1>> \in stack[k].loans
                 PROVE  FALSE
    BY DEF Lent
  <2>2. Depth + 1 \in 1..k
    BY <2>1, FrameScopes DEF TypeOK
  <2> QED BY <1>1, <2>2
<1> QED
  BY <1>3, <1>4, <1>5 DEF Free

\* A pushed frame of any shape: the frames below keep AccessOK, so only the
\* new one has to be looked at.
LEMMA PushAccessInv ==
  ASSUME TypeOK, AccessInv, NEW f, Pushes(f), AccessOK(Depth)'
  PROVE  AccessInv'
<1>1. /\ Depth' = Depth + 1 /\ Depth \in Nat
      /\ \A k \in 1..Depth : stack'[k] = stack[k]
  BY PushedSetups
<1>2. ASSUME NEW n \in 1..Depth PROVE AccessOK(n)'
  <2>1. AccessOK(n) /\ Free(n)' = Free(n) /\ stack'[n] = stack[n]
    BY <1>1, FreeBelow DEF AccessInv
  <2> QED
    BY <2>1 DEF AccessOK
<1>3. SUFFICES ASSUME NEW n \in 1..(Depth + 1) PROVE AccessOK(n)'
  BY <1>1 DEF AccessInv
<1>4. CASE n = Depth'
  BY <1>4
<1> QED
  BY <1>1, <1>2, <1>4

\* What the running frame of an inductive state gives.
LEMMA TopAccess ==
  ASSUME TypeOK, AccessInv
  PROVE  /\ Depth \in 1..Depth
         /\ \A a, b \in Free(Depth) : a[1] = b[1] => a = b
         /\ Top.access \subseteq Free(Depth)
         /\ Top.kind = "foreign" => \A a \in Free(Depth) : a[1] # Top.rt
BY TopType DEF TypeOK, AccessInv, AccessOK, Top

\* Every step keeps what is free below each frame.
LEMMA NextAccessInv ==
  ASSUME ~ParallelRuntimes, TypeOK, AccessInv, [Next]_vars
  PROVE  AccessInv'
<1>1. ASSUME NEW f, Pushes(f), f.access = Top.access, f.loans = {},
             f.kind \notin {"foreign", "callback"}
      PROVE  AccessInv'
  <2>1. Free(Depth)' = Free(Depth) /\ stack'[Depth'] = f
    BY <1>1, FreeAfterPush, PushedSetups
  <2>2. AccessOK(Depth)'
    BY <1>1, <2>1, TopAccess DEF AccessOK
  <2> QED
    BY <1>1, <2>2, PushAccessInv
<1>2. ASSUME NEW f, AllocationShape(f) PROVE AccessInv'
  BY <1>1, <1>2 DEF AllocationShape, AllocKinds
<1>3. ASSUME NEW f, SetupShape(f) PROVE AccessInv'
  BY <1>1, <1>3 DEF SetupShape
<1>4. ASSUME NEW a \in Top.access, NEW f, ExecuteShape(f, a) PROVE AccessInv'
  <2>1. /\ Pushes(f) /\ f.kind = "foreign" /\ f.rt = a[1]
        /\ f.access = Top.access \ {a} /\ f.loans = {a}
    BY <1>4 DEF ExecuteShape
  <2>2. Free(Depth)' = Free(Depth) \ {a} /\ stack'[Depth'] = f
    BY <2>1, FreeAfterPush, PushedSetups
  <2>3. \A b \in Free(Depth) \ {a} : b[1] # a[1]
    BY TopAccess
  <2>4. AccessOK(Depth)'
    BY <2>1, <2>2, <2>3, TopAccess DEF AccessOK
  <2> QED
    BY <2>1, <2>4, PushAccessInv
<1>5. ASSUME NEW f, CallbackShape(f) PROVE AccessInv'
  <2>1. /\ Pushes(f) /\ f.kind = "callback" /\ f.rt = Top.rt /\ f.loans = {}
        /\ f.access \subseteq Top.access \union {<<f.rt, Depth + 1>>}
        /\ Top.kind = "foreign"
    BY <1>5 DEF CallbackShape, ForeignRunning
  <2>2. /\ Free(Depth)' = Free(Depth) \union {<<f.rt, Depth + 1>>}
        /\ stack'[Depth'] = f
    BY <2>1, FreeAfterPush, PushedSetups
  <2>3. \A a \in Free(Depth) : a[1] # f.rt
    BY <2>1, TopAccess
  <2>4. AccessOK(Depth)'
    BY <2>1, <2>2, <2>3, TopAccess DEF AccessOK
  <2> QED
    BY <2>1, <2>4, PushAccessInv
<1>6. ASSUME NEW n \in 1..Depth, PopShape(n) PROVE AccessInv'
  <2>1. /\ Depth' = n /\ n \in Nat /\ n <= Depth /\ Depth \in Nat
        /\ \A k \in 1..n : stack'[k] = stack[k]
    BY <1>6, PopFrames, TopType DEF PopShape, TypeOK
  <2>2. SUFFICES ASSUME NEW k \in 1..n PROVE AccessOK(k)'
    BY <2>1 DEF AccessInv
  <2>3. AccessOK(k) /\ Free(k)' = Free(k) /\ stack'[k] = stack[k]
    BY <2>1, FreeBelow DEF AccessInv
  <2> QED
    BY <2>3 DEF AccessOK
<1>7. CASE HaltShape
  <2>1. stack' = stack /\ Depth' = Depth
    BY <1>7 DEF HaltShape, Depth
  <2>2. \A n : Free(n)' = Free(n)
    BY <2>1 DEF Free, AccessScopes, Lent
  <2>3. \A n : AccessOK(n)' <=> AccessOK(n)
    BY <2>1, <2>2, Zenon DEF AccessOK
  <2> QED
    BY <2>1, <2>3, Zenon DEF AccessInv
<1> QED
  BY <1>2, <1>3, <1>4, <1>5, <1>6, <1>7, StepShapes

\* Initially the host's scopes are the only ones.
LEMMA InitAccessInv == Init => AccessInv
<1> SUFFICES ASSUME Init PROVE AccessInv
  OBVIOUS
<1>1. /\ Depth = 1 /\ stack[1].kind = "host"
      /\ stack[1].access = Runtimes \X {1} /\ stack[1].loans = {}
  BY DEF Init, Depth, Frame
<1>2. Free(1) = Runtimes \X {1}
  BY <1>1 DEF Free, AccessScopes, Lent
<1> QED
  BY <1>1, <1>2 DEF AccessInv, AccessOK

\* As long as foreign code calls back only under its own runtime's head: of
\* every runtime at most one AccessScope is free, at any depth of callbacks.
\* This is what the comment in mock_rt_callback_dispatch relies on.
THEOREM AccessIsUnique ==
  ASSUME ~ParallelRuntimes
  PROVE  Spec => []UniqueAccess
<1>1. TypeOK /\ AccessInv /\ [Next]_vars => AccessInv'
  BY NextAccessInv
<1>2. TypeOK /\ AccessInv => UniqueAccess
  BY TopAccess DEF UniqueAccess
<1> QED
  BY <1>1, <1>2, InitAccessInv, TypeCorrect, PTL DEF Spec

\* Under the same assumption: while foreign code of a runtime runs, nobody
\* holds a free AccessScope of it.
THEOREM ForeignCodeRunsAlone ==
  ASSUME ~ParallelRuntimes
  PROVE  Spec => []ForeignRunsAlone
<1>1. TypeOK /\ AccessInv /\ [Next]_vars => AccessInv'
  BY NextAccessInv
<1>2. TypeOK /\ AccessInv => ForeignRunsAlone
  BY TopAccess DEF ForeignRunsAlone
<1> QED
  BY <1>1, <1>2, InitAccessInv, TypeCorrect, PTL DEF Spec

-----------------------------------------------------------------------------
(***************************************************************************)
(* What a scope reaches.  The tracker of every scope the code of a live     *)
(* frame can use yields the host's tracker, every live registration of its  *)
(* runtime and the allocations visible from it, and no frame above has a    *)
(* newer tracker of that runtime.  Stated for every frame, as those below   *)
(* run again when the ones above have returned.                             *)
(***************************************************************************)
TrackerKinds == AllocKinds \union {"setup", "callback"}

OwnSetups(r, m) == {j \in Setups(m) : stack[j].rt = r}
OwnAllocations(r, m) == {k \in 1..m : Visible(r, k, m)}
AllocationNodes(chain) == {n \in chain : stack[n].kind \in AllocKinds}

Tracks(r, m) ==
  /\ 1 \in stack[m].chain
  /\ CallbackNodes(stack[m].chain) = OwnSetups(r, m)
  /\ AllocationNodes(stack[m].chain) = OwnAllocations(r, m)

NoNewerTracker(s, n) ==
  \A c \in (s[2] + 1)..n : stack[c].kind \in TrackerKinds => stack[c].rt # s[1]

ScopesOK(n) ==
  /\ \A s \in stack[n].scopes :
       /\ Tracks(s[1], s[2])
       /\ NoNewerTracker(s, n)
       /\ \A t \in stack[n].scopes : t[1] = s[1] => t = s
  /\ stack[n].kind = "setup" => Tracks(stack[n].rt, n)

ScopeInv == \A n \in 1..Depth : ScopesOK(n)

\* What a frame's tracker yields depends on the frames up to it alone.
LEMMA SameTracks ==
  ASSUME NEW m \in Nat, m >= 1, \A k \in 1..m : stack'[k] = stack[k],
         stack[m].chain \subseteq 1..m, NEW r, Tracks(r, m)
  PROVE  Tracks(r, m)'
<1>1. \A k \in 0..m : Setups(k)' = Setups(k)
  BY DEF Setups
<1>2. OwnSetups(r, m)' = OwnSetups(r, m)
  <2>1. \A j \in Setups(m) : stack'[j] = stack[j]
    BY DEF Setups
  <2> QED
    BY <1>1, <2>1 DEF OwnSetups
<1>3. \A k \in 1..m : Visible(r, k, m)' <=> Visible(r, k, m)
  <2>1. SUFFICES ASSUME NEW k \in 1..m
                 PROVE  Visible(r, k, m)' <=> Visible(r, k, m)
    OBVIOUS
  <2>2. ASSUME NEW c \in (k + 1)..m
        PROVE  /\ stack'[c] = stack[c]
               /\ Setups(c)' = Setups(c)
               /\ \A d \in Setups(c) : stack'[d] = stack[d]
    BY <1>1 DEF Setups
  <2> QED
    BY <2>1, <2>2 DEF Visible
<1>4. OwnAllocations(r, m)' = OwnAllocations(r, m)
  BY <1>3 DEF OwnAllocations
<1>5. stack'[m].chain = stack[m].chain
  OBVIOUS
<1>6. /\ CallbackNodes(stack[m].chain)' = CallbackNodes(stack[m].chain)
      /\ AllocationNodes(stack[m].chain)' = AllocationNodes(stack[m].chain)
  BY <1>5 DEF CallbackNodes, AllocationNodes
<1> QED
  BY <1>2, <1>4, <1>5, <1>6 DEF Tracks

\* So does all that is said about the scopes of a frame.
LEMMA SameScopes ==
  ASSUME StackOK, NEW m \in 1..Depth, \A k \in 1..m : stack'[k] = stack[k],
         NEW n \in 1..m, ScopesOK(n)
  PROVE  ScopesOK(n)'
<1>1. m \in Nat /\ n \in Nat /\ n <= m /\ n \in 1..Depth /\ stack'[n] = stack[n]
  BY TopType
<1>2. ASSUME NEW k \in 1..n, NEW r, Tracks(r, k)
      PROVE  Tracks(r, k)'
  <2>1. k \in Nat /\ k >= 1 /\ k \in 1..Depth /\ \A j \in 1..k : stack'[j] = stack[j]
    BY <1>1, TopType
  <2>2. stack[k].chain \subseteq 1..k
    BY <2>1, FrameScopes
  <2> QED
    BY <1>2, <2>1, <2>2, SameTracks
<1>3. \A s \in stack[n].scopes : s[2] \in 1..n /\ s[2] \in Nat
  BY <1>1, FrameScopes
<1>4. ASSUME NEW s \in stack[n].scopes PROVE NoNewerTracker(s, n)'
  <2>1. \A c \in (s[2] + 1)..n : stack'[c] = stack[c]
    BY <1>1, <1>3
  <2>2. NoNewerTracker(s, n)
    BY DEF ScopesOK
  <2> QED
    BY <2>1, <2>2 DEF NoNewerTracker
<1>5. \A s \in stack[n].scopes : Tracks(s[1], s[2])'
  BY <1>2, <1>3 DEF ScopesOK
<1>6. stack[n].kind = "setup" => Tracks(stack[n].rt, n)'
  BY <1>1, <1>2 DEF ScopesOK
<1>7. \A s, t \in stack[n].scopes : t[1] = s[1] => t = s
  BY DEF ScopesOK
<1> QED
  BY <1>1, <1>4, <1>5, <1>6, <1>7 DEF ScopesOK

\* Nothing of its runtime's is above the newest tracker.
LEMMA NoneAbove ==
  ASSUME TypeOK, NEW s \in Top.scopes, NoNewerTracker(s, Depth)
  PROVE  /\ OwnSetups(s[1], Depth) = OwnSetups(s[1], s[2])
         /\ \A k \in 1..Depth : Visible(s[1], k, Depth) <=> k \in OwnAllocations(s[1], s[2])
<1>1. s[2] \in 1..Depth /\ Depth \in Nat
  BY ScopeType, TopType DEF TypeOK
<1>2. OwnSetups(s[1], Depth) = OwnSetups(s[1], s[2])
  BY <1>1 DEF OwnSetups, Setups, NoNewerTracker, TrackerKinds
<1>3. ASSUME NEW k \in 1..Depth, Visible(s[1], k, Depth)
      PROVE  k \in OwnAllocations(s[1], s[2])
  <2>1. k \in 1..s[2]
    BY <1>1, <1>3 DEF Visible, NoNewerTracker, TrackerKinds
  <2>2. (k + 1)..s[2] \subseteq (k + 1)..Depth
    BY <1>1
  <2> QED
    BY <1>3, <2>1, <2>2 DEF Visible, OwnAllocations
<1>4. ASSUME NEW k \in OwnAllocations(s[1], s[2])
      PROVE  Visible(s[1], k, Depth)
  <2>1. k \in 1..s[2] /\ Visible(s[1], k, s[2])
    BY DEF OwnAllocations
  <2>2. ASSUME NEW c \in (k + 1)..Depth, stack[c].kind = "callback", stack[c].rt = s[1]
        PROVE  c \in (k + 1)..s[2]
    BY <1>1, <2>1, <2>2 DEF NoNewerTracker, TrackerKinds
  <2> QED
    BY <2>1, <2>2 DEF Visible
<1> QED
  BY <1>2, <1>3, <1>4

\* What a pushed tracker yields: its predecessor's nodes and itself.
LEMMA PushedTracker ==
  ASSUME TypeOK, NEW f, Pushes(f), NEW c \in SUBSET (1..Depth), f.chain = Link(c),
         f.kind \in TrackerKinds, NEW n \in Nat, n = Depth + 1
  PROVE  /\ 1 \in c => 1 \in stack'[n].chain
         /\ CallbackNodes(stack[n].chain)' =
              CallbackNodes(c) \union (IF f.kind = "setup" THEN {n} ELSE {})
         /\ AllocationNodes(stack[n].chain)' =
              AllocationNodes(c) \union (IF f.kind \in AllocKinds THEN {n} ELSE {})
<1>1. /\ Depth' = n /\ Depth \in Nat
      /\ \A k \in 1..Depth : stack'[k] = stack[k]
      /\ stack'[n] = f
  BY PushedSetups
<1>2. stack'[n].chain = c \union {n}
  BY <1>1 DEF Link
<1>3. {k \in c \union {n} : stack'[k].kind = "setup"} =
        CallbackNodes(c) \union (IF f.kind = "setup" THEN {n} ELSE {})
  BY <1>1 DEF CallbackNodes
<1>4. {k \in c \union {n} : stack'[k].kind \in AllocKinds} =
        AllocationNodes(c) \union (IF f.kind \in AllocKinds THEN {n} ELSE {})
  BY <1>1 DEF AllocationNodes
<1>5. /\ CallbackNodes(stack[n].chain)' =
           {k \in stack'[n].chain : stack'[k].kind = "setup"}
      /\ AllocationNodes(stack[n].chain)' =
           {k \in stack'[n].chain : stack'[k].kind \in AllocKinds}
  BY DEF CallbackNodes, AllocationNodes
<1> QED
  BY <1>2, <1>3, <1>4, <1>5

\* What a push adds to the registrations of a runtime, and to what is visible
\* from the newest frame.
LEMMA PushedOwn ==
  ASSUME TypeOK, NEW f, Pushes(f), NEW n \in Nat, n = Depth + 1, NEW r
  PROVE  /\ OwnSetups(r, n)' =
              OwnSetups(r, Depth) \union (IF f.kind = "setup" /\ f.rt = r THEN {n} ELSE {})
         /\ \A k \in 1..Depth :
              Visible(r, k, n)' <=>
                /\ Visible(r, k, Depth)
                /\ f.kind = "callback" /\ f.rt = r
                     => \E d \in OwnSetups(r, Depth) : d > k
         /\ Visible(r, n, n)' <=> f.kind \in AllocKinds /\ f.rt = r
<1>1. /\ Depth' = n /\ Depth \in Nat
      /\ \A k \in 1..Depth : stack'[k] = stack[k]
      /\ stack'[n] = f
      /\ \A k \in 0..Depth : Setups(k)' = Setups(k)
      /\ Setups(n)' = Setups(Depth) \union (IF f.kind = "setup" THEN {n} ELSE {})
  BY PushedSetups
<1>2. \A j \in Setups(Depth) : stack'[j] = stack[j]
  BY <1>1 DEF Setups
<1>3. OwnSetups(r, n)' = {j \in Setups(n)' : stack'[j].rt = r}
  BY DEF OwnSetups
<1>4. OwnSetups(r, n)' =
        OwnSetups(r, Depth) \union (IF f.kind = "setup" /\ f.rt = r THEN {n} ELSE {})
  BY <1>1, <1>2, <1>3 DEF OwnSetups
<1>5. ASSUME NEW k \in 1..Depth
      PROVE  Visible(r, k, n)' <=>
               /\ Visible(r, k, Depth)
               /\ f.kind = "callback" /\ f.rt = r
                    => \E d \in OwnSetups(r, Depth) : d > k
  <2>1. (k + 1)..n = ((k + 1)..Depth) \union {n}
    BY <1>1
  <2>2. ASSUME NEW c \in (k + 1)..Depth
        PROVE  /\ stack'[c] = stack[c]
               /\ (\E d \in Setups(c)' : d > k /\ stack'[d].rt = r)
                    <=> \E d \in Setups(c) : d > k /\ stack[d].rt = r
    <3>1. c \in 1..Depth /\ c \in 0..Depth
      BY <1>1
    <3>2. \A d \in Setups(c) : stack'[d] = stack[d]
      BY <1>1, <3>1 DEF Setups
    <3> QED
      BY <1>1, <3>1, <3>2
  <2>3. f.kind = "callback" =>
          ((\E d \in Setups(n)' : d > k /\ stack'[d].rt = r)
             <=> \E d \in OwnSetups(r, Depth) : d > k)
    BY <1>1, <1>2 DEF OwnSetups
  <2>4. Visible(r, k, n)' <=>
          /\ stack'[k].kind \in AllocKinds /\ stack'[k].rt = r
          /\ \A c \in (k + 1)..n :
               stack'[c].kind = "callback" /\ stack'[c].rt = r
                 => \E d \in Setups(c)' : d > k /\ stack'[d].rt = r
    BY DEF Visible
  <2> QED
    BY <1>1, <2>1, <2>2, <2>3, <2>4 DEF Visible
<1>6. Visible(r, n, n)' <=> f.kind \in AllocKinds /\ f.rt = r
  <2>1. (n + 1)..n = {}
    OBVIOUS
  <2>2. Visible(r, n, n)' <=>
          /\ stack'[n].kind \in AllocKinds /\ stack'[n].rt = r
          /\ \A c \in (n + 1)..n :
               stack'[c].kind = "callback" /\ stack'[c].rt = r
                 => \E d \in Setups(c)' : d > n /\ stack'[d].rt = r
    BY DEF Visible
  <2> QED
    BY <1>1, <2>1, <2>2
<1> QED
  BY <1>4, <1>5, <1>6

\* A tracker that extends the newest one of its runtime yields what is due.
LEMMA ExtendedTracks ==
  ASSUME TypeOK, ScopesOK(Depth), NEW s \in Top.scopes,
         NEW f, Pushes(f), Extends(f, s), f.kind \in AllocKinds \union {"setup"},
         NEW n \in Nat, n = Depth + 1
  PROVE  Tracks(s[1], n)'
<1> DEFINE c == stack[s[2]].chain
           r == s[1]
<1>1. /\ c \in SUBSET (1..Depth) /\ s[2] \in 1..Depth /\ Depth \in Nat
      /\ f.chain = Link(c) /\ f.rt = r /\ f.kind \in TrackerKinds
  BY ScopeType, TopType DEF TypeOK, Extends, TrackerKinds
<1>2. Tracks(r, s[2]) /\ NoNewerTracker(s, Depth)
  BY DEF ScopesOK, Top
<1>3. /\ 1 \in c
      /\ CallbackNodes(c) = OwnSetups(r, Depth)
      /\ AllocationNodes(c) = {k \in 1..Depth : Visible(r, k, Depth)}
  <2>1. OwnAllocations(r, s[2]) = {k \in 1..Depth : Visible(r, k, Depth)}
    <3>1. OwnAllocations(r, s[2]) \subseteq 1..Depth
      BY <1>1 DEF OwnAllocations
    <3> QED
      BY <1>2, <3>1, NoneAbove
  <2> QED
    BY <1>2, <2>1, NoneAbove DEF Tracks
<1>4. /\ OwnSetups(r, n)' = OwnSetups(r, Depth) \union (IF f.kind = "setup" THEN {n} ELSE {})
      /\ \A k \in 1..Depth : Visible(r, k, n)' <=> Visible(r, k, Depth)
      /\ Visible(r, n, n)' <=> f.kind \in AllocKinds
  BY <1>1, PushedOwn DEF AllocKinds
<1> HIDE DEF c, r
<1>5. /\ 1 \in stack'[n].chain
      /\ CallbackNodes(stack[n].chain)' =
           CallbackNodes(c) \union (IF f.kind = "setup" THEN {n} ELSE {})
      /\ AllocationNodes(stack[n].chain)' =
           AllocationNodes(c) \union (IF f.kind \in AllocKinds THEN {n} ELSE {})
  BY <1>1, <1>3, PushedTracker
<1>6. OwnAllocations(r, n)' =
        {k \in 1..Depth : Visible(r, k, Depth)} \union (IF f.kind \in AllocKinds THEN {n} ELSE {})
  <2>1. 1..n = (1..Depth) \union {n}
    BY <1>1
  <2>2. OwnAllocations(r, n)' = {k \in 1..n : Visible(r, k, n)'}
    BY DEF OwnAllocations, r
  <2> QED
    BY <1>4, <2>1, <2>2
<1>7. Tracks(r, n)'
  BY <1>3, <1>4, <1>5, <1>6 DEF Tracks, r
<1> QED
  BY <1>7 DEF r

\* From the innermost registration, when it is one of r, everything of r that
\* was registered is reached, and what was allocated before it.
LEMMA FromInnermost ==
  ASSUME TypeOK, NEW h \in Setups(Depth), \A j \in Setups(Depth) : j <= h
  PROVE  /\ OwnSetups(stack[h].rt, Depth) = OwnSetups(stack[h].rt, h)
         /\ \A k \in 1..Depth :
              k \in OwnAllocations(stack[h].rt, h) <=>
                /\ Visible(stack[h].rt, k, Depth)
                /\ \E d \in OwnSetups(stack[h].rt, Depth) : d > k
<1> DEFINE r == stack[h].rt
<1>1. Depth \in Nat /\ h \in 1..Depth /\ stack[h].kind = "setup"
  BY TopType DEF TypeOK, Setups
<1>2. OwnSetups(r, Depth) = OwnSetups(r, h)
  BY <1>1 DEF OwnSetups, Setups
<1>3. h \in OwnSetups(r, Depth)
  BY DEF OwnSetups
<1>4. \A k \in 1..Depth : (\E d \in OwnSetups(r, Depth) : d > k) <=> k < h
  BY <1>1, <1>3 DEF OwnSetups, Setups
<1> HIDE DEF r
<1>5. ASSUME NEW k \in 1..Depth, k < h
      PROVE  Visible(r, k, Depth) <=> Visible(r, k, h)
  <2>1. (k + 1)..Depth = ((k + 1)..h) \union ((h + 1)..Depth)
    BY <1>1, <1>5
  <2>2. ASSUME NEW c \in (h + 1)..Depth
        PROVE  \E d \in Setups(c) : d > k /\ stack[d].rt = r
    <3>1. h \in Setups(c)
      BY <1>1 DEF Setups
    <3> QED
      BY <1>5, <3>1 DEF r
  <2> QED
    BY <2>1, <2>2 DEF Visible
<1>6. OwnAllocations(r, h) \subseteq 1..h
  BY DEF OwnAllocations
<1>7. h \notin OwnAllocations(r, h)
  BY <1>1 DEF OwnAllocations, Visible, AllocKinds
<1>8. ASSUME NEW k \in 1..Depth
      PROVE  k \in OwnAllocations(r, h) <=> k < h /\ Visible(r, k, Depth)
  <2>1. CASE k < h
    BY <1>1, <1>5, <2>1 DEF OwnAllocations
  <2>2. CASE ~(k < h)
    BY <1>1, <1>6, <1>7, <2>2
  <2> QED
    BY <2>1, <2>2
<1>9. \A k \in 1..Depth :
        k \in OwnAllocations(r, h) <=>
          Visible(r, k, Depth) /\ \E d \in OwnSetups(r, Depth) : d > k
  BY <1>4, <1>8
<1> QED
  BY <1>2, <1>9 DEF r

\* The tracker a callback gets extends the one the head points at.
LEMMA CallbackTracks ==
  ASSUME TypeOK, HeadInv, ScopeInv, NEW f, CallbackShape(f),
         NEW n \in Nat, n = Depth + 1
  PROVE  /\ Tracks(f.rt, n)'
         /\ f.closure \in OwnSetups(f.rt, Depth)
<1> DEFINE h == head
           r == stack[h].rt
           c == stack[h].chain
<1>1. /\ h \in Setups(Depth) /\ h \in 1..Depth /\ stack[h].kind = "setup"
      /\ Depth \in Nat
      /\ f.rt = r /\ f.chain = Link(c) /\ f.kind = "callback" /\ Pushes(f)
      /\ f.closure \in CallbackNodes(c)
  BY TopType DEF CallbackShape, Setups, TypeOK
<1>2. \A j \in Setups(Depth) : j <= h
  <2>1. head # NoHead /\ head # Dangling
    BY <1>1 DEF NoHead, Dangling
  <2> QED
    BY <2>1, Zenon DEF HeadInv, StaleOrInnermost, InnermostSetup
<1>3. Tracks(r, h)
  BY <1>1 DEF ScopeInv, ScopesOK
<1>4. /\ OwnSetups(r, Depth) = OwnSetups(r, h)
      /\ \A k \in 1..Depth :
           k \in OwnAllocations(r, h) <=>
             Visible(r, k, Depth) /\ \E d \in OwnSetups(r, Depth) : d > k
  BY <1>1, <1>2, FromInnermost
<1>5. c \in SUBSET (1..Depth)
  <2>1. c \subseteq 1..h
    BY <1>1, FrameScopes DEF TypeOK
  <2> QED
    BY <1>1, <2>1
<1>6. /\ 1 \in c /\ CallbackNodes(c) = OwnSetups(r, Depth)
      /\ AllocationNodes(c) = OwnAllocations(r, h)
  BY <1>3, <1>4 DEF Tracks
<1>7. f.closure \in OwnSetups(f.rt, Depth)
  BY <1>1, <1>6
<1>8. /\ OwnSetups(f.rt, n)' = OwnSetups(f.rt, Depth)
      /\ \A k \in 1..Depth :
           Visible(f.rt, k, n)' <=>
             Visible(f.rt, k, Depth) /\ \E d \in OwnSetups(f.rt, Depth) : d > k
      /\ ~Visible(f.rt, n, n)'
  BY <1>1, PushedOwn DEF AllocKinds
<1>9. OwnAllocations(r, h) \subseteq 1..Depth
  <2>1. OwnAllocations(r, h) \subseteq 1..h
    BY DEF OwnAllocations
  <2> QED
    BY <1>1, <2>1
<1> HIDE DEF h, r, c
<1>10. OwnAllocations(f.rt, n)' = OwnAllocations(r, h)
  <2>1. 1..n = (1..Depth) \union {n}
    BY <1>1
  <2>2. OwnAllocations(f.rt, n)' = {k \in 1..n : Visible(f.rt, k, n)'}
    BY DEF OwnAllocations
  <2>3. \A k \in 1..Depth : Visible(f.rt, k, n)' <=> k \in OwnAllocations(r, h)
    BY <1>1, <1>4, <1>8
  <2> QED
    BY <1>8, <1>9, <2>1, <2>2, <2>3
<1>11. /\ 1 \in stack'[n].chain
       /\ CallbackNodes(stack[n].chain)' = CallbackNodes(c)
       /\ AllocationNodes(stack[n].chain)' = AllocationNodes(c)
  <2>1. f.kind \in TrackerKinds /\ f.kind \notin AllocKinds
    BY <1>1 DEF TrackerKinds, AllocKinds
  <2>2. /\ 1 \in stack'[n].chain
        /\ CallbackNodes(stack[n].chain)' = CallbackNodes(c) \union {}
        /\ AllocationNodes(stack[n].chain)' = AllocationNodes(c) \union {}
    BY <1>1, <1>5, <1>6, <2>1, PushedTracker
  <2> QED
    BY <2>2
<1>12. Tracks(f.rt, n)'
  BY <1>1, <1>6, <1>8, <1>10, <1>11 DEF Tracks
<1> QED
  BY <1>7, <1>12

\* A push: the frames below keep what they have, so only the scopes of the new
\* frame have to be looked at.
LEMMA PushedScopes ==
  ASSUME TypeOK, ScopeInv, NEW f, Pushes(f), NEW n \in Nat, n = Depth + 1,
         ScopesOK(n)'
  PROVE  ScopeInv'
<1>1. /\ Depth' = n /\ Depth \in Nat /\ Depth \in 1..Depth /\ StackOK
      /\ \A k \in 1..Depth : stack'[k] = stack[k]
  BY PushedSetups, TopType DEF TypeOK
<1>2. ASSUME NEW k \in 1..Depth PROVE ScopesOK(k)'
  BY <1>1, SameScopes DEF ScopeInv
<1> QED
  BY <1>1, <1>2 DEF ScopeInv

\* The scopes a frame hands on to the next one are as good there, unless the
\* new frame has a newer tracker of their runtime.
LEMMA InheritedScope ==
  ASSUME TypeOK, ScopesOK(Depth), NEW f, Pushes(f), NEW n \in Nat, n = Depth + 1,
         NEW s \in Top.scopes, f.kind \in TrackerKinds => f.rt # s[1]
  PROVE  Tracks(s[1], s[2])' /\ NoNewerTracker(s, n)'
<1>1. /\ Depth' = n /\ Depth \in Nat
      /\ \A k \in 1..Depth : stack'[k] = stack[k]
      /\ stack'[n] = f
  BY PushedSetups
<1>2. /\ s[2] \in 1..Depth /\ Tracks(s[1], s[2]) /\ NoNewerTracker(s, Depth)
      /\ stack[s[2]].chain \subseteq 1..s[2]
  <2>1. s[2] \in 1..Depth
    BY ScopeType DEF TypeOK
  <2> QED
    BY <2>1, FrameScopes DEF TypeOK, ScopesOK, Top
<1>3. Tracks(s[1], s[2])'
  <2>1. s[2] \in Nat /\ s[2] >= 1 /\ \A k \in 1..s[2] : stack'[k] = stack[k]
    BY <1>1, <1>2
  <2> QED
    BY <1>2, <2>1, SameTracks
<1>4. \A c \in (s[2] + 1)..n : stack'[c].kind \in TrackerKinds => stack'[c].rt # s[1]
  <2>1. (s[2] + 1)..n = ((s[2] + 1)..Depth) \union {n}
    BY <1>1, <1>2
  <2>2. \A c \in (s[2] + 1)..Depth : stack'[c] = stack[c]
    BY <1>1, <1>2
  <2> QED
    BY <1>1, <1>2, <2>1, <2>2 DEF NoNewerTracker
<1> QED
  BY <1>3, <1>4 DEF NoNewerTracker

\* Every step keeps every scope on the newest tracker of its runtime.
LEMMA NextScopeInv ==
  ASSUME TypeOK, HeadInv, ScopeInv, [Next]_vars
  PROVE  ScopeInv'
<1>1. Depth \in Nat /\ Depth \in 1..Depth /\ ScopesOK(Depth) /\ StackOK
  BY TopType DEF TypeOK, ScopeInv
<1>2. PICK n \in Nat : n = Depth + 1
  BY <1>1
<1>3. \A s, t \in Top.scopes : t[1] = s[1] => t = s
  BY <1>1 DEF ScopesOK, Top
<1>4. ASSUME NEW f, Pushes(f), f.scopes \subseteq Top.scopes, f.kind \notin TrackerKinds
      PROVE  ScopeInv'
  <2>1. stack'[n] = f /\ f.kind # "setup"
    BY <1>2, <1>4, PushedSetups DEF TrackerKinds
  <2>2. \A s \in f.scopes : Tracks(s[1], s[2])' /\ NoNewerTracker(s, n)'
    <3>1. SUFFICES ASSUME NEW s \in f.scopes
                   PROVE  Tracks(s[1], s[2])' /\ NoNewerTracker(s, n)'
      OBVIOUS
    <3>2. s \in Top.scopes
      BY <1>4
    <3> QED
      BY <1>1, <1>2, <1>4, <3>2, InheritedScope
  <2>3. \A s, t \in f.scopes : t[1] = s[1] => t = s
    BY <1>3, <1>4
  <2>4. ScopesOK(n)'
    BY <2>1, <2>2, <2>3 DEF ScopesOK
  <2> QED
    BY <1>2, <1>4, <2>4, PushedScopes
<1>5. ASSUME NEW f, Pushes(f), NEW s \in Top.scopes, Extends(f, s),
             f.kind \in AllocKinds \union {"setup"}
      PROVE  ScopeInv'
  <2>1. /\ stack'[n] = f /\ f.rt = s[1]
        /\ f.scopes = (Top.scopes \ {s}) \union {<<s[1], n>>}
    BY <1>2, <1>5, PushedSetups DEF Extends, Extend
  <2>2. Tracks(s[1], n)'
    BY <1>1, <1>2, <1>5, ExtendedTracks
  <2>3. ASSUME NEW x \in Top.scopes \ {s}
        PROVE  Tracks(x[1], x[2])' /\ NoNewerTracker(x, n)' /\ x[1] # s[1]
    <3>1. x \in Top.scopes /\ x[1] # s[1]
      BY <1>3
    <3> QED
      BY <1>1, <1>2, <1>5, <2>1, <3>1, InheritedScope
  <2>4. ASSUME NEW x, x = <<s[1], n>>
        PROVE  Tracks(x[1], x[2])' /\ NoNewerTracker(x, n)' /\ x[1] = s[1]
    <3>1. x[1] = s[1] /\ x[2] = n
      BY <2>4
    <3>2. (n + 1)..n = {}
      OBVIOUS
    <3>3. NoNewerTracker(x, n)'
      BY <3>1, <3>2 DEF NoNewerTracker
    <3> QED
      BY <2>2, <3>1, <3>3
  <2>5. ScopesOK(n)'
    <3>1. \A x \in f.scopes : Tracks(x[1], x[2])' /\ NoNewerTracker(x, n)'
      BY <2>1, <2>3, <2>4
    <3>2. \A x, t \in f.scopes : t[1] = x[1] => t = x
      BY <1>3, <2>1, <2>3, <2>4
    <3> QED
      BY <2>1, <2>2, <3>1, <3>2 DEF ScopesOK
  <2> QED
    BY <1>2, <1>5, <2>5, PushedScopes
<1>6. ASSUME NEW f, CallbackShape(f) PROVE ScopeInv'
  <2>1. /\ stack'[n] = f /\ f.kind = "callback" /\ Pushes(f)
        /\ f.scopes \subseteq {x \in Top.scopes : x[1] # f.rt} \union {<<f.rt, n>>}
    BY <1>2, <1>6, PushedSetups DEF CallbackShape
  <2>2. Tracks(f.rt, n)'
    BY <1>2, <1>6, CallbackTracks
  <2>3. ASSUME NEW x \in Top.scopes, x[1] # f.rt
        PROVE  Tracks(x[1], x[2])' /\ NoNewerTracker(x, n)'
    BY <1>1, <1>2, <2>1, <2>3, InheritedScope
  <2>4. ASSUME NEW x, x = <<f.rt, n>>
        PROVE  Tracks(x[1], x[2])' /\ NoNewerTracker(x, n)' /\ x[1] = f.rt
    <3>1. x[1] = f.rt /\ x[2] = n
      BY <2>4
    <3>2. (n + 1)..n = {}
      OBVIOUS
    <3>3. NoNewerTracker(x, n)'
      BY <3>1, <3>2 DEF NoNewerTracker
    <3> QED
      BY <2>2, <3>1, <3>3
  <2>5. ScopesOK(n)'
    <3>1. \A x \in f.scopes : Tracks(x[1], x[2])' /\ NoNewerTracker(x, n)'
      BY <2>1, <2>3, <2>4
    <3>2. \A x, t \in f.scopes : t[1] = x[1] => t = x
      BY <1>3, <2>1, <2>4
    <3> QED
      BY <2>1, <3>1, <3>2 DEF ScopesOK
  <2> QED
    BY <1>2, <2>1, <2>5, PushedScopes
<1>7. ASSUME NEW m \in 1..Depth, Depth' = m, \A k \in 1..m : stack'[k] = stack[k]
      PROVE  ScopeInv'
  <2>1. \A k \in 1..m : ScopesOK(k)
    BY <1>1 DEF ScopeInv
  <2>2. \A k \in 1..m : ScopesOK(k)'
    BY <1>1, <1>7, <2>1, SameScopes
  <2> QED
    BY <1>7, <2>2 DEF ScopeInv
<1>8. ASSUME NEW m \in 1..Depth, PopShape(m) PROVE ScopeInv'
  BY <1>1, <1>7, <1>8, PopFrames DEF PopShape
<1>9. CASE HaltShape
  <2>1. PICK m \in 1..Depth : m = Depth
    BY <1>1
  <2>2. stack' = stack /\ Depth' = m
    BY <1>9, <2>1 DEF HaltShape, Depth
  <2> QED
    BY <1>7, <2>2
<1>10. ASSUME NEW f, AllocationShape(f) PROVE ScopeInv'
  <2>1. CASE \E s \in Top.scopes : Extends(f, s) /\ f.kind \in AllocKinds
    BY <1>5, <1>10, <2>1 DEF AllocationShape
  <2>2. CASE f.kind = "untracked" /\ f.scopes = Top.scopes
    BY <1>4, <1>10, <2>2 DEF AllocationShape, TrackerKinds, AllocKinds
  <2> QED
    BY <1>10, <2>1, <2>2 DEF AllocationShape
<1>11. ASSUME NEW f, SetupShape(f) PROVE ScopeInv'
  BY <1>5, <1>11 DEF SetupShape
<1>12. ASSUME NEW f, NEW a, ExecuteShape(f, a) PROVE ScopeInv'
  BY <1>4, <1>12 DEF ExecuteShape, TrackerKinds, AllocKinds
<1> QED
  BY <1>6, <1>8, <1>9, <1>10, <1>11, <1>12, StepShapes

\* At first the host's tracker is the only one.
LEMMA InitScopeInv == Init => ScopeInv
<1> SUFFICES ASSUME Init PROVE ScopeInv
  OBVIOUS
<1>1. /\ Depth = 1 /\ stack[1].kind = "host"
      /\ stack[1].scopes = Runtimes \X {1} /\ stack[1].chain = {1}
  <2> DEFINE g == Frame("host", NoRuntime, Runtimes \X {1}, Runtimes \X {1})
  <2>1. "chain" \in DOMAIN g /\ g.kind = "host" /\ g.scopes = Runtimes \X {1}
    BY DEF Frame
  <2>2. stack = <<[g EXCEPT !.chain = {1}]>>
    BY DEF Init
  <2>3. Len(stack) = 1 /\ stack[1] = [g EXCEPT !.chain = {1}]
    BY <2>2
  <2> QED
    BY <2>3 DEF Depth, Frame
<1>2. Setups(1) = {} /\ \A r : OwnAllocations(r, 1) = {}
  BY <1>1 DEF Setups, OwnAllocations, Visible, AllocKinds
<1>3. \A r : Tracks(r, 1)
  BY <1>1, <1>2 DEF Tracks, OwnSetups, CallbackNodes, AllocationNodes, AllocKinds
<1>4. \A s \in stack[1].scopes : s[2] = 1 /\ s = <<s[1], 1>>
  BY <1>1
<1>5. ScopesOK(1)
  BY <1>1, <1>3, <1>4 DEF ScopesOK, NoNewerTracker
<1> QED
  BY <1>1, <1>5 DEF ScopeInv

\* What every scope reaches, in every reachable state.
LEMMA ScopeInvariance == Spec => [](TypeOK /\ ScopeInv)
<1>1. TypeOK /\ HeadInv /\ ScopeInv /\ [Next]_vars => ScopeInv'
  BY NextScopeInv
<1> QED
  BY <1>1, InitScopeInv, HeadInvariance, PTL DEF Spec

-----------------------------------------------------------------------------
(***************************************************************************)
(* Callback ids.                                                            *)
(***************************************************************************)
\* The next id, through any scope the running code has, is the number of live
\* registrations of its runtime: those of one runtime are numbered from 0.
LEMMA NextIdCounts ==
  ASSUME TypeOK, ScopeInv, IdsFollowNesting, NEW s \in Top.scopes
  PROVE  NextCallbackId(stack[s[2]].chain) = Cardinality(OwnSetups(s[1], Depth))
<1> DEFINE N == CallbackNodes(stack[s[2]].chain)
           r == s[1]
<1>1. Depth \in Nat /\ Depth \in 1..Depth
  BY TopType DEF TypeOK
<1>2. N = OwnSetups(r, Depth)
  <2>1. Tracks(r, s[2]) /\ NoNewerTracker(s, Depth)
    BY <1>1 DEF ScopeInv, ScopesOK, Top
  <2> QED
    BY <2>1, NoneAbove DEF Tracks
<1>3. CASE N = {}
  BY <1>2, <1>3, FS_EmptySet DEF NextCallbackId
<1>4. CASE N # {}
  <2> DEFINE m == Max(N)
             B == {j \in Setups(m - 1) : stack[j].rt = stack[m].rt}
  <2>1. N \subseteq 1..Depth
    BY <1>2 DEF OwnSetups, Setups
  <2>2. m \in N /\ \A j \in N : j <= m
    BY <1>1, <1>4, <2>1, MaxOfFrames
  <2>3. m \in Setups(Depth) /\ stack[m].rt = r /\ m \in 1..Depth
    BY <1>2, <2>2 DEF OwnSetups, Setups
  <2>4. stack[m].id = Cardinality(B)
    BY <2>3 DEF IdsFollowNesting
  <2>5. NextCallbackId(stack[s[2]].chain) = stack[m].id + 1
    BY <1>4 DEF NextCallbackId
  <2> HIDE DEF N
  <2> HIDE DEF m
  <2>6. N = B \union {m} /\ m \notin B /\ B \subseteq 1..Depth
    BY <1>1, <1>2, <2>2, <2>3 DEF OwnSetups, Setups
  <2> HIDE DEF B, r
  <2>7. IsFiniteSet(B)
    <3>1. 1 \in Int /\ Depth \in Int
      BY <1>1
    <3>2. IsFiniteSet(1..Depth)
      BY <3>1, FS_Interval, Zenon
    <3> QED
      BY <2>6, <3>2, FS_Subset, Zenon
  <2>8. Cardinality(N) = Cardinality(B) + 1
    BY <2>6, <2>7, FS_AddElement
  <2>9. Cardinality(OwnSetups(s[1], Depth)) = Cardinality(N)
    BY <1>2 DEF r
  <2> QED
    BY <2>4, <2>5, <2>8, <2>9
<1> QED
  BY <1>3, <1>4

\* The id of a registration depends on the frames up to it alone.
IdOK(k) == stack[k].id = Cardinality(OwnSetups(stack[k].rt, k - 1))

IdInv == \A k \in Setups(Depth) : IdOK(k)

\* Frames above a registration do not change what its id has to be.
LEMMA SameIds ==
  ASSUME NEW m \in Nat, \A k \in 1..m : stack'[k] = stack[k], NEW n \in 1..m, IdOK(n)
  PROVE  IdOK(n)'
<1>1. n - 1 \in 0..m /\ \A j \in 1..(n - 1) : stack'[j] = stack[j]
  OBVIOUS
<1>2. OwnSetups(stack[n].rt, n - 1)' = OwnSetups(stack[n].rt, n - 1)
  BY <1>1 DEF OwnSetups, Setups
<1> QED
  BY <1>2 DEF IdOK

\* Every step keeps the ids: a new registration gets the number of those below.
LEMMA NextIdInv ==
  ASSUME TypeOK, ScopeInv, IdInv, [Next]_vars
  PROVE  IdInv'
<1>1. Depth \in Nat /\ IdsFollowNesting
  BY TopType DEF TypeOK, IdInv, IdOK, IdsFollowNesting, OwnSetups
<1>2. PICK n \in Nat : n = Depth + 1
  BY <1>1
<1>3. ASSUME NEW f, Pushes(f), f.kind = "setup" => IdOK(n)'
      PROVE  IdInv'
  <2>1. /\ Setups(Depth)' = Setups(Depth) \union (IF f.kind = "setup" THEN {n} ELSE {})
        /\ \A k \in 1..Depth : stack'[k] = stack[k]
    BY <1>2, <1>3, PushedSetups
  <2>2. \A k \in Setups(Depth) : IdOK(k)'
    BY <1>1, <2>1, SameIds DEF IdInv, Setups
  <2> QED
    BY <1>3, <2>1, <2>2 DEF IdInv
<1>4. ASSUME NEW f, SetupShape(f) PROVE IdInv'
  <2>1. PICK s \in Top.scopes :
          Extends(f, s) /\ f.id = NextCallbackId(stack[s[2]].chain)
    BY <1>4 DEF SetupShape
  <2>2. f.id = Cardinality(OwnSetups(f.rt, Depth)) /\ Pushes(f)
    BY <1>1, <1>4, <2>1, NextIdCounts DEF Extends, SetupShape
  <2>3. /\ stack'[n] = f /\ n - 1 = Depth
        /\ \A k \in 1..Depth : stack'[k] = stack[k]
        /\ \A k \in 0..Depth : Setups(k)' = Setups(k)
    BY <1>1, <1>2, <2>2, PushedSetups
  <2>4. {j \in Setups(n - 1)' : stack'[j].rt = f.rt} = OwnSetups(f.rt, Depth)
    BY <1>1, <2>3 DEF OwnSetups, Setups
  <2>5. OwnSetups(stack[n].rt, n - 1)' = {j \in Setups(n - 1)' : stack'[j].rt = f.rt}
    BY <2>3 DEF OwnSetups
  <2>6. IdOK(n)'
    BY <2>2, <2>3, <2>4, <2>5 DEF IdOK
  <2> QED
    BY <1>3, <2>2, <2>6
<1>5. ASSUME NEW m \in 1..Depth, Depth' = m, \A k \in 1..m : stack'[k] = stack[k]
      PROVE  IdInv'
  <2>1. m \in Nat /\ m <= Depth
    BY <1>1
  <2>2. \A k \in Setups(m) : k \in 1..m /\ IdOK(k)
    BY <1>1, <2>1 DEF IdInv, Setups
  <2>3. \A k \in Setups(m) : IdOK(k)'
    BY <1>5, <2>1, <2>2, SameIds
  <2>4. Setups(Depth)' = Setups(m)
    BY <1>5 DEF Setups
  <2> QED
    BY <2>3, <2>4 DEF IdInv
<1>6. ASSUME NEW m \in 1..Depth, PopShape(m) PROVE IdInv'
  BY <1>5, <1>6, PopFrames DEF PopShape, TypeOK
<1>7. CASE HaltShape
  <2>1. PICK m \in 1..Depth : m = Depth
    BY TopType DEF TypeOK
  <2>2. stack' = stack /\ Depth' = m
    BY <1>7, <2>1 DEF HaltShape, Depth
  <2> QED
    BY <1>5, <2>2
<1>8. ASSUME NEW f, AllocationShape(f) PROVE IdInv'
  BY <1>3, <1>8 DEF AllocationShape, AllocKinds
<1>9. ASSUME NEW f, NEW a, ExecuteShape(f, a) PROVE IdInv'
  BY <1>3, <1>9 DEF ExecuteShape
<1>10. ASSUME NEW f, CallbackShape(f) PROVE IdInv'
  BY <1>3, <1>10 DEF CallbackShape
<1> QED
  BY <1>4, <1>6, <1>7, <1>8, <1>9, <1>10, StepShapes

\* However registrations of any number of runtimes nest, with callbacks that
\* register others and panics that drop some: the live ones of each runtime
\* are numbered from 0 upwards, so a trampoline selects one closure.
THEOREM IdsNumberRegistrations == Spec => []IdsFollowNesting
<1>1. Init => IdInv
  BY DEF Init, IdInv, Setups, Depth, Frame
<1>2. TypeOK /\ ScopeInv /\ IdInv /\ [Next]_vars => IdInv'
  BY NextIdInv
<1>3. IdInv => IdsFollowNesting
  BY DEF IdInv, IdOK, IdsFollowNesting, OwnSetups
<1> QED
  BY <1>1, <1>2, <1>3, ScopeInvariance, PTL DEF Spec

-----------------------------------------------------------------------------
(***************************************************************************)
(* Pointer upgrades.                                                        *)
(***************************************************************************)
\* A sum that stays in the address space does not wrap, and one that reaches
\* its size starts again at address 0.
LEMMA WrapAround ==
  ASSUME NEW A \in Nat \ {0}, NEW a \in Nat
  PROVE  (a < A => a % A = a) /\ (a = A => a % A = 0)
BY SMTT(30)

\* The checked sum of MockRtAllocation::matches accepts a range exactly when
\* each of its addresses lies in the block.
LEMMA MatchesIsInBlock ==
  ASSUME NEW b \in [ptr : Nat, len : Nat, mutable : BOOLEAN], BlockOK(b),
         NEW ptr \in 0..(AddrSpace - 1), NEW len \in 0..(AddrSpace - 1),
         NEW mutable \in BOOLEAN
  PROVE  Matches(b, ptr, len, mutable) <=>
           InBlock(b, ptr, len) /\ (mutable => b.mutable)
<1> DEFINE lo == b.ptr
           hi == b.ptr + b.len
           inside(a) == lo <= a /\ a <= hi
<1>1. /\ AddrSpace \in Nat \ {0} /\ ptr \in Nat /\ len \in Nat /\ ptr < AddrSpace
      /\ lo \in Nat /\ hi \in Nat /\ hi < AddrSpace /\ (lo = 0 => hi + 1 < AddrSpace)
  BY BlocksAssumption DEF BlockOK
<1> HIDE DEF lo, hi
<1>2. InBlock(b, ptr, len) <=> \A i \in 0..len : inside((ptr + i) % AddrSpace)
  <2>1. \A i \in 0..len : (ptr + i) % AddrSpace \in Int
    BY <1>1
  <2>2. \A a \in Int : a \in b.ptr..(b.ptr + b.len) <=> inside(a)
    BY <1>1 DEF lo, hi
  <2> HIDE DEF inside
  <2> QED
    BY <2>1, <2>2, Zenon DEF InBlock
<1>3. \A i \in 0..len : ptr + i < AddrSpace => (ptr + i) % AddrSpace = ptr + i
  BY <1>1, WrapAround
<1>4. CASE ptr + len < AddrSpace
  <2>1. \A i \in 0..len : (ptr + i) % AddrSpace = ptr + i
    BY <1>1, <1>3, <1>4
  <2>2. 0 \in 0..len /\ len \in 0..len /\ ptr + 0 = ptr
    BY <1>1
  <2>3. InBlock(b, ptr, len) <=> ptr >= lo /\ ptr + len <= hi
    BY <1>1, <1>2, <2>1, <2>2
  <2> QED
    BY <1>4, <2>3 DEF Matches, lo, hi
<1>5. CASE ~(ptr + len < AddrSpace)
  <2> DEFINE i == AddrSpace - ptr
  <2>1. i \in 0..len /\ i - 1 \in 0..len /\ ptr + i = AddrSpace
        /\ ptr + (i - 1) = AddrSpace - 1 /\ ptr + (i - 1) < AddrSpace
    BY <1>1, <1>5
  <2> HIDE DEF i
  <2>2. (ptr + i) % AddrSpace = 0 /\ (ptr + (i - 1)) % AddrSpace = AddrSpace - 1
    BY <1>1, <1>3, <2>1, WrapAround
  <2>3. ~(inside(0) /\ inside(AddrSpace - 1))
    BY <1>1
  <2>4. ~InBlock(b, ptr, len)
    <3> HIDE DEF inside
    <3> QED
      BY <1>2, <2>1, <2>2, <2>3
  <2> QED
    BY <1>5, <2>4 DEF Matches
<1> QED
  BY <1>4, <1>5

\* Every block a tracker vouches for is one an allocator handed out.
BlockInv == \A k \in 1..Depth : stack[k].kind \in AllocKinds => BlockOK(stack[k].block)

\* Every step tracks only blocks that end inside the address space.
LEMMA NextBlockInv ==
  ASSUME TypeOK, BlockInv, [Next]_vars
  PROVE  BlockInv'
<1>1. ASSUME NEW f, Pushes(f), f.kind \in AllocKinds => BlockOK(f.block)
      PROVE  BlockInv'
  <2>1. /\ Depth' = Depth + 1 /\ Depth \in Nat
        /\ \A k \in 1..Depth : stack'[k] = stack[k]
        /\ stack'[Depth + 1] = f
    BY <1>1, PushedSetups
  <2> QED
    BY <1>1, <2>1 DEF BlockInv, BlockOK
<1>2. ASSUME NEW n \in 1..Depth, PopShape(n) PROVE BlockInv'
  <2>1. /\ Depth' = n /\ n \in Nat /\ n <= Depth /\ Depth \in Nat
        /\ \A k \in 1..n : stack'[k] = stack[k]
    BY <1>2, PopFrames, TopType DEF PopShape, TypeOK
  <2> QED
    BY <2>1 DEF BlockInv, BlockOK
<1>3. CASE HaltShape
  BY <1>3 DEF HaltShape, BlockInv, BlockOK, Depth
<1>4. ASSUME NEW f, AllocationShape(f) PROVE BlockInv'
  BY <1>1, <1>4 DEF AllocationShape, AllocKinds
<1>5. ASSUME NEW f, SetupShape(f) PROVE BlockInv'
  BY <1>1, <1>5 DEF SetupShape, AllocKinds
<1>6. ASSUME NEW f, NEW a, ExecuteShape(f, a) PROVE BlockInv'
  BY <1>1, <1>6 DEF ExecuteShape, AllocKinds
<1>7. ASSUME NEW f, CallbackShape(f) PROVE BlockInv'
  BY <1>1, <1>7 DEF CallbackShape, AllocKinds
<1> QED
  BY <1>2, <1>3, <1>4, <1>5, <1>6, <1>7, StepShapes

\* Trackers that yield the visible allocations accept the ranges inside them.
LEMMA UpgradesFollowTrackers ==
  ASSUME TypeOK, ScopeInv, BlockInv
  PROVE  UpgradesExactlyVisible
<1>1. Depth \in Nat /\ Depth \in 1..Depth /\ stack[1].kind = "host"
  BY TopType DEF TypeOK, StackOK
<1>2. SUFFICES ASSUME NEW s \in Top.scopes, NEW ptr \in 0..(AddrSpace - 1),
                      NEW len \in 0..(AddrSpace - 1), NEW mutable \in BOOLEAN
               PROVE  IsValidInt(stack[s[2]].chain, ptr, len, mutable) <=>
                        \/ AllUpgradesValid
                        \/ \E k \in 1..s[2] :
                             /\ Visible(s[1], k, s[2])
                             /\ InBlock(stack[k].block, ptr, len)
                             /\ mutable => stack[k].block.mutable
  BY DEF UpgradesExactlyVisible
<1>3. Tracks(s[1], s[2]) /\ s[2] \in 1..Depth
  BY <1>1, ScopeType DEF ScopeInv, ScopesOK, Top, TypeOK
<1> DEFINE chain == stack[s[2]].chain
           accepted(k) == Matches(stack[k].block, ptr, len, mutable)
           inside(k) == /\ InBlock(stack[k].block, ptr, len)
                        /\ mutable => stack[k].block.mutable
<1>4. 1 \in chain /\ AllocationNodes(chain) = OwnAllocations(s[1], s[2])
  BY <1>3 DEF Tracks
<1>5. \A k \in OwnAllocations(s[1], s[2]) : accepted(k) <=> inside(k)
  <2>1. SUFFICES ASSUME NEW k \in OwnAllocations(s[1], s[2])
                 PROVE  accepted(k) <=> inside(k)
    OBVIOUS
  <2>2. k \in 1..Depth /\ stack[k].kind \in AllocKinds
    BY <1>1, <1>3 DEF OwnAllocations, Visible
  <2>3. /\ stack[k].block \in [ptr : Nat, len : Nat, mutable : BOOLEAN]
        /\ BlockOK(stack[k].block)
    BY <2>2, TopType DEF BlockInv, TypeOK, Frames
  <2> QED
    BY <2>3, MatchesIsInBlock
<1> HIDE DEF chain, accepted, inside
<1>6. CASE AllUpgradesValid
  BY <1>1, <1>4, <1>6 DEF IsValidInt, chain
<1>7. CASE ~AllUpgradesValid
  <2>1. IsValidInt(chain, ptr, len, mutable) <=> \E k \in AllocationNodes(chain) : accepted(k)
    BY <1>7, Zenon DEF IsValidInt, AllocationNodes, accepted
  <2>2. (\E k \in OwnAllocations(s[1], s[2]) : inside(k)) <=>
          \E k \in 1..s[2] : Visible(s[1], k, s[2]) /\ inside(k)
    BY Zenon DEF OwnAllocations
  <2>3. IsValidInt(chain, ptr, len, mutable) <=>
          \E k \in 1..s[2] : Visible(s[1], k, s[2]) /\ inside(k)
    BY <1>4, <1>5, <2>1, <2>2
  <2> QED
    BY <1>7, <2>3, Zenon DEF chain, inside
<1> QED
  BY <1>6, <1>7

\* Through any scope the running code can use, at any depth of allocations,
\* callbacks and caught panics: a pointer upgrade succeeds exactly for ranges
\* inside one live allocation of its runtime that is visible from there, for
\* every choice of blocks and every size of the address space.
THEOREM UpgradesAreExact == Spec => []UpgradesExactlyVisible
<1>1. Init => BlockInv
  BY DEF Init, BlockInv, Depth, Frame, AllocKinds
<1>2. TypeOK /\ BlockInv /\ [Next]_vars => BlockInv'
  BY NextBlockInv
<1>3. TypeOK /\ ScopeInv /\ BlockInv => UpgradesExactlyVisible
  BY UpgradesFollowTrackers
<1> QED
  BY <1>1, <1>2, <1>3, ScopeInvariance, PTL DEF Spec

-----------------------------------------------------------------------------
(***************************************************************************)
(* Calls and callbacks nest as ForeignAccess says.  What every frame that   *)
(* takes or gives a right keeps about the frames below it, so that its      *)
(* return gives back exactly what it took.                                  *)
(***************************************************************************)
EnteredByOwnCall(n) ==
  \A j \in 1..(n - 1) :
    stack[j].kind = "callback" /\ stack[j].closure = stack[n].closure
      => \E f \in (j + 1)..(n - 1) :
           stack[f].kind = "foreign" /\ <<stack[j].rt, j>> \in stack[f].loans

CallOK(n) ==
  /\ n > 1 => stack[n].kind # "host"
  /\ stack[n].kind = "foreign" =>
       \E a \in Free(n - 1) : stack[n].loans = {a} /\ a[1] = stack[n].rt
  /\ stack[n].kind # "foreign" => stack[n].loans = {}
  /\ stack[n].kind = "callback" =>
       stack[n].closure \in OwnSetups(stack[n].rt, n - 1) /\ EnteredByOwnCall(n)

CallInv == \A n \in 1..Depth : CallOK(n)

\* All this depends on the frames up to n alone.
LEMMA SameCalls ==
  ASSUME StackOK, NEW m \in 1..Depth, \A k \in 1..m : stack'[k] = stack[k],
         NEW n \in 1..m, CallOK(n)
  PROVE  CallOK(n)'
<1>1. /\ m \in Nat /\ n \in Nat /\ n >= 1 /\ n - 1 \in 0..m
      /\ stack'[n] = stack[n] /\ stack[1].kind = "host"
      /\ \A j \in 1..(n - 1) : stack'[j] = stack[j]
  <2>1. stack[1].kind = "host"
    BY DEF StackOK
  <2>2. Depth \in Nat
    BY TopType
  <2> QED
    BY <2>1, <2>2
<1>2. stack[n].kind = "foreign" => Free(n - 1)' = Free(n - 1)
  <2>1. n > 1 => n - 1 \in 1..m
    BY <1>1
  <2> QED
    BY <1>1, <2>1, FreeBelow
<1>3. OwnSetups(stack[n].rt, n - 1)' = OwnSetups(stack[n].rt, n - 1)
  BY <1>1 DEF OwnSetups, Setups
<1>4. EnteredByOwnCall(n)' <=> EnteredByOwnCall(n)
  <2>1. \A j \in 1..(n - 1) : \A f \in (j + 1)..(n - 1) : stack'[f] = stack[f]
    BY <1>1
  <2> QED
    BY <1>1, <2>1 DEF EnteredByOwnCall
<1> QED
  BY <1>1, <1>2, <1>3, <1>4 DEF CallOK

\* A callback enters a closure that is active only if foreign code borrows the
\* AccessScope of that activation: otherwise the scope would be free.
LEMMA CallbackEntry ==
  ASSUME ~ParallelRuntimes, TypeOK, HeadInv, ScopeInv, AccessInv, CallInv,
         NEW f, CallbackShape(f), NEW n \in Nat, n = Depth + 1
  PROVE  EnteredByOwnCall(n)'
<1>1. /\ Pushes(f) /\ f.kind = "callback" /\ f.rt = Top.rt /\ Top.kind = "foreign"
      /\ f.closure \in OwnSetups(f.rt, Depth)
  BY CallbackTracks DEF CallbackShape, ForeignRunning
<1>2. /\ Depth \in Nat /\ n - 1 = Depth
      /\ \A k \in 1..Depth : stack'[k] = stack[k]
      /\ stack'[n] = f
  BY <1>1, PushedSetups
<1>3. \A a \in Free(Depth) : a[1] # f.rt
  BY <1>1, TopAccess
<1>4. ASSUME NEW j \in 1..Depth, stack[j].kind = "callback", stack[j].closure = f.closure
      PROVE  \E g \in (j + 1)..Depth :
               stack[g].kind = "foreign" /\ <<stack[j].rt, j>> \in stack[g].loans
  <2>1. stack[j].closure \in OwnSetups(stack[j].rt, j - 1)
    BY <1>4 DEF CallInv, CallOK
  <2>2. stack[j].rt = f.rt
    BY <1>1, <1>4, <2>1 DEF OwnSetups
  <2>3. <<stack[j].rt, j>> \in AccessScopes(Depth)
    BY <1>4 DEF AccessScopes
  <2>4. <<stack[j].rt, j>> \notin Free(Depth)
    BY <1>3, <2>2
  <2>5. PICK g \in 1..Depth : <<stack[j].rt, j>> \in stack[g].loans
    BY <2>3, <2>4 DEF Free, Lent
  <2>6. j \in 1..g
    BY <2>5, FrameScopes DEF TypeOK
  <2>7. stack[g].kind = "foreign"
    BY <2>5 DEF CallInv, CallOK
  <2>8. g \in (j + 1)..Depth
    BY <1>2, <1>4, <2>6, <2>7
  <2> QED
    BY <2>5, <2>7, <2>8
<1>5. EnteredByOwnCall(n)' <=>
        \A j \in 1..(n - 1) :
          stack'[j].kind = "callback" /\ stack'[j].closure = stack'[n].closure
            => \E g \in (j + 1)..(n - 1) :
                 stack'[g].kind = "foreign" /\ <<stack'[j].rt, j>> \in stack'[g].loans
  BY DEF EnteredByOwnCall
<1>6. \A j \in 1..Depth : \A g \in (j + 1)..Depth : stack'[g] = stack[g]
  BY <1>2
<1> QED
  BY <1>2, <1>4, <1>5, <1>6

\* Every step keeps what the frames in progress took and gave.
LEMMA NextCallInv ==
  ASSUME ~ParallelRuntimes, TypeOK, HeadInv, ScopeInv, AccessInv, CallInv, [Next]_vars
  PROVE  CallInv'
<1>1. Depth \in Nat /\ Depth \in 1..Depth /\ StackOK
  BY TopType DEF TypeOK
<1>2. PICK n \in Nat : n = Depth + 1
  BY <1>1
<1>3. ASSUME NEW f, Pushes(f), CallOK(n)'
      PROVE  CallInv'
  <2>1. Depth' = n /\ \A k \in 1..Depth : stack'[k] = stack[k]
    BY <1>2, <1>3, PushedSetups
  <2>2. \A k \in 1..Depth : CallOK(k)'
    BY <1>1, <2>1, SameCalls DEF CallInv
  <2> QED
    BY <1>1, <1>2, <1>3, <2>1, <2>2 DEF CallInv
<1>4. ASSUME NEW f, Pushes(f), f.loans = {}, f.kind \notin {"host", "foreign", "callback"}
      PROVE  CallInv'
  <2>1. stack'[n] = f
    BY <1>2, <1>4, PushedSetups
  <2>2. CallOK(n)'
    BY <1>4, <2>1 DEF CallOK
  <2> QED
    BY <1>3, <1>4, <2>2
<1>5. ASSUME NEW f, AllocationShape(f) PROVE CallInv'
  BY <1>4, <1>5 DEF AllocationShape, AllocKinds
<1>6. ASSUME NEW f, SetupShape(f) PROVE CallInv'
  BY <1>4, <1>6 DEF SetupShape
<1>7. ASSUME NEW a \in Top.access, NEW f, ExecuteShape(f, a) PROVE CallInv'
  <2>1. /\ stack'[n] = f /\ f.kind = "foreign" /\ f.loans = {a} /\ f.rt = a[1]
        /\ Pushes(f)
    BY <1>2, <1>7, PushedSetups DEF ExecuteShape
  <2>2. n - 1 = Depth /\ \A k \in 1..Depth : stack'[k] = stack[k]
    BY <1>1, <1>2, <2>1, PushedSetups
  <2>3. Free(n - 1)' = Free(Depth)
    BY <1>1, <2>2, FreeBelow
  <2>4. a \in Free(Depth)
    BY <1>7, TopAccess
  <2>5. CallOK(n)'
    BY <2>1, <2>3, <2>4 DEF CallOK
  <2> QED
    BY <1>3, <2>1, <2>5
<1>8. ASSUME NEW f, CallbackShape(f) PROVE CallInv'
  <2>1. /\ stack'[n] = f /\ f.kind = "callback" /\ f.loans = {} /\ Pushes(f)
        /\ n - 1 = Depth /\ \A k \in 1..Depth : stack'[k] = stack[k]
    BY <1>1, <1>2, <1>8, PushedSetups DEF CallbackShape
  <2>2. f.closure \in OwnSetups(f.rt, Depth)
    BY <1>2, <1>8, CallbackTracks
  <2>3. OwnSetups(f.rt, n - 1)' = OwnSetups(f.rt, Depth)
    BY <2>1 DEF OwnSetups, Setups
  <2>4. OwnSetups(stack[n].rt, n - 1)' = OwnSetups(f.rt, n - 1)'
    BY <2>1 DEF OwnSetups
  <2>5. EnteredByOwnCall(n)'
    BY <1>2, <1>8, CallbackEntry
  <2>6. CallOK(n)'
    BY <2>1, <2>2, <2>3, <2>4, <2>5 DEF CallOK
  <2> QED
    BY <1>3, <2>1, <2>6
<1>9. ASSUME NEW m \in 1..Depth, Depth' = m, \A k \in 1..m : stack'[k] = stack[k]
      PROVE  CallInv'
  <2>1. \A k \in 1..m : CallOK(k)
    BY <1>1 DEF CallInv
  <2>2. \A k \in 1..m : CallOK(k)'
    BY <1>1, <1>9, <2>1, SameCalls
  <2> QED
    BY <1>9, <2>2 DEF CallInv
<1>10. ASSUME NEW m \in 1..Depth, PopShape(m) PROVE CallInv'
  BY <1>1, <1>9, <1>10, PopFrames DEF PopShape
<1>11. CASE HaltShape
  <2>1. PICK m \in 1..Depth : m = Depth
    BY <1>1
  <2>2. stack' = stack /\ Depth' = m
    BY <1>11, <2>1 DEF HaltShape, Depth
  <2> QED
    BY <1>9, <2>2
<1> QED
  BY <1>5, <1>6, <1>7, <1>8, <1>10, <1>11, StepShapes

\* The frames in progress agree on who has what, in every reachable state.
LEMMA CallInvariance ==
  ASSUME ~ParallelRuntimes
  PROVE  Spec => [](TypeOK /\ HeadInv /\ ScopeInv /\ AccessInv /\ CallInv)
<1>1. Init => CallInv
  BY DEF Init, CallInv, CallOK, Depth, Frame
<1>2. TypeOK /\ AccessInv /\ [Next]_vars => AccessInv'
  BY NextAccessInv
<1>3. TypeOK /\ HeadInv /\ ScopeInv /\ AccessInv /\ CallInv /\ [Next]_vars => CallInv'
  BY NextCallInv
<1> QED
  BY <1>1, <1>2, <1>3, InitAccessInv, HeadInvariance, ScopeInvariance, PTL DEF Spec

\* As long as foreign code calls back only under its own runtime's head: a
\* callback closure is entered again, while an activation of it has not
\* returned, only by a foreign call that borrows that activation's own
\* AccessScope, however many registrations and runtimes lie between the two.
THEOREM ReentryIsOwnCall ==
  ASSUME ~ParallelRuntimes
  PROVE  Spec => []ReentryOnlyByOwnCall
<1>1. ASSUME CallInv, TypeOK PROVE ReentryOnlyByOwnCall
  <2>1. SUFFICES ASSUME NEW k \in Callbacks, NEW j \in Callbacks, j < k,
                        stack[j].closure = stack[k].closure
                 PROVE  \E f \in (j + 1)..(k - 1) :
                          /\ stack[f].kind = "foreign"
                          /\ <<stack[j].rt, j>> \in stack[f].loans
    BY DEF ReentryOnlyByOwnCall
  <2>2. EnteredByOwnCall(k)
    BY <1>1 DEF CallInv, CallOK, Callbacks
  <2>3. j \in 1..(k - 1) /\ stack[j].kind = "callback"
    BY <1>1, <2>1, TopType DEF TypeOK, Callbacks
  <2> QED
    BY <2>1, <2>2, <2>3 DEF EnteredByOwnCall
<1> QED
  BY <1>1, CallInvariance, PTL

-----------------------------------------------------------------------------
(***************************************************************************)
(* The runtime implements ForeignAccess.                                    *)
(***************************************************************************)
CallRecords == [kind : Kinds, rt : Runtimes \union {NoRuntime}, closure : Nat]

CallOf(f) == [kind |-> f.kind, rt |-> f.rt, closure |-> f.closure]

\* The calls in progress are the frames, seen without what they hold.
LEMMA CallsAreFrames ==
  ASSUME TypeOK
  PROVE  /\ CallsInProgress \in Seq(CallRecords)
         /\ Len(CallsInProgress) = Depth
         /\ \A k \in 1..Depth : CallsInProgress[k] = CallOf(stack[k])
         /\ CallsInProgress[Depth] = CallOf(Top)
<1>1. /\ Depth \in Nat /\ Depth \in 1..Depth
      /\ \A k \in 1..Depth : stack[k] \in Frames
  BY TopType DEF TypeOK
<1>2. \A k \in 1..Depth : CallOf(stack[k]) \in CallRecords
  BY <1>1 DEF CallOf, CallRecords, Frames
<1>3. CallsInProgress = [k \in 1..Depth |-> CallOf(stack[k])]
  BY DEF CallsInProgress, CallOf
<1> HIDE DEF CallOf
<1>4. CallsInProgress \in Seq(CallRecords) /\ Len(CallsInProgress) = Depth
  BY <1>1, <1>2, <1>3
<1> QED
  BY <1>1, <1>3, <1>4 DEF Top

\* The same in the next state.
LEMMA NextCallsAreFrames ==
  ASSUME TypeOK'
  PROVE  /\ CallsInProgress' \in Seq(CallRecords)
         /\ Len(CallsInProgress') = Depth'
         /\ \A k \in 1..Depth' : CallsInProgress'[k] = CallOf(stack'[k])
<1>1. /\ Depth' \in Nat
      /\ \A k \in 1..Depth' : stack'[k] \in Frames
  BY LenProperties, ElementOfSeq DEF TypeOK, StackOK, Depth
<1>2. \A k \in 1..Depth' : CallOf(stack'[k]) \in CallRecords
  BY <1>1 DEF CallOf, CallRecords, Frames
<1>3. CallsInProgress' = [k \in 1..Depth' |-> CallOf(stack'[k])]
  BY DEF CallsInProgress, CallOf
<1> HIDE DEF CallOf
<1> QED
  BY <1>1, <1>2, <1>3

\* A push is a call that begins.
LEMMA PushIsEnter ==
  ASSUME TypeOK, TypeOK', NEW f, Pushes(f)
  PROVE  CallsInProgress' = Append(CallsInProgress, CallOf(f))
<1>1. /\ Depth' = Depth + 1 /\ Depth \in Nat
      /\ \A k \in 1..Depth : stack'[k] = stack[k]
      /\ stack'[Depth + 1] = f
  BY PushedSetups
<1>2. CallOf(f) \in CallRecords
  BY DEF Pushes, CallOf, CallRecords, Frames
<1> DEFINE C == CallsInProgress
           D == CallsInProgress'
           c == CallOf(f)
           A == Append(C, c)
<1>3. /\ C \in Seq(CallRecords) /\ Len(C) = Depth
      /\ \A k \in 1..Depth : C[k] = CallOf(stack[k])
      /\ D \in Seq(CallRecords) /\ Len(D) = Depth + 1
      /\ \A k \in 1..(Depth + 1) : D[k] = CallOf(stack'[k])
  BY <1>1, CallsAreFrames, NextCallsAreFrames
<1>4. c \in CallRecords
  BY <1>2
<1> HIDE DEF C, D, c
<1>5. /\ A \in Seq(CallRecords) /\ Len(A) = Depth + 1
      /\ \A k \in 1..Depth : A[k] = C[k]
      /\ A[Depth + 1] = c
  BY <1>3, <1>4, AppendProperties
<1> HIDE DEF A
<1>6. \A k \in 1..(Depth + 1) : D[k] = A[k]
  BY <1>1, <1>3, <1>5 DEF c
<1>7. D = A
  BY <1>3, <1>5, <1>6, SeqEqual
<1> QED
  BY <1>7 DEF A, C, D, c

\* A return is the last call leaving.
LEMMA PopIsLeave ==
  ASSUME TypeOK, TypeOK', NEW n \in 1..Depth, n = Depth - 1, PopTo(n)
  PROVE  Abstract!Leave
<1>1. /\ Depth' = n /\ n \in Nat /\ n <= Depth /\ Depth \in Nat
      /\ \A k \in 1..n : stack'[k] = stack[k]
  BY PopFrames, TopType DEF TypeOK
<1> DEFINE C == CallsInProgress
           D == CallsInProgress'
           A == SubSeq(C, 1, n)
<1>2. /\ C \in Seq(CallRecords) /\ Len(C) = Depth
      /\ \A k \in 1..Depth : C[k] = CallOf(stack[k])
      /\ D \in Seq(CallRecords) /\ Len(D) = n
      /\ \A k \in 1..n : D[k] = CallOf(stack'[k])
  BY <1>1, CallsAreFrames, NextCallsAreFrames
<1> HIDE DEF C, D
<1>3. /\ A \in Seq(CallRecords) /\ Len(A) = n
      /\ \A k \in 1..n : A[k] = C[k]
  <2>1. n \in 0..Len(C)
    BY <1>1, <1>2
  <2> QED
    BY <1>2, <2>1, CutTo
<1> HIDE DEF A
<1>4. \A k \in 1..n : D[k] = A[k]
  BY <1>1, <1>2, <1>3
<1>5. D = A
  BY <1>2, <1>3, <1>4, SeqEqual
<1>6. CallsInProgress' = SubSeq(CallsInProgress, 1, Len(CallsInProgress) - 1)
  BY <1>2, <1>5 DEF A, C, D
<1> QED
  BY <1>6 DEF Abstract!Leave

\* Whose turn it is follows from the free AccessScopes.
LEMMA TurnIs ==
  ASSUME NEW r \in Runtimes
  PROVE  /\ Turn[r] = "host" <=> \E a \in Free(Depth) : a[1] = r
         /\ Turn[r] = "foreign" <=> \A a \in Free(Depth) : a[1] # r
BY DEF Turn

\* A step that leaves the free scopes as they are leaves every turn.
LEMMA SameTurn ==
  ASSUME Free(Depth)' = Free(Depth)
  PROVE  Turn' = Turn
BY DEF Turn

\* A step that frees or takes the one scope of r changes the turn of r alone.
LEMMA TurnGiven ==
  ASSUME NEW r \in Runtimes, NEW a, a[1] = r, Free(Depth)' = Free(Depth) \union {a}
  PROVE  Turn' = [Turn EXCEPT ![r] = "host"]
BY DEF Turn

\* Lending its one free AccessScope gives the turn to the foreign side.
LEMMA TurnTaken ==
  ASSUME NEW r \in Runtimes, NEW a, a[1] = r, Free(Depth)' = Free(Depth) \ {a},
         \A b \in Free(Depth) : b[1] = r => b = a
  PROVE  Turn' = [Turn EXCEPT ![r] = "foreign"]
BY DEF Turn

\* What of the state the abstract specification sees.
seen == <<CallsInProgress, Turn, Phase>>

\* The running frame is the last call.
LEMMA LastIsTop ==
  ASSUME TypeOK
  PROVE  /\ Abstract!Last.kind = Top.kind /\ Abstract!Last.rt = Top.rt
         /\ status = "running" => Abstract!Running
<1>1. Abstract!Last = CallOf(Top)
  BY CallsAreFrames DEF Abstract!Last
<1> QED
  BY <1>1 DEF CallOf, Abstract!Running, Phase

\* A closure of the runtime is entered: the rights stay where they are.
LEMMA ClosureEnters ==
  ASSUME TypeOK, TypeOK', HostRunning, UNCHANGED status, NEW f, Pushes(f),
         f.kind \in {"alloc", "local", "untracked", "setup"}, f.loans = {}, f.closure = 0
  PROVE  Abstract!AEnter
<1>1. CallsInProgress' = Append(CallsInProgress, CallOf(f))
  BY PushIsEnter
<1>2. CallOf(f) = Abstract!Call(f.kind, f.rt, 0)
  BY DEF CallOf, Abstract!Call
<1>3. f.rt \in Runtimes
  BY DEF Pushes, FrameOK
<1>4. Free(Depth)' = Free(Depth)
  BY FreeAfterPush
<1>5. Turn' = Turn /\ Phase' = Phase
  BY <1>4, SameTurn DEF Phase
<1>6. Abstract!Running /\ Abstract!Last.kind # "foreign"
  BY LastIsTop DEF HostRunning
<1> QED
  BY <1>1, <1>2, <1>3, <1>5, <1>6 DEF Abstract!AEnter, Abstract!Enter

\* execute() takes the host's right: the scope it borrows is the only free one.
LEMMA ExecuteTakes ==
  ASSUME TypeOK, TypeOK', AccessInv, NEW a \in Top.access, NEW f, ExecuteShape(f, a)
  PROVE  \E r \in Runtimes : Abstract!AExecute(r)
<1>1. /\ Pushes(f) /\ f.kind = "foreign" /\ f.rt = a[1] /\ f.loans = {a} /\ f.closure = 0
      /\ HostRunning /\ UNCHANGED status
  BY DEF ExecuteShape
<1>2. a \in Free(Depth) /\ \A b \in Free(Depth) : b[1] = a[1] => b = a
  BY TopAccess
<1>3. f.rt \in Runtimes
  BY <1>1 DEF Pushes, FrameOK
<1>4. CallsInProgress' = Append(CallsInProgress, Abstract!Call("foreign", f.rt, 0))
  <2>1. CallOf(f) = Abstract!Call("foreign", f.rt, 0)
    BY <1>1 DEF CallOf, Abstract!Call
  <2> QED
    BY <1>1, <2>1, PushIsEnter
<1>5. Free(Depth)' = Free(Depth) \ {a}
  BY <1>1, FreeAfterPush
<1>6. Turn' = [Turn EXCEPT ![f.rt] = "foreign"] /\ Phase' = Phase
  <2>1. \A b \in Free(Depth) : b[1] = f.rt => b = a
    BY <1>1, <1>2
  <2> QED
    BY <1>1, <1>3, <1>5, <2>1, TurnTaken DEF Phase
<1>7. Turn[f.rt] = "host"
  BY <1>1, <1>2, <1>3, TurnIs
<1>8. Abstract!Running /\ Abstract!Last.kind # "foreign"
  BY <1>1, LastIsTop DEF HostRunning
<1>9. Abstract!AExecute(f.rt)
  BY <1>4, <1>6, <1>7, <1>8 DEF Abstract!AExecute, Abstract!Enter
<1> QED
  BY <1>3, <1>9

\* A trampoline gives it to a closure that is registered with the runtime
\* whose foreign code is calling.
LEMMA CallbackGives ==
  ASSUME ~ParallelRuntimes, TypeOK, TypeOK', HeadInv, ScopeInv, AccessInv,
         NEW f, CallbackShape(f)
  PROVE  \E r \in Runtimes : Abstract!AInvoke(r)
<1>1. Depth \in Nat
  BY TopType DEF TypeOK
<1>2. PICK n \in Nat : n = Depth + 1
  BY <1>1
<1>3. /\ Pushes(f) /\ f.kind = "callback" /\ f.rt = Top.rt /\ f.loans = {}
      /\ ForeignRunning /\ Top.kind = "foreign" /\ UNCHANGED status
  BY DEF CallbackShape, ForeignRunning
<1>4. f.rt \in Runtimes
  BY <1>3 DEF Pushes, FrameOK
<1>5. f.closure \in OwnSetups(f.rt, Depth)
  BY <1>2, CallbackTracks
<1>6. /\ f.closure \in DOMAIN CallsInProgress
      /\ CallsInProgress[f.closure].kind = "setup"
      /\ CallsInProgress[f.closure].rt = f.rt
  <2>1. /\ f.closure \in 1..Depth
        /\ stack[f.closure].kind = "setup" /\ stack[f.closure].rt = f.rt
    BY <1>5 DEF OwnSetups, Setups
  <2> QED
    BY <2>1 DEF CallsInProgress
<1>7. CallsInProgress' = Append(CallsInProgress, Abstract!Call("callback", f.rt, f.closure))
  <2>1. CallOf(f) = Abstract!Call("callback", f.rt, f.closure)
    BY <1>3 DEF CallOf, Abstract!Call
  <2> QED
    BY <1>3, <2>1, PushIsEnter
<1>8. Free(Depth)' = Free(Depth) \union {<<f.rt, n>>}
  BY <1>2, <1>3, FreeAfterPush
<1>9. Turn' = [Turn EXCEPT ![f.rt] = "host"] /\ Phase' = Phase
  BY <1>3, <1>4, <1>8, TurnGiven DEF Phase
<1>10. Turn[f.rt] = "foreign"
  BY <1>3, <1>4, TopAccess, TurnIs
<1>11. Abstract!Running /\ Abstract!Last.kind = "foreign" /\ Abstract!Last.rt = f.rt
  BY <1>3, LastIsTop DEF ForeignRunning
<1>12. Abstract!AInvoke(f.rt)
  BY <1>6, <1>7, <1>9, <1>10, <1>11 DEF Abstract!AInvoke, Abstract!Enter
<1> QED
  BY <1>4, <1>12

\* What the running frame adds to the free scopes of those below it.
LEMMA FreeOfTop ==
  ASSUME TypeOK, NEW n \in 1..Depth, n = Depth - 1
  PROVE  Free(Depth) =
           (IF Top.kind = "callback" THEN Free(n) \union {<<Top.rt, Depth>>}
                                     ELSE Free(n)) \ Top.loans
<1>1. Depth \in Nat /\ Top = stack[Depth] /\ n \in Nat
  BY TopType DEF TypeOK, Top
<1>2. 1..Depth = (1..n) \union {Depth}
  BY <1>1
<1>3. AccessScopes(Depth) =
        IF Top.kind = "callback" THEN AccessScopes(n) \union {<<Top.rt, Depth>>}
                                 ELSE AccessScopes(n)
  BY <1>1, <1>2 DEF AccessScopes
<1>4. Lent(Depth) = Lent(n) \union Top.loans
  BY <1>1, <1>2 DEF Lent
<1>5. <<Top.rt, Depth>> \notin Lent(n)
  <2>1. SUFFICES ASSUME NEW k \in 1..n, <<Top.rt, Depth>> \in stack[k].loans
                 PROVE  FALSE
    BY DEF Lent
  <2>2. k \in 1..Depth
    BY <1>1
  <2>3. Depth \in 1..k
    BY <2>1, <2>2, FrameScopes DEF TypeOK
  <2> QED BY <1>1, <2>3
<1> QED
  BY <1>3, <1>4, <1>5 DEF Free

\* A return gives back what its call took.
LEMMA ReturnGivesBack ==
  ASSUME TypeOK, TypeOK', AccessInv, CallInv, NEW n \in 1..Depth, n = Depth - 1,
         PopShape(n)
  PROVE  Abstract!AFinishClosure \/ Abstract!AFinishForeign \/ Abstract!AFinishCallback
<1>1. /\ Depth \in Nat /\ Depth \in 1..Depth /\ n \in Nat /\ Depth > 1
      /\ Top = stack[Depth] /\ Top \in Frames
  BY TopType DEF TypeOK, Top
<1>2. CallOK(Depth)
  BY <1>1 DEF CallInv
<1>3. Abstract!Leave /\ Phase' = Phase /\ Abstract!Running
  BY PopIsLeave, LastIsTop DEF PopShape, Phase
<1>4. Abstract!Last.kind = Top.kind /\ Abstract!Last.rt = Top.rt
  BY LastIsTop
<1>5. Free(Depth)' = Free(n)
  <2>1. Depth' = n /\ \A k \in 1..n : stack'[k] = stack[k]
    BY PopFrames DEF PopShape, TypeOK
  <2>2. Free(n)' = Free(n) /\ n \in 1..n
    BY <1>1, <2>1, FreeBelow
  <2>3. Free(Depth)' = Free(n)'
    BY <2>1 DEF Free, AccessScopes, Lent
  <2> QED BY <2>2, <2>3
<1>6. Top.kind # "host" => Top.rt \in Runtimes
  BY <1>1, TopType DEF TypeOK, FrameOK
<1>7. CASE Top.kind \in {"alloc", "local", "untracked", "setup"}
  <2>1. Top.loans = {}
    BY <1>1, <1>2, <1>7 DEF CallOK
  <2>2. Free(Depth) = Free(n)
    BY <1>7, <2>1, FreeOfTop
  <2>3. Turn' = Turn
    BY <1>5, <2>2, SameTurn
  <2>4. Abstract!AFinishClosure
    BY <1>3, <1>4, <1>7, <2>3 DEF Abstract!AFinishClosure
  <2> QED BY <2>4
<1>8. CASE Top.kind = "foreign"
  <2>1. PICK a \in Free(n) : Top.loans = {a} /\ a[1] = Top.rt
    BY <1>1, <1>2, <1>8 DEF CallOK
  <2>2. Free(Depth) = Free(n) \ {a}
    BY <1>8, <2>1, FreeOfTop
  <2>3. Free(Depth)' = Free(Depth) \union {a}
    BY <1>5, <2>1, <2>2
  <2>4. Turn' = [Turn EXCEPT ![Top.rt] = "host"]
    BY <1>6, <1>8, <2>1, <2>3, TurnGiven
  <2>5. Turn[Top.rt] = "foreign"
    BY <1>6, <1>8, TopAccess, TurnIs
  <2>6. Abstract!AFinishForeign
    BY <1>3, <1>4, <1>8, <2>4, <2>5 DEF Abstract!AFinishForeign
  <2> QED BY <2>6
<1>9. CASE Top.kind = "callback"
  <2>1. PICK a : a = <<Top.rt, Depth>>
    OBVIOUS
  <2>2. Top.loans = {}
    BY <1>1, <1>2, <1>9 DEF CallOK
  <2>3. Free(Depth) = Free(n) \union {a} /\ a[1] = Top.rt
    BY <1>9, <2>1, <2>2, FreeOfTop
  <2>4. a \notin Free(n)
    <3>1. a \notin AccessScopes(n)
      BY <1>1, <2>1 DEF AccessScopes
    <3> QED BY <3>1 DEF Free
  <2>5. \A b \in Free(Depth) : b[1] = Top.rt => b = a
    BY <2>3, TopAccess
  <2>6. Turn[Top.rt] = "host"
    BY <1>6, <1>9, <2>3, TurnIs
  <2>7. Free(Depth)' = Free(Depth) \ {a}
    BY <1>5, <2>3, <2>4
  <2>8. Turn' = [Turn EXCEPT ![Top.rt] = "foreign"]
    BY <1>6, <1>9, <2>3, <2>5, <2>7, TurnTaken
  <2>9. Abstract!AFinishCallback
    BY <1>3, <1>4, <1>9, <2>6, <2>8 DEF Abstract!AFinishCallback
  <2> QED BY <2>9
<1>10. Top.kind # "host"
  BY <1>1, <1>2 DEF CallOK
<1> QED
  BY <1>1, <1>7, <1>8, <1>9, <1>10 DEF Frames, Kinds

\* A step that stops the process, or changes nothing the callers see.
LEMMA HaltIsStop ==
  ASSUME TypeOK, NoneStale, HaltShape
  PROVE  Abstract!AStop \/ UNCHANGED seen
<1>1. CallsInProgress' = CallsInProgress /\ Turn' = Turn
  <2>1. stack' = stack
    BY DEF HaltShape
  <2> QED
    BY <2>1 DEF CallsInProgress, Turn, Depth, Free, AccessScopes, Lent
<1>2. CASE UNCHANGED status
  BY <1>1, <1>2 DEF seen, Phase
<1>3. CASE status = "running" /\ status' \in {"aborted", "out_of_trampolines"}
  <2>1. Phase = "running" /\ Phase' = "stopped"
    BY <1>3 DEF Phase
  <2> QED
    BY <1>1, <2>1 DEF Abstract!AStop, Abstract!Running
<1> QED
  BY <1>2, <1>3 DEF HaltShape, NoneStale

\* As long as no panic unwinds and foreign code calls back only under its own
\* runtime's head, the head, the chains, the ids and the scopes together hand
\* the memory of each runtime back and forth between the host and its foreign
\* code, for any number of runtimes and any depth: Spec implements
\* ForeignAccess.
THEOREM RuntimeImplementsForeignAccess ==
  ASSUME ~ParallelRuntimes, ~PanicUnwinds
  PROVE  Spec => ImplementsForeignAccess
<1> DEFINE Inv == TypeOK /\ HeadInv /\ ScopeInv /\ AccessInv /\ CallInv
<1>1. ASSUME Init PROVE Abstract!AInit
  <2>1. /\ Depth = 1 /\ stack[1].kind = "host" /\ stack[1].rt = NoRuntime
        /\ stack[1].closure = 0 /\ stack[1].loans = {} /\ status = "running"
    BY <1>1 DEF Init, Depth, Frame
  <2>2. CallsInProgress = <<Abstract!Call("host", NoRuntime, 0)>>
    BY <2>1 DEF CallsInProgress, Abstract!Call
  <2>3. Free(Depth) = Runtimes \X {1}
    BY <2>1 DEF Free, AccessScopes, Lent
  <2>4. \A r \in Runtimes : \E a \in Free(Depth) : a[1] = r
    <3>1. \A r \in Runtimes : <<r, 1>> \in Free(Depth) /\ <<r, 1>>[1] = r
      BY <2>3
    <3> QED BY <3>1, Zenon
  <2>5. Turn = [r \in Runtimes |-> "host"] /\ Phase = "running"
    BY <2>1, <2>4 DEF Turn, Phase
  <2> QED
    BY <2>2, <2>5 DEF Abstract!AInit
<1>2. Init => NoneStale
  BY DEF Init, NoneStale, Depth, Frame, NoHead, Dangling
<1>3. TypeOK /\ NoneStale /\ [Next]_vars => NoneStale'
  BY NextNoneStale
<1>4. TypeOK /\ [Next]_vars => TypeOK'
  BY NextTypeOK
<1>5. Inv /\ NoneStale /\ [Next]_vars => [Abstract!ANext]_seen
  <2> SUFFICES ASSUME Inv, NoneStale, [Next]_vars
               PROVE  Abstract!ANext \/ UNCHANGED seen
    OBVIOUS
  <2>1. TypeOK'
    BY <1>4
  <2>2. ASSUME NEW f, AllocationShape(f) PROVE Abstract!ANext
    <3>1. Abstract!AEnter
      BY <2>1, <2>2, ClosureEnters DEF AllocationShape, AllocKinds
    <3> QED BY <3>1 DEF Abstract!ANext
  <2>3. ASSUME NEW f, SetupShape(f) PROVE Abstract!ANext
    <3>1. Abstract!AEnter
      BY <2>1, <2>3, ClosureEnters DEF SetupShape
    <3> QED BY <3>1 DEF Abstract!ANext
  <2>4. ASSUME NEW a \in Top.access, NEW f, ExecuteShape(f, a) PROVE Abstract!ANext
    BY <2>1, <2>4, ExecuteTakes DEF Abstract!ANext
  <2>5. ASSUME NEW f, CallbackShape(f) PROVE Abstract!ANext
    BY <2>1, <2>5, CallbackGives DEF Abstract!ANext
  <2>6. ASSUME NEW n \in 1..Depth, PopShape(n) PROVE Abstract!ANext
    <3>1. n = Depth - 1
      BY <2>6 DEF PopShape
    <3> QED
      BY <2>1, <2>6, <3>1, ReturnGivesBack DEF Abstract!ANext
  <2>7. CASE HaltShape
    BY <2>7, HaltIsStop DEF Abstract!ANext
  <2> QED
    BY <2>2, <2>3, <2>4, <2>5, <2>6, <2>7, StepShapes
<1> QED
  BY <1>1, <1>2, <1>3, <1>5, CallInvariance, PTL
     DEF Spec, ImplementsForeignAccess, Abstract!ASpec, Abstract!avars, seen
=============================================================================
