------------------------------ MODULE Branding ------------------------------
(***************************************************************************)
(* OGRuntimeBranding::new (omniglot/src/id/runtime.rs).  Every runtime takes *)
(* an identity from one global counter, from any thread and without a lock: *)
(* fetch_update reads the counter and retries a weak compare-and-exchange   *)
(* until it succeeds or the closure refuses the value it was given.  The    *)
(* imprint checks of all the other modules rest on these ids being unique.  *)
(*                                                                         *)
(* The ordering is Relaxed: the counter is a single location, whose         *)
(* modifications have one total order, and nothing else is published.       *)
(***************************************************************************)
EXTENDS Integers, FiniteSets, Sequences

CONSTANTS
  Threads,  \* the threads that make runtimes
  MaxId     \* the largest value of the counter (u64::MAX)

ASSUME MaxIdAssumption == MaxId \in Nat

VARIABLES
  ctr,     \* OG_RUNTIME_BRANDING_CTR
  pc,      \* where each thread is in new()
  prev,    \* fetch_update's view of the counter, per thread
  brands   \* the brandings made so far: [by, id]

vars == <<ctr, pc, prev, brands>>

Init ==
  /\ ctr = 0
  /\ pc = [t \in Threads |-> "idle"]
  /\ prev = [t \in Threads |-> 0]
  /\ brands = <<>>

Go(t, label) == pc' = [pc EXCEPT ![t] = label]

\* fetch_update loads the counter once.  A call that panicked before does not
\* keep the thread, if it has caught that, from another.
Load(t) ==
  /\ pc[t] # "update"
  /\ prev' = [prev EXCEPT ![t] = ctr]
  /\ Go(t, "update")
  /\ UNCHANGED <<ctr, brands>>

\* Mutant: a plain addition.
UncheckedAdd(id) == {id + 1}

\* Mutant: the addition is refused one value too early.
CheckedAddTooStrict(id) == {n \in {id + 1} : n < MaxId}

\* checked_add(1): the Some it returns, if any.
CheckedAdd(id) == {n \in {id + 1} : n <= MaxId}

\* Mutant: an atomic load and a separate store.
ExchangeStoresBlindly(t) ==
  /\ pc[t] = "update"
  /\ ctr' \in CheckedAdd(prev[t])
  /\ brands' = Append(brands, [by |-> t, id |-> prev[t]])
  /\ Go(t, "idle")
  /\ UNCHANGED prev

\* The exchange succeeds; new() takes the previous value as the id.
Exchange(t) ==
  /\ pc[t] = "update" /\ prev[t] = ctr
  /\ ctr' \in CheckedAdd(prev[t])
  /\ brands' = Append(brands, [by |-> t, id |-> prev[t]])
  /\ Go(t, "idle")
  /\ UNCHANGED prev

\* Mutant: the retry keeps the value it read first.
RetryKeepsPrev(t) ==
  /\ pc[t] = "update" /\ CheckedAdd(prev[t]) # {}
  /\ UNCHANGED vars

\* It fails because another thread was faster, or spuriously, as the weak
\* form may; the loop goes on with the value the exchange found.
Retry(t) ==
  /\ pc[t] = "update" /\ CheckedAdd(prev[t]) # {}
  /\ prev' = [prev EXCEPT ![t] = ctr]
  /\ UNCHANGED <<ctr, pc, brands>>

\* The closure returns None and expect() panics.
Overflow(t) ==
  /\ pc[t] = "update" /\ CheckedAdd(prev[t]) = {}
  /\ Go(t, "panicked")
  /\ UNCHANGED <<ctr, prev, brands>>

Next == \E t \in Threads : Load(t) \/ Exchange(t) \/ Retry(t) \/ Overflow(t)

\* A thread that runs takes its steps.  Spurious failures are allowed, but the
\* hardware behind compare_exchange_weak lets an exchange that could succeed
\* again and again do so in the end; Load needs no fairness, as nobody has to
\* make another runtime.
Fairness ==
  \A t \in Threads : SF_vars(Exchange(t)) /\ WF_vars(Retry(t)) /\ WF_vars(Overflow(t))

Spec == Init /\ [][Next]_vars
FairSpec == Spec /\ Fairness

-----------------------------------------------------------------------------
Ids == {brands[n].id : n \in DOMAIN brands}

\* The type invariant.
TypeOK ==
  /\ ctr \in 0..MaxId
  /\ pc \in [Threads -> {"idle", "update", "panicked"}]
  /\ prev \in [Threads -> 0..MaxId]
  /\ brands \in Seq([by : Threads, id : 0..MaxId])

\* No two runtimes ever get the same id, whichever threads make them and
\* however often the exchange has to be retried.
UniqueBrands ==
  \A m, n \in DOMAIN brands : brands[m].id = brands[n].id => m = n

\* new() only panics when every id has been given out: neither a lost race nor
\* a spurious failure makes it refuse one that is left.
PanicsOnlyWhenExhausted ==
  (\E t \in Threads : pc[t] = "panicked") => Ids = 0..(MaxId - 1)

\* Every call of new() that has begun ends, with an id or with the panic,
\* however many other threads make runtimes meanwhile.
EveryCallEnds == \A t \in Threads : pc[t] = "update" ~> pc[t] # "update"

=============================================================================
