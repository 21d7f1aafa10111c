----------------------------- MODULE Identities -----------------------------
(***************************************************************************)
(* Runtimes, the scopes made with them, and the two kinds of identity that   *)
(* keep them apart (omniglot/src/id/, MockRt::new and id_imprint_check).      *)
(*                                                                         *)
(* With an OGRuntimeBranding all runtimes have one type, and what the         *)
(* imprints say decides; the ids are those the threads really get, by the     *)
(* actions of Branding.  With an OGLifetimeBranding the imprints are all      *)
(* equal, and the compiler decides: each closure has an identity type of its  *)
(* own.                                                                      *)
(***************************************************************************)
EXTENDS Branding

CONSTANT MaxTypes  \* bound on the closures of OGLifetimeBranding::new

ASSUME MaxTypesAssumption == MaxTypes \in Nat

VARIABLES
  open,      \* the closures each thread is in: the lifetime, and whether the
             \* branding is still there
  types,     \* how many lifetimes there have been
  used,      \* the brandings that a runtime was made with
  made,      \* how many runtimes there have been
  runtimes,  \* the runtimes: [n, type, imprint]
  scopes     \* the scopes: [of, kind, type, imprint]

identities == <<open, types, used, made, runtimes, scopes>>
idvars == <<vars, identities>>

IdInit ==
  /\ Init
  /\ open = [t \in Threads |-> <<>>]
  /\ types = 0
  /\ used = {}
  /\ made = 0 /\ runtimes = {} /\ scopes = {}

SharedType == <<"OGRuntimeBranding", 0>>

\* Mutant: the struct is not invariant over its lifetime, so the compiler
\* finds a type all of them have.
CovariantType(k) == <<"OGLifetimeBranding", 0>>

\* PhantomData<Cell<&'id ()>>: no two closures have types in common.
LifetimeType(k) == <<"OGLifetimeBranding", k>>

\* OGRuntimeBranding::get_imprint
Imprint(id) == id

\* OGLifetimeBrandingImprint: they are all equal.
UnitImprint == 0

-----------------------------------------------------------------------------
NewBranding ==
  /\ Next
  /\ UNCHANGED identities

\* OGLifetimeBranding::new runs its closure.
EnterLifetime(t) ==
  /\ types < MaxTypes
  /\ types' = types + 1
  /\ open' = [open EXCEPT ![t] = Append(@, [type |-> LifetimeType(types + 1), left |-> TRUE])]
  /\ UNCHANGED <<used, made, runtimes, scopes>>
  /\ UNCHANGED vars

\* The closure returns.  Nothing whose type has the lifetime can leave it.
LeaveLifetime(t) ==
  /\ open[t] # <<>>
  /\ LET gone == open[t][Len(open[t])].type IN
     /\ runtimes' = {r \in runtimes : r.type # gone}
     /\ scopes' = {s \in scopes : s.type # gone}
  /\ open' = [open EXCEPT ![t] = SubSeq(@, 1, Len(@) - 1)]
  /\ UNCHANGED <<types, used, made>>
  /\ UNCHANGED vars

\* MockRt::new takes the branding, which cannot be duplicated, and makes the
\* first two scopes.
NewRuntime(type, imprint) ==
  /\ made' = made + 1
  /\ runtimes' = runtimes \union {[n |-> made + 1, type |-> type, imprint |-> imprint]}
  /\ scopes' = scopes \union
       {[of |-> made + 1, kind |-> kind, type |-> type, imprint |-> imprint] :
          kind \in {"alloc", "access"}}

NewRuntimeBranded(b) ==
  /\ b \notin used
  /\ used' = used \union {b}
  /\ NewRuntime(SharedType, Imprint(brands[b].id))
  /\ UNCHANGED <<open, types>>
  /\ UNCHANGED vars

NewLifetimeBranded(t, k) ==
  /\ open[t][k].left
  /\ open' = [open EXCEPT ![t][k].left = FALSE]
  /\ NewRuntime(open[t][k].type, UnitImprint)
  /\ UNCHANGED <<types, used>>
  /\ UNCHANGED vars

\* A runtime is dropped; scopes made with it may stay.
DropRuntime(r) ==
  /\ runtimes' = runtimes \ {r}
  /\ UNCHANGED <<open, types, used, made, scopes>>
  /\ UNCHANGED vars

IdNext ==
  \/ NewBranding
  \/ \E t \in Threads : \/ EnterLifetime(t) \/ LeaveLifetime(t)
                        \/ \E k \in 1..Len(open[t]) : NewLifetimeBranded(t, k)
  \/ \E b \in DOMAIN brands : NewRuntimeBranded(b)
  \/ \E r \in runtimes : DropRuntime(r)

\* The fairness is that of Branding: nobody has to make runtimes.
IdSpec == IdInit /\ [][IdNext]_idvars /\ Fairness

-----------------------------------------------------------------------------
\* id_imprint_check, with an AllocScope and an AccessScope.
IdImprintCheck(r, a, c) == r.imprint = a.imprint /\ r.imprint = c.imprint

\* "Comparing two imprints originating from the same OGID type indicates
\* whether they originate from the same instance": an operation that the
\* compiler accepts goes ahead with the scopes of its own runtime, and with no
\* other scope, from whichever thread, dropped runtime or closure.
AcceptsOnlyItsOwnScopes ==
  \A r \in runtimes :
    \A a, c \in {s \in scopes : s.type = r.type} :
      a.kind = "alloc" /\ c.kind = "access"
        => (IdImprintCheck(r, a, c) <=> a.of = r.n /\ c.of = r.n)

=============================================================================
