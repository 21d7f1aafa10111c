---------------------------- MODULE ForeignAccess ----------------------------
(***************************************************************************)
(* What a runtime promises about nested calls (rt/mod.rs, markers.rs): the  *)
(* right to touch a runtime's memory is passed back and forth between the   *)
(* host and the foreign code, one of them at a time, and foreign code can   *)
(* re-enter the host only through a callback whose registration is live.    *)
(* There is no head, no chain, no callback id here.                         *)
(***************************************************************************)
EXTENDS Naturals, Sequences

CONSTANTS Runtimes, NoRuntime

VARIABLES
  calls,   \* the closures and calls in progress
  turn,    \* who may touch the memory of a runtime
  phase    \* "running" or "stopped"

avars == <<calls, turn, phase>>

Call(kind, r, closure) == [kind |-> kind, rt |-> r, closure |-> closure]
Last == calls[Len(calls)]
Running == phase = "running"
Enter(c) == calls' = Append(calls, c)

AInit ==
  /\ calls = <<Call("host", NoRuntime, 0)>>
  /\ turn = [r \in Runtimes |-> "host"]
  /\ phase = "running"

\* The host runs a closure with a stacked allocation, or with a callback
\* registered for r.
AEnter ==
  /\ Running /\ Last.kind # "foreign"
  /\ \E kind \in {"alloc", "local", "untracked", "setup"}, r \in Runtimes :
       Enter(Call(kind, r, 0))
  /\ UNCHANGED <<turn, phase>>

\* The host gives the memory of r to foreign code.
AExecute(r) ==
  /\ Running /\ Last.kind # "foreign"
  /\ turn[r] = "host"
  /\ Enter(Call("foreign", r, 0))
  /\ turn' = [turn EXCEPT ![r] = "foreign"]
  /\ UNCHANGED phase

\* Foreign code of r gives it back to a closure registered for r, for the
\* time the closure runs.
AInvoke(r) ==
  /\ Running /\ Last.kind = "foreign" /\ Last.rt = r
  /\ turn[r] = "foreign"
  /\ \E d \in DOMAIN calls :
       /\ calls[d].kind = "setup" /\ calls[d].rt = r
       /\ Enter(Call("callback", r, d))
  /\ turn' = [turn EXCEPT ![r] = "host"]
  /\ UNCHANGED phase

Leave == calls' = SubSeq(calls, 1, Len(calls) - 1)

AFinishClosure ==
  /\ Running /\ Last.kind \in {"alloc", "local", "untracked", "setup"}
  /\ Leave
  /\ UNCHANGED <<turn, phase>>

\* The foreign call returns, and with it the right it took.
AFinishForeign ==
  /\ Running /\ Last.kind = "foreign" /\ turn[Last.rt] = "foreign"
  /\ Leave
  /\ turn' = [turn EXCEPT ![Last.rt] = "host"]
  /\ UNCHANGED phase

AFinishCallback ==
  /\ Running /\ Last.kind = "callback" /\ turn[Last.rt] = "host"
  /\ Leave
  /\ turn' = [turn EXCEPT ![Last.rt] = "foreign"]
  /\ UNCHANGED phase

AStop ==
  /\ Running
  /\ phase' = "stopped"
  /\ UNCHANGED <<calls, turn>>

ANext ==
  \/ AEnter
  \/ \E r \in Runtimes : AExecute(r) \/ AInvoke(r)
  \/ AFinishClosure \/ AFinishForeign \/ AFinishCallback
  \/ AStop

ASpec == AInit /\ [][ANext]_avars

=============================================================================
