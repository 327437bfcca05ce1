----------------------------- MODULE Generation -----------------------------
(***************************************************************************)
(* Which generations of an agent may run at the same time                  *)
(* (runtime/actor.py, runtime/method_wrapper.py).  A call from outside a   *)
(* generation session becomes a task that takes the agent's lock, unless   *)
(* its strategy needs none.  A call from inside a session, of this or of   *)
(* another agent, runs inline and takes no lock: the flag that says so is  *)
(* a context variable, which child tasks inherit and keep when the session *)
(* they come from is over.  The lock is replaced when the event loop was.  *)
(***************************************************************************)
EXTENDS Integers, Sequences, Queues

CONSTANTS
  Agents,
  MaxCalls,      \* bound of the model: calls, numbered in the order they are made
  MaxRestarts    \* bound of the model: event loops that die

ASSUME GenerationAssumption == MaxCalls \in Nat /\ MaxRestarts \in Nat

VARIABLES
  calls,       \* for each call its state st, its agent on, its caller by (0 outside a
               \* session), and its kind: outside "serial" with a strategy that needs
               \* the lock or "free", inside "awaited" or in a "task" of its own
  lock,        \* for each agent: the calls at its lock, the holder first
  lock_loop,   \* for each agent: the loop its lock belongs to, 0 at first
  this_loop    \* the running loop

generationVars == <<calls, lock, lock_loop, this_loop>>

Made        == 1..Len(calls)
Children(c) == {d \in Made : calls[d].by = c /\ calls[d].kind = "awaited"}
Active(c)   == calls[c].st \in {"queued", "running"}

----------------------------------------------------------------------------
\* _ensure_generation_lock_on_current_loop: the queue of the agent's lock.
EnsuredLock(a) == IF lock_loop[a] \in {0, this_loop} THEN lock[a] ELSE <<>>

With(st, a, by, kind) == Append(calls, [st |-> st, on |-> a, by |-> by, kind |-> kind])

\* Mutant: the flag is an attribute of the runtime.
CallOutsideShared(a, kind) ==
  /\ Len(calls) < MaxCalls
  /\ IF kind = "serial" /\ ~\E c \in Made : calls[c].st = "running" /\ calls[c].on = a
     THEN /\ lock' = [lock EXCEPT ![a] = Append(EnsuredLock(a), Len(calls) + 1)]
          /\ lock_loop' = [lock_loop EXCEPT ![a] = this_loop]
          /\ calls' = With("queued", a, 0, kind)
     ELSE /\ calls' = With("running", a, 0, kind)
          /\ UNCHANGED <<lock, lock_loop>>
  /\ UNCHANGED this_loop

\* A call by code that is in no session.
CallOutside(a, kind) ==
  /\ Len(calls) < MaxCalls
  /\ IF kind = "serial"
     THEN /\ lock' = [lock EXCEPT ![a] = Append(EnsuredLock(a), Len(calls) + 1)]
          /\ lock_loop' = [lock_loop EXCEPT ![a] = this_loop]
          /\ calls' = With("queued", a, 0, kind)
     ELSE /\ calls' = With("running", a, 0, kind)
          /\ UNCHANGED <<lock, lock_loop>>
  /\ UNCHANGED this_loop

\* asyncio.Lock serves its waiters in order.
LockGranted(c) ==
  /\ calls[c].st = "queued" /\ Head(lock[calls[c].on]) = c
  /\ calls' = [calls EXCEPT ![c].st = "running"]
  /\ UNCHANGED <<lock, lock_loop, this_loop>>

\* Mutant: a nested call takes the lock of its agent.
CallInsideQueues(p, a, kind) ==
  /\ Len(calls) < MaxCalls
  /\ calls[p].st = "running" \/ (calls[p].st = "over" /\ kind = "task")
  /\ lock' = [lock EXCEPT ![a] = Append(EnsuredLock(a), Len(calls) + 1)]
  /\ lock_loop' = [lock_loop EXCEPT ![a] = this_loop]
  /\ calls' = With("queued", a, p, kind)
  /\ UNCHANGED this_loop

\* A call by the code of session p, awaited or in a task of its own, which
\* may make calls after the session too.
CallInside(p, a, kind) ==
  /\ Len(calls) < MaxCalls
  /\ calls[p].st = "running" \/ (calls[p].st = "over" /\ kind = "task")
  /\ calls' = With("running", a, p, kind)
  /\ UNCHANGED <<lock, lock_loop, this_loop>>

\* A generation returns or raises once what it awaits has ended; the lock is
\* released on the way out.
CallEnds(c) ==
  /\ calls[c].st = "running" /\ \A d \in Children(c) : ~Active(d)
  /\ calls' = [calls EXCEPT ![c].st = "over"]
  /\ lock' = [a \in Agents |-> IF lock[a] # <<>> /\ Head(lock[a]) = c THEN Tail(lock[a]) ELSE lock[a]]
  /\ UNCHANGED <<lock_loop, this_loop>>

\* The task is cancelled while it waits for the lock.
CancelQueued(c) ==
  /\ calls[c].st = "queued"
  /\ calls' = [calls EXCEPT ![c].st = "over"]
  /\ lock' = [a \in Agents |-> Without(lock[a], c)]
  /\ UNCHANGED <<lock_loop, this_loop>>

\* The loop dies with its tasks; nobody releases their locks.
LoopDies ==
  /\ this_loop <= MaxRestarts
  /\ this_loop' = this_loop + 1
  /\ calls' = [c \in Made |-> IF Active(c) THEN [calls[c] EXCEPT !.st = "dead"] ELSE calls[c]]
  /\ UNCHANGED <<lock, lock_loop>>

----------------------------------------------------------------------------
GenerationInit ==
  /\ calls = <<>>
  /\ lock = [a \in Agents |-> <<>>] /\ lock_loop = [a \in Agents |-> 0]
  /\ this_loop = 1

GenerationNext ==
  \/ \E a \in Agents, k \in {"serial", "free"} : CallOutside(a, k)
  \/ \E p \in Made, a \in Agents, k \in {"awaited", "task"} : CallInside(p, a, k)
  \/ \E c \in Made : LockGranted(c) \/ CallEnds(c) \/ CancelQueued(c)
  \/ LoopDies

\* What the loop does for a call by itself.
Serve(c) == c \in Made /\ (LockGranted(c) \/ CallEnds(c))

GenerationSpec == GenerationInit /\ [][GenerationNext]_generationVars

----------------------------------------------------------------------------
(***************************************************************************)
(* Properties                                                              *)
(***************************************************************************)

GenerationTypeOK ==
  /\ calls \in Seq([st : {"queued", "running", "over", "dead"}, on : Agents, by : Nat,
                kind : {"serial", "free", "awaited", "task"}])
  /\ lock \in [Agents -> Seq(Nat)] /\ lock_loop \in [Agents -> Nat] /\ this_loop \in Nat

Serialized(c) == calls[c].st = "running" /\ calls[c].kind = "serial"

\* Callers outside a session take turns: of the generations they asked for on
\* one agent, with strategies that need the lock, one runs at a time, whatever
\* nested calls, cancelled waiters and loops that died did in between.
OneAtATime ==
  /\ GenerationTypeOK
  /\ \A c, d \in Made : Serialized(c) /\ Serialized(d) /\ calls[c].on = calls[d].on => c = d

\* Agents that call each other, in a cycle too, wait for no lock of their own
\* and for none that a dead loop left behind: every call ends or dies with its
\* loop.
CallsFinish ==
  \A c \in 1..MaxCalls :
    (c \in Made /\ Active(c)) ~> ~(c \in Made /\ Active(c))

=============================================================================
