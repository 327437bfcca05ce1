----------------------------- MODULE Admission -----------------------------
(***************************************************************************)
(* One process-local admission group (_AdmissionGroup of                   *)
(* unifiedllm/admission.py): a FIFO permit pool shared by the tasks of     *)
(* several event loops, each loop in a thread of its own.                  *)
(*                                                                         *)
(* A section under the group's lock is one action; other threads run       *)
(* between two sections.  A task is suspended only in its wakeup.wait().   *)
(* Callbacks handed to a loop with call_soon_threadsafe are pending until  *)
(* that loop runs them.  Times are relative: next_admission,               *)
(* cooldown_until and timer[t] say how much time is left.                  *)
(***************************************************************************)
EXTENDS Integers, Sequences, FiniteSets, Queues

CONSTANTS
  Tasks,        \* provider attempts, each needs one permit at a time
  Loops,        \* event loops
  LoopOf,       \* the loop a task runs on
  MaxInFlight,  \* max_in_flight
  Interval,     \* 1 / requests_per_second, 0 when there is no pacing
  MaxCooldown,  \* max_cooldown, 0 when cooldown is not configured
  MaxAcquires,  \* bound of the model: calls of acquire
  LoopsMayClose \* whether the environment closes loops that have tasks

ASSUME AdmissionAssumption ==
  /\ IsFiniteSet(Tasks)
  /\ LoopOf \in [Tasks -> Loops]
  /\ MaxInFlight \in Nat \ {0}
  /\ Interval \in Nat
  /\ MaxCooldown \in Nat
  /\ MaxAcquires \in Nat
  /\ LoopsMayClose \in BOOLEAN

VARIABLES
  \* _AdmissionGroup
  active, queued, waiters, next_admission, cooldown_until,
  wstate,        \* _Waiter.state of the task's current acquisition
  wakeup,        \* _Waiter.wakeup is set
  \* the event loops
  sets,          \* pending callbacks wakeup.set, per task
  deliveries,    \* tasks with a pending callback _deliver_grant
  closed_loops,
  \* the tasks
  pc, timer,
  \* history and bounds
  acquires, since_admission

queue == <<queued, waiters, wstate>>
cbs   == <<sets, deliveries>>
gate  == <<next_admission, cooldown_until>>
vars  == <<active, queue, gate, wakeup, cbs, closed_loops, pc, timer,
           acquires, since_admission>>

NoTimer == -1

Greatest(a, b) == IF a >= b THEN a ELSE b
Least(a, b)    == IF a <= b THEN a ELSE b
Drop(q, n)     == SubSeq(q, n + 1, Len(q))
Prefix(q, n)   == {q[i] : i \in 1..n}

Open(t) == LoopOf[t] \notin closed_loops

----------------------------------------------------------------------------
(***************************************************************************)
(* The helpers that run under the lock.  Each takes the values the section *)
(* has computed so far.                                                    *)
(***************************************************************************)

\* _not_before_locked
NotBefore == Greatest(next_admission, cooldown_until)

\* _wake_head_locked on queue q of cnt waiters: it drops waiters whose loop is
\* closed until it finds one that it can wake.
HeadAfter(q, n) ==
  /\ \A i \in 1..n : ~Open(q[i])
  /\ n < Len(q) => Open(q[n + 1])

WakeHead(q, cnt, ws) ==
  \E n \in 0..Len(q) :
    /\ HeadAfter(q, n)
    /\ waiters' = Drop(q, n)
    /\ queued' = cnt - n
    /\ wstate' = [u \in Tasks |-> IF u \in Prefix(q, n) THEN "cancelled" ELSE ws[u]]
    /\ sets' = [u \in Tasks |-> sets[u] + IF n < Len(q) /\ u = q[n + 1] THEN 1 ELSE 0]

\* _pump_locked does nothing while nobody waits, no slot is free or the gate
\* is closed.
PumpBlocked(act) ==
  waiters = <<>> \/ act >= MaxInFlight \/ NotBefore > 0

\* Otherwise it takes the first n waiters: it grants a slot to each one whose
\* loop is open, as many as there are slots (one when paced: the grant closes
\* the gate), and drops the others.
PumpLimit(act) == IF Interval > 0 THEN 1 ELSE MaxInFlight - act
Granted(n)     == {u \in Prefix(waiters, n) : Open(u)}

PumpTakes(act, n) ==
  /\ Cardinality(Granted(n)) <= PumpLimit(act)
  /\ n < Len(waiters) => Open(waiters[n + 1]) /\ Cardinality(Granted(n)) = PumpLimit(act)

\* After each grant the waiter that is then the head is woken: every grantee
\* but the first, and the head that is left.
WokenByPump(n) ==
  {waiters[i] : i \in {j \in 1..Least(n + 1, Len(waiters)) :
     Open(waiters[j]) /\ \E h \in 1..(j - 1) : Open(waiters[h])}}

\* The grants of one pump with act slots taken.  claim holds the task that
\* pumps for itself and takes its grant at once; again says whether the
\* section goes on to wake the head once more.
PumpGrants(act, ws, claim, again) ==
  \E n \in 0..Len(waiters) :
    /\ PumpTakes(act, n)
    /\ waiters' = Drop(waiters, n)
    /\ queued' = queued - n
    /\ wstate' = [u \in Tasks |->
         CASE u \in Granted(n) \cap claim    -> "acquired"
           [] u \in Granted(n) \ claim       -> "granted"
           [] u \in Prefix(waiters, n) \ Granted(n) -> "cancelled"
           [] OTHER                          -> ws[u]]
    /\ sets' = [u \in Tasks |->
         sets[u] + (IF u \in WokenByPump(n) THEN 1 ELSE 0)
                 + (IF again /\ n < Len(waiters) /\ u = waiters[n + 1] THEN 1 ELSE 0)]
    /\ active' = act + Cardinality(Granted(n))
    /\ deliveries' = deliveries \cup Granted(n)
    /\ next_admission' = IF Granted(n) # {} THEN Interval ELSE next_admission
    /\ since_admission' = IF Granted(n) # {} THEN 0 ELSE since_admission

\* Mutant: a slot that cannot be granted yet wakes nobody.
ReleaseSilent ==
  \/ /\ PumpBlocked(active - 1)
     /\ active' = active - 1
     /\ UNCHANGED <<queue, cbs, next_admission, since_admission>>
  \/ /\ ~PumpBlocked(active - 1)
     /\ PumpGrants(active - 1, wstate, {}, TRUE)

\* release: one slot comes back, waiters are granted and the head is woken.
Release ==
  \/ /\ PumpBlocked(active - 1)
     /\ WakeHead(waiters, queued, wstate)
     /\ active' = active - 1
     /\ UNCHANGED <<deliveries, next_admission, since_admission>>
  \/ /\ ~PumpBlocked(active - 1)
     /\ PumpGrants(active - 1, wstate, {}, TRUE)

----------------------------------------------------------------------------
(***************************************************************************)
(* acquire                                                                 *)
(***************************************************************************)

\* Mutant: a new task passes the queue.
MayEnterBarges == active < MaxInFlight /\ NotBefore = 0

MayEnter == active < MaxInFlight /\ waiters = <<>> /\ NotBefore = 0

\* Mutant: an immediate admission does not close the gate.
AcquireNowUnpaced(t) ==
  /\ pc[t] = "idle" /\ Open(t) /\ acquires < MaxAcquires
  /\ MayEnter
  /\ active' = active + 1
  /\ since_admission' = 0
  /\ pc' = [pc EXCEPT ![t] = "calling"]
  /\ wstate' = [wstate EXCEPT ![t] = "none"]
  /\ acquires' = acquires + 1
  /\ UNCHANGED <<queued, waiters, gate, wakeup, cbs, closed_loops, timer>>

\* Nobody waits, a slot is free and the gate is open.
AcquireNow(t) ==
  /\ pc[t] = "idle" /\ Open(t) /\ acquires < MaxAcquires
  /\ MayEnter
  /\ active' = active + 1
  /\ next_admission' = Interval
  /\ since_admission' = 0
  /\ pc' = [pc EXCEPT ![t] = "calling"]
  /\ wstate' = [wstate EXCEPT ![t] = "none"]
  /\ acquires' = acquires + 1
  /\ UNCHANGED <<queued, waiters, cooldown_until, wakeup, cbs, closed_loops, timer>>

\* Otherwise the task queues, with a fresh waiter and event.
AcquireQueues(t) ==
  /\ pc[t] = "idle" /\ Open(t) /\ acquires < MaxAcquires
  /\ ~MayEnter
  /\ waiters' = Append(waiters, t)
  /\ queued' = queued + 1
  /\ wstate' = [wstate EXCEPT ![t] = "queued"]
  /\ wakeup' = [wakeup EXCEPT ![t] = FALSE]
  /\ sets' = [sets EXCEPT ![t] = 0]
  /\ deliveries' = deliveries \ {t}
  /\ pc' = [pc EXCEPT ![t] = "pumping"]
  /\ acquires' = acquires + 1
  /\ UNCHANGED <<active, gate, closed_loops, timer, since_admission>>

\* One round of _wait_for_grant: pump; then take the grant, or clear the
\* event and wait, the head with a timer if a slot is free.
WaitRound(t) ==
  /\ pc[t] = "pumping" /\ Open(t)
  /\ LET ws == [wstate EXCEPT ![t] = IF @ = "granted" THEN "acquired" ELSE @]
     IN  \/ /\ PumpBlocked(active)
            /\ wstate' = ws
            /\ UNCHANGED <<active, queued, waiters, next_admission, cbs, since_admission>>
         \/ /\ ~PumpBlocked(active)
            /\ PumpGrants(active, ws, {t}, FALSE)
  /\ \/ /\ wstate'[t] = "acquired"
        /\ pc' = [pc EXCEPT ![t] = "calling"]
        /\ UNCHANGED <<wakeup, timer>>
     \/ /\ wstate'[t] = "queued"
        /\ pc' = [pc EXCEPT ![t] = "waiting"]
        /\ wakeup' = [wakeup EXCEPT ![t] = FALSE]
        /\ timer' = [timer EXCEPT ![t] =
             IF Head(waiters') = t /\ active' < MaxInFlight
             THEN Greatest(next_admission', cooldown_until) ELSE NoTimer]
  /\ UNCHANGED <<cooldown_until, closed_loops, acquires>>

\* The wait ends because the event is set or because the timer has run out.
Resume(t) ==
  /\ pc[t] = "waiting" /\ Open(t)
  /\ wakeup[t] \/ timer[t] = 0
  /\ pc' = [pc EXCEPT ![t] = "pumping"]
  /\ timer' = [timer EXCEPT ![t] = NoTimer]
  /\ UNCHANGED <<active, queue, gate, wakeup, cbs, closed_loops, acquires, since_admission>>

\* Mutant: the waiter that is the head now is not woken.
GiveUpQueuedSilent(t) ==
  /\ pc[t] = "waiting" /\ Open(t)
  /\ wstate[t] = "queued"
  /\ waiters' = Without(waiters, t)
  /\ queued' = queued - 1
  /\ wstate' = [wstate EXCEPT ![t] = "cancelled"]
  /\ pc' = [pc EXCEPT ![t] = "idle"]
  /\ timer' = [timer EXCEPT ![t] = NoTimer]
  /\ UNCHANGED <<active, gate, wakeup, cbs, closed_loops, acquires, since_admission>>

\* The queue deadline passes or the task is cancelled: _cancel_waiter.  It can
\* only happen at the await, also when the event is already set.
GiveUpQueued(t) ==
  /\ pc[t] = "waiting" /\ Open(t)
  /\ wstate[t] = "queued"
  /\ WakeHead(Without(waiters, t), queued - 1, [wstate EXCEPT ![t] = "cancelled"])
  /\ pc' = [pc EXCEPT ![t] = "idle"]
  /\ timer' = [timer EXCEPT ![t] = NoTimer]
  /\ UNCHANGED <<active, gate, wakeup, deliveries, closed_loops, acquires, since_admission>>

\* Mutant: the slot stays with the waiter that gave up.
GiveUpGrantedLeaks(t) ==
  /\ pc[t] = "waiting" /\ Open(t)
  /\ wstate[t] = "granted"
  /\ wstate' = [wstate EXCEPT ![t] = "cancelled"]
  /\ pc' = [pc EXCEPT ![t] = "idle"]
  /\ timer' = [timer EXCEPT ![t] = NoTimer]
  /\ UNCHANGED <<active, queued, waiters, gate, wakeup, cbs, closed_loops, acquires,
                 since_admission>>

\* A slot was already transferred to the waiter: it is handed back in a
\* section of its own.
GiveUpGranted(t) ==
  /\ pc[t] = "waiting" /\ Open(t)
  /\ wstate[t] = "granted"
  /\ wstate' = [wstate EXCEPT ![t] = "cancelled"]
  /\ pc' = [pc EXCEPT ![t] = "returning"]
  /\ timer' = [timer EXCEPT ![t] = NoTimer]
  /\ UNCHANGED <<active, queued, waiters, gate, wakeup, cbs, closed_loops, acquires,
                 since_admission>>

----------------------------------------------------------------------------
(***************************************************************************)
(* The permit: the attempt ends (or the observer of the admission raises), *)
(* or a granted waiter hands its slot back.                                *)
(***************************************************************************)

ReleasePermit(t) ==
  /\ pc[t] \in {"calling", "cooled", "returning"}
  /\ Release
  /\ pc' = [pc EXCEPT ![t] = "idle"]
  /\ UNCHANGED <<cooldown_until, wakeup, closed_loops, timer, acquires>>

\* The provider answered overload: _run_admitted_attempt publishes the
\* cooldown before the finally clause releases the permit.
PublishCooldown(t) ==
  /\ pc[t] = "calling"
  /\ MaxCooldown > 0
  /\ \E d \in 1..MaxCooldown : cooldown_until' = Greatest(cooldown_until, d)
  /\ WakeHead(waiters, queued, wstate)
  /\ pc' = [pc EXCEPT ![t] = "cooled"]
  /\ UNCHANGED <<active, next_admission, wakeup, deliveries, closed_loops, timer,
                 acquires, since_admission>>

----------------------------------------------------------------------------
(***************************************************************************)
(* The event loops and time.                                               *)
(***************************************************************************)

RunSet(t) ==
  /\ sets[t] > 0 /\ Open(t)
  /\ sets' = [sets EXCEPT ![t] = @ - 1]
  /\ wakeup' = [wakeup EXCEPT ![t] = TRUE]
  /\ UNCHANGED <<active, queue, gate, deliveries, closed_loops, pc, timer, acquires,
                 since_admission>>

\* _deliver_grant
DeliverGrant(t) ==
  /\ t \in deliveries /\ Open(t)
  /\ deliveries' = deliveries \ {t}
  /\ wakeup' = IF wstate[t] = "granted" THEN [wakeup EXCEPT ![t] = TRUE] ELSE wakeup
  /\ UNCHANGED <<active, queue, gate, sets, closed_loops, pc, timer, acquires,
                 since_admission>>

\* A loop is closed and its suspended tasks are abandoned where they wait.
\* A task with a permit is finalised: its finally clause releases the permit.
CloseLoop(l) ==
  /\ LoopsMayClose /\ l \notin closed_loops
  /\ \A t \in Tasks : LoopOf[t] = l => pc[t] # "pumping" /\ wstate[t] # "granted"
  /\ closed_loops' = closed_loops \cup {l}
  /\ UNCHANGED <<active, queue, gate, wakeup, cbs, pc, timer, acquires, since_admission>>

Tick ==
  /\ \/ NotBefore > 0 \/ since_admission < Interval
     \/ \E t \in Tasks : timer[t] > 0
  /\ next_admission' = Greatest(next_admission - 1, 0)
  /\ cooldown_until' = Greatest(cooldown_until - 1, 0)
  /\ timer' = [t \in Tasks |-> IF timer[t] > 0 THEN timer[t] - 1 ELSE timer[t]]
  /\ since_admission' = Least(since_admission + 1, Interval)
  /\ UNCHANGED <<active, queue, wakeup, cbs, closed_loops, pc, acquires>>

----------------------------------------------------------------------------
Init ==
  /\ active = 0 /\ queued = 0 /\ waiters = <<>>
  /\ next_admission = 0 /\ cooldown_until = 0
  /\ wstate = [t \in Tasks |-> "none"]
  /\ wakeup = [t \in Tasks |-> FALSE]
  /\ sets = [t \in Tasks |-> 0] /\ deliveries = {} /\ closed_loops = {}
  /\ pc = [t \in Tasks |-> "idle"] /\ timer = [t \in Tasks |-> NoTimer]
  /\ acquires = 0 /\ since_admission = Interval

Task(t) ==
  \/ AcquireNow(t) \/ AcquireQueues(t) \/ WaitRound(t) \/ Resume(t)
  \/ GiveUpQueued(t) \/ GiveUpGranted(t) \/ ReleasePermit(t) \/ PublishCooldown(t)
  \/ RunSet(t) \/ DeliverGrant(t)

Next ==
  \/ \E t \in Tasks : Task(t)
  \/ \E l \in Loops : CloseLoop(l)
  \/ Tick

Spec == Init /\ [][Next]_vars

\* The scheduling assumed for liveness: loops run their callbacks and their
\* runnable tasks, attempts end, time passes.  Acquiring, giving up, and
\* closing a loop are never forced.
Fairness ==
  /\ \A t \in Tasks : /\ WF_vars(WaitRound(t)) /\ WF_vars(Resume(t))
                      /\ WF_vars(ReleasePermit(t))
                      /\ WF_vars(RunSet(t)) /\ WF_vars(DeliverGrant(t))
  /\ WF_vars(Tick)

FairSpec == Spec /\ Fairness
----------------------------------------------------------------------------
(***************************************************************************)
(* Properties                                                              *)
(***************************************************************************)

HasPermit(t) == pc[t] \in {"calling", "cooled", "returning"}
HoldsSlot(t) == HasPermit(t) \/ wstate[t] = "granted"
Admitted == {t \in Tasks : HoldsSlot(t)}

\* Every variable has its type.
TypeOK ==
  /\ active \in Int /\ queued \in Int /\ waiters \in Seq(Tasks)
  /\ next_admission \in Nat /\ cooldown_until \in Nat
  /\ wstate \in [Tasks -> {"none", "queued", "granted", "acquired", "cancelled"}]
  /\ wakeup \in [Tasks -> BOOLEAN]
  /\ sets \in [Tasks -> Nat] /\ deliveries \subseteq Tasks
  /\ closed_loops \subseteq Loops
  /\ pc \in [Tasks -> {"idle", "pumping", "waiting", "calling", "cooled", "returning"}]
  /\ timer \in [Tasks -> Nat \cup {NoTimer}]
  /\ acquires \in Nat /\ since_admission \in 0..Interval

\* No slot leaks and none is counted twice, through grants that race
\* deadlines and cancellations and through closed loops: active counts the
\* permits that are out and the grants that are not claimed yet, and
\* _queued counts the queue, which holds each queued waiter once.  The
\* underflow error of release is unreachable.
SlotAccounting ==
  /\ TypeOK
  /\ active = Cardinality(Admitted)
  /\ queued = Len(waiters)
  /\ Members(waiters) = {t \in Tasks : wstate[t] = "queued"}
  /\ Len(waiters) = Cardinality({t \in Tasks : wstate[t] = "queued"})

\* While a slot is free, the head of the queue (on a running loop) is about to
\* look at the gate again no later than the gate opens: it is running, its
\* event is set or about to be set, or its timer is armed.
HeadWillLook ==
  waiters # <<>> /\ active < MaxInFlight /\ Open(Head(waiters)) =>
    LET t == Head(waiters)
    IN  \/ pc[t] = "pumping"
        \/ wakeup[t]
        \/ sets[t] > 0
        \/ timer[t] # NoTimer /\ timer[t] <= NotBefore

\* A granted waiter that sleeps is going to be told.
GrantWillArrive ==
  \A t \in Tasks : wstate[t] = "granted" /\ pc[t] = "waiting" => wakeup[t] \/ t \in deliveries

\* No lost wakeup, whatever another thread releases, grants or reports between
\* the look at the gate and the wait, and whichever waiter leaves: somebody
\* who can be served looks in time, somebody who was served is told.
NoLostWakeup == HeadWillLook /\ GrantWillArrive

\* Admissions are spaced: none happens less than Interval after the one
\* before, or while a reported cooldown lasts, and a paced step admits one
\* task only.  Handing an unclaimed grant back refunds nothing.
PacedAdmissions ==
  [][Admitted' \ Admitted # {} =>
       /\ since_admission >= Interval
       /\ cooldown_until = 0
       /\ Interval > 0 => Cardinality(Admitted' \ Admitted) = 1]_vars

\* The group is a permit pool: at most max_in_flight tasks hold a slot, claimed
\* or not, and nobody is admitted while a waiter that queued earlier stays in
\* the queue.  A waiter of a closed loop may be dropped.
Permits == INSTANCE PermitPool
            WITH Clients <- Tasks, Slots <- MaxInFlight, line <- waiters, inside <- Admitted

ImplementsPool == Permits!Spec

\* While no loop is closed, every waiter leaves the queue, and every granted
\* waiter takes its slot or hands it back.  (A closed loop may take the task
\* that owns the pacing timer with it; the next acquire or release repairs
\* that, and neither is certain to come.)
WaitersServed ==
  \A t \in Tasks : wstate[t] \in {"queued", "granted"} ~>
                      wstate[t] \notin {"queued", "granted"} \/ closed_loops # {}

=============================================================================
