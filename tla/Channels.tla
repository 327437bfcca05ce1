------------------------------ MODULE Channels ------------------------------
(***************************************************************************)
(* The input channels of an agent (runtime/channels.py): queue-mode        *)
(* Channels, event-mode puts, and QueueManager.race(), on which the        *)
(* dispatcher waits for whatever arrives first.                            *)
(*                                                                         *)
(* Consumers run on one event loop: a task runs from one await to the next *)
(* without another task in between.  Producers also run on another thread  *)
(* (the TUI), whose steps fall between any two steps of the loop, also     *)
(* between the test for an item and the registration of the waiter.  The   *)
(* thread wakes tasks through callbacks that the loop runs later.          *)
(***************************************************************************)
EXTENDS Integers, Sequences, FiniteSets, Queues

CONSTANTS
  Chans,       \* queue-mode channels; a channel also names its drain task in race()
  Order,       \* the channels in registration order
  Getters,     \* tasks that call get() themselves
  GetOf,       \* the channel each of them reads
  MaxPuts,     \* bound of the model: items put
  MaxEvents,   \* bound of the model: event-mode puts
  Threads,     \* TRUE when another thread produces too
  Racing       \* TRUE when there is a dispatcher that calls race()

ASSUME ChannelsAssumption ==
  /\ IsFiniteSet(Chans) /\ IsFiniteSet(Getters) /\ Chans \cap Getters = {}
  /\ Order \in Seq(Chans) /\ \A c \in Chans : \E i \in 1..Len(Order) : Order[i] = c
  /\ GetOf \in [Getters -> Chans]
  /\ MaxPuts \in Nat /\ MaxEvents \in Nat
  /\ Threads \in BOOLEAN /\ Racing \in BOOLEAN
  /\ Chans # {} /\ {"none", "dispatcher"} \cap (Chans \cup Getters) = {}

VARIABLES
  \* Channel
  items, waiters,
  \* QueueManager
  registered, pair, notify, notify_pending,
  \* the consumer tasks: what they do, their future, the item they return
  tst, fut, result, cancelling,
  \* race(): its notify task, its own state, the drains that finished first
  ntask, dst, won, asked,
  \* the loop: callbacks that wait to be run, the task that is half-way
  wakes, nsets, running,
  \* the other thread's put
  tpc, tch,
  \* history
  origin, fate, events, fresh

chan  == <<items, waiters>>
mgr   == <<registered, pair, notify, notify_pending>>
tasks == <<tst, fut, result, cancelling>>
race  == <<ntask, dst, won, asked>>
loop  == <<wakes, nsets, running>>
thrd  == <<tpc, tch>>
hist  == <<origin, fate, events, fresh>>
vars  == <<chan, mgr, tasks, race, loop, thrd, hist>>

Tasks      == Chans \cup Getters
NoTask     == "none"
Dispatcher == "dispatcher"
ChanOf(t)  == IF t \in Chans THEN t ELSE GetOf[t]

Rank(c)  == CHOOSE i \in 1..Len(Order) : Order[i] = c /\ \A j \in 1..(i - 1) : Order[j] # c
First(S) == CHOOSE c \in S : \A d \in S : Rank(c) <= Rank(d)

----------------------------------------------------------------------------
(***************************************************************************)
(* Waking.  _wake_next_waiter drops waiters whose future is done and wakes *)
(* the first one that still waits, without giving it an item.              *)
(***************************************************************************)

Live(q)   == {i \in 1..Len(q) : fut[q[i]] = "pending"}
Woken(q)  == {q[i] : i \in {j \in Live(q) : \A k \in Live(q) : j <= k}}
Popped(q) == IF Live(q) = {} THEN <<>>
             ELSE SubSeq(q, 1 + CHOOSE j \in Live(q) : \A k \in Live(q) : j <= k, Len(q))

\* _signal_notify on the loop of race(): an event with no pair yet is lost, a
\* pair of a closed loop leaves a note for the next race().
SignalNotify ==
  /\ notify' = (notify \/ pair = "current")
  /\ ntask' = IF pair = "current" /\ ntask = "waiting" THEN "woken" ELSE ntask
  /\ notify_pending' = (notify_pending \/ pair = "stale")

\* Future.cancel or Task.cancel of every task in ts: a pending future is
\* cancelled, otherwise the task is told when it runs next.
CancelTasks(ts) ==
  /\ cancelling' = cancelling \cup ts
  /\ fut' = [t \in Tasks |-> IF t \in ts /\ fut[t] = "pending" THEN "cancelled" ELSE fut[t]]

----------------------------------------------------------------------------
(***************************************************************************)
(* Producers.                                                              *)
(***************************************************************************)

NextItem == Len(origin) + 1

\* put on the loop: append, wake one waiter, notify race().
LoopPut(c) ==
  /\ running = NoTask /\ Len(origin) < MaxPuts
  /\ items' = [items EXCEPT ![c] = Append(@, NextItem)]
  /\ origin' = Append(origin, c)
  /\ waiters' = [waiters EXCEPT ![c] = Popped(@)]
  /\ fut' = [t \in Tasks |-> IF t \in Woken(waiters[c]) THEN "done" ELSE fut[t]]
  /\ SignalNotify
  /\ UNCHANGED <<registered, pair, tst, result, cancelling, dst, won, asked, loop, thrd,
                 fate, events, fresh>>

\* put of an event-mode channel: the event is recorded, race() is notified.
LoopEvent ==
  /\ running = NoTask /\ events < MaxEvents
  /\ events' = events + 1
  /\ fresh' = TRUE
  /\ SignalNotify
  /\ UNCHANGED <<chan, registered, pair, tasks, dst, won, asked, loop, thrd,
                 origin, fate>>

\* The same on the other thread, one step for each access to shared state.
ThreadAppend(c) ==
  /\ Threads /\ tpc = "idle" /\ Len(origin) < MaxPuts
  /\ items' = [items EXCEPT ![c] = Append(@, NextItem)]
  /\ origin' = Append(origin, c)
  /\ tpc' = "wake" /\ tch' = c
  /\ UNCHANGED <<waiters, mgr, tasks, race, loop, fate, events, fresh>>

\* Mutant: only event-mode puts notify race().
ThreadWakeOnly ==
  /\ tpc = "wake"
  /\ waiters' = [waiters EXCEPT ![tch] = Popped(@)]
  /\ wakes' = wakes \cup Woken(waiters[tch])
  /\ tpc' = "idle"
  /\ UNCHANGED <<items, mgr, tasks, race, nsets, running, tch, hist>>

ThreadWake ==
  /\ tpc = "wake"
  /\ waiters' = [waiters EXCEPT ![tch] = Popped(@)]
  /\ wakes' = wakes \cup Woken(waiters[tch])
  /\ tpc' = "notify"
  /\ UNCHANGED <<items, mgr, tasks, race, nsets, running, tch, hist>>

ThreadEvent ==
  /\ Threads /\ tpc = "idle" /\ events < MaxEvents
  /\ events' = events + 1
  /\ fresh' = TRUE
  /\ tpc' = "notify"
  /\ UNCHANGED <<chan, mgr, tasks, race, loop, tch, origin, fate>>

ThreadNotify ==
  /\ tpc = "notify"
  /\ nsets' = IF pair = "current" THEN nsets + 1 ELSE nsets
  /\ notify_pending' = (notify_pending \/ pair = "stale")
  /\ tpc' = "idle" /\ tch' = Order[1]
  /\ UNCHANGED <<chan, registered, pair, notify, tasks, race, wakes, running, hist>>

\* The loop runs the callbacks _safe_wake and event.set.
RunWake(t) ==
  /\ running = NoTask /\ t \in wakes
  /\ wakes' = wakes \ {t}
  /\ fut' = [fut EXCEPT ![t] = IF @ = "pending" THEN "done" ELSE @]
  /\ UNCHANGED <<chan, mgr, tst, result, cancelling, race, nsets, running, thrd, hist>>

RunNotify ==
  /\ running = NoTask /\ nsets > 0
  /\ nsets' = nsets - 1
  /\ notify' = TRUE
  /\ ntask' = IF ntask = "waiting" THEN "woken" ELSE ntask
  /\ UNCHANGED <<chan, registered, pair, notify_pending, tasks, dst, won, asked, wakes, running, thrd, hist>>

----------------------------------------------------------------------------
(***************************************************************************)
(* _drain_one, in a task of race() or in a task that called get().         *)
(***************************************************************************)

Runnable(t) ==
  /\ running = NoTask
  /\ tst[t] = "start" \/ (tst[t] = "waiting" /\ fut[t] # "pending")

Cancelled(t) == t \in cancelling \/ fut[t] = "cancelled"

\* Mutant: the wakeup of a cancelled waiter is not passed on.
StepCancelledKeepsWakeup(t) ==
  /\ Runnable(t) /\ Cancelled(t)
  /\ waiters' = [waiters EXCEPT ![ChanOf(t)] = Without(@, t)]
  /\ fut' = [fut EXCEPT ![t] = "none"]
  /\ tst' = [tst EXCEPT ![t] = IF t \in Chans THEN "cancelled" ELSE "off"]
  /\ cancelling' = cancelling \ {t}
  /\ wakes' = wakes \ {t}
  /\ UNCHANGED <<items, mgr, result, race, nsets, running, thrd, hist>>

\* CancelledError: the waiter is taken off the queue; if there is an item,
\* another waiter is woken for it.
StepCancelled(t) ==
  /\ Runnable(t) /\ Cancelled(t)
  /\ LET c == ChanOf(t)
         q == Without(waiters[c], t)
         pass == tst[t] = "waiting" /\ items[c] # <<>>
     IN  /\ waiters' = [waiters EXCEPT ![c] = IF pass THEN Popped(q) ELSE q]
         /\ fut' = [u \in Tasks |-> IF u = t THEN "none"
                                    ELSE IF pass /\ u \in Woken(q) THEN "done" ELSE fut[u]]
  /\ tst' = [tst EXCEPT ![t] = IF t \in Chans THEN "cancelled" ELSE "off"]
  /\ cancelling' = cancelling \ {t}
  /\ wakes' = wakes \ {t}
  /\ UNCHANGED <<items, mgr, result, race, nsets, running, thrd, hist>>

\* There is an item: a drain task returns it, get() fires on_get.
StepTakes(t) ==
  /\ Runnable(t) /\ ~Cancelled(t)
  /\ LET c == ChanOf(t)
     IN  /\ items[c] # <<>>
         /\ items' = [items EXCEPT ![c] = Tail(@)]
         /\ IF t \in Chans
            THEN /\ result' = [result EXCEPT ![t] = Head(items[c])]
                 /\ tst' = [tst EXCEPT ![t] = "result"]
                 /\ UNCHANGED fate
            ELSE /\ fate' = [fate EXCEPT ![Head(items[c])] = "consumed"]
                 /\ tst' = [tst EXCEPT ![t] = "off"]
                 /\ UNCHANGED result
  /\ fut' = [fut EXCEPT ![t] = "none"]
  /\ UNCHANGED <<waiters, mgr, cancelling, race, loop, thrd, origin, events, fresh>>

\* There is none: the task registers a waiter, in a step of its own because
\* the other thread may put in between.
StepEmpty(t) ==
  /\ Runnable(t) /\ ~Cancelled(t)
  /\ items[ChanOf(t)] = <<>>
  /\ fut' = [fut EXCEPT ![t] = "none"]
  /\ tst' = [tst EXCEPT ![t] = "registering"]
  /\ running' = t
  /\ UNCHANGED <<chan, mgr, result, cancelling, race, wakes, nsets, thrd, hist>>

Register(t) ==
  /\ running = t
  /\ waiters' = [waiters EXCEPT ![ChanOf(t)] = Append(@, t)]
  /\ fut' = [fut EXCEPT ![t] = "pending"]
  /\ tst' = [tst EXCEPT ![t] = "waiting"]
  /\ running' = NoTask
  /\ UNCHANGED <<items, mgr, result, cancelling, race, wakes, nsets, thrd, hist>>

\* get() by agent code; its timeout or its caller cancels it.
GetStart(g) ==
  /\ running = NoTask /\ tst[g] = "off"
  /\ tst' = [tst EXCEPT ![g] = "start"]
  /\ UNCHANGED <<chan, mgr, fut, result, cancelling, race, loop, thrd, hist>>

GetCancel(g) ==
  /\ running = NoTask /\ tst[g] \in {"start", "waiting"} /\ g \notin cancelling
  /\ CancelTasks({g})
  /\ UNCHANGED <<chan, mgr, tst, result, race, loop, thrd, hist>>

----------------------------------------------------------------------------
(***************************************************************************)
(* Other operations on a channel, all on the loop.                         *)
(***************************************************************************)

Fate(is, f) == fate' = [i \in 1..MaxPuts |-> IF i \in is THEN f ELSE fate[i]]

\* drain: the dispatcher consumes every buffered item when its turn begins.
DrainAll(c) ==
  /\ running = NoTask /\ dst = "idle" /\ items[c] # <<>>
  /\ items' = [items EXCEPT ![c] = <<>>]
  /\ Fate(Members(items[c]), "consumed")
  /\ UNCHANGED <<waiters, mgr, tasks, race, loop, thrd, origin, events, fresh>>

\* remove (pop_last is the case of the last item): a withdrawal.
Withdraw(c) ==
  /\ running = NoTask
  /\ \E i \in Members(items[c]) :
       /\ items' = [items EXCEPT ![c] = Without(@, i)]
       /\ Fate({i}, "withdrawn")
  /\ UNCHANGED <<waiters, mgr, tasks, race, loop, thrd, origin, events, fresh>>

\* clear
Clear(c) ==
  /\ running = NoTask /\ items[c] # <<>>
  /\ items' = [items EXCEPT ![c] = <<>>]
  /\ Fate(Members(items[c]), "discarded")
  /\ UNCHANGED <<waiters, mgr, tasks, race, loop, thrd, origin, events, fresh>>

\* flush, alone or from cancel(channel), and from remove_channel, which takes
\* the channel out of the registry as well.
Flush(c) ==
  /\ running = NoTask
  /\ items' = [items EXCEPT ![c] = <<>>]
  /\ Fate(Members(items[c]), "discarded")
  /\ waiters' = [waiters EXCEPT ![c] = <<>>]
  /\ fut' = [t \in Tasks |-> IF t \in Members(waiters[c]) /\ fut[t] = "pending"
                             THEN "cancelled" ELSE fut[t]]
  /\ registered' \in {registered, registered \ {c}}
  /\ UNCHANGED <<pair, notify, notify_pending, tst, result, cancelling, race, loop, thrd,
                 origin, events, fresh>>

----------------------------------------------------------------------------
(***************************************************************************)
(* QueueManager.race                                                       *)
(***************************************************************************)

Drains      == {c \in Chans : tst[c] # "off"}
Finished(c) == tst[c] \in {"result", "cancelled"}

\* The start of race(): the notify event belongs to this loop, it is cleared
\* and takes over the note of a put that could not deliver its wakeup.
RaceBegins ==
  /\ Racing /\ running = NoTask /\ dst = "idle"
  /\ pair' = "current"
  /\ notify' = notify_pending
  /\ notify_pending' = FALSE
  /\ fresh' = FALSE

\* Fast path: the first channel that holds an item wins.
RaceFast ==
  /\ RaceBegins
  /\ LET full == {c \in registered : items[c] # <<>>}
     IN  /\ full # {}
         /\ items' = [items EXCEPT ![First(full)] = Tail(@)]
         /\ fate' = [fate EXCEPT ![Head(items[First(full)])] = "consumed"]
  /\ UNCHANGED <<waiters, registered, tasks, race, loop, thrd, origin, events>>

\* Slow path: one drain task for each channel, and the notify task.
RaceSlow ==
  /\ RaceBegins
  /\ \A c \in registered : items[c] = <<>>
  /\ tst' = [t \in Tasks |-> IF t \in registered THEN "start" ELSE tst[t]]
  /\ ntask' = "start"
  /\ dst' = "racing"
  /\ UNCHANGED <<chan, registered, fut, result, cancelling, won, asked, loop, thrd, origin, fate, events>>

\* The notify task; a cancelled one ends too.
NotifyStep ==
  /\ running = NoTask
  /\ \/ ntask = "start" /\ ntask' = IF notify THEN "done" ELSE "waiting"
     \/ ntask \in {"woken", "cancelling"} /\ ntask' = "done"
  /\ UNCHANGED <<chan, mgr, tasks, dst, won, asked, loop, thrd, hist>>

\* Mutant: a restored item goes to the back.
RestoreBack(R) ==
  /\ items' = [c \in Chans |-> IF c \in R THEN Append(items[c], result[c]) ELSE items[c]]
  /\ waiters' = [c \in Chans |-> IF c \in R THEN Popped(waiters[c]) ELSE waiters[c]]
  /\ fut' = [t \in Tasks |-> IF \E c \in R : t \in Woken(waiters[c]) THEN "done" ELSE fut[t]]

\* _restore_front for the results of the drains in R.
Restore(R) ==
  /\ items' = [c \in Chans |-> IF c \in R THEN <<result[c]>> \o items[c] ELSE items[c]]
  /\ waiters' = [c \in Chans |-> IF c \in R THEN Popped(waiters[c]) ELSE waiters[c]]
  /\ fut' = [t \in Tasks |-> IF \E c \in R : t \in Woken(waiters[c]) THEN "done" ELSE fut[t]]

\* The end of race(), when w are the drains that finished before the others
\* were cancelled.
RaceEnds(w) ==
  /\ \/ /\ w = {}
        /\ notify' = FALSE
        /\ UNCHANGED <<chan, fut, fate>>
     \/ /\ w # {} /\ tst[First(w)] = "result"
        /\ Restore({c \in w \ {First(w)} : tst[c] = "result"})
        /\ fate' = [fate EXCEPT ![result[First(w)]] = "consumed"]
        /\ notify' = FALSE
     \* The channel was flushed: result() raises, and so does race().
     \/ /\ w # {} /\ tst[First(w)] = "cancelled"
        /\ Restore({c \in Drains : tst[c] = "result"})
        /\ notify' = (notify \/ \E c \in Drains : tst[c] = "result")
        /\ UNCHANGED fate
  /\ tst' = [t \in Tasks |-> IF t \in Chans THEN "off" ELSE tst[t]]
  /\ result' = [c \in Chans |-> 0]
  /\ ntask' = "off" /\ dst' = "idle" /\ won' = {} /\ asked' = FALSE
  /\ UNCHANGED <<registered, pair, notify_pending, cancelling, loop, thrd, origin, events, fresh>>

\* asyncio.wait returns.
RaceWakes ==
  /\ running = NoTask /\ dst = "racing" /\ ~asked
  /\ ntask = "done" \/ \E c \in Drains : Finished(c)
  /\ LET pend == {c \in Drains : ~Finished(c)}
     IN  \/ /\ pend = {} /\ ntask = "done"
            /\ RaceEnds(Drains)
         \/ /\ pend # {} \/ ntask # "done"
            /\ CancelTasks(pend)
            /\ ntask' = IF ntask = "done" THEN "done" ELSE "cancelling"
            /\ won' = Drains \ pend
            /\ dst' = "reaping"
            /\ UNCHANGED <<chan, mgr, tst, result, asked, loop, thrd, hist>>

\* Every cancelled task has been awaited.
RaceReaped ==
  /\ running = NoTask /\ dst = "reaping"
  /\ ntask = "done" /\ \A c \in Drains : Finished(c)
  /\ RaceEnds(won)

\* Somebody cancels the dispatcher.  While it awaits the cancelled tasks the
\* CancelledError is swallowed with theirs.
CancelRace ==
  /\ running = NoTask /\ dst \in {"racing", "reaping"} /\ ~asked
  /\ asked' = TRUE
  /\ UNCHANGED <<chan, mgr, tasks, ntask, dst, won, loop, thrd, hist>>

\* asyncio.wait raises: the other tasks are cancelled; the notify task is not
\* awaited.
RaceCancelled ==
  /\ running = NoTask /\ dst = "racing" /\ asked
  /\ CancelTasks({c \in Drains : ~Finished(c)})
  /\ ntask' = "off"
  /\ dst' = "unwinding"
  /\ running' = Dispatcher
  /\ UNCHANGED <<chan, mgr, tst, result, won, asked, wakes, nsets, thrd, hist>>

\* The drain tasks are awaited in order, and what one returned is restored.
Unwind ==
  /\ dst = "unwinding"
  /\ LET F == {c \in Drains : \A d \in Drains : Rank(d) <= Rank(c) => Finished(d)}
         R == {c \in F : tst[c] = "result"}
     IN  /\ running = Dispatcher \/ (running = NoTask /\ F # {})
         /\ Restore(R)
         /\ tst' = [t \in Tasks |-> IF t \in F THEN "off" ELSE tst[t]]
         /\ result' = [c \in Chans |-> IF c \in F THEN 0 ELSE result[c]]
         /\ notify' = (notify \/ R # {})
         /\ IF F = Drains THEN dst' = "idle" /\ asked' = FALSE
                          ELSE UNCHANGED <<dst, asked>>
  /\ running' = NoTask
  /\ UNCHANGED <<registered, pair, notify_pending, cancelling, ntask, won,
                 wakes, nsets, thrd, origin, fate, events, fresh>>

\* The agent's loop is closed and a new one is started: callbacks of the old
\* one are gone.
LoopRestart ==
  /\ Threads /\ running = NoTask /\ dst = "idle" /\ pair = "current"
  /\ \A t \in Tasks : tst[t] = "off"
  /\ pair' = "stale"
  /\ notify' = FALSE
  /\ nsets' = 0 /\ wakes' = {}
  /\ UNCHANGED <<chan, registered, notify_pending, tasks, race, running, thrd, hist>>

----------------------------------------------------------------------------
Init ==
  /\ items = [c \in Chans |-> <<>>] /\ waiters = [c \in Chans |-> <<>>]
  /\ registered = Chans /\ pair = "none" /\ notify = FALSE /\ notify_pending = FALSE
  /\ tst = [t \in Tasks |-> "off"] /\ fut = [t \in Tasks |-> "none"]
  /\ result = [c \in Chans |-> 0] /\ cancelling = {}
  /\ ntask = "off" /\ dst = "idle" /\ won = {} /\ asked = FALSE
  /\ wakes = {} /\ nsets = 0 /\ running = NoTask
  /\ tpc = "idle" /\ tch = Order[1]
  /\ origin = <<>> /\ fate = [i \in 1..MaxPuts |-> "none"]
  /\ events = 0 /\ fresh = FALSE

TaskStep(t) == StepCancelled(t) \/ StepTakes(t) \/ StepEmpty(t) \/ Register(t)
Thread      == ThreadWake \/ ThreadNotify
RaceStep    == RaceFast \/ RaceSlow \/ RaceWakes \/ RaceReaped \/ RaceCancelled \/ Unwind

Next ==
  \/ \E c \in Chans : LoopPut(c) \/ ThreadAppend(c) \/ DrainAll(c) \/ Withdraw(c)
                      \/ Clear(c) \/ Flush(c)
  \/ LoopEvent \/ ThreadEvent \/ Thread
  \/ \E t \in Tasks : TaskStep(t) \/ RunWake(t)
  \/ RunNotify \/ NotifyStep
  \/ \E g \in Getters : GetStart(g) \/ GetCancel(g)
  \/ RaceStep \/ CancelRace \/ LoopRestart

Spec == Init /\ [][Next]_vars

\* The loop runs what is ready, the other thread finishes its put, and the
\* dispatcher calls race() again after every turn.
Fairness ==
  /\ \A t \in Tasks : WF_vars(TaskStep(t)) /\ WF_vars(RunWake(t))
  /\ WF_vars(Thread) /\ WF_vars(RunNotify) /\ WF_vars(NotifyStep) /\ WF_vars(RaceStep)

FairSpec == Spec /\ Fairness

----------------------------------------------------------------------------
(***************************************************************************)
(* Properties                                                              *)
(***************************************************************************)

\* Every variable has its type.
TypeOK ==
  /\ items \in [Chans -> Seq(1..MaxPuts)] /\ waiters \in [Chans -> Seq(Tasks)]
  /\ registered \subseteq Chans /\ pair \in {"none", "current", "stale"}
  /\ notify \in BOOLEAN /\ notify_pending \in BOOLEAN
  /\ tst \in [Tasks -> {"off", "start", "registering", "waiting", "result", "cancelled"}]
  /\ fut \in [Tasks -> {"none", "pending", "done", "cancelled"}]
  /\ result \in [Chans -> 0..MaxPuts] /\ cancelling \subseteq Tasks
  /\ ntask \in {"off", "start", "waiting", "woken", "cancelling", "done"}
  /\ dst \in {"idle", "racing", "reaping", "unwinding"}
  /\ won \subseteq Chans /\ asked \in BOOLEAN
  /\ wakes \subseteq Tasks /\ nsets \in Nat /\ running \in Tasks \cup {NoTask, Dispatcher}
  /\ tpc \in {"idle", "wake", "notify"} /\ tch \in Chans
  /\ origin \in Seq(Chans) /\ Len(origin) <= MaxPuts
  /\ fate \in [1..MaxPuts -> {"none", "consumed", "discarded", "withdrawn"}]
  /\ events \in 0..MaxEvents /\ fresh \in BOOLEAN

\* Where an item is: in its channel, in the hands of a drain task that race()
\* will look at, or gone.
Places(i) ==
  Cardinality({p \in Chans \X (1..MaxPuts) : p[2] <= Len(items[p[1]]) /\ items[p[1]][p[2]] = i})
  + Cardinality({c \in Chans : tst[c] = "result" /\ result[c] = i})
  + (IF fate[i] = "none" THEN 0 ELSE 1)

\* Every item that was put is in exactly one place: no cancellation, flush or
\* lost race drops or doubles one, and on_get fires once for each consumed
\* item.  The dispatcher receives the items of a channel that nobody else
\* reads in the order they were put: one that lost a race goes back to where
\* it was.
ItemsConserved ==
  /\ TypeOK
  /\ \A i \in 1..Len(origin) : Places(i) = 1
  /\ \A c \in Chans : \A i \in Members(items[c]) : origin[i] = c
  /\ \A c \in Chans \ {GetOf[g] : g \in Getters} :
       /\ \A j, k \in 1..Len(items[c]) : j < k => items[c][j] < items[c][k]
       /\ \A i \in 1..Len(origin) :
            fate[i] = "consumed" /\ origin[i] = c => \A k \in Members(items[c]) : i < k

\* The loop has nothing to do and the other thread is not in a put.
Quiet ==
  /\ running = NoTask /\ wakes = {} /\ nsets = 0 /\ tpc = "idle"
  /\ \A t \in Tasks : ~Runnable(t)

\* When race() sleeps and nothing is under way that will wake it, no channel
\* it watches holds an item and no event arrived since it began.
RaceNotStranded ==
  Quiet /\ dst = "racing" /\ ntask = "waiting" /\ (\A c \in Drains : tst[c] = "waiting") =>
    ~fresh /\ \A c \in Drains : items[c] = <<>>

\* get() does not sleep while its channel holds an item.
GetNotStranded ==
  Quiet => \A g \in Getters : tst[g] = "waiting" => items[GetOf[g]] = <<>>

\* Every item of a registered channel leaves it in the end.
ItemsLeave ==
  \A i \in 1..MaxPuts :
    (\E c \in registered : i \in Members(items[c]))
      ~> ~(\E c \in registered : i \in Members(items[c]))

=============================================================================
