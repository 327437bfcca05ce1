------------------------------ MODULE Sandbox ------------------------------
(***************************************************************************)
(* The sandbox in which CodeAct cells run: the parent's SandboxedExecutor  *)
(* (src/nooa/runtime/sandbox/executor.py), the worker processes it forks   *)
(* one after the other (worker.py), the pipe between them, and the thread  *)
(* that reads the pipe while run_cell awaits it.                           *)
(*                                                                         *)
(* Three kinds of actors interleave: coroutines of the parent's loop,      *)
(* which run from one await to the next in one step; reader threads, which *)
(* take one step for each access to shared state; and the workers, which   *)
(* take one step for each message.  A reader thread cannot be cancelled:   *)
(* it outlives the run_cell that started it.                               *)
(*                                                                         *)
(* Cells are numbered in the order of the run_cell calls, and a cell's     *)
(* number stands for its request id.  Workers are numbered in the order in *)
(* which they are forked: a worker's number is a generation of the REPL    *)
(* namespace.  What cells compute, and the text of errors, is left out.    *)
(***************************************************************************)
EXTENDS Integers, Sequences, FiniteSets, Queues

CONSTANTS
    MaxCells,       \* bound: run_cell calls made
    MaxWorkers,     \* bound: workers forked
    MaxCalls,       \* bound: brokered self.* calls a worker makes
    MaxCrashes,     \* bound: workers that die by themselves
    CellTimeout,    \* cell_timeout is set
    BrokerTimeout,  \* broker_timeout_s is not 0
    Recoveries,     \* the values config.recovery may have
    OneSession,     \* the caller is one CodeAct session: cells run one after
                    \* the other and a cancelled one is the last
    MayCancel,      \* run_cell may be cancelled
    MayCancelClose, \* aclose may be cancelled
    MayTamper,      \* the worker may send what the parent refuses to decode
    SyncClose,      \* when close_sync is called: "idle" (no coroutine is inside
                    \* the executor) or "any" (a cell may be running)
    Lingers         \* a cell may leave a thread behind that calls self.*

ASSUME BoundsAssumption ==
    /\ MaxCells \in Nat \ {0} /\ MaxWorkers \in Nat \ {0}
    /\ MaxCalls \in Nat /\ MaxCrashes \in Nat
    /\ Recoveries \subseteq {"restart_empty", "disabled"}
    /\ {CellTimeout, BrokerTimeout, OneSession, MayCancel, MayCancelClose, MayTamper, Lingers} \subseteq BOOLEAN
    /\ SyncClose \in {"idle", "any"}

Cells == 1..MaxCells
Workers == 1..MaxWorkers
None == 0
Close == -1    \* aclose, as a holder of the lock or in its queue
Free == 0

VARIABLES
    cell,     \* where the run_cell of a cell is
    lock,     \* the holder of _lock
    queue,    \* the coroutines waiting for _lock, in order
    closed,   \* _closed
    closer,   \* where aclose is
    disabled, \* _disabled
    recovery, \* config.recovery
    current,  \* the worker _proc and _conn belong to, or None
    started,  \* the number of workers forked
    victim,   \* the detached worker that the holder of _lock is reaping
    reader,   \* the reader thread of a cell
    conn,     \* the connection that thread read from _conn
    task,     \* the brokered call of a cell on the parent's loop
    callid,   \* the tool_call_id that call came with
    worker,   \* the main thread of a worker
    running,  \* the cell a worker runs
    thread,   \* the thread a cell of a worker left behind
    calls,    \* ChildBroker._n
    doomed,   \* workers that were sent a signal
    down, up, \* the pipe to a worker and back
    crashes   \* workers that died by themselves

parent == <<cell, lock, queue, closed, closer, disabled, recovery, current, started, victim>>
readers == <<reader, conn, task, callid>>
workers == <<worker, running, thread, calls, doomed, crashes>>
pipes == <<down, up>>
vars == <<cell, lock, queue, closed, closer, disabled, recovery, current, started, victim,
          reader, conn, task, callid, worker, running, thread, calls, doomed, crashes, down, up>>

Outcomes == {"result", "timeout", "died", "fault"}
Ended == {"done", "error", "raised", "refused", "cancelled"}

Run(c) == [op |-> "run", id |-> c]
Shutdown == [op |-> "shutdown", id |-> 0]
ToolResult(n) == [op |-> "tool_result", id |-> n]
ToolCall(n) == [type |-> "tool_call", id |-> n]
Response(c) == [type |-> "response", id |-> c]
Fatal == [type |-> "fatal", id |-> 0]

TypeOK ==
    /\ cell \in [Cells -> Ended \cup {"new", "waiting", "receiving", "restarting"}]
    /\ lock \in Cells \cup {Close, Free}
    /\ queue \in Seq(Cells \cup {Close}) /\ Len(queue) <= MaxCells + 1
    /\ closed \in BOOLEAN /\ disabled \in BOOLEAN /\ recovery \in Recoveries
    /\ closer \in {"off", "waiting", "joining", "reaping", "done", "cancelled"}
    /\ current \in 0..started /\ started \in 0..MaxWorkers /\ victim \in 0..started
    /\ reader \in [Cells -> Outcomes \cup {"off", "look", "poll", "check", "recv", "serve"}]
    /\ conn \in [Cells -> Workers \cup {None}]
    /\ task \in [Cells -> {"off", "running", "ready"}]
    /\ callid \in [Cells -> 0..MaxCalls]
    /\ worker \in [Workers -> {"none", "boot", "idle", "busy", "call", "dead"}]
    /\ \A w \in Workers : (worker[w] = "none") <=> (w > started)
    /\ running \in [Workers -> Cells \cup {None}]
    /\ thread \in [Workers -> {"off", "on", "call"}]
    /\ calls \in [Workers -> 0..MaxCalls]
    /\ doomed \subseteq 1..started
    /\ \A w \in Workers :
        /\ \A i \in DOMAIN down[w] :
            down[w][i] \in {Shutdown} \cup {Run(c) : c \in Cells} \cup {ToolResult(n) : n \in 1..MaxCalls}
        /\ \A i \in DOMAIN up[w] :
            up[w][i] \in {Fatal, Response(None)} \cup {Response(c) : c \in Cells} \cup {ToolCall(n) : n \in 1..MaxCalls}
    /\ crashes \in 0..MaxCrashes

Init ==
    /\ cell = [c \in Cells |-> "new"]
    /\ lock = Free /\ queue = <<>>
    /\ closed = FALSE /\ closer = "off" /\ disabled = FALSE
    /\ recovery \in Recoveries
    /\ current = None /\ started = 0 /\ victim = None
    /\ reader = [c \in Cells |-> "off"] /\ conn = [c \in Cells |-> None]
    /\ task = [c \in Cells |-> "off"] /\ callid = [c \in Cells |-> 0]
    /\ worker = [w \in Workers |-> "none"] /\ running = [w \in Workers |-> None]
    /\ thread = [w \in Workers |-> "off"] /\ calls = [w \in Workers |-> 0]
    /\ doomed = {} /\ crashes = 0
    /\ down = [w \in Workers |-> <<>>] /\ up = [w \in Workers |-> <<>>]

Alive(w) == w # None /\ worker[w] \notin {"none", "dead"}

\* The parent's end of a worker's pipe is open exactly while the worker is
\* attached: _start_worker and _detach_worker set and clear both references.
Open(w) == w = current

Send(pipe, w, message) == [pipe EXCEPT ![w] = Append(@, message)]
Pop(pipe, w) == [pipe EXCEPT ![w] = Tail(@)]

----------------------------------------------------------------------------
(* The parent's coroutines.                                                *)

\* Detaching a worker closes the pipe: what it had sent is not read any more.
Detached(pipe) == IF current = None THEN pipe ELSE [pipe EXCEPT ![current] = <<>>]

\* _restart_worker once the old worker is dead: a fresh worker with an empty
\* namespace, or none for the rest of the session.
Restart ==
    /\ UNCHANGED recovery
    /\ \/ /\ recovery = "restart_empty" /\ started < MaxWorkers
          /\ started' = started + 1 /\ current' = started + 1
          /\ worker' = [worker EXCEPT ![started + 1] = "boot"]
          /\ UNCHANGED disabled
       \/ /\ recovery = "disabled"
          /\ current' = None /\ disabled' = TRUE
          /\ UNCHANGED <<started, worker>>

\* run_cell up to the lock.  _closed is only looked at here.
RunCell(c) ==
    /\ cell[c] = "new"
    /\ \A d \in 1..(c - 1) :
        cell[d] \in (IF OneSession THEN Ended \ {"cancelled", "raised"} ELSE Ended \cup {"waiting", "receiving", "restarting"})
    /\ IF closed
       THEN cell' = [cell EXCEPT ![c] = "refused"] /\ UNCHANGED queue
       ELSE cell' = [cell EXCEPT ![c] = "waiting"] /\ queue' = Append(queue, c)
    /\ UNCHANGED <<lock, closed, closer, disabled, recovery, current, started, victim, readers, workers, pipes>>

AtLock(c) == lock = Free /\ queue # <<>> /\ Head(queue) = c

RunDisabled(c) ==
    /\ AtLock(c) /\ disabled
    /\ queue' = Tail(queue)
    /\ cell' = [cell EXCEPT ![c] = "error"]
    /\ UNCHANGED <<lock, closed, closer, disabled, recovery, current, started, victim, readers, workers, pipes>>

\* _ensure_worker forks a worker if there is none or if it is dead; then the
\* request is sent and the reader thread is started.
RunStarts(c) ==
    /\ AtLock(c) /\ ~disabled
    /\ queue' = Tail(queue) /\ lock' = c
    /\ LET w == IF Alive(current) THEN current ELSE started + 1
       IN  /\ w \in Workers
           /\ current' = w
           /\ started' = IF w > started THEN w ELSE started
           /\ worker' = IF w > started THEN [worker EXCEPT ![w] = "boot"] ELSE worker
           /\ down' = Send(down, w, Run(c))
           /\ up' = IF w > started THEN Detached(up) ELSE up
    /\ cell' = [cell EXCEPT ![c] = "receiving"]
    /\ reader' = [reader EXCEPT ![c] = "look"]
    /\ UNCHANGED <<closed, closer, disabled, recovery, victim, conn, task, callid,
                   running, thread, calls, doomed, crashes>>

\* The worker died between _ensure_worker and the send.
RunSendFails(c) ==
    /\ AtLock(c) /\ ~disabled /\ current # None /\ ~Alive(current)
    /\ queue' = Tail(queue)
    /\ up' = Detached(up)
    /\ Restart
    /\ cell' = [cell EXCEPT ![c] = "error"]
    /\ UNCHANGED <<lock, closed, closer, victim, readers, running, thread, calls, doomed, crashes, down>>

\* The reader thread returned the answer.
CellReturns(c) ==
    /\ cell[c] = "receiving" /\ reader[c] = "result"
    /\ cell' = [cell EXCEPT ![c] = "done"]
    /\ reader' = [reader EXCEPT ![c] = "off"]
    /\ lock' = Free
    /\ UNCHANGED <<queue, closed, closer, disabled, recovery, current, started, victim, conn, task, callid, workers, pipes>>

\* What makes run_cell replace the worker: a deadline, a death, and (from a
\* tampered worker only) an answer that cannot be decoded.
Failed(c) ==
    /\ cell[c] = "receiving"
    /\ reader[c] \in {"timeout", "died"} \cup (IF MayTamper THEN {"result"} ELSE {})

\* Mutant: a failed cell leaves its worker running.
CellSpares(c) ==
    /\ Failed(c) /\ Alive(current)
    /\ cell' = [cell EXCEPT ![c] = "error"]
    /\ reader' = [reader EXCEPT ![c] = "off"]
    /\ lock' = Free
    /\ UNCHANGED <<queue, closed, closer, disabled, recovery, current, started, victim, conn, task, callid, workers, pipes>>

\* Mutant: the worker is detached and not signalled.
CellDetaches(c) ==
    /\ Failed(c) /\ Alive(current)
    /\ cell' = [cell EXCEPT ![c] = "restarting"]
    /\ reader' = [reader EXCEPT ![c] = "off"]
    /\ victim' = current
    /\ current' = None
    /\ up' = Detached(up)
    /\ UNCHANGED <<lock, queue, closed, closer, disabled, recovery, started, conn, task, callid, workers, down>>

\* A worker that is alive is detached and signalled, and run_cell awaits its
\* end; one that is dead is replaced at once.
CellKills(c) ==
    /\ Failed(c) /\ Alive(current)
    /\ cell' = [cell EXCEPT ![c] = "restarting"]
    /\ reader' = [reader EXCEPT ![c] = "off"]
    /\ victim' = current /\ doomed' = doomed \cup {current}
    /\ current' = None
    /\ up' = Detached(up)
    /\ UNCHANGED <<lock, queue, closed, closer, disabled, recovery, started, conn, task, callid,
                   worker, running, thread, calls, crashes, down>>

CellReplaces(c) ==
    /\ Failed(c) /\ ~Alive(current)
    /\ cell' = [cell EXCEPT ![c] = "error"]
    /\ reader' = [reader EXCEPT ![c] = "off"]
    /\ lock' = Free
    /\ up' = Detached(up)
    /\ Restart
    /\ UNCHANGED <<queue, closed, closer, victim, conn, task, callid, running, thread, calls, doomed, crashes, down>>

CellRestarts(c) ==
    /\ cell[c] = "restarting" /\ ~Alive(victim)
    /\ cell' = [cell EXCEPT ![c] = "error"]
    /\ victim' = None
    /\ lock' = Free
    /\ Restart
    /\ UNCHANGED <<queue, closed, closer, readers, running, thread, calls, doomed, crashes, pipes>>

\* poll() on a connection that was closed raises outside the try: OSError
\* leaves run_cell.
CellRaises(c) ==
    /\ cell[c] = "receiving" /\ reader[c] = "fault"
    /\ cell' = [cell EXCEPT ![c] = "raised"]
    /\ reader' = [reader EXCEPT ![c] = "off"]
    /\ lock' = Free
    /\ UNCHANGED <<queue, closed, closer, disabled, recovery, current, started, victim, conn, task, callid, workers, pipes>>

\* CancelledError at run_cell's await.  The reader thread goes on.
CancelCell(c) ==
    /\ MayCancel /\ cell[c] \in {"waiting", "receiving", "restarting"}
    /\ cell' = [cell EXCEPT ![c] = "cancelled"]
    /\ lock' = IF lock = c THEN Free ELSE lock
    /\ queue' = Without(queue, c)
    /\ victim' = IF lock = c THEN None ELSE victim
    /\ UNCHANGED <<closed, closer, disabled, recovery, current, started, readers, workers, pipes>>

\* Mutant: the shutdown request is sent without waiting for the lock.
AcloseAtOnce ==
    /\ ~closed
    /\ closed' = TRUE /\ closer' = "joining"
    /\ down' = IF Alive(current) THEN Send(down, current, Shutdown) ELSE down
    /\ UNCHANGED <<cell, lock, queue, disabled, recovery, current, started, victim, readers, workers, up>>

Aclose ==
    /\ ~closed
    /\ OneSession => \A c \in Cells : cell[c] \in Ended \cup {"new"}
    /\ closed' = TRUE /\ closer' = "waiting"
    /\ queue' = Append(queue, Close)
    /\ UNCHANGED <<cell, lock, disabled, recovery, current, started, victim, readers, workers, pipes>>

CloseSends ==
    /\ AtLock(Close) /\ Alive(current)
    /\ queue' = Tail(queue) /\ lock' = Close
    /\ closer' = "joining"
    /\ down' = Send(down, current, Shutdown)
    /\ UNCHANGED <<cell, closed, disabled, recovery, current, started, victim, readers, workers, up>>

CloseFindsNone ==
    /\ AtLock(Close) /\ ~Alive(current)
    /\ queue' = Tail(queue)
    /\ closer' = "done"
    /\ current' = None /\ up' = Detached(up)
    /\ UNCHANGED <<cell, lock, closed, disabled, recovery, started, victim, readers, workers, down>>

\* Mutant: a worker that does not heed the request is left alone.
CloseTrusts ==
    /\ closer = "joining"
    /\ current' = None /\ up' = Detached(up)
    /\ closer' = "done" /\ lock' = Free
    /\ UNCHANGED <<cell, queue, closed, disabled, recovery, started, victim, readers, workers, down>>

\* Mutant: the worker is signalled, the pipe stays open.
CloseKeepsPipe ==
    /\ closer = "joining"
    /\ doomed' = doomed \cup {current}
    /\ closer' = "done" /\ lock' = Free
    /\ UNCHANGED <<cell, queue, closed, disabled, recovery, current, started, victim, readers,
                   worker, running, thread, calls, crashes, pipes>>

\* The worker ended, or half a second passed.
CloseJoins ==
    /\ closer = "joining"
    /\ current' = None /\ up' = Detached(up)
    /\ IF Alive(current)
       THEN closer' = "reaping" /\ victim' = current /\ doomed' = doomed \cup {current} /\ UNCHANGED lock
       ELSE closer' = "done" /\ lock' = Free /\ UNCHANGED <<victim, doomed>>
    /\ UNCHANGED <<cell, queue, closed, disabled, recovery, started, readers,
                   worker, running, thread, calls, crashes, down>>

CloseEnds ==
    /\ closer = "reaping" /\ ~Alive(victim)
    /\ closer' = "done" /\ lock' = Free /\ victim' = None
    /\ UNCHANGED <<cell, queue, closed, disabled, recovery, current, started, readers, workers, pipes>>

\* CancelledError at one of aclose's awaits: a free lock is taken without one.
CancelClose ==
    /\ MayCancelClose
    /\ closer \in {"joining", "reaping"} \/ (closer = "waiting" /\ lock # Free)
    /\ closer' = "cancelled"
    /\ queue' = Without(queue, Close)
    /\ lock' = IF lock = Close THEN Free ELSE lock
    /\ victim' = IF lock = Close THEN None ELSE victim
    /\ UNCHANGED <<cell, closed, disabled, recovery, current, started, readers, workers, pipes>>

\* _terminate_worker on the loop's own thread: the worker is dead when it returns.
\* It is called between two awaits of the executor's coroutines; the coroutine
\* that is next to take a free lock is taken to run first.
CloseSync ==
    /\ ~closed
    /\ lock = Free => queue = <<>>
    /\ SyncClose = "idle" => lock = Free
    /\ closed' = TRUE /\ closer' = "done"
    /\ current' = None /\ up' = Detached(up)
    /\ worker' = IF current = None THEN worker ELSE [worker EXCEPT ![current] = "dead"]
    /\ UNCHANGED <<cell, lock, queue, disabled, recovery, started, victim, readers,
                   running, thread, calls, doomed, crashes, down>>

----------------------------------------------------------------------------
(* The reader threads: _recv_until_result and _service_tool_call.          *)

\* One round of the loop begins by reading _conn.
ReaderLooks(c) ==
    /\ reader[c] = "look"
    /\ reader' = [reader EXCEPT ![c] = IF current = None THEN "died" ELSE "poll"]
    /\ conn' = [conn EXCEPT ![c] = current]
    /\ UNCHANGED <<parent, task, callid, workers, pipes>>

ReaderDeadline(c) ==
    /\ CellTimeout
    /\ reader[c] = "look" /\ current # None
    /\ reader' = [reader EXCEPT ![c] = "timeout"]
    /\ UNCHANGED <<parent, conn, task, callid, workers, pipes>>

\* poll() sees a message or the end of the pipe, or gives up after a while.
\* The loop may close the connection under it: then poll() raises, or it had
\* already begun to wait and gives up.
ReaderPolls(c) ==
    /\ reader[c] = "poll"
    /\ \E next \in IF ~Open(conn[c]) THEN {"fault", "check"}
                   ELSE IF up[conn[c]] # <<>> \/ ~Alive(conn[c]) THEN {"recv"}
                   ELSE {"check"} :
        reader' = [reader EXCEPT ![c] = next]
    /\ UNCHANGED <<parent, conn, task, callid, workers, pipes>>

ReaderChecks(c) ==
    /\ reader[c] = "check"
    /\ reader' = [reader EXCEPT ![c] = IF Alive(current) THEN "look" ELSE "died"]
    /\ UNCHANGED <<parent, conn, task, callid, workers, pipes>>

\* recv_bytes() finds the pipe closed, or at its end.
ReaderHangsUp(c) ==
    /\ reader[c] = "recv"
    /\ ~Open(conn[c]) \/ (up[conn[c]] = <<>> /\ ~Alive(conn[c]))
    /\ reader' = [reader EXCEPT ![c] = "died"]
    /\ UNCHANGED <<parent, conn, task, callid, workers, pipes>>

Receives(c) == reader[c] = "recv" /\ Open(conn[c]) /\ up[conn[c]] # <<>>

\* A brokered call is scheduled on the loop and the thread waits for it; one
\* whose payload is refused is answered with an error instead.
ReaderTakesCall(c) ==
    /\ Receives(c)
    /\ LET m == Head(up[conn[c]])
       IN  /\ m.type = "tool_call"
           /\ callid' = [callid EXCEPT ![c] = m.id]
    /\ \E t \in {"running", "ready"} : task' = [task EXCEPT ![c] = t]
    /\ reader' = [reader EXCEPT ![c] = "serve"]
    /\ up' = Pop(up, conn[c])
    /\ UNCHANGED <<parent, conn, workers, down>>

\* An answer to another request is dropped.
ReaderTakesOther(c) ==
    /\ Receives(c)
    /\ LET m == Head(up[conn[c]])
       IN  /\ m.type # "tool_call"
           /\ reader' = [reader EXCEPT ![c] = IF m.type = "fatal" THEN "died"
                                             ELSE IF m.id = c THEN "result" ELSE "look"]
    /\ up' = Pop(up, conn[c])
    /\ UNCHANGED <<parent, conn, task, callid, workers, down>>

\* The bytes cannot be decoded.
ReaderRefuses(c) ==
    /\ MayTamper /\ Receives(c)
    /\ reader' = [reader EXCEPT ![c] = "died"]
    /\ up' = Pop(up, conn[c])
    /\ UNCHANGED <<parent, conn, task, callid, workers, down>>

\* _dispatch_tool_call: the call takes effect on the parent's agent.
CallRuns(c) ==
    /\ task[c] = "running"
    /\ task' = [task EXCEPT ![c] = "ready"]
    /\ UNCHANGED <<parent, reader, conn, callid, workers, pipes>>

\* The reply goes to whatever connection _conn holds by now.
ReaderReplies(c) ==
    /\ reader[c] = "serve" /\ task[c] = "ready"
    /\ task' = [task EXCEPT ![c] = "off"]
    /\ callid' = [callid EXCEPT ![c] = 0]
    /\ reader' = [reader EXCEPT ![c] = IF current # None /\ ~Alive(current) THEN "died" ELSE "look"]
    /\ down' = IF Alive(current) THEN Send(down, current, ToolResult(callid[c])) ELSE down
    /\ UNCHANGED <<parent, conn, workers, up>>

\* Mutant: the call is not cancelled.
ReaderForgets(c) ==
    /\ BrokerTimeout
    /\ reader[c] = "serve" /\ task[c] = "running"
    /\ reader' = [reader EXCEPT ![c] = "timeout"]
    /\ UNCHANGED <<parent, conn, task, callid, workers, pipes>>

\* Mutant: the call is cancelled and the thread waits on.
ReaderHangs(c) ==
    /\ BrokerTimeout
    /\ reader[c] = "serve" /\ task[c] = "running"
    /\ task' = [task EXCEPT ![c] = "off"]
    /\ callid' = [callid EXCEPT ![c] = 0]
    /\ UNCHANGED <<parent, reader, conn, workers, pipes>>

\* future.cancel() ends the coroutine before run_cell hears of the timeout.
ReaderGivesUp(c) ==
    /\ BrokerTimeout
    /\ reader[c] = "serve" /\ task[c] = "running"
    /\ task' = [task EXCEPT ![c] = "off"]
    /\ callid' = [callid EXCEPT ![c] = 0]
    /\ reader' = [reader EXCEPT ![c] = "timeout"]
    /\ UNCHANGED <<parent, conn, workers, pipes>>

----------------------------------------------------------------------------
(* The workers: worker_main, the cell it runs and ChildBroker._rpc.        *)

WorkerBoots(w) ==
    /\ worker[w] = "boot"
    /\ worker' = [worker EXCEPT ![w] = "idle"]
    /\ UNCHANGED <<parent, readers, running, thread, calls, doomed, crashes, pipes>>

\* The namespace or the guards could not be set up.
WorkerFatal(w) ==
    /\ worker[w] = "boot" /\ crashes < MaxCrashes
    /\ worker' = [worker EXCEPT ![w] = "dead"]
    /\ crashes' = crashes + 1
    /\ up' = IF Open(w) THEN Send(up, w, Fatal) ELSE up
    /\ UNCHANGED <<parent, readers, running, thread, calls, doomed, down>>

\* The op loop takes a request.  One without an op it knows is answered as such.
WorkerTakes(w) ==
    /\ worker[w] = "idle" /\ down[w] # <<>>
    /\ down' = Pop(down, w)
    /\ LET m == Head(down[w])
       IN  /\ worker' = [worker EXCEPT ![w] = CASE m.op = "run" -> "busy"
                                              [] m.op = "shutdown" -> "dead"
                                              [] OTHER -> IF Open(w) THEN "idle" ELSE "dead"]
           /\ running' = [running EXCEPT ![w] = IF m.op = "run" THEN m.id ELSE None]
           /\ up' = IF m.op = "tool_result" /\ Open(w) THEN Send(up, w, Response(None)) ELSE up
    /\ UNCHANGED <<parent, readers, thread, calls, doomed, crashes>>

\* The cell uses self.*: _rpc sends the call and waits, under _send_lock.
WorkerCalls(w) ==
    /\ worker[w] = "busy" /\ thread[w] # "call" /\ Open(w)
    /\ calls[w] < MaxCalls
    /\ calls' = [calls EXCEPT ![w] = @ + 1]
    /\ worker' = [worker EXCEPT ![w] = "call"]
    /\ up' = Send(up, w, ToolCall(calls[w] + 1))
    /\ UNCHANGED <<parent, readers, running, thread, doomed, crashes, down>>

\* Whatever arrives ends the call, as its result or as an unexpected response.
WorkerGets(w) ==
    /\ worker[w] = "call" /\ down[w] # <<>>
    /\ worker' = [worker EXCEPT ![w] = "busy"]
    /\ down' = Pop(down, w)
    /\ UNCHANGED <<parent, readers, running, thread, calls, doomed, crashes, up>>

\* The answer is sent; on a closed pipe the send raises and the worker ends.
WorkerFinishes(w) ==
    /\ worker[w] = "busy"
    /\ worker' = [worker EXCEPT ![w] = IF Open(w) THEN "idle" ELSE "dead"]
    /\ running' = [running EXCEPT ![w] = None]
    /\ up' = IF Open(w) THEN Send(up, w, Response(running[w])) ELSE up
    /\ UNCHANGED <<parent, readers, thread, calls, doomed, crashes, down>>

\* The end of the pipe: the op loop returns, a call fails.
WorkerHangsUp(w) ==
    /\ worker[w] \in {"idle", "call"} /\ ~Open(w) /\ down[w] = <<>>
    /\ worker' = [worker EXCEPT ![w] = IF @ = "idle" THEN "dead" ELSE "busy"]
    /\ UNCHANGED <<parent, readers, running, thread, calls, doomed, crashes, pipes>>

WorkerCrashes(w) ==
    /\ Alive(w) /\ crashes < MaxCrashes
    /\ worker' = [worker EXCEPT ![w] = "dead"]
    /\ crashes' = crashes + 1
    /\ UNCHANGED <<parent, readers, running, thread, calls, doomed, pipes>>

\* terminate(), and kill() a second later.
WorkerKilled(w) ==
    /\ w \in doomed /\ Alive(w)
    /\ worker' = [worker EXCEPT ![w] = "dead"]
    /\ UNCHANGED <<parent, readers, running, thread, calls, doomed, crashes, pipes>>

\* A cell leaves a thread behind; _send_lock keeps the thread's calls apart
\* from the calls of later cells, but the op loop's recv() does not take it.
ThreadStarts(w) ==
    /\ Lingers /\ worker[w] = "busy" /\ thread[w] = "off"
    /\ thread' = [thread EXCEPT ![w] = "on"]
    /\ UNCHANGED <<parent, readers, worker, running, calls, doomed, crashes, pipes>>

ThreadCalls(w) ==
    /\ thread[w] = "on" /\ Alive(w) /\ worker[w] # "call" /\ Open(w)
    /\ calls[w] < MaxCalls
    /\ calls' = [calls EXCEPT ![w] = @ + 1]
    /\ thread' = [thread EXCEPT ![w] = "call"]
    /\ up' = Send(up, w, ToolCall(calls[w] + 1))
    /\ UNCHANGED <<parent, readers, worker, running, doomed, crashes, down>>

ThreadGets(w) ==
    /\ thread[w] = "call" /\ Alive(w) /\ down[w] # <<>>
    /\ thread' = [thread EXCEPT ![w] = "on"]
    /\ down' = Pop(down, w)
    /\ UNCHANGED <<parent, readers, worker, running, calls, doomed, crashes, up>>

----------------------------------------------------------------------------
ParentStep(c) ==
    \/ RunCell(c) \/ RunDisabled(c) \/ RunStarts(c) \/ RunSendFails(c)
    \/ CellReturns(c) \/ CellKills(c) \/ CellReplaces(c) \/ CellRestarts(c) \/ CellRaises(c)
    \/ CancelCell(c) \/ CallRuns(c)

CloseStep ==
    \/ Aclose \/ CloseSends \/ CloseFindsNone \/ CloseJoins \/ CloseEnds
    \/ CancelClose \/ CloseSync

ReaderStep(c) ==
    \/ ReaderLooks(c) \/ ReaderDeadline(c) \/ ReaderPolls(c) \/ ReaderChecks(c)
    \/ ReaderHangsUp(c) \/ ReaderTakesCall(c) \/ ReaderTakesOther(c) \/ ReaderRefuses(c)
    \/ ReaderReplies(c) \/ ReaderGivesUp(c)

WorkerStep(w) ==
    \/ WorkerBoots(w) \/ WorkerFatal(w) \/ WorkerTakes(w) \/ WorkerCalls(w) \/ WorkerGets(w)
    \/ WorkerFinishes(w) \/ WorkerHangsUp(w) \/ WorkerCrashes(w) \/ WorkerKilled(w)
    \/ ThreadStarts(w) \/ ThreadCalls(w) \/ ThreadGets(w)

Next ==
    \/ CloseStep
    \/ \E c \in Cells : ParentStep(c) \/ ReaderStep(c)
    \/ \E w \in Workers : WorkerStep(w)

Spec == Init /\ [][Next]_vars

(***************************************************************************)
(* The loop runs its ready coroutines, the reader threads are scheduled,   *)
(* clocks advance (so that a reader that keeps coming round to look at its *)
(* deadline finds it passed), a worker reads its pipe and a signalled one  *)
(* dies.  Nothing is assumed of the code in the cell, which may run for    *)
(* ever, nor of the agent's methods.                                       *)
(***************************************************************************)
LoopSteps(c) ==
    RunDisabled(c) \/ RunStarts(c) \/ CellReturns(c) \/ CellKills(c) \/ CellReplaces(c) \/ CellRestarts(c) \/ CellRaises(c)

Fairness ==
    /\ \A c \in Cells :
        /\ WF_vars(LoopSteps(c))
        /\ WF_vars(ReaderStep(c))
        /\ SF_vars(ReaderDeadline(c))
    /\ WF_vars(CloseSends \/ CloseFindsNone \/ CloseJoins \/ CloseEnds)
    /\ \A w \in Workers :
        /\ WF_vars(WorkerKilled(w))
        /\ WF_vars(WorkerBoots(w) \/ WorkerTakes(w) \/ WorkerGets(w) \/ WorkerHangsUp(w))

FairSpec == Spec /\ Fairness

----------------------------------------------------------------------------
(* Properties.                                                             *)

\* Whoever reads the next message a worker was sent is the one it is for: the
\* op loop never sees the reply to a brokered call, and a brokered call never
\* sees a request or the reply to another call (worker.py, ChildBroker._rpc).
RepliesReachCallers ==
    /\ TypeOK
    /\ \A w \in Workers : Alive(w) /\ down[w] # <<>> =>
        /\ worker[w] = "idle" => Head(down[w]).op # "tool_result"
        /\ "call" \in {worker[w], thread[w]} => Head(down[w]) = ToolResult(calls[w])

\* A cell that takes the lock finds the worker at rest: no request, no answer
\* and no brokered call of an earlier cell is left in it or in its pipe.
CleanHandover ==
    lock = Free /\ ~closed /\ Alive(current) =>
        /\ worker[current] \in {"boot", "idle"}
        /\ down[current] = <<>> /\ up[current] = <<>>

\* Every worker that is alive is the attached one or has been signalled:
\* whatever fails, is cancelled or is closed, no process is forgotten.
NoOrphan == \A w \in Workers : Alive(w) => Open(w) \/ w \in doomed

\* A brokered call takes effect on the agent only while the run_cell it came
\* from is still waiting for its cell.
EffectsWhileAwaited ==
    [][\A c \in Cells : task[c] = "running" /\ task'[c] = "ready" => cell[c] = "receiving"]_vars

\* Once aclose or close_sync is over no worker is left but those that were
\* signalled, and the reader threads begin no further call on the agent, even
\* those that a cancelled run_cell left behind.
ClosedForGood ==
    /\ [](closer = "done" => \A w \in Workers : Alive(w) => w \in doomed)
    /\ [][closer = "done" => \A c \in Cells : task[c] = "off" => task'[c] = "off"]_vars

\* Every run_cell comes to an end, whatever the cell does and whichever worker
\* dies: "runs cells in it with a parent-enforced hard timeout".
CellsAnswered == \A c \in Cells : cell[c] = "waiting" ~> cell[c] \in Ended

\* Closing the executor leaves no worker behind: "Guarantee the sandbox worker
\* is torn down on EVERY exit" (codeact.py, execute).
TornDown == closed ~> \A w \in Workers : ~Alive(w)
============================================================================
