--------------------------- MODULE SandboxProofs ---------------------------
(***************************************************************************)
(* Proofs about the sandbox executor, for any number of cells, workers,    *)
(* brokered calls and crashes.                                             *)
(***************************************************************************)
EXTENDS Sandbox, QueueTheorems

Requests == {Shutdown} \cup {Run(c) : c \in Cells} \cup {ToolResult(n) : n \in 1..MaxCalls}
Answers  == {Fatal, Response(None)} \cup {Response(c) : c \in Cells} \cup {ToolCall(n) : n \in 1..MaxCalls}

----------------------------------------------------------------------------
(***************************************************************************)
(* Types, in the groups that the actors share.                             *)
(***************************************************************************)

ParentType ==
    /\ cell \in [Cells -> Ended \cup {"new", "waiting", "receiving", "restarting"}]
    /\ lock \in Cells \cup {Close, Free}
    /\ closed \in BOOLEAN /\ disabled \in BOOLEAN /\ recovery \in Recoveries
    /\ closer \in {"off", "waiting", "joining", "reaping", "done", "cancelled"}
    /\ started \in 0..MaxWorkers /\ current \in 0..started /\ victim \in 0..started
    /\ closed \/ closer = "off"

\* The coroutines that wait for the lock stand in its queue, each once.
QueueType ==
    /\ queue \in Seq(Cells \cup {Close})
    /\ \A i, j \in 1..Len(queue) : queue[i] = queue[j] => i = j
    /\ \A c \in Cells : c \in Members(queue) => cell[c] = "waiting"
    /\ Close \in Members(queue) => closer = "waiting"

\* A reader thread polls a connection, and a brokered call is in service while
\* its reader thread waits for it.
ReaderType ==
    /\ reader \in [Cells -> Outcomes \cup {"off", "look", "poll", "check", "recv", "serve"}]
    /\ conn \in [Cells -> Workers \cup {None}]
    /\ task \in [Cells -> {"off", "running", "ready"}]
    /\ callid \in [Cells -> 0..MaxCalls]
    /\ \A c \in Cells : /\ task[c] # "off" => reader[c] = "serve" /\ callid[c] > 0
                        /\ cell[c] \in {"new", "waiting"} => reader[c] = "off"
                        /\ reader[c] \in {"poll", "recv"} => conn[c] # None

WorkerType ==
    /\ worker \in [Workers -> {"none", "boot", "idle", "busy", "call", "dead"}]
    /\ \A w \in Workers : (worker[w] = "none") <=> (w > started)
    /\ running \in [Workers -> Cells \cup {None}]
    /\ thread \in [Workers -> {"off", "on", "call"}]
    /\ calls \in [Workers -> 0..MaxCalls]
    /\ doomed \subseteq 1..started
    /\ crashes \in 0..MaxCrashes

PipeType == down \in [Workers -> Seq(Requests)] /\ up \in [Workers -> Seq(Answers)]

Types == ParentType /\ QueueType /\ ReaderType /\ WorkerType /\ PipeType

\* The bounds of the model.
LEMMA Bounds ==
  /\ MaxCells \in Nat /\ MaxWorkers \in Nat /\ MaxCalls \in Nat /\ MaxCrashes \in Nat
  /\ \A c \in Cells : c \in Int /\ c # Close /\ c # Free
  /\ Close # Free
BY BoundsAssumption DEF Cells, Close, Free

\* Messages are sent and taken without spoiling a pipe.
LEMMA PipeKept ==
  ASSUME NEW S, NEW pipe \in [Workers -> Seq(S)], NEW w \in Workers
  PROVE  /\ \A m \in S : Send(pipe, w, m) \in [Workers -> Seq(S)]
         /\ pipe[w] # <<>> => Pop(pipe, w) \in [Workers -> Seq(S)] /\ Head(pipe[w]) \in S
         /\ [pipe EXCEPT ![w] = <<>>] \in [Workers -> Seq(S)]
<1>1. pipe[w] \in Seq(S) /\ <<>> \in Seq(S)
  OBVIOUS
<1>2. \A m \in S : Append(pipe[w], m) \in Seq(S)
  BY <1>1, AppendProperties
<1>3. pipe[w] # <<>> => Tail(pipe[w]) \in Seq(S) /\ Head(pipe[w]) \in S
  BY <1>1, HeadTailProperties
<1> QED
  BY <1>1, <1>2, <1>3 DEF Send, Pop

\* So is the closing of the pipe of the attached worker.
LEMMA DetachedKept ==
  ASSUME ParentType, NEW S, NEW pipe \in [Workers -> Seq(S)]
  PROVE  Detached(pipe) \in [Workers -> Seq(S)]
<1>1. current # None => current \in Workers
  BY Bounds DEF ParentType, Workers, None
<1> QED
  BY <1>1, PipeKept DEF Detached

\* What the reader threads and the workers read.
LEMMA MessageShape ==
  /\ \A m \in Requests : /\ m.op = "run" => m.id \in Cells /\ m = Run(m.id)
                         /\ m.op = "tool_result" => m.id \in 1..MaxCalls
  /\ \A m \in Answers : m.type = "tool_call" => m.id \in 1..MaxCalls
BY DEF Requests, Answers, Run, Shutdown, ToolResult, ToolCall, Response, Fatal

\* Types says what TypeOK says: the queue cannot be longer than there are
\* coroutines.
LEMMA TypesAreOK ==
  ASSUME Types PROVE TypeOK
<1>1. Len(queue) <= MaxCells + 1
  <2>1. Len(queue) = Cardinality(Members(queue))
    BY DistinctLength DEF Types, QueueType
  <2>2. Members(queue) \subseteq Cells \cup {Close}
    BY ElementOfSeq DEF Types, QueueType, Members
  <2>3. IsFiniteSet(Cells) /\ Cardinality(Cells) = MaxCells
    BY FS_Interval, BoundsAssumption DEF Cells
  <2>4. IsFiniteSet(Cells \cup {Close}) /\ Cardinality(Cells \cup {Close}) = MaxCells + 1
    BY <2>3, Bounds, FS_AddElement
  <2> QED
    BY <2>1, <2>2, <2>4, FS_Subset
<1>2. \A w \in Workers : /\ \A i \in DOMAIN down[w] : down[w][i] \in Requests
                         /\ \A i \in DOMAIN up[w] : up[w][i] \in Answers
  <2> SUFFICES ASSUME NEW w \in Workers
               PROVE  /\ \A i \in DOMAIN down[w] : down[w][i] \in Requests
                      /\ \A i \in DOMAIN up[w] : up[w][i] \in Answers
    OBVIOUS
  <2>1. down[w] \in Seq(Requests) /\ up[w] \in Seq(Answers)
    BY DEF Types, PipeType
  <2> QED
    BY <2>1, LenProperties, ElementOfSeq
<1> QED
  BY <1>1, <1>2 DEF Types, ParentType, QueueType, ReaderType, WorkerType, TypeOK, Requests, Answers

\* Who is at the lock waits for it.
LEMMA LockServes ==
  ASSUME Types, NEW c, AtLock(c)
  PROVE  /\ c \in Cells => cell[c] = "waiting" /\ reader[c] = "off" /\ task[c] = "off"
         /\ c = Close => closer = "waiting"
         /\ Tail(queue) \in Seq(Cells \cup {Close})
         /\ Members(Tail(queue)) = Members(queue) \ {c}
         /\ \A i, j \in 1..Len(Tail(queue)) : Tail(queue)[i] = Tail(queue)[j] => i = j
<1>1. /\ Head(queue) \in Members(queue)
      /\ Tail(queue) \in Seq(Cells \cup {Close})
      /\ Members(Tail(queue)) = Members(queue) \ {c}
      /\ \A i, j \in 1..Len(Tail(queue)) : Tail(queue)[i] = Tail(queue)[j] => i = j
  BY ServedMembers DEF Types, QueueType, AtLock
<1>2. c \in Cells => cell[c] = "waiting"
  BY <1>1 DEF Types, QueueType, AtLock
<1>3. c = Close => closer = "waiting"
  BY <1>1 DEF Types, QueueType, AtLock
<1>4. c \in Cells => reader[c] = "off" /\ task[c] = "off"
  BY <1>2 DEF Types, ReaderType
<1> QED
  BY <1>1, <1>2, <1>3, <1>4
\* run_cell sends its request to the attached worker, or to one that is forked.
LEMMA StartCases ==
  ASSUME Types, NEW c \in Cells, RunStarts(c)
  PROVE  \/ /\ Alive(current) /\ current \in Workers
            /\ UNCHANGED <<current, started, worker, up>>
            /\ down' = Send(down, current, Run(c))
         \/ /\ ~Alive(current) /\ started + 1 \in Workers
            /\ current' = started + 1 /\ started' = started + 1
            /\ worker' = [worker EXCEPT ![started + 1] = "boot"]
            /\ down' = Send(down, started + 1, Run(c))
            /\ up' = Detached(up)
<1>1. started \in Nat /\ current \in 0..started /\ started \in 0..MaxWorkers
  BY Bounds DEF Types, ParentType
<1>2. CASE Alive(current)
  <2>1. current \in Workers /\ ~(current > started)
    BY <1>1, <1>2, Bounds DEF Alive, Workers, None
  <2> QED
    BY <1>2, <2>1 DEF RunStarts
<1>3. CASE ~Alive(current)
  <2>1. started + 1 > started
    BY <1>1
  <2> QED
    BY <1>3, <2>1 DEF RunStarts
<1> QED
  BY <1>2, <1>3

\* A worker that is replaced leaves the types as they are.
LEMMA RestartTypes ==
  ASSUME Types, Restart
  PROVE  /\ recovery' \in Recoveries /\ disabled' \in BOOLEAN
         /\ started' \in 0..MaxWorkers /\ current' \in 0..started' /\ started <= started'
         /\ worker' \in [Workers -> {"none", "boot", "idle", "busy", "call", "dead"}]
         /\ \A w \in Workers : (worker'[w] = "none") <=> (w > started')
<1>1. /\ started \in Nat /\ started \in 0..MaxWorkers
      /\ recovery \in Recoveries /\ disabled \in BOOLEAN
      /\ worker \in [Workers -> {"none", "boot", "idle", "busy", "call", "dead"}]
      /\ \A w \in Workers : (worker[w] = "none") <=> (w > started)
  BY Bounds DEF Types, ParentType, WorkerType
<1>2. CASE /\ started < MaxWorkers
           /\ started' = started + 1 /\ current' = started + 1
           /\ worker' = [worker EXCEPT ![started + 1] = "boot"]
           /\ disabled' = disabled /\ recovery' = recovery
  <2>1. started + 1 \in Workers /\ started' \in 0..MaxWorkers /\ current' \in 0..started'
    BY <1>1, <1>2, Bounds DEF Workers
  <2>2. \A w \in Workers : w \in Int
    BY Bounds DEF Workers
  <2>3. \A w \in Workers : (w > started + 1) <=> (w > started /\ w # started + 1)
    BY <1>1, <2>2
  <2>4. \A w \in Workers : (worker'[w] = "none") <=> (w > started')
    BY <1>1, <1>2, <2>1, <2>3
  <2> QED
    BY <1>1, <1>2, <2>1, <2>4
<1>3. CASE current' = None /\ disabled' = TRUE /\ started' = started /\ worker' = worker /\ recovery' = recovery
  BY <1>1, <1>3 DEF None
<1> QED
  BY <1>2, <1>3 DEF Restart
\* The parent's steps for a cell keep the types.
LEMMA ParentTypes ==
  ASSUME Types, NEW c \in Cells, ParentStep(c)
  PROVE  Types'
<1> USE Bounds DEF Types, Ended, Outcomes
<1>1. CASE RunCell(c)
  <2>1. c \notin Members(queue)
    BY <1>1 DEF RunCell, QueueType
  <2>2. CASE closed
    <3>1. ParentType' /\ QueueType'
      BY <1>1, <2>2 DEF RunCell, ParentType, QueueType
    <3>2. ReaderType'
      BY <1>1, <2>2 DEF RunCell, ParentType, ReaderType, readers
    <3> QED
      BY <1>1, <3>1, <3>2 DEF RunCell, WorkerType, PipeType, workers, pipes
  <2>3. CASE ~closed
    <3>1. /\ Append(queue, c) \in Seq(Cells \cup {Close})
          /\ Members(Append(queue, c)) = Members(queue) \cup {c}
          /\ \A i, j \in 1..Len(Append(queue, c)) : Append(queue, c)[i] = Append(queue, c)[j] => i = j
      BY <2>1, JoinedMembers DEF QueueType
    <3>2. QueueType'
      <4>1. queue' = Append(queue, c) /\ cell' = [cell EXCEPT ![c] = "waiting"] /\ closer' = closer
        BY <1>1, <2>3 DEF RunCell
      <4>2. Members(queue') = Members(queue) \cup {c} /\ queue' \in Seq(Cells \cup {Close})
        BY <3>1, <4>1
      <4>3. \A i, j \in 1..Len(queue') : queue'[i] = queue'[j] => i = j
        BY <3>1, <4>1
      <4>4. /\ \A d \in Cells : d \in Members(queue') => cell'[d] = "waiting"
            /\ Close \in Members(queue') => closer' = "waiting"
        BY <4>1, <4>2 DEF ParentType, QueueType
      <4> QED
        BY <4>2, <4>3, <4>4 DEF QueueType
    <3>3. ParentType' /\ ReaderType'
      <4>1. cell' = [cell EXCEPT ![c] = "waiting"] /\ cell[c] = "new" /\ UNCHANGED readers
        BY <1>1, <2>3 DEF RunCell
      <4>2. ParentType'
        BY <1>1, <4>1 DEF RunCell, ParentType
      <4> QED
        BY <4>1, <4>2 DEF ParentType, ReaderType, readers
    <3> QED
      BY <1>1, <3>2, <3>3 DEF RunCell, WorkerType, PipeType, workers, pipes
  <2> QED
    BY <2>2, <2>3
<1>2. CASE RunDisabled(c)
  <2>1. QueueType'
    BY <1>2, LockServes DEF RunDisabled, ParentType, QueueType
  <2> QED
    BY <1>2, <2>1, LockServes DEF RunDisabled, ParentType, ReaderType, WorkerType, PipeType, readers, workers, pipes
<1>3. CASE RunStarts(c)
  <2>1. QueueType'
    BY <1>3, LockServes DEF RunStarts, ParentType, QueueType
  <2>2. ReaderType'
    BY <1>3, LockServes DEF RunStarts, ParentType, ReaderType
  <2>3. Run(c) \in Requests
    BY DEF Requests
  <2>4. cell' = [cell EXCEPT ![c] = "receiving"] /\ lock' = c
    BY <1>3 DEF RunStarts
  <2>5. UNCHANGED <<closed, closer, disabled, recovery, victim, running, thread, calls, doomed, crashes>>
    BY <1>3 DEF RunStarts
  <2>6. CASE /\ Alive(current) /\ current \in Workers
             /\ UNCHANGED <<current, started, worker, up>>
             /\ down' = Send(down, current, Run(c))
    <3>1. ParentType' /\ WorkerType'
      BY <2>4, <2>5, <2>6 DEF ParentType, WorkerType
    <3>2. PipeType'
      BY <2>3, <2>6, PipeKept DEF PipeType
    <3> QED
      BY <2>1, <2>2, <3>1, <3>2
  <2>7. CASE /\ started + 1 \in Workers
             /\ current' = started + 1 /\ started' = started + 1
             /\ worker' = [worker EXCEPT ![started + 1] = "boot"]
             /\ down' = Send(down, started + 1, Run(c))
             /\ up' = Detached(up)
    <3>1. ParentType'
      BY <2>4, <2>5, <2>7 DEF ParentType, Workers
    <3>2. WorkerType'
      <4>1. \A w \in Workers : (w > started + 1) <=> (w > started /\ w # started + 1)
        BY DEF ParentType, Workers
      <4>2. doomed' \subseteq 1..started'
        BY <2>5, <2>7 DEF ParentType, WorkerType
      <4> QED
        BY <2>5, <2>7, <4>1, <4>2 DEF ParentType, WorkerType
    <3>3. PipeType'
      BY <2>3, <2>7, PipeKept, DetachedKept DEF PipeType
    <3> QED
      BY <2>1, <2>2, <3>1, <3>2, <3>3
  <2> QED
    BY <1>3, <2>6, <2>7, StartCases
<1>4. CASE RunSendFails(c)
  <2>1. QueueType'
    BY <1>4, LockServes DEF RunSendFails, ParentType, QueueType
  <2>2. ReaderType'
    BY <1>4, LockServes DEF RunSendFails, ParentType, ReaderType, readers
  <2>3. ParentType'
    BY <1>4, RestartTypes DEF RunSendFails, ParentType
  <2>4. WorkerType'
    BY <1>4, RestartTypes DEF RunSendFails, ParentType, WorkerType
  <2>5. PipeType'
    BY <1>4, DetachedKept DEF RunSendFails, PipeType
  <2> QED
    BY <2>1, <2>2, <2>3, <2>4, <2>5
<1>5. CASE CellReturns(c)
  <2>1. ParentType' /\ QueueType' /\ ReaderType'
    BY <1>5 DEF CellReturns, ParentType, QueueType, ReaderType
  <2> QED
    BY <1>5, <2>1 DEF CellReturns, WorkerType, PipeType, workers, pipes
<1>6. CASE CellKills(c)
  <2>1. ParentType' /\ QueueType'
    BY <1>6 DEF CellKills, Failed, None, ParentType, QueueType
  <2>2. ReaderType'
    BY <1>6 DEF CellKills, Failed, ParentType, ReaderType
  <2>3. WorkerType'
    BY <1>6 DEF CellKills, Failed, Alive, None, ParentType, WorkerType
  <2>4. PipeType'
    BY <1>6, DetachedKept DEF CellKills, PipeType
  <2> QED
    BY <2>1, <2>2, <2>3, <2>4
<1>7. CASE CellReplaces(c)
  <2>1. ParentType'
    BY <1>7, RestartTypes DEF CellReplaces, Failed, ParentType
  <2>5. QueueType'
    BY <1>7 DEF CellReplaces, Failed, QueueType
  <2>2. ReaderType'
    BY <1>7 DEF CellReplaces, Failed, ReaderType
  <2>3. WorkerType'
    BY <1>7, RestartTypes DEF CellReplaces, ParentType, WorkerType
  <2>4. PipeType'
    BY <1>7, DetachedKept DEF CellReplaces, PipeType
  <2> QED
    BY <2>1, <2>2, <2>3, <2>4, <2>5
<1>8. CASE CellRestarts(c)
  <2>1. ParentType'
    BY <1>8, RestartTypes DEF CellRestarts, None, ParentType
  <2>2. QueueType'
    BY <1>8 DEF CellRestarts, QueueType
  <2>3. ReaderType'
    BY <1>8 DEF CellRestarts, ReaderType, readers
  <2>4. WorkerType'
    BY <1>8, RestartTypes DEF CellRestarts, ParentType, WorkerType
  <2>5. PipeType'
    BY <1>8 DEF CellRestarts, PipeType, pipes
  <2> QED
    BY <2>1, <2>2, <2>3, <2>4, <2>5
<1>9. CASE CellRaises(c)
  <2>1. ParentType' /\ QueueType' /\ ReaderType'
    BY <1>9 DEF CellRaises, ParentType, QueueType, ReaderType
  <2> QED
    BY <1>9, <2>1 DEF CellRaises, WorkerType, PipeType, workers, pipes
<1>10. CASE CancelCell(c)
  <2>1. /\ Without(queue, c) \in Seq(Cells \cup {Close})
        /\ Members(Without(queue, c)) = Members(queue) \ {c}
        /\ \A i, j \in 1..Len(Without(queue, c)) : Without(queue, c)[i] = Without(queue, c)[j] => i = j
    <3>1. CASE c \in Members(queue)
      BY <3>1, WithoutType, WithoutMembers DEF QueueType
    <3>2. CASE c \notin Members(queue)
      BY <3>2 DEF QueueType, Without
    <3> QED
      BY <3>1, <3>2
  <2>2. QueueType'
    BY <1>10, <2>1 DEF CancelCell, ParentType, QueueType
  <2>3. ParentType'
    BY <1>10 DEF CancelCell, ParentType, None
  <2>4. ReaderType'
    BY <1>10 DEF CancelCell, ParentType, ReaderType, readers
  <2> QED
    BY <1>10, <2>2, <2>3, <2>4 DEF CancelCell, WorkerType, PipeType, workers, pipes
<1>11. CASE CallRuns(c)
  BY <1>11 DEF CallRuns, ParentType, QueueType, ReaderType, WorkerType, PipeType, parent, workers, pipes
<1> QED
  BY <1>1, <1>2, <1>3, <1>4, <1>5, <1>6, <1>7, <1>8, <1>9, <1>10, <1>11 DEF ParentStep
\* So do the steps of aclose and close_sync.
LEMMA CloseTypes ==
  ASSUME Types, CloseStep
  PROVE  Types'
<1> USE Bounds DEF Types
<1>1. CASE Aclose
  <2>1. Close \notin Members(queue)
    BY <1>1 DEF Aclose, ParentType, QueueType
  <2>2. /\ Append(queue, Close) \in Seq(Cells \cup {Close})
        /\ Members(Append(queue, Close)) = Members(queue) \cup {Close}
        /\ \A i, j \in 1..Len(Append(queue, Close)) : Append(queue, Close)[i] = Append(queue, Close)[j] => i = j
    BY <2>1, JoinedMembers DEF QueueType
  <2>3. queue' = Append(queue, Close) /\ closer' = "waiting" /\ cell' = cell
    BY <1>1 DEF Aclose
  <2>4. Members(queue') = Members(queue) \cup {Close} /\ queue' \in Seq(Cells \cup {Close})
    BY <2>2, <2>3
  <2>5. \A i, j \in 1..Len(queue') : queue'[i] = queue'[j] => i = j
    BY <2>2, <2>3
  <2>6. QueueType'
    BY <2>3, <2>4, <2>5 DEF QueueType
  <2>7. ParentType' /\ ReaderType'
    BY <1>1 DEF Aclose, ParentType, ReaderType, readers
  <2> QED
    BY <1>1, <2>6, <2>7 DEF Aclose, WorkerType, PipeType, workers, pipes
<1>2. CASE CloseSends
  <2>1. QueueType'
    BY <1>2, LockServes DEF CloseSends, QueueType
  <2>2. ParentType' /\ ReaderType'
    BY <1>2, LockServes DEF CloseSends, ParentType, ReaderType, readers
  <2>3. current \in Workers /\ Shutdown \in Requests
    BY <1>2 DEF CloseSends, Alive, None, Workers, ParentType, Requests
  <2>4. PipeType'
    BY <1>2, <2>3, PipeKept DEF CloseSends, PipeType
  <2> QED
    BY <1>2, <2>1, <2>2, <2>4 DEF CloseSends, WorkerType, workers
<1>3. CASE CloseFindsNone
  <2>1. QueueType'
    BY <1>3, LockServes DEF CloseFindsNone, QueueType
  <2>2. ParentType' /\ ReaderType'
    BY <1>3, LockServes DEF CloseFindsNone, None, ParentType, ReaderType, readers
  <2>3. PipeType'
    BY <1>3, DetachedKept DEF CloseFindsNone, PipeType
  <2> QED
    BY <1>3, <2>1, <2>2, <2>3 DEF CloseFindsNone, WorkerType, workers
<1>4. CASE CloseJoins
  <2>0. ParentType'
    BY <1>4 DEF CloseJoins, None, ParentType
  <2>1. ParentType' /\ QueueType' /\ ReaderType'
    BY <1>4, <2>0 DEF CloseJoins, ParentType, QueueType, ReaderType, readers
  <2>2. WorkerType'
    <3>1. Alive(current) => current \in 1..started
      BY DEF Alive, None, ParentType
    <3>2. doomed' \subseteq 1..started /\ started' = started
      BY <1>4, <3>1 DEF CloseJoins, WorkerType
    <3>3. UNCHANGED <<worker, running, thread, calls, crashes>>
      BY <1>4 DEF CloseJoins
    <3> QED
      BY <3>2, <3>3 DEF WorkerType
  <2>3. PipeType'
    BY <1>4, DetachedKept DEF CloseJoins, PipeType
  <2> QED
    BY <2>1, <2>2, <2>3
<1>5. CASE CloseEnds
  <2>1. ParentType' /\ QueueType' /\ ReaderType'
    BY <1>5 DEF CloseEnds, None, ParentType, QueueType, ReaderType, readers
  <2> QED
    BY <1>5, <2>1 DEF CloseEnds, WorkerType, PipeType, workers, pipes
<1>6. CASE CancelClose
  <2>1. /\ Without(queue, Close) \in Seq(Cells \cup {Close})
        /\ Members(Without(queue, Close)) = Members(queue) \ {Close}
        /\ \A i, j \in 1..Len(Without(queue, Close)) : Without(queue, Close)[i] = Without(queue, Close)[j] => i = j
    <3>1. CASE Close \in Members(queue)
      BY <3>1, WithoutType, WithoutMembers DEF QueueType
    <3>2. CASE Close \notin Members(queue)
      BY <3>2 DEF QueueType, Without
    <3> QED
      BY <3>1, <3>2
  <2>2. QueueType'
    BY <1>6, <2>1 DEF CancelClose, QueueType
  <2>3. ParentType'
    BY <1>6 DEF CancelClose, None, ParentType
  <2>4. ReaderType'
    BY <1>6 DEF CancelClose, ReaderType, readers
  <2> QED
    BY <1>6, <2>2, <2>3, <2>4 DEF CancelClose, WorkerType, PipeType, workers, pipes
<1>7. CASE CloseSync
  <2>0. ParentType'
    BY <1>7 DEF CloseSync, None, ParentType
  <2>1. ParentType' /\ QueueType' /\ ReaderType'
    BY <1>7, <2>0 DEF CloseSync, ParentType, QueueType, ReaderType, readers
  <2>2. WorkerType'
    <3>1. current # None => current \in Workers /\ ~(current > started)
      BY DEF None, ParentType, Workers
    <3>2. UNCHANGED <<started, running, thread, calls, doomed, crashes>>
      BY <1>7 DEF CloseSync
    <3>3. worker' = IF current = None THEN worker ELSE [worker EXCEPT ![current] = "dead"]
      BY <1>7 DEF CloseSync
    <3> QED
      BY <3>1, <3>2, <3>3 DEF WorkerType
  <2>3. PipeType'
    BY <1>7, DetachedKept DEF CloseSync, PipeType
  <2> QED
    BY <2>1, <2>2, <2>3
<1> QED
  BY <1>1, <1>2, <1>3, <1>4, <1>5, <1>6, <1>7 DEF CloseStep

\* A reader thread takes a message of the attached worker.
LEMMA ReceivedShape ==
  ASSUME Types, NEW c \in Cells, Receives(c)
  PROVE  /\ current \in Workers /\ conn[c] = current
         /\ Head(up[current]) \in Answers
         /\ Pop(up, current) \in [Workers -> Seq(Answers)]
<1>1. conn[c] = current /\ up[current] # <<>>
  BY DEF Receives, Open
<1>2. current \in Workers
  <2>1. conn[c] \in Workers \cup {None}
    BY DEF Types, ReaderType
  <2> QED
    BY <1>1, <2>1 DEF Receives, Types, ReaderType
<1> QED
  BY <1>1, <1>2, PipeKept DEF Types, PipeType

\* The steps of the reader threads keep the types.
LEMMA ReaderTypes ==
  ASSUME Types, NEW c \in Cells, ReaderStep(c)
  PROVE  Types'
<1> USE Bounds DEF Types, Outcomes
<1>0. ParentType' /\ QueueType' /\ WorkerType'
  <2>1. UNCHANGED <<parent, workers>>
    BY DEF ReaderStep, ReaderLooks, ReaderDeadline, ReaderPolls, ReaderChecks, ReaderHangsUp,
           ReaderTakesCall, ReaderTakesOther, ReaderRefuses, ReaderReplies, ReaderGivesUp
  <2> QED
    BY <2>1 DEF parent, workers, ParentType, QueueType, WorkerType
<1>1. CASE ReaderLooks(c)
  <2>1. current # None => current \in Workers
    BY DEF ParentType, Workers, None
  <2>2. ReaderType'
    BY <1>1, <2>1 DEF ReaderLooks, parent, ReaderType
  <2> QED
    BY <1>0, <1>1, <2>2 DEF ReaderLooks, PipeType, pipes
<1>2. CASE ReaderDeadline(c)
  BY <1>0, <1>2 DEF ReaderDeadline, parent, ReaderType, PipeType, pipes
<1>3. CASE ReaderPolls(c)
  BY <1>0, <1>3 DEF ReaderPolls, parent, ReaderType, PipeType, pipes
<1>4. CASE ReaderChecks(c)
  BY <1>0, <1>4 DEF ReaderChecks, parent, ReaderType, PipeType, pipes
<1>5. CASE ReaderHangsUp(c)
  BY <1>0, <1>5 DEF ReaderHangsUp, parent, ReaderType, PipeType, pipes
<1>6. CASE ReaderTakesCall(c)
  <2>1. Receives(c) /\ conn[c] = current
    BY <1>6, ReceivedShape DEF ReaderTakesCall
  <2>2. Head(up[current]).id \in 1..MaxCalls
    BY <1>6, <2>1, ReceivedShape, MessageShape DEF ReaderTakesCall
  <2>3. callid' = [callid EXCEPT ![c] = Head(up[current]).id]
    BY <1>6, <2>1 DEF ReaderTakesCall
  <2>4. PICK t \in {"running", "ready"} : task' = [task EXCEPT ![c] = t]
    BY <1>6 DEF ReaderTakesCall
  <2>5. reader' = [reader EXCEPT ![c] = "serve"] /\ UNCHANGED <<parent, conn>> /\ reader[c] = "recv"
    BY <1>6 DEF ReaderTakesCall, Receives
  <2>6. ReaderType'
    BY <2>2, <2>3, <2>4, <2>5 DEF ReaderType, parent
  <2>7. PipeType'
    BY <1>6, <2>1, ReceivedShape DEF ReaderTakesCall, PipeType
  <2> QED
    BY <1>0, <2>6, <2>7
<1>7. CASE ReaderTakesOther(c) \/ ReaderRefuses(c)
  <2>1. Receives(c) /\ conn[c] = current
    BY <1>7, ReceivedShape DEF ReaderTakesOther, ReaderRefuses
  <2>2. \E r \in {"died", "result", "look"} : reader' = [reader EXCEPT ![c] = r]
    BY <1>7 DEF ReaderTakesOther, ReaderRefuses
  <2>3. UNCHANGED <<parent, conn, task, callid>> /\ reader[c] = "recv"
    BY <1>7 DEF ReaderTakesOther, ReaderRefuses, Receives
  <2>4. ReaderType'
    BY <2>2, <2>3 DEF ReaderType, parent
  <2>5. PipeType'
    BY <1>7, <2>1, ReceivedShape DEF ReaderTakesOther, ReaderRefuses, PipeType
  <2> QED
    BY <1>0, <2>4, <2>5
<1>8. CASE ReaderReplies(c)
  <2>1. ReaderType'
    BY <1>8 DEF ReaderReplies, ReaderType, parent
  <2>2. callid[c] \in 1..MaxCalls
    BY <1>8 DEF ReaderReplies, ReaderType
  <2>3. ToolResult(callid[c]) \in Requests
    BY <2>2 DEF Requests
  <2>4. Alive(current) => current \in Workers
    BY DEF ParentType, Workers, None, Alive
  <2>5. PipeType'
    BY <1>8, <2>3, <2>4, PipeKept DEF ReaderReplies, PipeType
  <2> QED
    BY <1>0, <2>1, <2>5
<1>9. CASE ReaderGivesUp(c)
  BY <1>0, <1>9 DEF ReaderGivesUp, parent, ReaderType, PipeType, pipes
<1> QED
  BY <1>1, <1>2, <1>3, <1>4, <1>5, <1>6, <1>7, <1>8, <1>9 DEF ReaderStep

\* The steps of the workers keep the types.
LEMMA WorkerTypes ==
  ASSUME Types, NEW w \in Workers, WorkerStep(w)
  PROVE  Types'
<1> USE Bounds DEF Types
<1>0. ParentType' /\ QueueType' /\ ReaderType'
  <2>1. UNCHANGED <<parent, readers>>
    BY DEF WorkerStep, WorkerBoots, WorkerFatal, WorkerTakes, WorkerCalls, WorkerGets, WorkerFinishes,
           WorkerHangsUp, WorkerCrashes, WorkerKilled, ThreadStarts, ThreadCalls, ThreadGets
  <2> QED
    BY <2>1 DEF parent, readers, ParentType, QueueType, ReaderType
<1>1. started' = started /\ started \in Nat
  <2>1. UNCHANGED parent
    BY DEF WorkerStep, WorkerBoots, WorkerFatal, WorkerTakes, WorkerCalls, WorkerGets, WorkerFinishes,
           WorkerHangsUp, WorkerCrashes, WorkerKilled, ThreadStarts, ThreadCalls, ThreadGets
  <2> QED
    BY <2>1 DEF parent, ParentType
<1>2. \A v \in {"boot", "idle", "busy", "call", "dead"} :
        worker[w] # "none" /\ worker' = [worker EXCEPT ![w] = v] =>
          /\ worker' \in [Workers -> {"none", "boot", "idle", "busy", "call", "dead"}]
          /\ \A x \in Workers : (worker'[x] = "none") <=> (x > started')
  BY <1>1 DEF WorkerType
<1>3. CASE WorkerBoots(w)
  BY <1>0, <1>1, <1>2, <1>3 DEF WorkerBoots, WorkerType, PipeType, pipes
<1>4. CASE WorkerFatal(w)
  <2>1. crashes' \in 0..MaxCrashes
    BY <1>4 DEF WorkerFatal, WorkerType
  <2>2. WorkerType'
    BY <1>1, <1>2, <1>4, <2>1 DEF WorkerFatal, WorkerType
  <2>3. Fatal \in Answers
    BY DEF Answers
  <2> QED
    BY <1>0, <1>4, <2>2, <2>3, PipeKept DEF WorkerFatal, PipeType
<1>5. CASE WorkerTakes(w)
  <2>1. Head(down[w]) \in Requests /\ Pop(down, w) \in [Workers -> Seq(Requests)]
    BY <1>5, PipeKept DEF WorkerTakes, PipeType
  <2>2. \E v \in {"boot", "idle", "busy", "call", "dead"} : worker' = [worker EXCEPT ![w] = v]
    BY <1>5 DEF WorkerTakes
  <2>3. \E r \in Cells \cup {None} : running' = [running EXCEPT ![w] = r]
    BY <1>5, <2>1, MessageShape DEF WorkerTakes
  <2>4. WorkerType'
    BY <1>1, <1>2, <1>5, <2>2, <2>3 DEF WorkerTakes, WorkerType
  <2>5. Response(None) \in Answers
    BY DEF Answers
  <2> QED
    BY <1>0, <1>5, <2>1, <2>4, <2>5, PipeKept DEF WorkerTakes, PipeType
<1>6. CASE WorkerCalls(w) \/ ThreadCalls(w)
  <2>1. calls[w] + 1 \in 1..MaxCalls /\ calls' = [calls EXCEPT ![w] = calls[w] + 1]
    BY <1>6 DEF WorkerCalls, ThreadCalls, WorkerType
  <2>2. WorkerType'
    <3>1. calls' \in [Workers -> 0..MaxCalls]
      BY <2>1 DEF WorkerType
    <3>2. CASE WorkerCalls(w)
      BY <1>1, <1>2, <3>1, <3>2 DEF WorkerCalls, WorkerType
    <3>3. CASE ThreadCalls(w)
      BY <1>1, <3>1, <3>3 DEF ThreadCalls, WorkerType
    <3> QED
      BY <1>6, <3>2, <3>3
  <2>3. ToolCall(calls[w] + 1) \in Answers
    BY <2>1 DEF Answers
  <2> QED
    BY <1>0, <1>6, <2>2, <2>3, PipeKept DEF WorkerCalls, ThreadCalls, PipeType
<1>7. CASE WorkerGets(w) \/ ThreadGets(w)
  <2>1. WorkerType'
    BY <1>1, <1>2, <1>7 DEF WorkerGets, ThreadGets, WorkerType
  <2> QED
    BY <1>0, <1>7, <2>1, PipeKept DEF WorkerGets, ThreadGets, PipeType
<1>8. CASE WorkerFinishes(w)
  <2>1. WorkerType'
    BY <1>1, <1>2, <1>8 DEF WorkerFinishes, WorkerType
  <2>2. Response(running[w]) \in Answers
    BY DEF Answers, WorkerType
  <2> QED
    BY <1>0, <1>8, <2>1, <2>2, PipeKept DEF WorkerFinishes, PipeType
<1>9. CASE WorkerHangsUp(w) \/ WorkerKilled(w)
  BY <1>0, <1>1, <1>2, <1>9 DEF WorkerHangsUp, WorkerKilled, Alive, WorkerType, PipeType, pipes
<1>10. CASE WorkerCrashes(w)
  <2>1. crashes' \in 0..MaxCrashes
    BY <1>10 DEF WorkerCrashes, WorkerType
  <2> QED
    BY <1>0, <1>1, <1>2, <1>10, <2>1 DEF WorkerCrashes, Alive, WorkerType, PipeType, pipes
<1>11. CASE ThreadStarts(w)
  BY <1>0, <1>1, <1>11 DEF ThreadStarts, WorkerType, PipeType, pipes
<1> QED
  BY <1>3, <1>4, <1>5, <1>6, <1>7, <1>8, <1>9, <1>10, <1>11 DEF WorkerStep

\* The types at the start.
LEMMA TypesInit ==
  ASSUME Init PROVE Types
<1>1. QueueType
  <2>1. queue = <<>> /\ Len(queue) = 0 /\ Members(queue) = {}
    BY ShortMembers DEF Init
  <2> QED
    BY <2>1 DEF QueueType
<1>2. ReaderType
  BY Bounds DEF Init, ReaderType, Outcomes, None
<1>5. ParentType
  <2>1. cell \in [Cells -> Ended \cup {"new", "waiting", "receiving", "restarting"}]
    BY DEF Init
  <2>2. started \in 0..MaxWorkers /\ current \in 0..started /\ victim \in 0..started
    BY Bounds DEF Init, None
  <2>3. closed \in BOOLEAN /\ disabled \in BOOLEAN /\ recovery \in Recoveries
    BY DEF Init
  <2>4. closer = "off" /\ lock = Free
    BY DEF Init
  <2> QED
    BY <2>1, <2>2, <2>3, <2>4 DEF ParentType
<1>3. WorkerType
  BY Bounds DEF Init, WorkerType, None, Workers
<1>4. PipeType
  BY DEF Init, PipeType
<1> QED
  BY <1>1, <1>2, <1>3, <1>4, <1>5 DEF Types

\* Every step keeps the types.
LEMMA TypesNext ==
  ASSUME Types, [Next]_vars PROVE Types'
<1>1. CASE UNCHANGED vars
  BY <1>1 DEF vars, Types, ParentType, QueueType, ReaderType, WorkerType, PipeType
<1> QED
  BY <1>1, ParentTypes, CloseTypes, ReaderTypes, WorkerTypes DEF Next
----------------------------------------------------------------------------
(***************************************************************************)
(* The lock, and the workers that are still alive.                         *)
(***************************************************************************)

\* Who holds the lock; while it reaps a worker no other one is attached.
Holding ==
    /\ \A c \in Cells : cell[c] \in {"receiving", "restarting"} <=> lock = c
    /\ \A c \in Cells : cell[c] = "restarting" => current = None
    /\ closer \in {"joining", "reaping"} <=> lock = Close
    /\ closer = "reaping" => current = None

\* A worker is forked and attached only when no other one is alive and attached.
LEMMA RestartOrphans ==
  ASSUME Types, NoOrphan, Restart, ~Alive(current), doomed' = doomed
  PROVE  NoOrphan'
<1>1. started \in Nat /\ worker \in [Workers -> {"none", "boot", "idle", "busy", "call", "dead"}]
  BY Bounds DEF Types, ParentType, WorkerType
<1>2. CASE /\ started < MaxWorkers /\ current' = started + 1
           /\ worker' = [worker EXCEPT ![started + 1] = "boot"]
  <2>1. started + 1 \in Workers
    BY <1>1, <1>2, Bounds DEF Workers
  <2> QED
    BY <1>1, <1>2, <2>1 DEF NoOrphan, Alive, Open
<1>3. CASE current' = None /\ worker' = worker
  BY <1>3 DEF NoOrphan, Alive, Open
<1> QED
  BY <1>2, <1>3 DEF Restart

\* The parent's steps for a cell.
LEMMA ParentHolds ==
  ASSUME Types, Holding, NoOrphan, NEW c \in Cells, ParentStep(c)
  PROVE  Holding' /\ NoOrphan'
<1> USE Bounds DEF Types, ParentType, Ended
<1>1. CASE RunCell(c)
  BY <1>1 DEF RunCell, Holding, NoOrphan, Alive, Open, workers
<1>2. CASE RunDisabled(c)
  BY <1>2, LockServes DEF RunDisabled, AtLock, Holding, NoOrphan, Alive, Open, workers
<1>3. CASE RunStarts(c)
  <2>1. /\ cell[c] = "waiting" /\ lock = Free /\ cell' = [cell EXCEPT ![c] = "receiving"] /\ lock' = c
        /\ closer' = closer /\ doomed' = doomed
    BY <1>3, LockServes DEF RunStarts, AtLock
  <2>2. \A d \in Cells : cell[d] \notin {"receiving", "restarting"}
    BY <2>1 DEF Holding
  <2>3. Holding'
    BY <2>1, <2>2 DEF Holding
  <2>4. CASE Alive(current) /\ UNCHANGED <<current, worker>>
    BY <2>1, <2>3, <2>4 DEF NoOrphan, Alive, Open
  <2>5. CASE /\ ~Alive(current) /\ current' = started + 1 /\ started + 1 \in Workers
             /\ worker' = [worker EXCEPT ![started + 1] = "boot"]
    BY <2>1, <2>3, <2>5 DEF NoOrphan, Alive, Open, WorkerType
  <2> QED
    BY <1>3, <2>4, <2>5, StartCases
<1>4. CASE RunSendFails(c)
  <2>1. /\ cell[c] = "waiting" /\ lock = Free /\ cell' = [cell EXCEPT ![c] = "error"]
        /\ lock' = lock /\ closer' = closer
    BY <1>4, LockServes DEF RunSendFails, AtLock
  <2>2. Holding'
    BY <2>1 DEF Holding
  <2> QED
    BY <1>4, <2>2, RestartOrphans DEF RunSendFails
<1>5. CASE CellReturns(c)
  BY <1>5 DEF CellReturns, Holding, NoOrphan, Alive, Open, workers
<1>6. CASE CellKills(c)
  <2>1. Holding'
    BY <1>6 DEF CellKills, Failed, Holding
  <2> QED
    BY <1>6, <2>1 DEF CellKills, NoOrphan, Alive, Open
<1>7. CASE CellReplaces(c)
  <2>1. Holding'
    BY <1>7 DEF CellReplaces, Failed, Holding
  <2> QED
    BY <1>7, <2>1, RestartOrphans DEF CellReplaces
<1>8. CASE CellRestarts(c)
  <2>1. Holding'
    BY <1>8 DEF CellRestarts, Holding
  <2>2. ~Alive(current)
    BY <1>8 DEF CellRestarts, Holding, Alive
  <2> QED
    BY <1>8, <2>1, <2>2, RestartOrphans DEF CellRestarts
<1>9. CASE CellRaises(c)
  BY <1>9 DEF CellRaises, Holding, NoOrphan, Alive, Open, workers
<1>10. CASE CancelCell(c)
  BY <1>10 DEF CancelCell, Holding, NoOrphan, Alive, Open, workers
<1>11. CASE CallRuns(c)
  BY <1>11 DEF CallRuns, Holding, NoOrphan, Alive, Open, parent, workers
<1> QED
  BY <1>1, <1>2, <1>3, <1>4, <1>5, <1>6, <1>7, <1>8, <1>9, <1>10, <1>11 DEF ParentStep

\* The steps of aclose and close_sync.
LEMMA CloseHolds ==
  ASSUME Types, Holding, NoOrphan, CloseStep
  PROVE  Holding' /\ NoOrphan'
<1> USE Bounds DEF Types, ParentType
<1>1. CASE Aclose
  BY <1>1 DEF Aclose, Holding, NoOrphan, Alive, Open, workers
<1>2. CASE CloseSends
  BY <1>2, LockServes DEF CloseSends, AtLock, Holding, NoOrphan, Alive, Open, workers
<1>3. CASE CloseFindsNone
  BY <1>3, LockServes DEF CloseFindsNone, AtLock, Holding, NoOrphan, Alive, Open, workers
<1>4. CASE CloseJoins
  <2>1. Holding'
    BY <1>4 DEF CloseJoins, Holding
  <2> QED
    BY <1>4, <2>1 DEF CloseJoins, NoOrphan, Alive, Open
<1>5. CASE CloseEnds
  BY <1>5 DEF CloseEnds, Holding, NoOrphan, Alive, Open, workers
<1>6. CASE CancelClose
  BY <1>6 DEF CancelClose, Holding, NoOrphan, Alive, Open, workers
<1>7. CASE CloseSync
  <2>1. Holding'
    BY <1>7 DEF CloseSync, Holding
  <2> QED
    BY <1>7, <2>1 DEF CloseSync, NoOrphan, Alive, Open, WorkerType
<1> QED
  BY <1>1, <1>2, <1>3, <1>4, <1>5, <1>6, <1>7 DEF CloseStep

\* What the reader threads and the workers leave alone.
LEMMA ReadersLeave ==
  ASSUME NEW c \in Cells, ReaderStep(c)
  PROVE  UNCHANGED <<parent, workers>>
BY DEF ReaderStep, ReaderLooks, ReaderDeadline, ReaderPolls, ReaderChecks, ReaderHangsUp,
       ReaderTakesCall, ReaderTakesOther, ReaderRefuses, ReaderReplies, ReaderGivesUp

\* A worker only ever comes nearer to its end.
LEMMA WorkersLeave ==
  ASSUME Types, NEW w \in Workers, WorkerStep(w)
  PROVE  /\ UNCHANGED <<parent, readers, doomed>>
         /\ \A x \in Workers : Alive(x)' => Alive(x)
<1>1. UNCHANGED <<parent, readers, doomed>>
  BY DEF WorkerStep, WorkerBoots, WorkerFatal, WorkerTakes, WorkerCalls, WorkerGets, WorkerFinishes,
         WorkerHangsUp, WorkerCrashes, WorkerKilled, ThreadStarts, ThreadCalls, ThreadGets
<1>2. (\E v : worker' = [worker EXCEPT ![w] = v] /\ worker[w] \notin {"none", "dead"}) \/ worker' = worker
  BY DEF WorkerStep, WorkerBoots, WorkerFatal, WorkerTakes, WorkerCalls, WorkerGets, WorkerFinishes,
         WorkerHangsUp, WorkerCrashes, WorkerKilled, ThreadStarts, ThreadCalls, ThreadGets, Alive
<1> QED
  BY <1>1, <1>2 DEF Alive, Types, WorkerType

\* Every step keeps the invariant.
LEMMA HoldingNext ==
  ASSUME Types, Holding, NoOrphan, [Next]_vars
  PROVE  Holding' /\ NoOrphan'
<1>1. CASE UNCHANGED vars
  BY <1>1 DEF vars, Holding, NoOrphan, Alive, Open
<1>2. ASSUME NEW c \in Cells, ReaderStep(c) PROVE Holding' /\ NoOrphan'
  BY <1>2, ReadersLeave DEF parent, workers, Holding, NoOrphan, Alive, Open
<1>3. ASSUME NEW w \in Workers, WorkerStep(w) PROVE Holding' /\ NoOrphan'
  <2>1. UNCHANGED parent /\ doomed' = doomed /\ \A x \in Workers : Alive(x)' => Alive(x)
    BY <1>3, WorkersLeave
  <2> QED
    BY <2>1 DEF parent, Holding, NoOrphan, Open
<1> QED
  BY <1>1, <1>2, <1>3, ParentHolds, CloseHolds DEF Next

(***************************************************************************)
(* Every worker that is alive is the attached one or was signalled, in     *)
(* every reachable state: however the cells fail, are cancelled or time    *)
(* out and whoever closes the executor, no process is forgotten.           *)
(***************************************************************************)
THEOREM NoProcessForgotten == Spec => [](TypeOK /\ NoOrphan)
<1> DEFINE I == Types /\ Holding /\ NoOrphan
<1>1. Init => I
  <2>1. Init => Holding /\ NoOrphan
    BY Bounds DEF Init, Holding, NoOrphan, Alive
  <2> QED
    BY <2>1, TypesInit
<1>2. I /\ [Next]_vars => I'
  BY TypesNext, HoldingNext
<1>3. I => TypeOK /\ NoOrphan
  BY TypesAreOK
<1> HIDE DEF I
<1> QED
  BY <1>1, <1>2, <1>3, PTL DEF Spec
----------------------------------------------------------------------------
(***************************************************************************)
(* Closing.  Nobody joins the queue once _closed is set, so aclose stands  *)
(* last in it and leaves it empty.                                         *)
(***************************************************************************)

Closing ==
    /\ closer = "waiting" => LastIs(queue, Close)
    /\ closer \in {"joining", "reaping", "done"} => queue = <<>>
    /\ closer = "done" => lock = Free /\ current = None

\* The parent's steps for a cell.
LEMMA ParentCloses ==
  ASSUME Types, Holding, Closing, NEW c \in Cells, ParentStep(c)
  PROVE  Closing'
<1> USE Bounds
<1>0. queue \in Seq(Cells \cup {Close}) /\ (closed \/ closer = "off")
  BY DEF Types, ParentType, QueueType
<1>1. CASE RunCell(c)
  BY <1>0, <1>1 DEF RunCell, Closing
<1>2. CASE RunDisabled(c) \/ RunStarts(c) \/ RunSendFails(c)
  <2>1. queue # <<>> /\ Head(queue) # Close /\ queue' = Tail(queue) /\ closer' = closer
    BY <1>2 DEF RunDisabled, RunStarts, RunSendFails, AtLock
  <2>2. closer = "waiting" => LastIs(Tail(queue), Close)
    BY <1>0, <2>1, LastStays DEF Closing
  <2> QED
    BY <2>1, <2>2 DEF Closing
<1>3. CASE CellReturns(c) \/ CellKills(c) \/ CellReplaces(c) \/ CellRestarts(c) \/ CellRaises(c)
  <2>1. lock = c /\ queue' = queue /\ closer' = closer
    BY <1>3 DEF CellReturns, CellKills, CellReplaces, CellRestarts, CellRaises, Failed, Holding
  <2> QED
    BY <2>1 DEF Closing
<1>4. CASE CancelCell(c)
  <2>1. queue' = Without(queue, c) /\ closer' = closer /\ current' = current
    BY <1>4 DEF CancelCell
  <2>2. closer = "waiting" => LastIs(Without(queue, c), Close)
    BY <1>0, LastStays DEF Closing
  <2>3. Without(<<>>, c) = <<>>
    BY ShortMembers DEF Without
  <2>4. lock = Free => lock' = Free
    BY <1>4 DEF CancelCell
  <2> QED
    BY <2>1, <2>2, <2>3, <2>4 DEF Closing
<1>5. CASE CallRuns(c)
  BY <1>5 DEF CallRuns, parent, Closing
<1> QED
  BY <1>1, <1>2, <1>3, <1>4, <1>5 DEF ParentStep

\* The steps of aclose, and of close_sync when no coroutine is in the executor.
LEMMA CloseCloses ==
  ASSUME SyncClose = "idle", Types, Holding, Closing, CloseStep
  PROVE  Closing'
<1> USE Bounds
<1>0. queue \in Seq(Cells \cup {Close}) /\ (closed \/ closer = "off")
  BY DEF Types, ParentType, QueueType
<1>1. CASE Aclose
  <2>1. LastIs(Append(queue, Close), Close)
    BY <1>0, LastJoins
  <2> QED
    BY <1>1, <2>1 DEF Aclose, Closing
<1>2. CASE CloseSends \/ CloseFindsNone
  <2>1. AtLock(Close) /\ queue' = Tail(queue)
    BY <1>2 DEF CloseSends, CloseFindsNone
  <2>2. LastIs(queue, Close)
    BY <2>1, LockServes DEF Closing
  <2>3. Tail(queue) = <<>>
    BY <1>0, <2>1, <2>2, LastServed DEF AtLock, Types, QueueType
  <2> QED
    BY <1>2, <2>1, <2>3 DEF CloseSends, CloseFindsNone, AtLock, Closing
<1>3. CASE CloseJoins
  BY <1>3 DEF CloseJoins, Closing
<1>4. CASE CloseEnds
  BY <1>4 DEF CloseEnds, Closing, Holding
<1>5. CASE CancelClose
  BY <1>5 DEF CancelClose, Closing
<1>6. CASE CloseSync
  BY <1>6 DEF CloseSync, Closing
<1> QED
  BY <1>1, <1>2, <1>3, <1>4, <1>5, <1>6 DEF CloseStep

\* Every step keeps the invariant.
LEMMA ClosingNext ==
  ASSUME SyncClose = "idle", Types, Holding, Closing, [Next]_vars
  PROVE  Closing'
<1>1. CASE UNCHANGED vars
  BY <1>1 DEF vars, Closing
<1>2. ASSUME NEW c \in Cells, ReaderStep(c) PROVE Closing'
  BY <1>2, ReadersLeave DEF parent, Closing
<1>3. ASSUME NEW w \in Workers, WorkerStep(w) PROVE Closing'
  BY <1>3, WorkersLeave DEF parent, Closing
<1> QED
  BY <1>1, <1>2, <1>3, ParentCloses, CloseCloses DEF Next

\* A brokered call is taken from the attached worker: when none is, none begins.
LEMMA NoFurtherCall ==
  ASSUME Types, [Next]_vars, current = None, NEW c \in Cells, task[c] = "off"
  PROVE  task'[c] = "off"
<1>1. CASE UNCHANGED vars
  BY <1>1 DEF vars
<1>2. CASE CloseStep
  BY <1>2 DEF CloseStep, Aclose, CloseSends, CloseFindsNone, CloseJoins, CloseEnds, CancelClose, CloseSync, readers
<1>3. ASSUME NEW d \in Cells, ParentStep(d) PROVE task'[c] = "off"
  BY <1>3 DEF ParentStep, RunCell, RunDisabled, RunStarts, RunSendFails, CellReturns, CellKills, CellReplaces,
              CellRestarts, CellRaises, CancelCell, CallRuns, readers, Types, ReaderType
<1>4. ASSUME NEW d \in Cells, ReaderStep(d) PROVE task'[c] = "off"
  <2>1. ~Receives(d)
    BY ReceivedShape DEF None, Workers
  <2> QED
    BY <1>4, <2>1 DEF ReaderStep, ReaderLooks, ReaderDeadline, ReaderPolls, ReaderChecks, ReaderHangsUp, ReaderTakesCall,
                      ReaderTakesOther, ReaderRefuses, ReaderReplies, ReaderGivesUp, Types, ReaderType
<1>5. ASSUME NEW w \in Workers, WorkerStep(w) PROVE task'[c] = "off"
  BY <1>5, WorkersLeave DEF readers
<1> QED
  BY <1>1, <1>2, <1>3, <1>4, <1>5 DEF Next

(***************************************************************************)
(* Once aclose is over, or close_sync called while no coroutine is inside  *)
(* the executor, every worker that is left has been signalled and no       *)
(* reader thread, not even one that a cancelled run_cell left behind,      *)
(* begins another call on the agent.                                       *)
(***************************************************************************)
THEOREM ClosingIsFinal ==
  ASSUME SyncClose = "idle" PROVE Spec => ClosedForGood
<1> DEFINE I == Types /\ Holding /\ NoOrphan /\ Closing
           Dead == closer = "done" => \A w \in Workers : Alive(w) => w \in doomed
           Quiet == closer = "done" => \A c \in Cells : task[c] = "off" => task'[c] = "off"
<1>1. Init => I
  <2>1. Init => Holding /\ NoOrphan
    BY Bounds DEF Init, Holding, NoOrphan, Alive
  <2>2. Init => Closing
    BY DEF Init, Closing
  <2> QED
    BY <2>1, <2>2, TypesInit
<1>2. I /\ [Next]_vars => I'
  BY TypesNext, HoldingNext, ClosingNext
<1>3. I => Dead
  BY Bounds DEF Closing, NoOrphan, Alive, Open
<1>4. I /\ [Next]_vars => Quiet
  BY NoFurtherCall DEF Closing
<1>5. I /\ [Next]_vars => [Quiet]_vars
  BY <1>4
<1> HIDE DEF I, Dead, Quiet
<1>6. Spec => []I
  BY <1>1, <1>2, PTL DEF Spec
<1>7. Spec => []Dead
  BY <1>3, <1>6, PTL
<1>8. Spec => [][Quiet]_vars
  BY <1>5, <1>6, PTL DEF Spec
<1> QED
  BY <1>7, <1>8 DEF ClosedForGood, Dead, Quiet
----------------------------------------------------------------------------
(***************************************************************************)
(* Without cancellation a reader thread works for the cell that awaits it. *)
(***************************************************************************)

Awaited == \A c \in Cells : reader[c] # "off" <=> cell[c] = "receiving"

\* Every step keeps the invariant, when run_cell is not cancelled.
LEMMA AwaitedNext ==
  ASSUME ~MayCancel, Types, Holding, Awaited, [Next]_vars
  PROVE  Awaited'
<1>0. cell \in [Cells -> Ended \cup {"new", "waiting", "receiving", "restarting"}] /\ DOMAIN reader = Cells
  BY DEF Types, ParentType, ReaderType
<1>1. CASE UNCHANGED vars
  BY <1>1 DEF vars, Awaited
<1>2. CASE CloseStep
  BY <1>2 DEF CloseStep, Aclose, CloseSends, CloseFindsNone, CloseJoins, CloseEnds, CancelClose, CloseSync, readers, Awaited
<1>3. ASSUME NEW c \in Cells, ParentStep(c) PROVE Awaited'
  <2>1. CASE RunCell(c)
    BY <1>0, <2>1 DEF RunCell, readers, Awaited
  <2>2. CASE RunDisabled(c) \/ RunSendFails(c)
    <3>1. cell[c] = "waiting" /\ cell' = [cell EXCEPT ![c] = "error"] /\ reader' = reader
      BY <2>2, LockServes DEF RunDisabled, RunSendFails, readers
    <3> QED
      BY <1>0, <3>1 DEF Awaited
  <2>3. CASE RunStarts(c)
    BY <1>0, <2>3 DEF RunStarts, Awaited
  <2>4. CASE CellReturns(c) \/ CellKills(c) \/ CellReplaces(c) \/ CellRaises(c)
    <3>1. \E e \in {"done", "restarting", "error", "raised"} : cell' = [cell EXCEPT ![c] = e]
      BY <2>4 DEF CellReturns, CellKills, CellReplaces, CellRaises
    <3>2. reader' = [reader EXCEPT ![c] = "off"]
      BY <2>4 DEF CellReturns, CellKills, CellReplaces, CellRaises
    <3> QED
      BY <1>0, <3>1, <3>2 DEF Awaited
  <2>5. CASE CellRestarts(c)
    BY <1>0, <2>5 DEF CellRestarts, readers, Awaited
  <2>6. CASE CallRuns(c)
    BY <2>6 DEF CallRuns, parent, Awaited
  <2> QED
    BY <1>3, <2>1, <2>2, <2>3, <2>4, <2>5, <2>6 DEF ParentStep, CancelCell
<1>4. ASSUME NEW c \in Cells, ReaderStep(c) PROVE Awaited'
  <2>1. cell' = cell
    BY <1>4, ReadersLeave DEF parent
  <2>2. reader[c] # "off" /\ \E r : r # "off" /\ reader' = [reader EXCEPT ![c] = r]
    BY <1>4 DEF ReaderStep, ReaderLooks, ReaderDeadline, ReaderPolls, ReaderChecks, ReaderHangsUp, ReaderTakesCall,
                ReaderTakesOther, ReaderRefuses, ReaderReplies, ReaderGivesUp, Receives
  <2> QED
    BY <1>0, <2>1, <2>2 DEF Awaited
<1>5. ASSUME NEW w \in Workers, WorkerStep(w) PROVE Awaited'
  BY <1>5, WorkersLeave DEF parent, readers, Awaited
<1> QED
  BY <1>1, <1>2, <1>3, <1>4, <1>5 DEF Next

\* The effect of a brokered call belongs to a cell that awaits it.
LEMMA EffectAwaited ==
  ASSUME Types, Awaited, NEW c \in Cells, task[c] = "running"
  PROVE  cell[c] = "receiving"
BY DEF Types, ReaderType, Awaited

(***************************************************************************)
(* Unless run_cell is cancelled, a brokered call takes effect on the agent *)
(* only while the run_cell that it came from awaits its cell, whichever    *)
(* deadline passes, worker dies or close is called in between.             *)
(***************************************************************************)
THEOREM EffectsAreAwaited ==
  ASSUME ~MayCancel PROVE Spec => EffectsWhileAwaited
<1> DEFINE I == Types /\ Holding /\ NoOrphan /\ Awaited
           Timely == \A c \in Cells : task[c] = "running" /\ task'[c] = "ready" => cell[c] = "receiving"
<1>1. Init => I
  <2>1. Init => Holding /\ NoOrphan
    BY Bounds DEF Init, Holding, NoOrphan, Alive
  <2>2. Init => Awaited
    BY DEF Init, Awaited
  <2> QED
    BY <2>1, <2>2, TypesInit
<1>2. I /\ [Next]_vars => I'
  BY TypesNext, HoldingNext, AwaitedNext
<1>3. I => [Timely]_vars
  BY EffectAwaited
<1> HIDE DEF I, Timely
<1>4. Spec => [][Timely]_vars
  BY <1>1, <1>2, <1>3, PTL DEF Spec
<1> QED
  BY <1>4 DEF EffectsWhileAwaited, Timely
----------------------------------------------------------------------------
(***************************************************************************)
(* The exchange between a cell and the worker that runs it, when no        *)
(* run_cell is cancelled and no cell leaves a thread behind.               *)
(***************************************************************************)

One(a) == <<a>>
Two(a, b) == <<a, b>>

\* A worker that was not forked was sent nothing; one that is at its op loop
\* finds requests, and one that awaits a brokered call the reply to it.
Wired(w) ==
    /\ thread[w] = "off"
    /\ worker[w] = "none" => down[w] = <<>> /\ up[w] = <<>>
    /\ worker[w] \in {"boot", "idle"} =>
         \/ down[w] = <<>> \/ down[w] = One(Shutdown)
         \/ \E c \in Cells : down[w] = One(Run(c)) \/ down[w] = Two(Shutdown, Run(c))
    /\ worker[w] = "busy" => down[w] = <<>>
    /\ worker[w] = "call" => down[w] = <<>> \/ down[w] = One(ToolResult(calls[w]))

\* The stages of the exchange: the request is under way, the cell runs, its
\* call is under way, is served, its reply is under way, the answer is.
Resting(w, d) == worker[w] \in {"boot", "idle"} /\ down[w] = d /\ up[w] = <<>>
Works(c, w, state, d, u) == worker[w] = state /\ running[w] = c /\ down[w] = d /\ up[w] = u

Asked(c, w) == Resting(w, One(Run(c))) \/ Resting(w, Two(Shutdown, Run(c)))
Running(c, w) == Works(c, w, "busy", <<>>, <<>>)
Calling(c, w) == Works(c, w, "call", <<>>, One(ToolCall(calls[w])))
Served(c, w) == Works(c, w, "call", <<>>, <<>>) /\ callid[c] = calls[w] /\ task[c] # "off"
Replied(c, w) == Works(c, w, "call", One(ToolResult(calls[w])), <<>>)
Answered(c, w) == worker[w] = "idle" /\ down[w] = <<>> /\ up[w] = One(Response(c))

Exchange(c, w) ==
    /\ reader[c] \in {"look", "poll", "check", "recv"} =>
         Asked(c, w) \/ Running(c, w) \/ Calling(c, w) \/ Replied(c, w) \/ Answered(c, w)
    /\ reader[c] = "serve" => Served(c, w)
    /\ reader[c] = "result" => Resting(w, <<>>)

\* What a reader thread polls is the connection of the attached worker, until
\* that one is detached.
Faults == \A c \in Cells :
    /\ reader[c] = "fault" => current = None
    /\ reader[c] \in {"poll", "recv"} => current = None \/ conn[c] = current

AtWork ==
    Alive(current) =>
       /\ \A c \in Cells : lock = c => Exchange(c, current)
       /\ lock = Close => Resting(current, One(Shutdown))
       /\ lock = Free => \/ Resting(current, <<>>)
                         \/ closer = "cancelled" /\ Resting(current, One(Shutdown))

Conversation == (\A w \in Workers : Wired(w)) /\ Faults /\ AtWork

\* What is sent on a short pipe and taken from it.
LEMMA ShortPipes ==
  ASSUME NEW a, NEW b
  PROVE  /\ Append(<<>>, a) = One(a) /\ Append(One(a), b) = Two(a, b)
         /\ One(a) # <<>> /\ Head(One(a)) = a /\ Tail(One(a)) = <<>>
         /\ Two(a, b) # <<>> /\ Head(Two(a, b)) = a /\ Tail(Two(a, b)) = One(b)
<1>1. Append(<<>>, a) = <<a>> /\ <<a>> # <<>>
  OBVIOUS
<1>2. Head(<<a>>) = a /\ Tail(<<a>>) = <<>>
  OBVIOUS
<1>3. <<a, b>> # <<>> /\ Head(<<a, b>>) = a
  OBVIOUS
<1>4. Tail(<<a, b>>) = <<b>>
  OBVIOUS
<1>5. Append(<<a>>, b) = <<a, b>>
  BY AppendSecond
<1> QED
  BY <1>1, <1>2, <1>3, <1>4, <1>5 DEF One, Two

\* The same for the pipe of one worker; the pipes of the others are as before.
LEMMA PipeShapes ==
  ASSUME NEW S, NEW pipe \in [Workers -> Seq(S)], NEW w \in Workers, NEW m
  PROVE  /\ \A x \in Workers : x # w => Send(pipe, w, m)[x] = pipe[x] /\ Pop(pipe, w)[x] = pipe[x]
         /\ pipe[w] = <<>> => Send(pipe, w, m)[w] = One(m)
         /\ \A a : pipe[w] = One(a) =>
              pipe[w] # <<>> /\ Send(pipe, w, m)[w] = Two(a, m) /\ Head(pipe[w]) = a /\ Pop(pipe, w)[w] = <<>>
         /\ \A a, b : pipe[w] = Two(a, b) => pipe[w] # <<>> /\ Head(pipe[w]) = a /\ Pop(pipe, w)[w] = One(b)
<1>1. Send(pipe, w, m)[w] = Append(pipe[w], m) /\ Pop(pipe, w)[w] = Tail(pipe[w])
  BY DEF Send, Pop
<1>2. \A x \in Workers : x # w => Send(pipe, w, m)[x] = pipe[x] /\ Pop(pipe, w)[x] = pipe[x]
  BY DEF Send, Pop
<1>3. pipe[w] = <<>> => Send(pipe, w, m)[w] = One(m)
  BY <1>1, ShortPipes
<1>4. ASSUME NEW a, pipe[w] = One(a)
      PROVE  pipe[w] # <<>> /\ Send(pipe, w, m)[w] = Two(a, m) /\ Head(pipe[w]) = a /\ Pop(pipe, w)[w] = <<>>
  BY <1>1, <1>4, ShortPipes
<1>5. ASSUME NEW a, NEW b, pipe[w] = Two(a, b)
      PROVE  pipe[w] # <<>> /\ Head(pipe[w]) = a /\ Pop(pipe, w)[w] = One(b)
  BY <1>1, <1>5, ShortPipes
<1> QED
  BY <1>2, <1>3, <1>4, <1>5

\* Messages differ by what they are.
LEMMA MessageKinds ==
  /\ \A c : Run(c).op = "run" /\ Run(c).id = c
  /\ Shutdown.op = "shutdown"
  /\ \A n : ToolResult(n).op = "tool_result"
  /\ \A n : ToolCall(n).type = "tool_call" /\ ToolCall(n).id = n
  /\ \A c : Response(c).type = "response" /\ Response(c).id = c
BY DEF Run, Shutdown, ToolResult, ToolCall, Response

\* Closing the pipe of the attached worker leaves the other pipes alone.
LEMMA DetachedShape ==
  ASSUME Types, NEW w \in Workers
  PROVE  Detached(up)[w] = IF w = current THEN <<>> ELSE up[w]
<1>1. current # None => current \in Workers
  BY Bounds DEF Types, ParentType, Workers, None
<1>2. w # None /\ up \in [Workers -> Seq(Answers)]
  BY DEF Workers, None, Types, PipeType
<1> QED
  BY <1>1, <1>2 DEF Detached

\* A worker that no step touches stays as it is.
LEMMA WiredFrame ==
  ASSUME NEW w \in Workers, Wired(w), worker'[w] = worker[w], thread'[w] = thread[w], calls'[w] = calls[w],
         down'[w] = down[w], worker[w] = "none" => up'[w] = up[w] \/ up'[w] = <<>>
  PROVE  Wired(w)'
BY DEF Wired

\* So does the exchange, if the reader thread is at the same stage of it.
LEMMA ExchangeFrame ==
  ASSUME NEW c \in Cells, NEW w \in Workers, Exchange(c, w),
         worker'[w] = worker[w], running'[w] = running[w], calls'[w] = calls[w], down'[w] = down[w], up'[w] = up[w],
         \/ reader'[c] = reader[c] /\ callid'[c] = callid[c] /\ (task[c] # "off" => task'[c] # "off")
         \/ reader[c] \in {"look", "poll", "check", "recv"} /\ reader'[c] \notin {"serve", "result"}
         \/ reader'[c] \notin {"look", "poll", "check", "recv", "serve", "result"}
  PROVE  Exchange(c, w)'
<1>1. /\ Asked(c, w) => Asked(c, w)'
      /\ Running(c, w) => Running(c, w)'
      /\ Replied(c, w) => Replied(c, w)'
  BY DEF Asked, Resting, Running, Works, Replied
<1>2. (Calling(c, w) => Calling(c, w)') /\ (Answered(c, w) => Answered(c, w)')
  BY DEF Calling, Works, Answered
<1>3. reader'[c] = "serve" /\ Served(c, w) => Served(c, w)'
  BY DEF Served, Works
<1>4. Resting(w, <<>>) => Resting(w, <<>>)'
  BY DEF Resting
<1> QED
  BY <1>1, <1>2, <1>3, <1>4 DEF Exchange
\* A step that touches neither the workers, the pipes nor the reader threads.
LEMMA TalkFrame ==
  ASSUME Types, Conversation, lock' = lock, current' = current, closer' = closer \/ closer # "cancelled",
         UNCHANGED readers, UNCHANGED <<worker, running, thread, calls, down, up>>
  PROVE  Conversation'
<1>1. \A w \in Workers : Wired(w)'
  BY WiredFrame DEF Conversation
<1>2. Faults'
  BY DEF Conversation, Faults, readers
<1>3. AtWork'
  <2> SUFFICES ASSUME Alive(current)' PROVE AtWork'
    BY DEF AtWork
  <2>1. current \in Workers /\ Alive(current)
    BY Bounds DEF Alive, Types, ParentType, Workers, None
  <2>2. ASSUME NEW c \in Cells, lock = c PROVE Exchange(c, current)'
    <3>1. Exchange(c, current)
      BY <2>1, <2>2 DEF Conversation, AtWork
    <3>2. reader'[c] = reader[c] /\ callid'[c] = callid[c] /\ task'[c] = task[c]
      BY DEF readers
    <3>3. \A w \in Workers : Exchange(c, w) => Exchange(c, w)'
      BY <3>2, ExchangeFrame
    <3> QED
      BY <2>1, <3>1, <3>3 DEF Exchange, Asked, Running, Calling, Served, Replied, Answered, Works, Resting
  <2>3. \A d : Resting(current, d) => Resting(current, d)'
    BY DEF Resting
  <2>4. lock = Close => Resting(current, One(Shutdown))'
    BY <2>1, <2>3 DEF Conversation, AtWork
  <2>5. lock = Free => \/ Resting(current, <<>>)'
                       \/ closer' = "cancelled" /\ Resting(current, One(Shutdown))'
    BY <2>1, <2>3 DEF Conversation, AtWork
  <2> QED
    BY <2>2, <2>4, <2>5 DEF AtWork
<1> QED
  BY <1>1, <1>2, <1>3 DEF Conversation

\* Whoever does not hold the lock has no reader thread.
LEMMA ReadersOff ==
  ASSUME Holding, Awaited, NEW c \in Cells, lock # c
  PROVE  reader[c] = "off"
BY DEF Holding, Awaited

\* A worker that was not forked yet.
LEMMA NotForked ==
  ASSUME Types, Conversation, started + 1 \in Workers
  PROVE  /\ worker[started + 1] = "none" /\ down[started + 1] = <<>> /\ up[started + 1] = <<>>
         /\ thread[started + 1] = "off" /\ started + 1 # current /\ started + 1 # None
<1>1. started + 1 > started /\ started + 1 # current /\ started + 1 # None
  BY Bounds DEF Types, ParentType, None
<1>2. worker[started + 1] = "none"
  BY <1>1 DEF Types, WorkerType
<1> QED
  BY <1>1, <1>2 DEF Conversation, Wired

\* A worker that is forked when the lock is given back is at rest.
LEMMA TalkRestarts ==
  ASSUME Types, Conversation, Restart, lock' = Free, UNCHANGED <<running, thread, calls, down>>,
         up' = Detached(up) \/ up' = up, \A d \in Cells : reader'[d] = "off"
  PROVE  Conversation'
<1>0. /\ worker \in [Workers -> {"none", "boot", "idle", "busy", "call", "dead"}]
      /\ \A w \in Workers : up'[w] = up[w] \/ up'[w] = <<>>
  BY DetachedShape DEF Types, WorkerType
<1>1. Faults'
  BY DEF Faults
<1>2. CASE /\ started < MaxWorkers /\ current' = started + 1
           /\ worker' = [worker EXCEPT ![started + 1] = "boot"]
  <2> DEFINE x == started + 1
  <2>1. x \in Workers
    BY <1>2, Bounds DEF Workers, Types, ParentType
  <2>2. worker'[x] = "boot" /\ down'[x] = <<>> /\ up'[x] = <<>> /\ thread'[x] = "off"
    BY <1>0, <1>2, <2>1, NotForked
  <2>3. current' = x /\ \A w \in Workers : w # x => worker'[w] = worker[w]
    BY <1>0, <1>2
  <2> HIDE DEF x
  <2>4. ASSUME NEW w \in Workers PROVE Wired(w)'
    <3>1. CASE w = x
      BY <2>2, <3>1 DEF Wired
    <3>2. CASE w # x
      BY <1>0, <2>3, <3>2, WiredFrame DEF Conversation
    <3> QED
      BY <3>1, <3>2
  <2>5. Resting(current, <<>>)'
    BY <2>2, <2>3 DEF Resting
  <2>6. AtWork'
    BY <2>5, Bounds DEF AtWork
  <2> QED
    BY <1>1, <2>4, <2>6 DEF Conversation
<1>3. CASE current' = None /\ worker' = worker
  <2>1. \A w \in Workers : Wired(w)'
    BY <1>0, <1>3, WiredFrame DEF Conversation
  <2> QED
    BY <1>1, <1>3, <2>1 DEF Conversation, AtWork, Alive
<1> QED
  BY <1>2, <1>3 DEF Restart

\* Detaching the attached worker.
LEMMA TalkEnds ==
  ASSUME Types, Conversation, current' = None, UNCHANGED <<thread, calls, down>>, up' = Detached(up),
         \A w \in Workers : worker'[w] = worker[w] \/ worker'[w] = "dead"
  PROVE  Conversation'
<1>1. \A w \in Workers : up'[w] = up[w] \/ up'[w] = <<>>
  BY DetachedShape
<1>2. ASSUME NEW w \in Workers PROVE Wired(w)'
  <2>1. CASE worker'[w] = worker[w]
    BY <1>1, <2>1, WiredFrame DEF Conversation
  <2>2. CASE worker'[w] = "dead"
    BY <2>2 DEF Conversation, Wired
  <2> QED
    BY <2>1, <2>2
<1>3. Faults' /\ AtWork'
  BY DEF Faults, AtWork, Alive
<1> QED
  BY <1>2, <1>3 DEF Conversation
\* The request of a cell that takes the lock.
LEMMA TalkStarts ==
  ASSUME Types, Holding, Awaited, Conversation, NEW c \in Cells, RunStarts(c)
  PROVE  Conversation'
<1>0. /\ lock = Free /\ lock' = c /\ closer' = closer /\ reader' = [reader EXCEPT ![c] = "look"]
      /\ UNCHANGED <<conn, task, callid, running, thread, calls>>
  BY DEF RunStarts, AtLock
<1>1. /\ worker \in [Workers -> {"none", "boot", "idle", "busy", "call", "dead"}] /\ DOMAIN reader = Cells
      /\ down \in [Workers -> Seq(Requests)]
  BY DEF Types, WorkerType, ReaderType, PipeType
<1>2. reader'[c] = "look" /\ \A d \in Cells : reader'[d] \in {"look", "off"}
  BY <1>0, <1>1, ReadersOff, Bounds
<1>3. Faults'
  BY <1>2 DEF Faults
<1>4. ASSUME NEW w \in Workers, current' = w, Asked(c, w)', \A x \in Workers : Wired(x)'
      PROVE  Conversation'
  <2>1. Exchange(c, w)'
    BY <1>2, <1>4 DEF Exchange
  <2>2. \A d \in Cells : lock' = d => d = c
    BY <1>0
  <2>3. AtWork'
    BY <1>0, <1>4, <2>1, <2>2, Bounds DEF AtWork, Exchange, Asked, Running, Calling, Served, Replied, Answered, Works, Resting
  <2> QED
    BY <1>3, <1>4, <2>3 DEF Conversation
<1>5. CASE /\ Alive(current) /\ current \in Workers
           /\ UNCHANGED <<current, started, worker, up>>
           /\ down' = Send(down, current, Run(c))
  <2>1. Resting(current, <<>>) \/ Resting(current, One(Shutdown))
    BY <1>0, <1>5 DEF Conversation, AtWork
  <2>2. down'[current] = One(Run(c)) \/ down'[current] = Two(Shutdown, Run(c))
    BY <1>1, <1>5, <2>1, PipeShapes DEF Resting
  <2>3. worker'[current] \in {"boot", "idle"} /\ up'[current] = <<>> /\ current' = current
    BY <1>5, <2>1 DEF Resting
  <2>4. Asked(c, current)'
    BY <2>2, <2>3 DEF Asked, Resting
  <2>5. thread'[current] = "off"
    BY <1>0, <1>5 DEF Conversation, Wired
  <2>6. Wired(current)'
    BY <2>2, <2>3, <2>5 DEF Wired
  <2>7. \A x \in Workers : x # current => down'[x] = down[x]
    BY <1>1, <1>5, PipeShapes
  <2>8. ASSUME NEW x \in Workers PROVE Wired(x)'
    <3>1. CASE x = current
      BY <2>3, <2>6, <3>1 DEF Wired
    <3>2. CASE x # current
      BY <1>0, <1>5, <2>7, <3>2, WiredFrame DEF Conversation
    <3> QED
      BY <3>1, <3>2
  <2>9. \A w \in Workers : w = current => Asked(c, w)'
    BY <2>3, <2>4 DEF Asked, Resting
  <2> QED
    BY <1>4, <1>5, <2>3, <2>8, <2>9
<1>6. CASE /\ ~Alive(current) /\ started + 1 \in Workers
           /\ current' = started + 1 /\ started' = started + 1
           /\ worker' = [worker EXCEPT ![started + 1] = "boot"]
           /\ down' = Send(down, started + 1, Run(c))
           /\ up' = Detached(up)
  <2> DEFINE y == started + 1
  <2>1. worker'[y] = "boot" /\ down'[y] = One(Run(c)) /\ up'[y] = <<>> /\ thread'[y] = "off"
    BY <1>0, <1>1, <1>6, NotForked, PipeShapes, DetachedShape
  <2>2. \A x \in Workers : x # y => worker'[x] = worker[x] /\ down'[x] = down[x]
    BY <1>1, <1>6, PipeShapes
  <2>3. y \in Workers /\ current' = y
    BY <1>6
  <2>4. \A x \in Workers : up'[x] = up[x] \/ up'[x] = <<>>
    BY <1>6, DetachedShape
  <2> HIDE DEF y
  <2>6. ASSUME NEW x \in Workers PROVE Wired(x)'
    <3>1. CASE x = y
      BY <2>1, <3>1 DEF Wired
    <3>2. CASE x # y
      BY <1>0, <2>2, <2>4, <3>2, WiredFrame DEF Conversation
    <3> QED
      BY <3>1, <3>2
  <2>7. \A w \in Workers : w = y => Asked(c, w)'
    BY <2>1 DEF Asked, Resting
  <2> QED
    BY <1>4, <2>3, <2>6, <2>7
<1> QED
  BY <1>5, <1>6, StartCases

\* The parent's steps for a cell.
LEMMA ParentTalks ==
  ASSUME ~MayCancel, Types, Holding, Awaited, Conversation, NEW c \in Cells, ParentStep(c)
  PROVE  Conversation'
<1>0. DOMAIN reader = Cells /\ DOMAIN task = Cells
  BY DEF Types, ReaderType
<1>1. CASE RunCell(c) \/ RunDisabled(c)
  BY <1>1, TalkFrame DEF RunCell, RunDisabled, workers, pipes
<1>2. CASE RunSendFails(c)
  <2>1. \A d \in Cells : reader'[d] = "off"
    BY <1>2, ReadersOff, Bounds DEF RunSendFails, AtLock, readers
  <2> QED
    BY <1>2, <2>1, TalkRestarts DEF RunSendFails, AtLock
<1>3. CASE CellReturns(c)
  <2>1. lock = c /\ reader[c] = "result" /\ lock' = Free
    BY <1>3 DEF CellReturns, Holding
  <2>2. Alive(current) => Resting(current, <<>>)
    BY <2>1 DEF Conversation, AtWork, Exchange
  <2>3. \A d \in Cells : reader'[d] = "off"
    BY <1>0, <1>3, <2>1, ReadersOff DEF CellReturns
  <2>4. UNCHANGED <<current, worker, running, thread, calls, down, up>>
    BY <1>3 DEF CellReturns, workers, pipes
  <2>5. AtWork'
    BY <2>1, <2>2, <2>4, Bounds DEF AtWork, Alive, Resting
  <2>6. \A w \in Workers : Wired(w)'
    BY <2>4, WiredFrame DEF Conversation
  <2> QED
    BY <2>3, <2>5, <2>6 DEF Conversation, Faults
<1>4. CASE CellKills(c)
  BY <1>4, TalkEnds DEF CellKills
<1>5. CASE CellReplaces(c)
  <2>1. lock = c
    BY <1>5 DEF CellReplaces, Failed, Holding
  <2>2. \A d \in Cells : reader'[d] = "off"
    BY <1>0, <1>5, <2>1, ReadersOff DEF CellReplaces
  <2> QED
    BY <1>5, <2>2, TalkRestarts DEF CellReplaces
<1>6. CASE CellRestarts(c)
  <2>1. reader[c] = "off" /\ lock = c
    BY <1>6 DEF CellRestarts, Holding, Awaited
  <2>2. \A d \in Cells : reader'[d] = "off"
    BY <1>6, <2>1, ReadersOff DEF CellRestarts, readers
  <2> QED
    BY <1>6, <2>2, TalkRestarts DEF CellRestarts, pipes
<1>7. CASE CellRaises(c)
  <2>1. lock = c /\ current = None
    BY <1>7 DEF CellRaises, Holding, Conversation, Faults
  <2>2. UNCHANGED <<current, worker, running, thread, calls, down, up>>
    BY <1>7 DEF CellRaises, workers, pipes
  <2>3. \A w \in Workers : Wired(w)'
    BY <2>2, WiredFrame DEF Conversation
  <2>4. Faults' /\ AtWork'
    BY <2>1, <2>2 DEF Faults, AtWork, Alive
  <2> QED
    BY <2>3, <2>4 DEF Conversation
<1>8. CASE RunStarts(c)
  BY <1>8, TalkStarts
<1>9. CASE CallRuns(c)
  <2>1. UNCHANGED <<lock, closer, current, reader, conn, callid, worker, running, thread, calls, down, up>>
    BY <1>9 DEF CallRuns, parent, workers, pipes
  <2>2. \A d \in Cells : task[d] # "off" => task'[d] # "off"
    BY <1>0, <1>9 DEF CallRuns
  <2>3. \A w \in Workers : Wired(w)'
    BY <2>1, WiredFrame DEF Conversation
  <2>4. Faults'
    BY <2>1 DEF Conversation, Faults
  <2>5. AtWork'
    <3> SUFFICES ASSUME Alive(current)' PROVE AtWork'
      BY DEF AtWork
    <3>1. current \in Workers /\ Alive(current)
      BY <2>1, Bounds DEF Alive, Types, ParentType, Workers, None
    <3>2. \A d \in Cells : lock = d => Exchange(d, current)
      BY <3>1 DEF Conversation, AtWork
    <3>3. \A d \in Cells, w \in Workers : Exchange(d, w) => Exchange(d, w)'
      BY <2>1, <2>2, ExchangeFrame
    <3>4. \A d \in Cells : lock = d => Exchange(d, current)'
      BY <2>1, <3>1, <3>2, <3>3 DEF Exchange, Asked, Running, Calling, Served, Replied, Answered, Works, Resting
    <3>5. \A d : Resting(current, d) => Resting(current, d)'
      BY <2>1 DEF Resting
    <3> QED
      BY <2>1, <3>1, <3>4, <3>5 DEF Conversation, AtWork
  <2> QED
    BY <2>3, <2>4, <2>5 DEF Conversation
<1> QED
  BY <1>1, <1>2, <1>3, <1>4, <1>5, <1>6, <1>7, <1>8, <1>9 DEF ParentStep, CancelCell

\* The steps of aclose and close_sync.
LEMMA CloseTalks ==
  ASSUME Types, Holding, Awaited, Conversation, CloseStep
  PROVE  Conversation'
<1> USE Bounds
<1>1. CASE Aclose
  <2>1. closer # "cancelled"
    BY <1>1 DEF Aclose, Types, ParentType
  <2> QED
    BY <1>1, <2>1, TalkFrame DEF Aclose, workers, pipes
<1>2. CASE CloseSends
  <2>1. lock = Free /\ closer = "waiting" /\ Alive(current) /\ lock' = Close
    BY <1>2, LockServes DEF CloseSends, AtLock
  <2>2. current \in Workers /\ down \in [Workers -> Seq(Requests)]
    BY <2>1 DEF Alive, Types, ParentType, PipeType, Workers, None
  <2>3. Resting(current, <<>>)
    BY <2>1 DEF Conversation, AtWork
  <2>4. down'[current] = One(Shutdown) /\ \A x \in Workers : x # current => down'[x] = down[x]
    BY <1>2, <2>2, <2>3, PipeShapes DEF CloseSends, Resting
  <2>5. UNCHANGED <<current, reader, conn, worker, running, thread, calls, up>>
    BY <1>2 DEF CloseSends, workers, readers
  <2>6. Resting(current, One(Shutdown))'
    BY <2>3, <2>4, <2>5 DEF Resting
  <2>7. AtWork'
    BY <2>1, <2>6 DEF AtWork
  <2>8. Faults'
    BY <2>5 DEF Conversation, Faults
  <2>9. ASSUME NEW x \in Workers PROVE Wired(x)'
    <3>1. CASE x = current
      BY <2>3, <2>4, <2>5, <3>1 DEF Conversation, Wired, Resting
    <3>2. CASE x # current
      BY <2>4, <2>5, <3>2, WiredFrame DEF Conversation
    <3> QED
      BY <3>1, <3>2
  <2> QED
    BY <2>7, <2>8, <2>9 DEF Conversation
<1>3. CASE CloseFindsNone
  BY <1>3, TalkEnds DEF CloseFindsNone, workers
<1>4. CASE CloseJoins
  BY <1>4, TalkEnds DEF CloseJoins
<1>5. CASE CloseEnds
  <2>1. current = None /\ UNCHANGED <<current, reader, conn, worker, running, thread, calls, down, up>>
    BY <1>5 DEF CloseEnds, Holding, readers, workers, pipes
  <2>2. \A w \in Workers : Wired(w)'
    BY <2>1, WiredFrame DEF Conversation
  <2> QED
    BY <2>1, <2>2 DEF Conversation, Faults, AtWork, Alive
<1>6. CASE CancelClose
  <2>0. UNCHANGED <<current, worker, running, thread, calls, down, up>> /\ UNCHANGED readers
    BY <1>6 DEF CancelClose, workers, pipes
  <2>1. CASE closer = "waiting"
    <3>1. lock # Close
      BY <2>1 DEF Holding
    <3> QED
      BY <1>6, <2>0, <2>1, <3>1, TalkFrame DEF CancelClose
  <2>2. CASE closer # "waiting"
    <3>1. lock = Close /\ lock' = Free /\ closer' = "cancelled"
      BY <1>6, <2>2 DEF CancelClose, Holding
    <3>2. \A w \in Workers : Wired(w)'
      BY <2>0, WiredFrame DEF Conversation
    <3>3. Faults'
      BY <2>0 DEF Conversation, Faults, readers
    <3>4. Alive(current)' => Resting(current, One(Shutdown))'
      BY <2>0, <3>1 DEF Conversation, AtWork, Alive, Resting
    <3>5. AtWork'
      BY <3>1, <3>4 DEF AtWork
    <3> QED
      BY <3>2, <3>3, <3>5 DEF Conversation
  <2> QED
    BY <2>1, <2>2
<1>7. CASE CloseSync
  <2>1. \A w \in Workers : worker'[w] = worker[w] \/ worker'[w] = "dead"
    BY <1>7 DEF CloseSync, Types, WorkerType
  <2> QED
    BY <1>7, <2>1, TalkEnds DEF CloseSync
<1> QED
  BY <1>1, <1>2, <1>3, <1>4, <1>5, <1>6, <1>7 DEF CloseStep
\* What the attached worker and the holder of the lock are engaged in.
Engaged(w) ==
    /\ \A c \in Cells : lock = c => Exchange(c, w)
    /\ lock = Close => Resting(w, One(Shutdown))
    /\ lock = Free => \/ Resting(w, <<>>)
                      \/ closer = "cancelled" /\ Resting(w, One(Shutdown))

\* That is what AtWork says of the attached worker.
LEMMA AtWorkEngaged ==
  ASSUME Types
  PROVE  /\ AtWork => \A w \in Workers : w = current /\ Alive(w) => Engaged(w)
         /\ Alive(current) => current \in Workers /\ worker[current] # "none"
<1>1. Alive(current) => current \in Workers /\ worker[current] # "none"
  BY Bounds DEF Alive, Types, ParentType, Workers, None
<1>2. ASSUME AtWork, NEW w \in Workers, w = current, Alive(w) PROVE Engaged(w)
  BY <1>2 DEF AtWork, Engaged
<1> QED
  BY <1>1, <1>2

\* The other direction, after a step that leaves the same worker attached.
LEMMA EngagedAtWork ==
  ASSUME Types, current' = current, Types', \A w \in Workers : w = current /\ Alive(w)' => Engaged(w)'
  PROVE  AtWork'
<1>1. CASE ~Alive(current)'
  BY <1>1 DEF AtWork
<1>2. CASE Alive(current)'
  <2>1. current \in Workers
    BY <1>2, Bounds DEF Alive, Types, ParentType, Workers, None
  <2>2. Engaged(current)'
    BY <1>2, <2>1 DEF Engaged, Exchange, Asked, Running, Calling, Served, Replied, Answered, Works, Resting, Alive
  <2> QED
    BY <2>2 DEF AtWork, Engaged
<1> QED
  BY <1>1, <1>2

\* The reader thread of the cell that holds the lock moves on.
LEMMA ReaderMoves ==
  ASSUME Types, Types', Conversation, NEW c \in Cells, lock = c, UNCHANGED <<parent, workers, pipes>>, NEW r,
         reader' = [reader EXCEPT ![c] = r],
         \/ reader[c] \in {"look", "poll", "check", "recv"} /\ r \notin {"serve", "result"}
         \/ r \notin {"look", "poll", "check", "recv", "serve", "result"}
  PROVE  AtWork' /\ \A w \in Workers : Wired(w)'
<1>1. UNCHANGED <<lock, closer, current, worker, running, thread, calls, down, up>>
  BY DEF parent, workers, pipes
<1>2. reader'[c] = r
  BY DEF Types, ReaderType
<1>3. \A w \in Workers : Wired(w)'
  BY <1>1, WiredFrame DEF Conversation
<1>4. ASSUME NEW w \in Workers, w = current, Alive(w)' PROVE Engaged(w)'
  <2>1. Engaged(w)
    BY <1>1, <1>4, AtWorkEngaged DEF Alive, Conversation
  <2>2. Exchange(c, w)'
    BY <1>1, <1>2, <2>1, ExchangeFrame DEF Engaged
  <2> QED
    BY <1>1, <2>2, Bounds DEF Engaged
<1>5. AtWork'
  BY <1>1, <1>4, EngagedAtWork
<1> QED
  BY <1>3, <1>5

\* The steps of the reader threads.
LEMMA ReaderTalks ==
  ASSUME Types, Types', Holding, Awaited, Conversation, NEW c \in Cells, ReaderStep(c)
  PROVE  Conversation'
<1>0. reader[c] # "off"
  BY DEF ReaderStep, ReaderLooks, ReaderDeadline, ReaderPolls, ReaderChecks, ReaderHangsUp, ReaderTakesCall,
         ReaderTakesOther, ReaderRefuses, ReaderReplies, ReaderGivesUp, Receives
<1>1. lock = c
  BY <1>0 DEF Holding, Awaited
<1>2. /\ UNCHANGED <<parent, workers>>
      /\ UNCHANGED <<lock, closer, current, worker, running, thread, calls>>
  BY ReadersLeave DEF parent, workers
<1>3. DOMAIN reader = Cells /\ DOMAIN conn = Cells /\ DOMAIN task = Cells /\ DOMAIN callid = Cells
  BY DEF Types, ReaderType
<1>4. CASE ReaderLooks(c)
  <2>1. Faults'
    BY <1>2, <1>3, <1>4 DEF ReaderLooks, Conversation, Faults
  <2> QED
    BY <1>1, <1>2, <1>4, <2>1, ReaderMoves DEF ReaderLooks, Conversation
<1>5. CASE ReaderDeadline(c) \/ ReaderChecks(c) \/ ReaderHangsUp(c) \/ ReaderGivesUp(c)
  <2>1. PICK r \in {"timeout", "look", "died"} : reader' = [reader EXCEPT ![c] = r]
    BY <1>5 DEF ReaderDeadline, ReaderChecks, ReaderHangsUp, ReaderGivesUp
  <2>2. conn' = conn /\ UNCHANGED pipes
    BY <1>5 DEF ReaderDeadline, ReaderChecks, ReaderHangsUp, ReaderGivesUp
  <2>3. r # "look" \/ reader[c] = "check"
    BY <1>3, <1>5, <2>1 DEF ReaderDeadline, ReaderChecks, ReaderHangsUp, ReaderGivesUp
  <2>4. Faults'
    BY <1>2, <1>3, <2>1, <2>2 DEF Conversation, Faults
  <2> QED
    BY <1>1, <1>2, <2>1, <2>2, <2>3, <2>4, ReaderMoves DEF Conversation
<1>6. CASE ReaderPolls(c)
  <2>1. PICK r \in {"fault", "check", "recv"} : /\ reader' = [reader EXCEPT ![c] = r]
                                                /\ r = "fault" => ~Open(conn[c])
    BY <1>6 DEF ReaderPolls
  <2>2. conn' = conn /\ UNCHANGED pipes /\ reader[c] = "poll"
    BY <1>6 DEF ReaderPolls
  <2>3. r = "fault" => current = None
    BY <2>1, <2>2 DEF Conversation, Faults, Open
  <2>4. Faults'
    BY <1>2, <1>3, <2>1, <2>2, <2>3 DEF Conversation, Faults
  <2> QED
    BY <1>1, <1>2, <2>1, <2>2, <2>4, ReaderMoves DEF Conversation
<1>7. CASE ReaderTakesCall(c) \/ ReaderTakesOther(c) \/ ReaderRefuses(c)
  <2>1. Receives(c) /\ conn[c] = current /\ current \in Workers /\ reader[c] = "recv" /\ up[current] # <<>>
    BY <1>7, ReceivedShape DEF ReaderTakesCall, ReaderTakesOther, ReaderRefuses, Receives
  <2>2. up' = Pop(up, current) /\ down' = down /\ conn' = conn
    BY <1>7, <2>1 DEF ReaderTakesCall, ReaderTakesOther, ReaderRefuses
  <2>3. \E r \in {"serve", "died", "result", "look"} : reader' = [reader EXCEPT ![c] = r]
    BY <1>7 DEF ReaderTakesCall, ReaderTakesOther, ReaderRefuses
  <2>4. Faults'
    BY <1>2, <1>3, <2>2, <2>3 DEF Conversation, Faults
  <2>5. up \in [Workers -> Seq(Answers)] /\ worker[current] # "none"
    BY <2>1, Bounds DEF Types, PipeType, WorkerType, ParentType, Workers, None
  <2>6. \A w \in Workers : w # current => up'[w] = up[w]
    BY <2>1, <2>2, <2>5, PipeShapes
  <2>7. \A w \in Workers : Wired(w)'
    BY <1>2, <2>2, <2>5, <2>6, WiredFrame DEF Conversation
  <2>8. ASSUME NEW w \in Workers, w = current, Alive(w)' PROVE Engaged(w)'
    <3>1. Engaged(w)
      BY <1>2, <2>8, AtWorkEngaged DEF Alive, Conversation
    <3>2. Calling(c, w) \/ Answered(c, w)
      BY <1>1, <2>1, <2>8, <3>1 DEF Engaged, Exchange, Asked, Running, Replied, Works, Resting
    <3>3. Exchange(c, w)'
      <4>1. CASE ReaderRefuses(c)
        BY <1>3, <4>1 DEF ReaderRefuses, Exchange
      <4>2. CASE Calling(c, w) /\ ~ReaderRefuses(c)
        <5>1. up[w] = One(ToolCall(calls[w]))
          BY <4>2 DEF Calling, Works
        <5>2. Head(up[w]) = ToolCall(calls[w]) /\ up'[w] = <<>>
          BY <2>2, <2>5, <2>8, <5>1, PipeShapes
        <5>3. ReaderTakesCall(c)
          BY <1>7, <2>1, <2>8, <4>2, <5>2, MessageKinds DEF ReaderTakesOther
        <5>4. callid'[c] = calls[w] /\ task'[c] # "off" /\ reader'[c] = "serve"
          BY <1>3, <2>1, <2>8, <5>2, <5>3, MessageKinds DEF ReaderTakesCall
        <5>5. Served(c, w)'
          BY <1>2, <2>2, <4>2, <5>2, <5>4 DEF Calling, Served, Works
        <5> QED
          BY <5>4, <5>5 DEF Exchange
      <4>3. CASE Answered(c, w) /\ ~ReaderRefuses(c)
        <5>1. up[w] = One(Response(c))
          BY <4>3 DEF Answered
        <5>2. Head(up[w]) = Response(c) /\ up'[w] = <<>>
          BY <2>2, <2>5, <2>8, <5>1, PipeShapes
        <5>3. ReaderTakesOther(c)
          BY <1>7, <2>1, <2>8, <4>3, <5>2, MessageKinds DEF ReaderTakesCall
        <5>4. reader'[c] = "result"
          BY <1>3, <2>1, <2>8, <5>2, <5>3, MessageKinds DEF ReaderTakesOther
        <5>5. Resting(w, <<>>)'
          BY <1>2, <2>2, <4>3, <5>2 DEF Answered, Resting
        <5> QED
          BY <5>4, <5>5 DEF Exchange
      <4> QED
        BY <3>2, <4>1, <4>2, <4>3
    <3> QED
      BY <1>1, <1>2, <3>3, Bounds DEF Engaged
  <2>9. AtWork'
    BY <1>2, <2>8, EngagedAtWork
  <2> QED
    BY <2>4, <2>7, <2>9 DEF Conversation
<1>8. CASE ReaderReplies(c)
  <2>1. reader[c] = "serve" /\ up' = up /\ conn' = conn
    BY <1>8 DEF ReaderReplies
  <2>2. \E r \in {"died", "look"} : reader' = [reader EXCEPT ![c] = r]
    BY <1>8 DEF ReaderReplies
  <2>3. Faults'
    BY <1>2, <1>3, <2>1, <2>2 DEF Conversation, Faults
  <2>4. CASE ~Alive(current)
    <3>1. down' = down
      BY <1>8, <2>4 DEF ReaderReplies
    <3>2. \A w \in Workers : Wired(w)'
      BY <1>2, <2>1, <3>1, WiredFrame DEF Conversation
    <3>3. AtWork'
      BY <1>2, <2>4 DEF AtWork, Alive
    <3> QED
      BY <2>3, <3>2, <3>3 DEF Conversation
  <2>5. CASE Alive(current)
    <3>1. current \in Workers /\ down \in [Workers -> Seq(Requests)]
      BY <2>5, AtWorkEngaged DEF Types, PipeType
    <3>2. PICK w \in Workers : w = current
      BY <3>1
    <3>3. Served(c, w)
      BY <1>1, <2>1, <2>5, <3>2, AtWorkEngaged DEF Conversation, Engaged, Exchange
    <3>4. down' = Send(down, w, ToolResult(calls[w])) /\ down[w] = <<>> /\ worker[w] = "call"
      BY <1>8, <2>5, <3>2, <3>3 DEF ReaderReplies, Served, Works
    <3>5. down'[w] = One(ToolResult(calls[w])) /\ \A x \in Workers : x # w => down'[x] = down[x]
      BY <3>1, <3>4, PipeShapes
    <3>6. Replied(c, w)'
      BY <1>2, <2>1, <3>3, <3>5 DEF Served, Replied, Works
    <3>7. Exchange(c, w)'
      BY <1>3, <2>2, <3>6 DEF Exchange
    <3>8. Engaged(w)'
      BY <1>1, <1>2, <3>7, Bounds DEF Engaged
    <3>9. AtWork'
      BY <1>2, <3>2, <3>8, EngagedAtWork
    <3>10. ASSUME NEW x \in Workers PROVE Wired(x)'
      <4>1. CASE x = w
        BY <1>2, <3>4, <3>5, <4>1 DEF Conversation, Wired
      <4>2. CASE x # w
        BY <1>2, <2>1, <3>5, <4>2, WiredFrame DEF Conversation
      <4> QED
        BY <4>1, <4>2
    <3> QED
      BY <2>3, <3>9, <3>10 DEF Conversation
  <2> QED
    BY <2>4, <2>5
<1> QED
  BY <1>4, <1>5, <1>6, <1>7, <1>8 DEF ReaderStep
\* A step of one worker that leaves it wired, and engaged if it is attached.
LEMMA WorkerMoves ==
  ASSUME Types, Types', Conversation, NEW w \in Workers, UNCHANGED <<parent, readers>>, Wired(w)',
         \A x \in Workers : x # w => /\ worker'[x] = worker[x] /\ running'[x] = running[x] /\ thread'[x] = thread[x]
                                     /\ calls'[x] = calls[x] /\ down'[x] = down[x] /\ up'[x] = up[x],
         w = current /\ Alive(w)' => Engaged(w)'
  PROVE  Conversation'
<1>1. UNCHANGED <<lock, closer, current, reader, conn, task, callid>>
  BY DEF parent, readers
<1>2. \A x \in Workers : Wired(x)'
  BY WiredFrame DEF Conversation
<1>3. Faults'
  BY <1>1 DEF Conversation, Faults
<1>4. ASSUME NEW x \in Workers, x = current, Alive(x)' PROVE Engaged(x)'
  <2>1. CASE x = w
    BY <1>4, <2>1
  <2>2. CASE x # w
    <3>1. Engaged(x)
      BY <1>4, <2>2, AtWorkEngaged DEF Alive, Conversation
    <3>2. \A c \in Cells : Exchange(c, x) => Exchange(c, x)'
      BY <1>1, <2>2, ExchangeFrame
    <3>3. \A d : Resting(x, d) => Resting(x, d)'
      BY <2>2 DEF Resting
    <3> QED
      BY <1>1, <3>1, <3>2, <3>3 DEF Engaged
  <2> QED
    BY <2>1, <2>2
<1>5. AtWork'
  BY <1>1, <1>4, EngagedAtWork
<1> QED
  BY <1>2, <1>3, <1>5 DEF Conversation

\* The steps of the workers.
LEMMA WorkerTalks ==
  ASSUME ~Lingers, Types, Types', Conversation, NEW w \in Workers, WorkerStep(w)
  PROVE  Conversation'
<1>0. UNCHANGED <<parent, readers>> /\ UNCHANGED <<lock, closer, current, reader, conn, task, callid>>
  BY WorkersLeave DEF parent, readers
<1>1. /\ DOMAIN worker = Workers /\ DOMAIN running = Workers /\ DOMAIN calls = Workers
      /\ down \in [Workers -> Seq(Requests)] /\ up \in [Workers -> Seq(Answers)]
  BY DEF Types, WorkerType, PipeType
<1>2. Wired(w) /\ thread[w] = "off"
  BY DEF Conversation, Wired
<1>3. w = current /\ Alive(w) => Engaged(w)
  BY AtWorkEngaged DEF Conversation
<1>4. w # None
  BY DEF Workers, None
<1>5. CASE WorkerBoots(w)
  <2>1. worker' = [worker EXCEPT ![w] = "idle"] /\ worker[w] = "boot" /\ UNCHANGED <<running, thread, calls, down, up>>
    BY <1>5 DEF WorkerBoots, pipes
  <2>2. Wired(w)'
    BY <1>1, <1>2, <2>1 DEF Wired
  <2>3. \A d : Resting(w, d) => Resting(w, d)'
    BY <1>1, <2>1 DEF Resting
  <2>4. \A c \in Cells : Exchange(c, w) => Exchange(c, w)'
    BY <1>0, <2>1, <2>3 DEF Exchange, Asked, Running, Calling, Served, Replied, Answered, Works
  <2>5. w = current => Engaged(w)'
    BY <1>0, <1>3, <1>4, <2>1, <2>3, <2>4 DEF Engaged, Alive
  <2> QED
    BY <1>0, <1>1, <2>1, <2>2, <2>5, WorkerMoves
<1>6. CASE WorkerFatal(w) \/ WorkerCrashes(w) \/ WorkerKilled(w)
  <2>1. worker' = [worker EXCEPT ![w] = "dead"] /\ UNCHANGED <<running, thread, calls, down>>
    BY <1>6 DEF WorkerFatal, WorkerCrashes, WorkerKilled, pipes
  <2>2. \A x \in Workers : x # w => up'[x] = up[x]
    BY <1>1, <1>6 DEF WorkerFatal, WorkerCrashes, WorkerKilled, pipes, Send
  <2>3. Wired(w)' /\ ~Alive(w)'
    BY <1>1, <1>2, <2>1 DEF Wired, Alive
  <2> QED
    BY <1>0, <1>1, <2>1, <2>2, <2>3, WorkerMoves
<1>7. CASE WorkerTakes(w)
  <2>1. worker[w] = "idle" /\ down[w] # <<>> /\ down' = Pop(down, w) /\ UNCHANGED <<thread, calls>>
    BY <1>7 DEF WorkerTakes
  <2>2. PICK c \in Cells : down[w] = One(Shutdown) \/ down[w] = One(Run(c)) \/ down[w] = Two(Shutdown, Run(c))
    <3>1. 1 \in Cells
      BY BoundsAssumption DEF Cells
    <3> QED
      BY <1>2, <2>1, <3>1 DEF Wired
  <2>3. \A x \in Workers : x # w => worker'[x] = worker[x] /\ running'[x] = running[x]
    BY <1>7 DEF WorkerTakes, Types, WorkerType
  <2>4. \A x \in Workers : x # w => down'[x] = down[x]
    BY <1>1, <2>1, PipeShapes
  <2>5. CASE down[w] = One(Shutdown) \/ down[w] = Two(Shutdown, Run(c))
    <3>1. Head(down[w]) = Shutdown
      BY <2>5, ShortPipes
    <3>2. worker'[w] = "dead" /\ up' = up
      BY <1>1, <1>7, <3>1, MessageKinds DEF WorkerTakes
    <3>3. Wired(w)' /\ ~Alive(w)'
      BY <1>2, <2>1, <3>2 DEF Wired, Alive
    <3> QED
      BY <1>0, <2>1, <2>3, <2>4, <3>2, <3>3, WorkerMoves
  <2>6. CASE down[w] = One(Run(c))
    <3>1. Head(down[w]) = Run(c) /\ down'[w] = <<>>
      <4>1. Head(down[w]) = Run(c) /\ Tail(down[w]) = <<>>
        BY <2>6, ShortPipes
      <4>2. Pop(down, w)[w] = Tail(down[w])
        BY <1>1 DEF Pop
      <4> QED
        BY <2>1, <4>1, <4>2
    <3>2. worker'[w] = "busy" /\ running'[w] = c /\ up' = up
      BY <1>1, <1>7, <3>1, MessageKinds DEF WorkerTakes
    <3>3. Wired(w)'
      BY <1>2, <2>1, <3>1, <3>2 DEF Wired
    <3>4. ASSUME w = current PROVE Engaged(w)'
      <4>1. Engaged(w)
        BY <1>3, <1>4, <2>1, <3>4 DEF Alive
      <4>2. ~Resting(w, <<>>) /\ ~Resting(w, One(Shutdown))
        <5>1. Shutdown # Run(c)
          BY MessageKinds
        <5>2. down[w] # One(Shutdown)
          BY <3>1, <5>1, ShortPipes
        <5> QED
          BY <2>1, <5>2 DEF Resting
      <4>3. lock # Free /\ lock # Close
        BY <4>1, <4>2 DEF Engaged
      <4>4. ASSUME NEW d \in Cells, lock = d PROVE Exchange(d, w)'
        <5>1. Exchange(d, w)
          BY <4>1, <4>4 DEF Engaged
        <5>2. CASE reader[d] \in {"look", "poll", "check", "recv"}
          <6>1. Asked(d, w)
            BY <2>1, <5>1, <5>2 DEF Exchange, Running, Calling, Replied, Answered, Works
          <6>2. down[w] = One(Run(d)) \/ down[w] = Two(Shutdown, Run(d))
            BY <6>1 DEF Asked, Resting
          <6>3. Head(down[w]) = Run(d) \/ Head(down[w]) = Shutdown
            BY <6>2, ShortPipes
          <6>4. d = c
            BY <3>1, <6>3, MessageKinds
          <6>5. up[w] = <<>>
            BY <6>1 DEF Asked, Resting
          <6>6. Running(d, w)'
            BY <3>1, <3>2, <6>4, <6>5 DEF Running, Works
          <6> QED
            BY <1>0, <5>2, <6>6 DEF Exchange
        <5>3. CASE reader[d] \notin {"look", "poll", "check", "recv"}
          <6>1. reader[d] # "serve" /\ reader[d] # "result"
            BY <2>1, <4>2, <5>1 DEF Exchange, Served, Works
          <6> QED
            BY <1>0, <5>3, <6>1 DEF Exchange
        <5> QED
          BY <5>2, <5>3
      <4> QED
        BY <1>0, <4>3, <4>4 DEF Engaged
    <3> QED
      BY <1>0, <2>1, <2>3, <2>4, <3>2, <3>3, <3>4, WorkerMoves
  <2> QED
    BY <2>2, <2>5, <2>6
<1>8. CASE WorkerCalls(w)
  <2>1. /\ worker[w] = "busy" /\ w = current
        /\ worker' = [worker EXCEPT ![w] = "call"] /\ calls' = [calls EXCEPT ![w] = calls[w] + 1]
        /\ up' = Send(up, w, ToolCall(calls[w] + 1)) /\ UNCHANGED <<running, thread, down>>
    BY <1>8 DEF WorkerCalls, Open
  <2>2. worker'[w] = "call" /\ calls'[w] = calls[w] + 1
    BY <1>1, <2>1
  <2>3. \A x \in Workers : x # w => worker'[x] = worker[x] /\ calls'[x] = calls[x] /\ up'[x] = up[x]
    BY <1>1, <2>1 DEF Send
  <2>4. Wired(w)'
    BY <1>2, <2>1, <2>2 DEF Wired
  <2>5. Engaged(w)
    BY <1>3, <1>4, <2>1 DEF Alive
  <2>6. lock # Free /\ lock # Close
    BY <2>1, <2>5 DEF Engaged, Resting
  <2>7. ASSUME NEW c \in Cells, lock = c PROVE Exchange(c, w)'
    <3>1. Exchange(c, w)
      BY <2>5, <2>7 DEF Engaged
    <3>2. CASE reader[c] \in {"look", "poll", "check", "recv"}
      <4>1. Running(c, w)
        BY <2>1, <3>1, <3>2 DEF Exchange, Asked, Resting, Calling, Replied, Answered, Works
      <4>2. up'[w] = One(ToolCall(calls'[w]))
        BY <1>1, <2>1, <2>2, <4>1, PipeShapes DEF Running, Works
      <4>3. Calling(c, w)'
        BY <2>1, <2>2, <4>1, <4>2 DEF Running, Calling, Works
      <4> QED
        BY <1>0, <3>2, <4>3 DEF Exchange
    <3>3. CASE reader[c] \notin {"look", "poll", "check", "recv"}
      <4>1. reader[c] # "serve" /\ reader[c] # "result"
        BY <2>1, <3>1 DEF Exchange, Served, Works, Resting
      <4> QED
        BY <1>0, <3>3, <4>1 DEF Exchange
    <3> QED
      BY <3>2, <3>3
  <2>8. Engaged(w)'
    BY <1>0, <2>6, <2>7 DEF Engaged
  <2> QED
    BY <1>0, <2>1, <2>3, <2>4, <2>8, WorkerMoves
<1>9. CASE WorkerGets(w)
  <2>1. /\ worker[w] = "call" /\ down[w] # <<>> /\ down' = Pop(down, w)
        /\ worker' = [worker EXCEPT ![w] = "busy"] /\ UNCHANGED <<running, thread, calls, up>>
    BY <1>9 DEF WorkerGets
  <2>2. down[w] = One(ToolResult(calls[w]))
    BY <1>2, <2>1 DEF Wired
  <2>3. worker'[w] = "busy" /\ down'[w] = <<>>
    <3>1. worker'[w] = "busy"
      BY <1>1, <2>1
    <3>2. Pop(down, w)[w] = <<>>
      BY <1>1, <2>2, PipeShapes
    <3> QED
      BY <2>1, <3>1, <3>2
  <2>4. \A x \in Workers : x # w => worker'[x] = worker[x] /\ down'[x] = down[x]
    <3>1. \A x \in Workers : x # w => worker'[x] = worker[x]
      BY <1>1, <2>1
    <3>2. \A x \in Workers : x # w => Pop(down, w)[x] = down[x]
      BY <1>1, PipeShapes
    <3> QED
      BY <2>1, <3>1, <3>2
  <2>5. Wired(w)'
    BY <1>2, <2>1, <2>3 DEF Wired
  <2>6. ASSUME w = current PROVE Engaged(w)'
    <3>1. Engaged(w)
      BY <1>3, <1>4, <2>1, <2>6 DEF Alive
    <3>2. lock # Free /\ lock # Close
      BY <2>1, <3>1 DEF Engaged, Resting
    <3>3. ASSUME NEW c \in Cells, lock = c PROVE Exchange(c, w)'
      <4>1. Exchange(c, w)
        BY <3>1, <3>3 DEF Engaged
      <4>2. CASE reader[c] \in {"look", "poll", "check", "recv"}
        <5>1. Replied(c, w)
          BY <2>1, <4>1, <4>2 DEF Exchange, Asked, Resting, Running, Calling, Answered, Works
        <5>2. Running(c, w)'
          BY <2>1, <2>3, <5>1 DEF Running, Replied, Works
        <5> QED
          BY <1>0, <4>2, <5>2 DEF Exchange
      <4>3. CASE reader[c] \notin {"look", "poll", "check", "recv"}
        <5>1. reader[c] # "serve" /\ reader[c] # "result"
          BY <2>1, <4>1 DEF Exchange, Served, Works, Resting
        <5> QED
          BY <1>0, <4>3, <5>1 DEF Exchange
      <4> QED
        BY <4>2, <4>3
    <3> QED
      BY <1>0, <3>2, <3>3 DEF Engaged
  <2> QED
    BY <1>0, <2>1, <2>4, <2>5, <2>6, WorkerMoves
<1>10. CASE WorkerFinishes(w)
  <2>1. /\ worker[w] = "busy" /\ running' = [running EXCEPT ![w] = None]
        /\ worker' = [worker EXCEPT ![w] = IF Open(w) THEN "idle" ELSE "dead"]
        /\ up' = IF Open(w) THEN Send(up, w, Response(running[w])) ELSE up
        /\ UNCHANGED <<thread, calls, down>>
    BY <1>10 DEF WorkerFinishes
  <2>2. \A x \in Workers : x # w => worker'[x] = worker[x] /\ running'[x] = running[x] /\ up'[x] = up[x]
    BY <1>1, <2>1, PipeShapes
  <2>3. worker'[w] \in {"idle", "dead"} /\ (w = current => worker'[w] = "idle")
    BY <1>1, <2>1 DEF Open
  <2>4. Wired(w)'
    BY <1>2, <2>1, <2>3 DEF Wired
  <2>5. ASSUME w = current PROVE Engaged(w)'
    <3>1. Engaged(w)
      BY <1>3, <1>4, <2>1, <2>5 DEF Alive
    <3>2. lock # Free /\ lock # Close
      BY <2>1, <3>1 DEF Engaged, Resting
    <3>3. ASSUME NEW c \in Cells, lock = c PROVE Exchange(c, w)'
      <4>1. Exchange(c, w)
        BY <3>1, <3>3 DEF Engaged
      <4>2. CASE reader[c] \in {"look", "poll", "check", "recv"}
        <5>1. Running(c, w)
          BY <2>1, <4>1, <4>2 DEF Exchange, Asked, Resting, Replied, Calling, Answered, Works
        <5>2. up[w] = <<>> /\ running[w] = c /\ down[w] = <<>>
          BY <5>1 DEF Running, Works
        <5>3. up'[w] = One(Response(c))
          BY <1>1, <2>1, <2>5, <5>2, ShortPipes DEF Open, Send
        <5>4. Answered(c, w)'
          BY <2>1, <2>3, <2>5, <5>2, <5>3 DEF Answered
        <5> QED
          BY <1>0, <4>2, <5>4 DEF Exchange
      <4>3. CASE reader[c] \notin {"look", "poll", "check", "recv"}
        <5>1. reader[c] # "serve" /\ reader[c] # "result"
          BY <2>1, <4>1 DEF Exchange, Served, Works, Resting
        <5> QED
          BY <1>0, <4>3, <5>1 DEF Exchange
      <4> QED
        BY <4>2, <4>3
    <3> QED
      BY <1>0, <3>2, <3>3 DEF Engaged
  <2> QED
    BY <1>0, <2>1, <2>2, <2>4, <2>5, WorkerMoves
<1>11. CASE WorkerHangsUp(w)
  <2>1. /\ w # current /\ down[w] = <<>> /\ worker[w] \in {"idle", "call"}
        /\ worker' = [worker EXCEPT ![w] = IF worker[w] = "idle" THEN "dead" ELSE "busy"]
        /\ UNCHANGED <<running, thread, calls, down, up>>
    BY <1>11 DEF WorkerHangsUp, Open, pipes
  <2>2. Wired(w)'
    BY <1>1, <1>2, <2>1 DEF Wired
  <2> QED
    BY <1>0, <1>1, <2>1, <2>2, WorkerMoves
<1> QED
  BY <1>2, <1>5, <1>6, <1>7, <1>8, <1>9, <1>10, <1>11 DEF WorkerStep, ThreadStarts, ThreadCalls, ThreadGets

\* Every step keeps the invariant.
LEMMA ConversationNext ==
  ASSUME ~MayCancel, ~Lingers, Types, Types', Holding, Awaited, Conversation, [Next]_vars
  PROVE  Conversation'
<1>1. CASE UNCHANGED vars
  BY <1>1, TalkFrame DEF vars, readers
<1> QED
  BY <1>1, ParentTalks, CloseTalks, ReaderTalks, WorkerTalks DEF Next

\* A worker that is wired finds in its pipe what it waits for.
LEMMA WiredReplies ==
  ASSUME Types, Conversation
  PROVE  RepliesReachCallers /\ CleanHandover
<1>1. ASSUME NEW w \in Workers, Alive(w), down[w] # <<>>
      PROVE  /\ worker[w] = "idle" => Head(down[w]).op # "tool_result"
             /\ "call" \in {worker[w], thread[w]} => Head(down[w]) = ToolResult(calls[w])
  <2>0. down \in [Workers -> Seq(Requests)] /\ Wired(w) /\ thread[w] = "off"
    BY DEF Types, PipeType, Conversation, Wired
  <2>1. ASSUME worker[w] = "idle" PROVE Head(down[w]).op # "tool_result"
    <3>1. \/ down[w] = One(Shutdown)
          \/ \E c \in Cells : down[w] = One(Run(c)) \/ down[w] = Two(Shutdown, Run(c))
      BY <1>1, <2>0, <2>1 DEF Wired
    <3>2. Head(down[w]) = Shutdown \/ \E c \in Cells : Head(down[w]) = Run(c)
      BY <2>0, <3>1, PipeShapes
    <3> QED
      BY <3>2, MessageKinds
  <2>2. ASSUME "call" \in {worker[w], thread[w]} PROVE Head(down[w]) = ToolResult(calls[w])
    <3>1. down[w] = One(ToolResult(calls[w]))
      BY <1>1, <2>0, <2>2 DEF Wired
    <3> QED
      BY <2>0, <3>1, PipeShapes
  <2> QED
    BY <2>1, <2>2
<1>2. CleanHandover
  <2>1. ~closed => closer # "cancelled"
    BY DEF Types, ParentType
  <2>2. lock = Free /\ ~closed /\ Alive(current) => Resting(current, <<>>)
    BY <2>1 DEF Conversation, AtWork
  <2> QED
    BY <2>2 DEF CleanHandover, Resting
<1> QED
  BY <1>1, <1>2, TypesAreOK DEF RepliesReachCallers

(***************************************************************************)
(* Unless a run_cell is cancelled or a cell leaves a thread behind, the    *)
(* op loop of a worker never reads the reply to a brokered call, a         *)
(* brokered call reads the reply to itself, and a cell that takes the lock *)
(* finds the worker at rest with both its pipes empty: for any number of   *)
(* cells, workers, calls and crashes, any deadlines, recoveries, closes    *)
(* and tampered answers.                                                   *)
(***************************************************************************)
THEOREM ConversationsSound ==
  ASSUME ~MayCancel, ~Lingers PROVE Spec => [](RepliesReachCallers /\ CleanHandover)
<1> DEFINE I == Types /\ Holding /\ NoOrphan /\ Awaited /\ Conversation
<1>1. Init => I
  <2> SUFFICES ASSUME Init PROVE I
    OBVIOUS
  <2>1. Holding /\ NoOrphan /\ Awaited
    BY Bounds DEF Init, Holding, NoOrphan, Alive, Awaited
  <2>2. Faults /\ AtWork
    BY DEF Init, Faults, AtWork, Alive
  <2>3. \A w \in Workers : Wired(w)
    BY DEF Init, Wired
  <2> QED
    BY <2>1, <2>2, <2>3, TypesInit DEF Conversation
<1>2. I /\ [Next]_vars => I'
  BY TypesNext, HoldingNext, AwaitedNext, ConversationNext
<1>3. I => RepliesReachCallers /\ CleanHandover
  BY WiredReplies
<1> HIDE DEF I
<1> QED
  BY <1>1, <1>2, <1>3, PTL DEF Spec

\* In particular a cell that is sent to a worker finds it booting or idle, and
\* nothing of an earlier cell in the pipe.
THEOREM HandoversClean ==
  ASSUME ~MayCancel, ~Lingers PROVE Spec => []CleanHandover
<1>1. RepliesReachCallers /\ CleanHandover => CleanHandover
  OBVIOUS
<1> QED
  BY <1>1, ConversationsSound, PTL

=============================================================================
