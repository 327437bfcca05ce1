-------------------------------- MODULE Jobs --------------------------------
(***************************************************************************)
(* Background jobs of a QueueManager (runtime/channels.py): spawn() and    *)
(* the task it creates, JobHandle.cancel, cancel(channel), remove_channel  *)
(* and shutdown, which await the unwinding of the tasks they cancel.       *)
(*                                                                         *)
(* A job is a coroutine or an async generator whose code is chosen freely: *)
(* it may take any number of steps to clean up after a cancellation, and   *)
(* may ignore one.  The channel's buffer is the subject of Channels; here  *)
(* a channel is the sequence of what the jobs put on it and announced.     *)
(***************************************************************************)
EXTENDS Integers, Sequences, Queues

CONSTANTS
  JobSet,       \* jobs; each is spawned once
  Generators,   \* those that are async generators
  FeedOf,       \* the channel each one feeds
  Cancellers,   \* tasks that call cancel() or shutdown()
  MaxValues     \* bound of the model: values one job puts

ASSUME JobsAssumption ==
  Generators \subseteq JobSet /\ MaxValues \in Nat

VARIABLES
  feeds,        \* registered channels
  handles,      \* QueueManager._handles
  job,          \* for each job: where its task is
  handle,       \* for each job: state of its JobHandle
  told,         \* jobs whose task has a cancellation to deliver
  list,         \* for each canceller: the jobs it still cancels, the one it waits for first
  stream,       \* history: what each job put and announced
  cut,          \* history: jobs whose generator failed to close
  left          \* history: jobs that a cancel() or shutdown() has left behind it

jobVars == <<feeds, handles, job, handle, told, list, stream, cut, left>>

FeedSet    == {FeedOf[j] : j \in JobSet}
Unwound(j) == job[j] \in {"over", "void"}
Puts(j, xs) == stream' = [stream EXCEPT ![j] = @ \o xs]

----------------------------------------------------------------------------
(***************************************************************************)
(* spawn and its task.                                                     *)
(***************************************************************************)

Spawn(j) ==
  /\ job[j] = "none" /\ FeedOf[j] \in feeds
  /\ job' = [job EXCEPT ![j] = "new"]
  /\ handle' = [handle EXCEPT ![j] = "running"]
  /\ handles' = Append(handles, j)
  /\ UNCHANGED <<feeds, told, list, stream, cut, left>>

JobStarts(j) ==
  /\ job[j] = "new" /\ j \notin told
  /\ job' = [job EXCEPT ![j] = "running"]
  /\ UNCHANGED <<feeds, handles, handle, told, list, stream, cut, left>>

\* asyncio: a task that is cancelled before its first step never enters _run.
NeverStarts(j) ==
  /\ job[j] = "new" /\ j \in told
  /\ job' = [job EXCEPT ![j] = "void"]
  /\ told' = told \ {j}
  /\ UNCHANGED <<feeds, handles, handle, list, stream, cut, left>>

Yields(j) ==
  /\ job[j] = "running" /\ j \in Generators /\ j \notin told /\ Len(stream[j]) < MaxValues
  /\ Puts(j, <<"value">>)
  /\ UNCHANGED <<feeds, handles, job, handle, told, list, cut, left>>

\* A coroutine returns its result, a generator is exhausted.
JobDone(j) ==
  /\ job[j] = "running" /\ j \notin told
  /\ Puts(j, IF j \in Generators THEN <<"end">> ELSE <<"value", "end">>)
  /\ handle' = [handle EXCEPT ![j] = "done"]
  /\ job' = [job EXCEPT ![j] = "over"]
  /\ UNCHANGED <<feeds, handles, told, list, cut, left>>

\* The job raises: JobError on both channels, then the end.
JobFails(j) ==
  /\ job[j] \in {"running", "unwinding"} /\ j \notin told
  /\ Puts(j, <<"error", "end">>)
  /\ handle' = [handle EXCEPT ![j] = "failed"]
  /\ job' = [job EXCEPT ![j] = "over"]
  /\ UNCHANGED <<feeds, handles, told, list, cut, left>>

\* CancelledError enters the job where it waits.  Its cleanup may wait too,
\* and a second cancellation meets it there.
Delivered(j) ==
  /\ job[j] \in {"running", "unwinding"} /\ j \in told
  /\ told' = told \ {j}
  /\ job' = [job EXCEPT ![j] = "unwinding"]
  /\ UNCHANGED <<feeds, handles, handle, list, stream, cut, left>>

Ignores(j) ==
  /\ job[j] = "unwinding" /\ j \notin told
  /\ job' = [job EXCEPT ![j] = "running"]
  /\ UNCHANGED <<feeds, handles, handle, told, list, stream, cut, left>>

\* The CancelledError leaves the job, whose generator is finished with it.
JobCancelled(j) ==
  /\ job[j] = "unwinding" /\ j \notin told
  /\ Puts(j, <<"end">>)
  /\ handle' = [handle EXCEPT ![j] = "cancelled"]
  /\ job' = [job EXCEPT ![j] = "over"]
  /\ UNCHANGED <<feeds, handles, told, list, cut, left>>

\* put() raises in the loop over a generator, which is still open then:
\* aclose() runs its cleanup, which may wait.
PutFails(j) ==
  /\ job[j] = "running" /\ j \in Generators /\ j \notin told
  /\ Puts(j, <<"error">>)
  /\ handle' = [handle EXCEPT ![j] = "failed"]
  /\ job' = [job EXCEPT ![j] = "closing"]
  /\ UNCHANGED <<feeds, handles, told, list, cut, left>>

Closed(j) ==
  /\ job[j] = "closing" /\ j \notin told
  /\ Puts(j, <<"end">>)
  /\ job' = [job EXCEPT ![j] = "over"]
  /\ UNCHANGED <<feeds, handles, handle, told, list, cut, left>>

\* The cleanup is cancelled or raises: nothing comes after it.
CloseFails(j) ==
  /\ job[j] = "closing"
  /\ cut' = cut \cup {j}
  /\ told' = told \ {j}
  /\ job' = [job EXCEPT ![j] = "over"]
  /\ UNCHANGED <<feeds, handles, handle, list, stream, left>>

----------------------------------------------------------------------------
(***************************************************************************)
(* JobHandle.cancel, for each job of the canceller's list.                 *)
(***************************************************************************)

\* Task.cancel of the jobs in js.
Tell(js) == told' = told \cup {j \in js : job[j] # "none" /\ ~Unwound(j)}

\* A task that is done is left at once, the first other one is cancelled.
Proceed(k, q) ==
  LET open == {i \in 1..Len(q) : ~Unwound(q[i])}
      next == IF open = {} THEN Len(q) + 1 ELSE CHOOSE i \in open : \A n \in open : i <= n
  IN  /\ list' = [list EXCEPT ![k] = SubSeq(q, next, Len(q))]
      /\ Tell({q[i] : i \in {next} \cap open})
      /\ left' = left \cup {q[i] : i \in 1..(next - 1)}

\* cancel() of a handle; cancel(channel) does the same for the latest handle
\* of the channel, and flushes its buffer.
CancelCall(k, j) ==
  /\ list[k] = <<>> /\ job[j] # "none"
  /\ Proceed(k, <<j>>)
  /\ UNCHANGED <<feeds, handles, job, handle, stream, cut>>

\* shutdown() takes the handles off the manager and cancels one by one.
Shutdown(k) ==
  /\ list[k] = <<>> /\ handles # <<>>
  /\ handles' = <<>>
  /\ Proceed(k, handles)
  /\ UNCHANGED <<feeds, job, handle, stream, cut>>

\* Mutant: cancel() does not wait for the task.
NextCancelAtOnce(k) ==
  /\ list[k] # <<>>
  /\ handle' = [handle EXCEPT ![Head(list[k])] = IF @ = "running" THEN "cancelled" ELSE @]
  /\ list' = [list EXCEPT ![k] = Tail(@)]
  /\ left' = left \cup {Head(list[k])}
  /\ UNCHANGED <<feeds, handles, job, told, stream, cut>>

\* The task is done: the next one is cancelled, or the call returns.
NextCancel(k) ==
  /\ list[k] # <<>> /\ Unwound(Head(list[k]))
  /\ handle' = [handle EXCEPT ![Head(list[k])] = IF @ = "running" THEN "cancelled" ELSE @]
  /\ Proceed(k, list[k])
  /\ UNCHANGED <<feeds, handles, job, stream, cut>>

\* The canceller is cancelled while it waits: asyncio passes that on to the
\* task it waits for, and cancel() swallows what comes back.
CancellerCancelled(k) ==
  /\ list[k] # <<>> /\ ~Unwound(Head(list[k]))
  /\ Tell({Head(list[k])})
  /\ UNCHANGED <<feeds, handles, job, handle, list, stream, cut, left>>

\* remove_channel tells the jobs of the channel and waits for none.
RemoveChannel(c) ==
  /\ c \in feeds
  /\ feeds' = feeds \ {c}
  /\ LET js == {j \in JobSet : FeedOf[j] = c /\ \E i \in 1..Len(handles) : handles[i] = j}
     IN  /\ Tell(js)
         /\ handle' = [j \in JobSet |-> IF j \in js /\ handle[j] = "running" THEN "cancelled" ELSE handle[j]]
  /\ handles' = Only(handles, {j \in JobSet : FeedOf[j] # c})
  /\ UNCHANGED <<job, list, stream, cut, left>>

----------------------------------------------------------------------------
JobsInit ==
  /\ feeds = FeedSet /\ handles = <<>>
  /\ job = [j \in JobSet |-> "none"] /\ handle = [j \in JobSet |-> "none"]
  /\ told = {}
  /\ list = [k \in Cancellers |-> <<>>]
  /\ stream = [j \in JobSet |-> <<>>] /\ cut = {} /\ left = {}

\* What a task does by itself; whether a job goes on is its own affair.
Unwinds(j) == NeverStarts(j) \/ Delivered(j) \/ JobCancelled(j) \/ JobFails(j) \/ Closed(j) \/ CloseFails(j)

JobsNext ==
  \/ \E j \in JobSet :
       \/ Spawn(j) \/ JobStarts(j) \/ Yields(j) \/ JobDone(j) \/ Ignores(j) \/ PutFails(j)
       \/ Unwinds(j)
  \/ \E k \in Cancellers :
       \/ \E j \in JobSet : CancelCall(k, j)
       \/ Shutdown(k) \/ NextCancel(k) \/ CancellerCancelled(k)
  \/ \E c \in FeedSet : RemoveChannel(c)

JobsSpec == JobsInit /\ [][JobsNext]_jobVars

----------------------------------------------------------------------------
(***************************************************************************)
(* Properties                                                              *)
(***************************************************************************)

JobsTypeOK ==
  /\ feeds \subseteq FeedSet /\ handles \in Seq(JobSet)
  /\ job \in [JobSet -> {"none", "new", "running", "unwinding", "closing", "over", "void"}]
  /\ handle \in [JobSet -> {"none", "running", "done", "failed", "cancelled"}]
  /\ told \subseteq JobSet
  /\ list \in [Cancellers -> Seq(JobSet)]
  /\ stream \in [JobSet -> Seq({"value", "error", "end"})]
  /\ cut \subseteq JobSet /\ left \subseteq JobSet

\* "Signals that no more values will arrive": StreamEnd is announced once, as
\* the last thing of a job, however it ended and however often it was
\* cancelled; only a job that never ran, or whose generator failed to close,
\* ends without one.
StreamEndsOnce ==
  /\ JobsTypeOK
  /\ \A j \in JobSet :
       /\ \A i \in 1..Len(stream[j]) : stream[j][i] = "end" => i = Len(stream[j]) /\ job[j] = "over"
       /\ job[j] = "over" /\ j \notin cut => stream[j] # <<>> /\ stream[j][Len(stream[j])] = "end"

\* "awaits cleanup so generator finally blocks run before the call returns":
\* cancel() and shutdown() leave behind only jobs that have ended, also when
\* their caller is cancelled or another one cancels the same job.  The handle
\* of such a job says how it ended, at the latest when everyone who waits for
\* the job has gone on.
CleanedUp ==
  \A j \in left :
    /\ Unwound(j)
    /\ handle[j] = "running" => \E k \in Cancellers : list[k] # <<>> /\ Head(list[k]) = j

\* Jobs end the way their docstrings say, whoever cancels them: the stream is
\* closed once and last, and a cancelled job is cleaned up before its canceller
\* goes on.
JobsEndCleanly == StreamEndsOnce /\ CleanedUp

=============================================================================
