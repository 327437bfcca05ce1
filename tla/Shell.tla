------------------------------- MODULE Shell -------------------------------
(***************************************************************************)
(* BashSession (tools/_bash_session.py): one bash process that runs the    *)
(* commands of many calls.  A command and the lines that report its end    *)
(* travel on stdin; the report comes back on a control pipe and ends in a  *)
(* sentinel of the call.  A call that times out kills what the command     *)
(* started and reads on to its sentinel, or replaces the shell.            *)
(*                                                                         *)
(* Calls run on one event loop, from one await to the next; bash runs      *)
(* beside them.  Output, directories and texts are left out, and so is the *)
(* optional init command, which start() sends like any other.              *)
(***************************************************************************)
EXTENDS Integers, Sequences, Queues

CONSTANTS
  Commands,     \* the calls of run() or run_stream(), one command each
  Servers,      \* those that may leave a background job
  Joined,       \* nobody calls while others are on a lock that was replaced
  MaxTrouble    \* bound on deaths, slow or failed starts, closings, new loops, cancellations

ASSUME ShellAssumption ==
  /\ Joined \in BOOLEAN /\ Servers \subseteq Commands
  /\ Commands \cap {"none", "start", "raised", "timed_out", "dead", "cancelled"} = {}

VARIABLES
  session,      \* _started, _started_on_loop, _process, _control_reader, _background_pids, _lock
  this_loop,    \* the loop that runs
  line,         \* calls that hold a lock or wait for it, in order
  call,         \* for each call: its place, its lock, what follows the start() under way, the
                \* shell it deals with, whose sentinel it awaits, whose report its first line is
  returned,     \* for each call: what it returned
  bash,         \* for each shell started: its stdin, its control pipe, whether it runs
  jobs,         \* commands with a background job that runs
  home,         \* for each command that left a job: the shell that started it
  keep,         \* keep_background_on_close
  disturbed,    \* history: shells in which a call was abandoned half way
  trouble       \* how often the environment interfered

shellVars == <<session, this_loop, line, call, returned, bash, jobs, home, keep, disturbed, trouble>>

None       == "none"
Start      == "start"   \* for the sentinel that start() asks for
Reading    == {"pinging", "reading", "term", "kill"}
Suspended  == {"spawning", "connecting", "closing"} \cup Reading
Idle(s, p) == [place |-> s, lock |-> 0, after |-> None, pipe |-> p, awaits |-> None, first |-> None]

Set(f, x, v)   == [f EXCEPT ![x] = v]
Frame(t, f)    == call' = Set(call, t, f)
Go(t, s)       == Frame(t, [call[t] EXCEPT !.place = s])
Place(t)       == call[t].place
InUse(t)       == Place(t) \in Suspended \cup {"queued", "sending"}
Alive(p)       == p # 0 /\ bash[p].alive
Trouble        == trouble < MaxTrouble /\ trouble' = trouble + 1

\* What one write asks of bash: the command, its report and its sentinel.
Sentinel(x)    == [of |-> x, do |-> "sentinel"]
Script(t)      == <<[of |-> t, do |-> "run"], [of |-> t, do |-> "code"], Sentinel(t)>>
Written(p, s)  == [bash EXCEPT ![p].stdin = @ \o s]

\* "sending" is a place between two awaits: no other call moves meanwhile.
At(t, s) == Place(t) = s /\ \A u \in Commands \ {t} : Place(u) # "sending"

----------------------------------------------------------------------------
\* Mutant: earlier background jobs are killed with the command.
SparedNobody == {c \in jobs : home[c] # session.process \/ ~Alive(session.process)}

\* The jobs that survive when the children of the shell are killed, those of
\* earlier commands excepted; a shell that is dead has no children any more.
Spared == {c \in jobs : home[c] # session.process \/ c \in session.pids \/ ~Alive(session.process)}

\* The jobs that may survive when the shell is closed: its process group is
\* signalled, unless bash is dead and has been collected.
Surviving == IF keep THEN jobs ELSE {c \in jobs : home[c] # session.process}
Leftover  == {Surviving, IF Alive(session.process) THEN Surviving ELSE jobs}

Ended(p) == IF p = 0 THEN bash ELSE Set(bash, p, [stdin |-> <<>>, control |-> <<>>, alive |-> FALSE])

\* The end of close(): the fields are as new, and so is the lock.
Fresh(l) == [started |-> FALSE, loop |-> 0, process |-> 0, reader |-> 0, pids |-> {}, lock |-> l]

\* reset(): a shell that runs, or is not known to be dead, is told to end and
\* awaited; then start().
Reset(t, next) ==
  /\ \/ /\ session.process # 0
        /\ Frame(t, [call[t] EXCEPT !.place = "closing", !.after = next, !.pipe = session.process])
        /\ session' = [session EXCEPT !.reader = 0]
        /\ jobs' = Surviving
        /\ UNCHANGED bash
     \/ /\ ~Alive(session.process)
        /\ Frame(t, [call[t] EXCEPT !.place = "spawning", !.after = next])
        /\ session' = Fresh(session.lock + 1)
        /\ bash' = Ended(session.process)
        /\ UNCHANGED jobs
  /\ UNCHANGED <<line, returned>>

CloseEnds(t) ==
  /\ At(t, "closing")
  /\ bash' = Ended(call[t].pipe)
  /\ session' = Fresh(session.lock + 1)
  /\ Go(t, "spawning")
  /\ UNCHANGED <<this_loop, line, returned, jobs, home, keep, disturbed, trouble>>

----------------------------------------------------------------------------
\* start(): spawn, connect the control pipe, and a sentinel there and back.
Spawned(t) ==
  /\ At(t, "spawning")
  /\ bash' = Append(bash, [stdin |-> <<>>, control |-> <<>>, alive |-> TRUE])
  /\ session' = [session EXCEPT !.process = Len(bash')]
  /\ Frame(t, [call[t] EXCEPT !.place = "connecting", !.pipe = Len(bash')])
  /\ UNCHANGED <<this_loop, line, returned, jobs, home, keep, disturbed, trouble>>

Connected(t) ==
  /\ At(t, "connecting")
  /\ session' = [session EXCEPT !.reader = call[t].pipe, !.started = TRUE, !.loop = this_loop]
  /\ bash' = IF Alive(session.process) THEN Written(session.process, <<Sentinel(Start)>>) ELSE bash
  /\ Frame(t, [call[t] EXCEPT !.place = "pinging", !.awaits = Start])
  /\ UNCHANGED <<this_loop, line, returned, jobs, home, keep, disturbed, trouble>>

----------------------------------------------------------------------------
\* A call returns or raises: the lock is released, and the jobs bash listed
\* are noted if there was a report in time.
Return(t, result) ==
  /\ Frame(t, Idle("done", call[t].pipe))
  /\ returned' = Set(returned, t, result)
  /\ line' = Without(line, t)
  /\ session' = IF result \in {"raised", "timed_out", "dead"} THEN session
                ELSE [session EXCEPT !.pids = {c \in jobs : home[c] = call[t].pipe}]
  /\ UNCHANGED jobs

\* The first lines of _run_unlocked, up to an await: a shell that belongs to
\* a loop that is gone is killed without one.
Enter(t, l) ==
  /\ \/ /\ ~session.started
        /\ Frame(t, [Idle("spawning", 0) EXCEPT !.lock = l, !.after = "send"])
        /\ UNCHANGED <<session, bash, jobs>>
     \/ /\ session.started /\ session.loop # this_loop
        /\ Frame(t, [Idle("spawning", 0) EXCEPT !.lock = l, !.after = "send"])
        /\ session' = Fresh(l + 1)
        /\ bash' = Ended(session.process)
        /\ jobs' \in Leftover
     \/ /\ session.started /\ session.loop = this_loop
        /\ Frame(t, [Idle("sending", 0) EXCEPT !.lock = l, !.after = "send"])
        /\ UNCHANGED <<session, bash, jobs>>
  /\ UNCHANGED <<this_loop, returned, home, keep, disturbed, trouble>>

\* run(): a lock of another loop is replaced; a free lock is taken at once.
\* The calls of a loop that is gone are gone with it.
Call(t) ==
  /\ At(t, "idle")
  /\ Joined => \A i \in 1..Len(line) : call[line[i]].lock = session.lock
  /\ line' = Append(line, t)
  /\ LET l == IF session.loop \in {0, this_loop} THEN session.lock ELSE session.lock + 1 IN
       \/ /\ \A i \in 1..Len(line) : call[line[i]].lock # l
          /\ Enter(t, l)
       \/ /\ \E i \in 1..Len(line) : call[line[i]].lock = l
          /\ Frame(t, [Idle("queued", 0) EXCEPT !.lock = l])
          /\ UNCHANGED <<session, bash, jobs, this_loop, returned, home, keep, disturbed, trouble>>

Wake(t) ==
  /\ At(t, "queued")
  /\ \A i \in 1..Len(line) : call[line[i]].lock = call[t].lock => \E j \in 1..i : line[j] = t
  /\ Enter(t, call[t].lock)
  /\ UNCHANGED line

----------------------------------------------------------------------------
\* The write of _send_and_wait, which is tried again once on a new shell.
Write(t, next) ==
  \/ /\ Alive(session.process) /\ session.reader # 0
     /\ bash' = Written(session.process, Script(t))
     /\ Frame(t, [call[t] EXCEPT !.place = "reading", !.awaits = t, !.pipe = session.reader])
     /\ UNCHANGED <<session, line, returned, jobs>>
  \/ /\ ~Alive(session.process) /\ session.process # 0 /\ session.reader # 0
     /\ next # "raise"
     /\ Reset(t, next)
  \/ /\ \/ session.process = 0 \/ session.reader = 0
        \/ ~Alive(session.process) /\ next = "raise"
     /\ Return(t, "raised")
     /\ UNCHANGED bash

\* What follows a start(): the shell is looked at and written to.
Send(t) ==
  /\ Place(t) = "sending"
  /\ \/ /\ call[t].after = "send"
        /\ \/ ~Alive(session.process)
           \/ session.reader = 0
        /\ Reset(t, "write")
     \/ /\ call[t].after = "send"
        /\ session.process # 0 /\ session.reader # 0
        /\ Write(t, "rewrite")
     \/ call[t].after = "write" /\ Write(t, "rewrite")
     \/ call[t].after = "rewrite" /\ Write(t, "raise")
     \/ call[t].after = "return" /\ Return(t, "timed_out") /\ UNCHANGED bash
  /\ UNCHANGED <<this_loop, home, keep, disturbed, trouble>>

SpawnFails(t) ==
  /\ At(t, "spawning")
  /\ Trouble
  /\ Return(t, "raised")
  /\ UNCHANGED <<bash, this_loop, home, keep, disturbed>>

----------------------------------------------------------------------------
\* _read_control_until and try_drain: lines up to the sentinel.  A job holds
\* the control pipe open after its shell.
Lines(t)  == bash[call[t].pipe].control
Eof(t)    == Lines(t) = <<>> /\ ~Alive(call[t].pipe) /\ \A c \in jobs : home[c] # call[t].pipe
IsLast(t) == Head(Lines(t)) = Sentinel(call[t].awaits)
OneLess(t) == [bash EXCEPT ![call[t].pipe].control = IF @ = <<>> THEN @ ELSE Tail(@)]
Report(t) == IF call[t].first = None THEN "dead" ELSE call[t].first

\* A line that is not the sentinel: the first one is the exit code.
Skip(t) ==
  /\ Place(t) \in Reading /\ At(t, Place(t))
  /\ Lines(t) # <<>> /\ ~IsLast(t)
  /\ bash' = OneLess(t)
  /\ Frame(t, [call[t] EXCEPT !.first = IF Place(t) = "reading" /\ @ = None THEN Head(Lines(t)).of ELSE @])
  /\ UNCHANGED <<session, this_loop, line, returned, jobs, home, keep, disturbed, trouble>>

\* The report of a command is complete: its sentinel, or the end of the pipe.
Reported(t) ==
  /\ At(t, "reading")
  /\ Eof(t) \/ (Lines(t) # <<>> /\ IsLast(t))
  /\ Return(t, Report(t))
  /\ bash' = OneLess(t)
  /\ UNCHANGED <<this_loop, home, keep, disturbed, trouble>>

\* A shell that has answered start(), or has ended, is taken for ready.
Ready(t) ==
  /\ At(t, "pinging")
  /\ Eof(t) \/ (Lines(t) # <<>> /\ IsLast(t))
  /\ bash' = OneLess(t)
  /\ Go(t, "sending")
  /\ UNCHANGED <<session, this_loop, line, returned, jobs, home, keep, disturbed, trouble>>

\* The deadline of a command, or of a start: TERM, or an interrupt to bash.
TimesOut(t) ==
  /\ Place(t) \in {"pinging", "reading"} /\ At(t, Place(t))
  /\ Lines(t) = <<>> /\ ~Eof(t)
  /\ IF Place(t) = "pinging" THEN Trouble ELSE UNCHANGED trouble
  /\ jobs' = Spared
  /\ Go(t, "term")
  /\ UNCHANGED <<session, this_loop, line, returned, bash, home, keep, disturbed>>

Onward(t) == IF call[t].awaits = t THEN "return" ELSE call[t].after

\* The sentinel within a grace period: what is left of the command is killed.
Recovered(t) ==
  /\ Place(t) \in {"term", "kill"} /\ At(t, Place(t))
  /\ Lines(t) # <<>> /\ IsLast(t)
  /\ bash' = OneLess(t)
  /\ jobs' = IF Place(t) = "term" THEN Spared ELSE jobs
  /\ Frame(t, [call[t] EXCEPT !.place = "sending", !.after = Onward(t)])
  /\ UNCHANGED <<session, this_loop, line, returned, home, keep, disturbed, trouble>>

\* Mutant: the sentinel is awaited without a limit.
EscalatesAtEof(t) ==
  /\ At(t, "term")
  /\ Eof(t)
  /\ jobs' = Spared
  /\ Go(t, "kill")
  /\ UNCHANGED <<session, this_loop, line, returned, bash, home, keep, disturbed, trouble>>

\* No sentinel within the first grace period, or the end of the pipe: KILL.
Escalates(t) ==
  /\ At(t, "term")
  /\ Lines(t) = <<>>
  /\ jobs' = Spared
  /\ Go(t, "kill")
  /\ UNCHANGED <<session, this_loop, line, returned, bash, home, keep, disturbed, trouble>>

\* Mutant: the shell is left as it is, the report still to come.
UnrecoveredLeft(t) ==
  /\ At(t, "kill")
  /\ Lines(t) = <<>>
  /\ Frame(t, [call[t] EXCEPT !.place = "sending", !.after = Onward(t)])
  /\ UNCHANGED <<session, bash, jobs, line, returned, this_loop, home, keep, disturbed, trouble>>

\* Nor within the second: the shell is replaced.
Unrecovered(t) ==
  /\ At(t, "kill")
  /\ Lines(t) = <<>>
  /\ Reset(t, Onward(t))
  /\ UNCHANGED <<this_loop, home, keep, disturbed, trouble>>

----------------------------------------------------------------------------
\* Bash does the next thing on its stdin; a command may leave a job behind.
BashStep(p) ==
  /\ Alive(p) /\ bash[p].stdin # <<>>
  /\ LET item == Head(bash[p].stdin) IN
       /\ bash' = [bash EXCEPT ![p].stdin = Tail(@),
                               ![p].control = IF item.do = "run" THEN @ ELSE Append(@, item)]
       /\ \/ UNCHANGED <<jobs, home>>
          \/ /\ item.do = "run" /\ item.of \in Servers
             /\ jobs' = jobs \cup {item.of}
             /\ home' = Set(home, item.of, p)
  /\ UNCHANGED <<session, this_loop, line, call, returned, keep, disturbed, trouble>>

\* A command ends the shell, an interrupt does, or the system.
Dies(p) ==
  /\ Alive(p)
  /\ Trouble
  /\ bash' = [bash EXCEPT ![p].alive = FALSE, ![p].stdin = <<>>]
  /\ UNCHANGED <<session, this_loop, line, call, returned, jobs, home, keep, disturbed>>

\* Calls are cancelled at their awaits: their locks are released, that is all.
CallsCancelled(S) ==
  /\ \A t \in S : Place(t) # "sending"
  /\ call' = [t \in Commands |-> IF t \in S THEN Idle("done", 0) ELSE call[t]]
  /\ returned' = [t \in Commands |-> IF t \in S THEN "cancelled" ELSE returned[t]]
  /\ line' = Only(line, Commands \ S)
  /\ disturbed' = disturbed \cup
       {call[t].pipe : t \in {u \in S : Place(u) \in Reading \cup {"connecting"}}}
  /\ UNCHANGED <<session, bash, jobs, home, keep>>

Cancel(t) == InUse(t) /\ Trouble /\ CallsCancelled({t}) /\ UNCHANGED this_loop

\* The loop ends, its calls are cancelled, and another one runs.
NewLoop == Trouble /\ this_loop' = this_loop + 1 /\ CallsCancelled({t \in Commands : InUse(t)})

\* close(), between two calls.
Close ==
  /\ line = <<>> /\ session.process # 0
  /\ Trouble
  /\ session' = Fresh(session.lock + 1)
  /\ jobs' \in Leftover
  /\ bash' = Ended(session.process)
  /\ UNCHANGED <<this_loop, line, call, returned, home, keep, disturbed>>

----------------------------------------------------------------------------
ShellInit ==
  /\ session = Fresh(1) /\ this_loop = 1 /\ line = <<>> /\ bash = <<>>
  /\ call = [t \in Commands |-> Idle("idle", 0)]
  /\ returned = [t \in Commands |-> None]
  /\ jobs = {} /\ home = [t \in Commands |-> 0]
  /\ keep \in BOOLEAN
  /\ disturbed = {} /\ trouble = 0

\* What the loop does for a call sooner or later.
Progress(t) ==
  \/ Wake(t) \/ CloseEnds(t) \/ Spawned(t) \/ Connected(t) \/ Send(t) \/ Skip(t) \/ Reported(t)
  \/ Ready(t) \/ TimesOut(t) \/ Recovered(t) \/ Escalates(t) \/ Unrecovered(t)

\* A shell that starts answers in the end; a command need not.
StartAnswers == \E p \in 1..Len(bash) : bash[p].stdin # <<>> /\ Head(bash[p].stdin) = Sentinel(Start) /\ BashStep(p)

ShellNext ==
  \/ \E t \in Commands : Call(t) \/ Progress(t) \/ SpawnFails(t) \/ Cancel(t)
  \/ \E p \in 1..Len(bash) : BashStep(p) \/ Dies(p)
  \/ NewLoop \/ Close

ShellSpec == ShellInit /\ [][ShellNext]_shellVars

----------------------------------------------------------------------------
\* An answer belongs to its command: the exit code a call returns is the one
\* bash reported for it, whatever timed out, died or was replaced before,
\* unless a call was abandoned half way in the same shell.
AnswerBelongs ==
  \A t \in Commands :
    /\ returned[t] \in Commands \cup {Start} => returned[t] = t \/ call[t].pipe \in disturbed
    /\ Place(t) = "reading" /\ call[t].first # None => call[t].first = t \/ call[t].pipe \in disturbed

\* The processes a session started are accounted for.  Every shell that runs is
\* the session's, so none runs on unnoticed behind the one that replaced it.
\* "Background jobs started by earlier commands are spared when a later command
\* times out", and with keep_background_on_close they outlive the shell.
ProcessesKept ==
  /\ \A p \in 1..Len(bash) : bash[p].alive => p = session.process \/ p \in disturbed
  /\ \A c \in Commands :
       /\ returned[c] = c /\ home[c] # 0
       /\ keep \/ (home[c] = session.process /\ Alive(session.process) /\ session.reader # 0)
       => c \in jobs

\* "Concurrent run() / run_stream() calls from the same event loop will queue
\* and execute one at a time": past the lock there is one call.
OneCommand ==
  \A t, u \in Commands : {Place(t), Place(u)} \subseteq Suspended \cup {"sending"} => t = u

\* Every call ends, with an answer or an error, whether its command does or
\* not: the deadlines of run() and of the recovery see to it.
ShellAnswers == \A t \in Commands : InUse(t) ~> Place(t) = "done"
=============================================================================
