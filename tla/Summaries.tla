----------------------------- MODULE Summaries -----------------------------
(***************************************************************************)
(* The two summarizers of agents/summarization.py at work on one event     *)
(* log, and the archiving that ActorRuntime.generate does when a provider  *)
(* rejects a prompt as too long (runtime/actor.py).                        *)
(*                                                                         *)
(* TokenBudgetSummarizer wraps the requests of the agent: when a request   *)
(* was over budget it sends a copy of it (a fork) that asks for a summary  *)
(* of all but the last events, holds the answer back until the fork has    *)
(* ended, and collapses the events at the next BeforeTurn.                 *)
(* MethodSummarizer starts a task when a method completes and collapses    *)
(* the range it chose then at a BeforeTurn after the task has ended.       *)
(*                                                                         *)
(* The turns of concurrent calls of the agent interleave at their awaits.  *)
(* A handler of BeforeTurn or AfterTurn runs without one, and so does      *)
(* collapse(): while one is under way no other step is taken.              *)
(***************************************************************************)
EXTENDS EventLog

CONSTANTS
  Turns,       \* concurrent calls of the agent, one turn at a time each
  Preserve,    \* preserve_recent
  MaxLog       \* bound of the model: events recorded in such a log

ASSUME SummariesAssumption == Preserve \in Nat /\ MaxLog \in Nat /\ MaxEvents # 0

VARIABLES
  active,      \* does this log belong to an agent with summarizers?
  turn,        \* where each call is in its turn
  source,      \* the events a request may be asked to summarize: {<<tag, id>>}
  fork,        \* _pending_task of TokenBudgetSummarizer
  fsource,     \* its _pending_source
  ftext,       \* has it a _pending_summary?
  failed,      \* _failed_forks
  hooked,      \* is _fork_after_call still a middleware of llm_call?
  closing,     \* aclose() of TokenBudgetSummarizer
  method,      \* _pending_task of MethodSummarizer
  mrange,      \* its _pending_range
  mtext,       \* has it a _pending_summary?
  claim,       \* history: the source of the fork whose summary was applied last
  owed         \* history: summaries written and neither applied nor discarded

forks    == <<fork, fsource, ftext, failed, hooked, owed>>
methods  == <<method, mrange, mtext>>
svars    == <<active, turn, source, forks, closing, methods, claim>>
allvars  == <<vars, svars>>

\* No handler is under way.
Free == active /\ pc = "idle" /\ \A t \in Turns : turn[t] # "before"

Replace(s, e) == ids < MaxLog /\ Collapse(s, e)

Goes(t, where) == turn' = [turn EXCEPT ![t] = where]

----------------------------------------------------------------------------
(***************************************************************************)
(* The view, as the summarizers read it.                                   *)
(***************************************************************************)

Entry(t) == <<t, events[t].id>>

\* All listed events but the last ones.
Selected == {Entry(t) : t \in {u \in Listed : pos[u] < Cardinality(Listed) - Preserve}}

\* The first and the last event of a source; it was cut from a view.
FirstOf(src) == (CHOOSE p \in src : \A q \in src : Start(p[1]) <= Start(q[1]))[1]
LastOf(src)  == (CHOOSE p \in src : \A q \in src : Start(p[1]) >= Start(q[1]))[1]

\* _get_events_in_range: from the first tag on, to the last one if it comes.
InRange(first, last) ==
  IF first \notin Listed THEN {}
  ELSE {Entry(t) : t \in {u \in Listed :
          /\ pos[u] >= pos[first]
          /\ last \in Listed => pos[last] >= pos[first] /\ pos[u] <= pos[last]}}

----------------------------------------------------------------------------
(***************************************************************************)
(* BeforeTurn: each summarizer applies what it has.                        *)
(***************************************************************************)

\* Mutant: the source is not compared with the events that are there.
FreshAlways(src) == TRUE

\* TokenBudgetSummarizer._apply_pending_summary
Fresh(src) == InRange(FirstOf(src), LastOf(src)) = src

ClearFork == fork' = "none" /\ fsource' = {} /\ ftext' = FALSE /\ owed' = 0

BeforeTurn(t) ==
  /\ Free /\ turn[t] = "idle"
  /\ Goes(t, "before")
  /\ IF fork # "done" \/ closing # "open"
     THEN UNCHANGED <<vars, forks, claim>>
     ELSE /\ ClearFork /\ UNCHANGED <<failed, hooked>>
          /\ IF ftext /\ Fresh(fsource)
             THEN /\ Replace(Start(FirstOf(fsource)), End(LastOf(fsource)))
                  /\ claim' = fsource
             ELSE UNCHANGED <<vars, claim>>
  /\ UNCHANGED <<active, source, closing, methods>>

\* SummarizationAgent._apply_pending_summary, as MethodSummarizer inherits it.
ApplyMethod(t) ==
  /\ active /\ pc = "idle" /\ turn[t] = "before"
  /\ Goes(t, "ready")
  /\ IF method = "done"
     THEN /\ method' = "none" /\ mrange' = <<>> /\ mtext' = FALSE
          /\ \/ mtext /\ Replace(mrange[1], mrange[2])
             \/ /\ ~mtext \/ Overlapping(mrange[1], mrange[2]) = {}
                /\ UNCHANGED vars
     ELSE UNCHANGED <<vars, methods>>
  /\ claim' = {}
  /\ UNCHANGED <<active, source, forks, closing>>

\* The steps of collapse().
Collapsing ==
  /\ active
  /\ Archive \/ CollapseUnlist \/ Index \/ StoreSummary \/ Move \/ Place
  /\ UNCHANGED <<active, turn, source, forks, closing, methods, claim>>

----------------------------------------------------------------------------
(***************************************************************************)
(* The request.                                                            *)
(***************************************************************************)

\* The source is chosen before the request is sent.
Call(t) ==
  /\ Free /\ turn[t] = "ready"
  /\ Goes(t, "calling")
  /\ source' = [source EXCEPT ![t] = IF hooked /\ fork = "none" THEN Selected ELSE {}]
  /\ UNCHANGED <<vars, active, forks, closing, methods, claim>>

\* The provider rejects the prompt: the oldest events are archived and the
\* request is made again, or its error ends the turn.
CallOverflows(t) ==
  /\ Free /\ turn[t] = "calling"
  /\ \E where \in {"ready", "responded"} : Goes(t, where)
  /\ source' = [source EXCEPT ![t] = {}]
  /\ claim' = {}
  /\ \/ \E u \in Listed : LET first == CHOOSE v \in Listed : pos[v] = 0
                          IN  Replace(Start(first), End(u))
     \/ UNCHANGED vars
  /\ UNCHANGED <<active, forks, closing, methods>>

\* Mutant: the second look at _pending_task is left out.
MayForkAlways(t) == source[t] # {}

\* _fork_after_call, when the response is there
MayFork(t) == source[t] # {} /\ fork = "none"

Respond(t) ==
  /\ Free /\ turn[t] = "calling"
  /\ Goes(t, "responded")
  /\ source' = [source EXCEPT ![t] = {}]
  /\ UNCHANGED <<vars, active, forks, closing, methods, claim>>

\* The request was over budget: a fork is started and awaited.
RespondForks(t) ==
  /\ Free /\ turn[t] = "calling" /\ MayFork(t)
  /\ Goes(t, "awaiting")
  /\ fork' = "running" /\ fsource' = source[t]
  /\ source' = [source EXCEPT ![t] = {}]
  /\ UNCHANGED <<vars, active, ftext, failed, hooked, owed, closing, methods, claim>>

----------------------------------------------------------------------------
(***************************************************************************)
(* The fork: _run_fork.                                                    *)
(***************************************************************************)

Awaiting == {t \in Turns : turn[t] = "awaiting"}

ForkSucceeds ==
  /\ Free /\ fork \in {"running", "loose"}
  /\ fork' = IF fork = "running" THEN "done" ELSE "none"
  /\ ftext' = TRUE /\ failed' = 0 /\ owed' = owed + 1
  /\ \E t \in Awaiting : Goes(t, "responded")
  /\ UNCHANGED <<vars, active, source, fsource, hooked, closing, methods, claim>>

\* Two failures in a row take the middleware away.
ForkFails ==
  /\ Free /\ fork \in {"running", "loose"}
  /\ fork' = IF fork = "running" THEN "done" ELSE "none"
  /\ ftext' = FALSE
  /\ failed' = IF failed < 2 THEN failed + 1 ELSE failed
  /\ hooked' = (hooked /\ failed' < 2)
  /\ \E t \in Awaiting : Goes(t, "responded")
  /\ UNCHANGED <<vars, active, source, fsource, owed, closing, methods, claim>>

\* The call is cancelled, and with it the fork it awaits.
CancelTurn(t) ==
  /\ Free /\ turn[t] \in {"ready", "calling", "awaiting", "responded"}
  /\ Goes(t, "idle")
  /\ source' = [source EXCEPT ![t] = {}]
  /\ fork' = IF turn[t] # "awaiting" THEN fork
             ELSE IF fork = "running" THEN "done" ELSE "none"
  /\ UNCHANGED <<vars, active, fsource, ftext, failed, hooked, owed, closing, methods, claim>>

----------------------------------------------------------------------------
(***************************************************************************)
(* The rest of the turn.                                                   *)
(***************************************************************************)

\* generate() records the response, or the strategy what it did with it.
Record(t) ==
  /\ Free /\ turn[t] = "responded" /\ ids < MaxLog
  /\ Add
  /\ Goes(t, "recorded")
  /\ UNCHANGED <<active, source, forks, closing, methods, claim>>

\* AfterTurn: after a method's last turn the first and the last listed event
\* of its call are the range to summarize.
AfterTurn(t) ==
  /\ Free /\ turn[t] = "recorded"
  /\ Goes(t, "idle")
  /\ \/ /\ method = "none"
        /\ \E u, v \in Listed : pos[u] <= pos[v] /\ mrange' = <<Start(u), End(v)>>
        /\ method' = "running"
     \/ UNCHANGED <<method, mrange>>
  /\ UNCHANGED <<vars, active, source, forks, closing, mtext, claim>>

\* _run_summarization ends with a summary or without one.
MethodEnds ==
  /\ Free /\ method = "running"
  /\ method' = "done"
  /\ mtext' \in BOOLEAN
  /\ UNCHANGED <<vars, active, turn, source, forks, closing, mrange, claim>>

\* aclose: the subscriptions end, a running fork is cancelled and awaited, and
\* the call that awaits the fork is cancelled with it.
CloseStarts ==
  /\ Free /\ closing = "open"
  /\ closing' = "closing"
  /\ hooked' = FALSE
  /\ fork' = IF fork = "running" THEN "none" ELSE fork
  /\ turn' = [t \in Turns |-> IF turn[t] = "awaiting" THEN "idle" ELSE turn[t]]
  /\ UNCHANGED <<vars, active, source, fsource, ftext, failed, owed, methods, claim>>

\* What is pending is forgotten.  A request that was under way may have
\* started another fork by now, which runs on.
CloseEnds ==
  /\ Free /\ closing = "closing"
  /\ closing' = "closed"
  /\ fork' = IF fork = "running" THEN "loose" ELSE "none"
  /\ fsource' = {} /\ ftext' = FALSE /\ owed' = 0
  /\ UNCHANGED <<vars, active, turn, source, failed, hooked, methods, claim>>

----------------------------------------------------------------------------
\* A method of the agent has been called and its Task recorded.
TaskRecorded ==
  /\ backend \in Backends /\ backend = "memory"
  /\ events = Extend(Empty, <<1>>, [id |-> 1, kids |-> {}]) /\ archived = {}
  /\ pos = Extend(Empty, <<1>>, 0) /\ next_tag = 2
  /\ pc = "idle" /\ todo = {} /\ gone = {} /\ place = 0
  /\ other = 0
  /\ ids = 1 /\ given = Extend(Empty, 1, 1) /\ dropped = {}

SInit ==
  /\ active \in BOOLEAN
  /\ IF active THEN TaskRecorded ELSE Init
  /\ turn = [t \in Turns |-> "idle"] /\ source = [t \in Turns |-> {}]
  /\ fork = "none" /\ fsource = {} /\ ftext = FALSE /\ failed = 0
  /\ hooked = TRUE /\ closing = "open"
  /\ method = "none" /\ mrange = <<>> /\ mtext = FALSE
  /\ claim = {} /\ owed = 0

SNext ==
  \/ ~active /\ Next /\ UNCHANGED svars
  \/ \E t \in Turns :
       \/ BeforeTurn(t) \/ ApplyMethod(t) \/ Call(t) \/ CallOverflows(t) \/ Respond(t)
       \/ RespondForks(t) \/ CancelTurn(t) \/ Record(t) \/ AfterTurn(t)
  \/ Collapsing \/ ForkSucceeds \/ ForkFails \/ MethodEnds \/ CloseStarts \/ CloseEnds

SSpec == SInit /\ [][SNext]_allvars

----------------------------------------------------------------------------
(***************************************************************************)
(* Properties                                                              *)
(***************************************************************************)

\* A summary that a fork wrote stands for the very events its request showed,
\* none more and none less, although other calls record, summarize and
\* archive events between the request and the BeforeTurn that applies it.
SummaryHonest ==
  claim # {} /\ pc \in {"archive", "unlist", "index", "store"} =>
    gone = {p[1] : p \in claim} /\ \A t \in gone : Entry(t) \in claim

\* While the agent is open a finished summary is applied or discarded at a
\* BeforeTurn and never overwritten by that of a request that was under way
\* at the same time (_handle_after_turn and _fork_after_call guard twice).
\* "Pause this agent until compaction finishes": no fork runs that no call
\* waits for, also after a cancellation or when the agent is closed.
SummaryKept ==
  /\ closing = "open" => owed = (IF ftext THEN 1 ELSE 0)
  /\ fork \in {"running", "loose"} <=> Cardinality(Awaiting) = 1

=============================================================================
