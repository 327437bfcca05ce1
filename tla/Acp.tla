-------------------------------- MODULE Acp --------------------------------
(***************************************************************************)
(* One live session of the Agent Client Protocol server (packages/nooa-acp)*)
(* with the requests that meet on it: prompts, cancellations and the       *)
(* closing of the session.  SessionRuntime lets one prompt in at a time,   *)
(* the dispatcher runs it in a task, and the event bridge sends the        *)
(* updates of the turn to the client, in order, from a queue of its own;   *)
(* those of one tool call stand for the others.                            *)
(*                                                                         *)
(* The requests are tasks of one event loop, from one await to the next.   *)
(* The locks of SessionRuntime are never held over an await but by a turn  *)
(* and by the closing, so that entering a turn is one step.  What an agent *)
(* does in its turn is chosen freely: it may ignore a cancellation.  A     *)
(* request that is refused, because the session is busy, closing or closed,*)
(* changes nothing and is left out.                                        *)
(***************************************************************************)
EXTENDS Integers, Sequences

CONSTANTS
  Prompts,         \* requests session/prompt
  Slash,           \* those that name a slash command
  CancelRequests,  \* notifications session/cancel
  MaxIncidents     \* bound on cancellations and updates that the client does not take

ASSUME AcpAssumption ==
  /\ Slash \subseteq Prompts /\ MaxIncidents \in Nat
  /\ Prompts \cap CancelRequests = {}
  /\ {"nobody", "closer"} \cap (Prompts \cup CancelRequests) = {}

VARIABLES
  \* the requests: where a prompt is and how it was answered, where a cancellation
  \* is and which task it cancels, where the closing is
  prompt, reason, cancel, target, closer,
  holder,           \* SessionRuntime: the prompt that holds the turn
  cancel_complete,  \* _ACPSession
  dispatcher,       \* _active_task, _cancel_requested and _cancelling
  messages,         \* prompts whose text is on the channel
  job,              \* the prompt whose turn started the background job that runs
  \* the task of each prompt: its state, whether it is cancelled, what it was told
  work, told, heard,
  card,             \* the tool call of each turn, as the client is shown it
  bridge,           \* _queue, _pump_task, _error and _closed
  marker,           \* the futures that flush() waits for
  \* history: tasks that ignored a cancellation, turns that lost an update and
  \* nobody was told
  ignored, unreported,
  incidents

sessionVars == <<holder, cancel_complete, dispatcher, messages, job>>
taskVars    == <<work, told, heard, card>>
bridgeVars  == <<bridge, marker>>
history     == <<ignored, unreported, incidents>>
acpVars     == <<prompt, reason, cancel, target, closer, sessionVars, taskVars, bridgeVars, history>>

Nobody   == "nobody"
Flushers == Prompts \cup CancelRequests \cup {"closer"}

Running(p) == work[p] \in {"command", "racing", "handling"}

\* Mutant: a cancellation that has not finished does not keep others out.
ActiveTaskOnly == dispatcher.active # Nobody /\ Running(dispatcher.active)

Active == dispatcher.cancelling \/ (dispatcher.active # Nobody /\ Running(dispatcher.active))

----------------------------------------------------------------------------
(***************************************************************************)
(* ACPEventBridge: what its synchronous operations make of it.             *)
(***************************************************************************)

Pumping(b) == b.pump = "running"

\* After the pump has died nobody reads what is queued.
Enqueue(b, item) ==
  IF b.closed \/ ~Pumping(b) THEN b ELSE [b EXCEPT !.queue = Append(@, item)]

Update(ps) == [kind |-> "update", of |-> ps]
Mark(w)    == [kind |-> "mark", of |-> {w}]
StopMark   == [kind |-> "stop", of |-> {}]

OpenTools == {p \in Prompts : card[p] = "open"}

\* fail_open_tools, of whichever turns.
ToolsFailed(b) == IF OpenTools = {} THEN b ELSE Enqueue(b, Update(OpenTools))
FailOpenTools  == card' = [p \in Prompts |-> IF card[p] = "open" THEN "failed" ELSE card[p]]

\* flush() up to its await, when it comes to one.
FlushBegins(w, b) ==
  /\ ~b.closed /\ Pumping(b)
  /\ bridge' = Enqueue(b, Mark(w))
  /\ marker' = [marker EXCEPT ![w] = "queued"]

\* flush() that returns or raises at once.
NoFlush(b) == (b.closed \/ ~Pumping(b)) /\ bridge' = b /\ UNCHANGED marker

Forgotten(w) == marker' = [marker EXCEPT ![w] = "none"]
FlushOver(w) == marker[w] # "queued" \/ ~Pumping(bridge)

----------------------------------------------------------------------------
(***************************************************************************)
(* The pump.                                                               *)
(***************************************************************************)

PumpTakes(kind) == Pumping(bridge) /\ bridge.queue # <<>> /\ Head(bridge.queue).kind = kind
Popped          == Tail(bridge.queue)
Incident        == incidents < MaxIncidents /\ incidents' = incidents + 1

PumpSends ==
  /\ PumpTakes("update") /\ bridge.error = {}
  /\ bridge' = [bridge EXCEPT !.queue = Popped]
  /\ UNCHANGED <<marker, history>>

\* The client refuses an update, and updates are skipped up to the next marker.
PumpDrops ==
  /\ PumpTakes("update")
  /\ IF bridge.error = {} THEN Incident ELSE UNCHANGED incidents
  /\ bridge' = [bridge EXCEPT !.queue = Popped, !.error = @ \cup Head(bridge.queue).of]
  /\ unreported' = unreported \cup Head(bridge.queue).of
  /\ UNCHANGED <<marker, ignored>>

\* The failure goes to whoever flushes, which need not be the turn that met it.
PumpMarks ==
  /\ PumpTakes("mark")
  /\ bridge' = [bridge EXCEPT !.queue = Popped, !.error = {}]
  /\ marker' = [w \in Flushers |-> IF w \notin Head(bridge.queue).of THEN marker[w]
                                   ELSE IF bridge.error = {} THEN "sent" ELSE "failed"]
  /\ unreported' = unreported \ bridge.error
  /\ UNCHANGED <<ignored, incidents>>

PumpStops ==
  /\ PumpTakes("stop")
  /\ bridge' = [bridge EXCEPT !.queue = <<>>, !.pump = "over"]
  /\ UNCHANGED <<marker, history>>

\* The transport is cancelled under the pump.
PumpDies ==
  /\ PumpTakes("update") /\ bridge.error = {} /\ Incident
  /\ bridge' = [bridge EXCEPT !.queue = <<>>, !.pump = "over"]
  /\ marker' = [w \in Flushers |-> IF marker[w] = "queued" THEN "failed" ELSE marker[w]]
  /\ UNCHANGED <<ignored, unreported>>

Pump ==
  /\ PumpSends \/ PumpDrops \/ PumpMarks \/ PumpStops \/ PumpDies
  /\ UNCHANGED <<prompt, reason, cancel, target, closer, sessionVars, taskVars>>

----------------------------------------------------------------------------
(***************************************************************************)
(* prompt()                                                                *)
(***************************************************************************)

\* The turn is over and the request is answered.
Answers(p, r) ==
  /\ prompt' = [prompt EXCEPT ![p] = "over"]
  /\ reason' = [reason EXCEPT ![p] = r]
  /\ holder' = Nobody

\* The answer waits for the updates, and is an error if the bridge is dead.
Concludes(p, r, b) ==
  \/ /\ FlushBegins(p, b)
     /\ prompt' = [prompt EXCEPT ![p] = "flush"] /\ reason' = [reason EXCEPT ![p] = r]
     /\ holder' = p
  \/ NoFlush(b) /\ Answers(p, "error")

\* The turn is free but a cancellation of the turn before is not finished.
Collides(p) ==
  /\ prompt[p] = "idle" /\ closer = "idle" /\ holder = Nobody /\ Active
  /\ cancel_complete' = FALSE
  /\ IF p \in Slash THEN Concludes(p, "end_turn", Enqueue(bridge, Update({p})))
     ELSE Answers(p, "error") /\ UNCHANGED bridgeVars
  /\ UNCHANGED <<cancel, target, closer, dispatcher, messages, job, taskVars, history>>

\* submit() and invoke_slash() up to the await of the task.
Begins(p) ==
  /\ prompt[p] = "idle" /\ closer = "idle" /\ holder = Nobody /\ ~Active
  /\ prompt' = [prompt EXCEPT ![p] = "dispatch"] /\ holder' = p
  /\ cancel_complete' = FALSE
  /\ dispatcher' = [dispatcher EXCEPT !.active = p, !.requested = FALSE]
  /\ messages' = IF p \in Slash THEN messages ELSE messages \cup {p}
  /\ work' = [work EXCEPT ![p] = IF p \in Slash THEN "command" ELSE "racing"]
  /\ UNCHANGED <<reason, cancel, target, closer, job, told, heard, card, bridgeVars, history>>

\* The end of _run_active and what prompt() makes of it.
Resumes(p) ==
  /\ prompt[p] = "dispatch" /\ ~Running(p)
  /\ dispatcher' = [dispatcher EXCEPT !.active = Nobody]
  /\ \/ /\ work[p] = "cancelled" /\ dispatcher.requested
        /\ prompt' = [prompt EXCEPT ![p] = "wait"] /\ UNCHANGED <<reason, holder, card, bridgeVars>>
     \/ /\ work[p] = "result" /\ Concludes(p, "end_turn", bridge) /\ UNCHANGED card
     \/ /\ work[p] = "limit" /\ Concludes(p, "limit", ToolsFailed(bridge)) /\ FailOpenTools
     \/ /\ work[p] = "failed" /\ p \in Slash
        /\ Concludes(p, "end_turn", Enqueue(bridge, Update({p}))) /\ UNCHANGED card
     \/ /\ work[p] = "failed" /\ p \notin Slash
        /\ Answers(p, "error") /\ UNCHANGED <<card, bridgeVars>>
  /\ UNCHANGED <<cancel, target, closer, cancel_complete, messages, job, work, told, heard, history>>

\* "Stopped at your request."
Stopped(p) ==
  /\ prompt[p] = "wait" /\ cancel_complete
  /\ Concludes(p, "cancelled", Enqueue(bridge, Update({p})))
  /\ UNCHANGED <<cancel, target, closer, cancel_complete, dispatcher, messages, job, taskVars, history>>

Flushed(p) ==
  /\ prompt[p] = "flush" /\ FlushOver(p)
  /\ Answers(p, IF marker[p] = "sent" THEN reason[p] ELSE "error") /\ Forgotten(p)
  /\ UNCHANGED <<cancel, target, closer, cancel_complete, dispatcher, messages, job,
                 taskVars, bridge, history>>

PromptGoesOn(p) == Resumes(p) \/ Stopped(p) \/ Flushed(p)

----------------------------------------------------------------------------
(***************************************************************************)
(* The task: a slash command, and the loop of _dispatch, in which the      *)
(* agent handles what race() returns.                                      *)
(***************************************************************************)

Works(p, w) ==
  /\ work' = [work EXCEPT ![p] = w]
  /\ UNCHANGED <<prompt, reason, cancel, target, closer, holder, cancel_complete, dispatcher>>

\* The output of the command is for the agent, or for the client alone.
CommandDone(p) ==
  /\ work[p] = "command" /\ ~told[p]
  /\ \/ Works(p, "racing") /\ messages' = messages \cup {p}
     \/ Works(p, "result") /\ UNCHANGED messages
  /\ UNCHANGED <<job, told, heard, card, bridgeVars, history>>

\* race() returns, and the channels are drained.
Hears(p) ==
  /\ work[p] = "racing" /\ ~told[p] /\ (messages # {} \/ job # Nobody)
  /\ Works(p, "handling")
  /\ heard' = [heard EXCEPT ![p] = @ \cup messages] /\ messages' = {}
  /\ UNCHANGED <<job, told, card, bridgeVars, history>>

ShowsTool(p) ==
  /\ work[p] = "handling" /\ card[p] \in {"new", "open"}
  /\ Works(p, "handling")
  /\ card' = [card EXCEPT ![p] = IF @ = "new" THEN "open" ELSE "closed"]
  /\ bridge' = Enqueue(bridge, Update({p}))
  /\ UNCHANGED <<messages, job, told, heard, marker, history>>

StartsJob(p) ==
  /\ work[p] = "handling" /\ job = Nobody
  /\ Works(p, "handling") /\ job' = p
  /\ UNCHANGED <<messages, told, heard, card, bridgeVars, history>>

\* handle() returns Waiting.
Waits(p) ==
  /\ work[p] = "handling" /\ ~told[p]
  /\ Works(p, "racing")
  /\ UNCHANGED <<messages, job, told, heard, card, bridgeVars, history>>

TaskEnds(p) ==
  /\ \/ work[p] = "handling" /\ ~told[p] /\ card[p] # "open" /\ Works(p, "result")
     \/ work[p] \in {"command", "handling"} /\ (Works(p, "limit") \/ Works(p, "failed"))
     \/ Running(p) /\ told[p] /\ Works(p, "cancelled")
  /\ told' = [told EXCEPT ![p] = FALSE]
  /\ UNCHANGED <<messages, job, heard, card, bridgeVars, history>>

\* The agent, or race() while it awaits its losers, swallows the cancellation.
Ignores(p) ==
  /\ Running(p) /\ told[p]
  /\ Works(p, work[p])
  /\ told' = [told EXCEPT ![p] = FALSE]
  /\ ignored' = ignored \cup {p}
  /\ UNCHANGED <<messages, job, heard, card, bridgeVars, unreported, incidents>>

JobEnds ==
  /\ job # Nobody /\ job' = Nobody
  /\ UNCHANGED <<prompt, reason, cancel, target, closer, holder, cancel_complete, dispatcher,
                 messages, taskVars, bridgeVars, history>>

Task(p) == CommandDone(p) \/ Hears(p) \/ ShowsTool(p) \/ StartsJob(p) \/ Waits(p) \/ TaskEnds(p) \/ Ignores(p)

----------------------------------------------------------------------------
(***************************************************************************)
(* cancel(), of the server and of the dispatcher.                          *)
(***************************************************************************)

Holds(k)         == cancel[k] \in {"task", "shutdown", "flush"}
CancelGoes(k, s) == cancel' = [cancel EXCEPT ![k] = s]

CancelArrives(k) ==
  /\ cancel[k] = "idle" /\ closer # "over"
  /\ CancelGoes(k, "lock") /\ Incident
  /\ UNCHANGED <<prompt, reason, target, closer, sessionVars, taskVars, bridgeVars, ignored, unreported>>

\* cancel_lock is taken; there may be nothing to cancel.
CancelActs(k) ==
  /\ cancel[k] = "lock" /\ \A l \in CancelRequests : ~Holds(l)
  /\ IF dispatcher.active # Nobody /\ Running(dispatcher.active)
     THEN /\ CancelGoes(k, "task") /\ target' = [target EXCEPT ![k] = dispatcher.active]
          /\ dispatcher' = [dispatcher EXCEPT !.requested = TRUE, !.cancelling = TRUE]
          /\ told' = [told EXCEPT ![dispatcher.active] = TRUE]
          /\ UNCHANGED cancel_complete
     ELSE /\ CancelGoes(k, "over") /\ cancel_complete' = TRUE
          /\ UNCHANGED <<target, dispatcher, told>>
  /\ UNCHANGED <<prompt, reason, closer, holder, messages, job, work, heard, card, bridgeVars, history>>

\* An error of the task leaves cancel() at once; otherwise the channels are
\* flushed and the jobs told to end.
CancelClears(k) ==
  /\ cancel[k] = "task" /\ ~Running(target[k])
  /\ IF work[target[k]] \in {"limit", "failed"}
     THEN /\ CancelGoes(k, "over") /\ cancel_complete' = TRUE
          /\ dispatcher' = [dispatcher EXCEPT !.cancelling = FALSE] /\ UNCHANGED messages
     ELSE /\ CancelGoes(k, "shutdown") /\ messages' = {}
          /\ UNCHANGED <<cancel_complete, dispatcher>>
  /\ target' = [target EXCEPT ![k] = Nobody]
  /\ UNCHANGED <<prompt, reason, closer, holder, job, taskVars, bridgeVars, history>>

\* The jobs have ended; the tool calls left open are failed.
CancelReports(k) ==
  /\ cancel[k] = "shutdown" /\ job = Nobody
  /\ dispatcher' = [dispatcher EXCEPT !.cancelling = FALSE]
  /\ FailOpenTools
  /\ \/ FlushBegins(k, ToolsFailed(bridge)) /\ CancelGoes(k, "flush") /\ UNCHANGED cancel_complete
     \/ NoFlush(ToolsFailed(bridge)) /\ CancelGoes(k, "over") /\ cancel_complete' = TRUE
  /\ UNCHANGED <<prompt, reason, target, closer, holder, messages, job, work, told, heard, history>>

\* Mutant: cancel_complete is set only when the flush succeeded.
CancelEndsUnlessFailed(k) ==
  /\ cancel[k] = "flush" /\ FlushOver(k) /\ CancelGoes(k, "over") /\ Forgotten(k)
  /\ cancel_complete' = (cancel_complete \/ marker[k] = "sent")
  /\ UNCHANGED <<prompt, reason, target, closer, holder, dispatcher, messages, job,
                 taskVars, bridge, history>>

CancelEnds(k) ==
  /\ cancel[k] = "flush" /\ FlushOver(k) /\ CancelGoes(k, "over") /\ Forgotten(k)
  /\ cancel_complete' = TRUE
  /\ UNCHANGED <<prompt, reason, target, closer, holder, dispatcher, messages, job,
                 taskVars, bridge, history>>

CancelGoesOn(k) == CancelActs(k) \/ CancelClears(k) \/ CancelReports(k) \/ CancelEnds(k)

----------------------------------------------------------------------------
(***************************************************************************)
(* The closing of the session, which waits for the turn.                   *)
(***************************************************************************)

CloseBegins ==
  /\ closer = "idle" /\ closer' = "wait"
  /\ UNCHANGED <<prompt, reason, cancel, target, sessionVars, taskVars, bridgeVars, history>>

Stop(b) == [b EXCEPT !.closed = TRUE,
                     !.queue = IF Pumping(b) THEN Append(@, StopMark) ELSE @]

\* bridge.close() up to its flush.
CloseBridge ==
  /\ closer = "wait" /\ holder = Nobody
  /\ FailOpenTools
  /\ \/ FlushBegins("closer", ToolsFailed(bridge)) /\ closer' = "flush"
     \/ ~Pumping(bridge) /\ bridge' = Stop(bridge) /\ closer' = "pump" /\ UNCHANGED marker
  /\ UNCHANGED <<prompt, reason, cancel, target, sessionVars, work, told, heard, history>>

ClosePump ==
  /\ closer = "flush" /\ FlushOver("closer")
  /\ closer' = "pump" /\ bridge' = Stop(bridge) /\ Forgotten("closer")
  /\ UNCHANGED <<prompt, reason, cancel, target, sessionVars, taskVars, history>>

\* The dispatcher has nothing to cancel; the agent shuts its jobs down.
CloseAgent ==
  /\ closer = "pump" /\ ~Pumping(bridge) /\ job = Nobody
  /\ closer' = "over"
  /\ UNCHANGED <<prompt, reason, cancel, target, sessionVars, taskVars, bridgeVars, history>>

CloseGoesOn == CloseBridge \/ ClosePump \/ CloseAgent

----------------------------------------------------------------------------
AcpInit ==
  /\ prompt = [p \in Prompts |-> "idle"] /\ reason = [p \in Prompts |-> "none"]
  /\ cancel = [k \in CancelRequests |-> "idle"] /\ target = [k \in CancelRequests |-> Nobody]
  /\ closer = "idle"
  /\ holder = Nobody /\ cancel_complete = TRUE
  /\ dispatcher = [active |-> Nobody, requested |-> FALSE, cancelling |-> FALSE]
  /\ messages = {} /\ job = Nobody
  /\ work = [p \in Prompts |-> "none"] /\ told = [p \in Prompts |-> FALSE]
  /\ heard = [p \in Prompts |-> {}] /\ card = [p \in Prompts |-> "new"]
  /\ bridge = [queue |-> <<>>, pump |-> "running", error |-> {}, closed |-> FALSE]
  /\ marker = [w \in Flushers |-> "none"]
  /\ ignored = {} /\ unreported = {} /\ incidents = 0

AcpNext ==
  \/ \E p \in Prompts : Collides(p) \/ Begins(p) \/ PromptGoesOn(p) \/ Task(p)
  \/ \E k \in CancelRequests : CancelArrives(k) \/ CancelGoesOn(k)
  \/ Pump \/ JobEnds
  \/ CloseBegins \/ CloseGoesOn

----------------------------------------------------------------------------
(***************************************************************************)
(* Properties                                                              *)
(***************************************************************************)

AcpTypeOK ==
  /\ prompt \in [Prompts -> {"idle", "dispatch", "wait", "flush", "over"}]
  /\ reason \in [Prompts -> {"none", "end_turn", "limit", "cancelled", "error"}]
  /\ cancel \in [CancelRequests -> {"idle", "lock", "task", "shutdown", "flush", "over"}]
  /\ holder \in Prompts \cup {Nobody} /\ job \in Prompts \cup {Nobody}
  /\ work \in [Prompts -> {"none", "command", "racing", "handling", "result", "limit", "failed", "cancelled"}]
  /\ heard \in [Prompts -> SUBSET Prompts] /\ messages \subseteq Prompts
  /\ marker \in [Flushers -> {"none", "queued", "sent", "failed"}]

\* Whatever cancellations, ignored ones and closings come between: a turn is
\* told its own prompt and no other, nothing takes the prompt away from a turn
\* that still waits for it, and no turn runs on a session that is closed.
PromptHeard ==
  \A p \in Prompts :
    /\ heard[p] \subseteq {p}
    /\ work[p] \in {"racing", "handling"} /\ ~told[p] => p \in messages \cup heard[p]
    /\ Running(p) => closer \in {"idle", "wait"}

Sound(p) == prompt[p] = "over" /\ reason[p] \in {"end_turn", "limit", "cancelled"}

\* A slash command that fails is answered with its tool call left open, which
\* the next fail_open_tools fails.
CardLeft(p) == p \in Slash /\ work[p] = "failed" /\ card[p] = "failed"

Updates(p) ==
  {i \in 1..Len(bridge.queue) : bridge.queue[i].kind = "update" /\ p \in bridge.queue[i].of}

\* The answer to a prompt is the last word on it: its updates have been sent
\* and none was dropped without a word, and after the answer "cancelled" its
\* task and its job have ended, its text is gone and its tool call is closed,
\* unless a turn ignored a cancellation.  There is one word after the answer
\* to a slash command that failed: the tool call that it left open is failed,
\* once, when a later turn reaches a limit or is cancelled or the session is
\* closed.
AnswerIsLast ==
  \A p \in Prompts : Sound(p) /\ (reason[p] = "cancelled" => ignored = {}) =>
    /\ IF CardLeft(p) THEN \A i, j \in Updates(p) : i = j
       ELSE p \notin unreported /\ Updates(p) = {}
    /\ reason[p] = "cancelled" => ~Running(p) /\ job # p /\ p \notin messages /\ card[p] # "open"

\* Turns do not mix: each is given its own prompt, and ends with its answer.
TurnsKept == AcpTypeOK /\ PromptHeard /\ AnswerIsLast

Queued(i) == \E n \in 1..Len(bridge.queue) : bridge.queue[n] = i

\* Nobody waits for what will not come, whatever becomes of the client: a
\* prompt that was cancelled waits for a cancellation under way, a flush for a
\* marker that the pump will reach, the closing for the pump; a session that
\* keeps prompts out has a cancellation or a prompt under way.
AnswersComing ==
  /\ \A p \in Prompts : prompt[p] = "wait" => cancel_complete \/ \E k \in CancelRequests : Holds(k)
  /\ \A w \in Flushers : marker[w] = "queued" => FlushOver(w) \/ Queued(Mark(w))
  /\ closer = "pump" => ~Pumping(bridge) \/ Queued(StopMark)
  /\ dispatcher.cancelling => \E k \in CancelRequests : Holds(k)
  /\ holder # Nobody => prompt[holder] \in {"dispatch", "wait", "flush"}

=============================================================================
