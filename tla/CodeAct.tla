------------------------------ MODULE CodeAct ------------------------------
(***************************************************************************)
(* One generation session of CodeActStrategy (strategies/codeact.py): the  *)
(* loop of turns, each a request to the model and the handling of what it  *)
(* answers, with the counters that bound the loop, the requests it makes   *)
(* through ActorRuntime.generate (runtime/actor.py) and with_retry         *)
(* (unifiedllm/retry.py), the AfterTurn events that tell observers of its  *)
(* end, and the ToolCallEvents that the next prompt is rendered from.      *)
(*                                                                         *)
(* What the model answers, what a cell does and whether a value is valid   *)
(* are chosen freely; so is the verdict of the loop guard.                 *)
(***************************************************************************)
EXTENDS Integers

CONSTANTS
  MaxIterations,   \* max_iterations
  MaxRetries,      \* max_retries of the strategy
  MaxTextOnly,     \* max_consecutive_text_only, 0: no limit
  LLMRetries,      \* max_retries of the client
  ExtraRetries,    \* rate_limit_extra_retries of the client
  MaxTools,        \* bound of the model: tool calls in one answer
  Guarded          \* is a loop guard configured?

ASSUME SessionAssumption ==
  /\ MaxIterations \in Nat /\ MaxRetries \in Nat \ {0} /\ MaxTextOnly \in Nat
  /\ LLMRetries \in Nat /\ ExtraRetries \in Nat /\ MaxTools \in Nat \ {0}
  /\ Guarded \in BOOLEAN

VARIABLES
  phase,          \* where the session is
  iteration, error_count, api_errors, text_only,   \* CodeActSession
  returns_none,   \* is the method annotated -> None?
  attempt,        \* attempt of with_retry
  recovered,      \* is this the request after a rejected one was shortened?
  tools,          \* tool calls of the answer that are left
  synthetic,      \* were they made up by on_text_only?
  entry,          \* result of the ToolCallEvent under way
  finals,         \* AfterTurn events with is_final
  succeeded,      \* AfterTurn events with success
  outcome,        \* how the session ended
  requests,       \* history: calls of generate() that reached the client
  attempts,       \* history: attempts the client makes for this call
  unanswered      \* history: ToolCallEvents left with result None

counters    == <<iteration, error_count, api_errors, text_only>>
request     == <<attempt, recovered, requests, attempts>>
answer      == <<tools, synthetic, entry, unanswered>>
ending      == <<finals, succeeded, outcome>>
sessionVars == <<phase, counters, returns_none, request, answer, ending>>

IsExhausted(i, e) == i >= MaxIterations \/ e >= MaxRetries

----------------------------------------------------------------------------
(***************************************************************************)
(* The ends of a turn.                                                     *)
(***************************************************************************)

Continues == phase' = "loop" /\ UNCHANGED <<finals, succeeded, outcome>>

\* The exception leaves the turn; AfterTurn says is_final if it was set.
Raises(how, is_final) ==
  /\ phase' = "over" /\ outcome' = how
  /\ finals' = IF is_final THEN finals + 1 ELSE finals
  /\ UNCHANGED succeeded

Completes ==
  /\ phase' = "over" /\ outcome' = "returned"
  /\ finals' = finals + 1 /\ succeeded' = succeeded + 1

----------------------------------------------------------------------------
(***************************************************************************)
(* Begin and loop.                                                         *)
(***************************************************************************)

\* Task and prefill; a precondition may abort the call.
Begin ==
  /\ phase = "start"
  /\ \/ phase' = "loop" /\ UNCHANGED ending
     \/ Raises("raised", FALSE)
  /\ UNCHANGED <<counters, returns_none, request, answer>>

TurnBegins ==
  /\ phase = "loop" /\ ~IsExhausted(iteration, error_count)
  /\ phase' = "prompt"
  /\ UNCHANGED <<counters, returns_none, request, answer, ending>>

\* The loop is left without success: one more AfterTurn, the final one.
LoopExhausted ==
  /\ phase = "loop" /\ IsExhausted(iteration, error_count)
  /\ Raises("failed", TRUE)
  /\ UNCHANGED <<counters, returns_none, request, answer>>

----------------------------------------------------------------------------
(***************************************************************************)
(* The request: generate(), acall(), with_retry().                         *)
(***************************************************************************)

\* Mutant: the turn is not counted.
BlockErrorUncounted ==
  /\ phase = "prompt"
  /\ Continues
  /\ UNCHANGED <<counters, returns_none, request, answer>>

\* The prompt cannot be built from a context block the model wrote.
BlockError ==
  /\ phase = "prompt"
  /\ iteration' = iteration + 1
  /\ Continues
  /\ UNCHANGED <<error_count, api_errors, text_only, returns_none, request, answer>>

Dispatch ==
  /\ phase = "prompt"
  /\ phase' = "request"
  /\ requests' = requests + 1 /\ attempts' = 1
  /\ attempt' = 0 /\ recovered' = FALSE
  /\ UNCHANGED <<counters, returns_none, answer, ending>>

Allowed(rate_limit) == IF rate_limit THEN LLMRetries + ExtraRetries ELSE LLMRetries

\* A retryable error, with retries left.
Retry(rate_limit) ==
  /\ phase = "request" /\ attempt < Allowed(rate_limit)
  /\ attempt' = attempt + 1 /\ attempts' = attempts + 1
  /\ UNCHANGED <<phase, counters, returns_none, recovered, requests, answer, ending>>

\* The prompt was too long: events are archived and a shorter request is made.
Recover ==
  /\ phase = "request" /\ ~recovered
  /\ recovered' = TRUE
  /\ attempt' = 0 /\ attempts' = attempts + 1
  /\ UNCHANGED <<phase, counters, returns_none, requests, answer, ending>>

\* Any other error, or the last one: generate() raises.
RequestFails ==
  /\ phase = "request"
  /\ api_errors' = api_errors + 1
  /\ IF api_errors' >= MaxRetries THEN Raises("failed", TRUE) ELSE Continues
  /\ UNCHANGED <<iteration, error_count, text_only, returns_none, request, answer>>

\* Reasoning that cannot be replayed is not retried.
ReplayFails ==
  /\ phase \in {"prompt", "request"}
  /\ Raises("raised", TRUE)
  /\ UNCHANGED <<counters, returns_none, request, answer>>

Responds ==
  /\ phase = "request"
  /\ phase' = "answer"
  /\ api_errors' = 0
  /\ UNCHANGED <<iteration, error_count, text_only, returns_none, request, answer, ending>>

----------------------------------------------------------------------------
(***************************************************************************)
(* The answer.                                                             *)
(***************************************************************************)

\* finish_reason is "length" or "error".
Incomplete ==
  /\ phase = "answer"
  /\ error_count' = error_count + 1
  /\ Raises("failed", TRUE)
  /\ UNCHANGED <<iteration, api_errors, text_only, returns_none, request, answer>>

EmptyResponse ==
  /\ phase = "answer"
  /\ error_count' = error_count + 1
  /\ Continues
  /\ UNCHANGED <<iteration, api_errors, text_only, returns_none, request, answer>>

\* _process_tool_calls, for an answer of the model or one of on_text_only.
ToolCalls ==
  /\ phase = "answer"
  /\ phase' = "tools"
  /\ tools' \in 1..MaxTools /\ synthetic' \in BOOLEAN
  /\ text_only' = IF synthetic' THEN text_only ELSE 0
  /\ iteration' = iteration + 1
  /\ UNCHANGED <<error_count, api_errors, returns_none, request, entry, unanswered, ending>>

\* What is left of a turn after a text-only answer that did not complete it.
CountsText ==
  /\ text_only' = text_only + 1
  /\ IF MaxTextOnly > 0 /\ text_only' >= MaxTextOnly THEN Raises("failed", TRUE) ELSE Continues

\* on_text_only asks for another turn.
TextRetry ==
  /\ phase = "answer"
  /\ iteration' = iteration + 1
  /\ CountsText
  /\ UNCHANGED <<error_count, api_errors, returns_none, request, answer>>

\* on_text_only raises or returns something else.
TextRaises ==
  /\ phase = "answer"
  /\ Raises("raised", FALSE)
  /\ UNCHANGED <<counters, returns_none, request, answer>>

TextReturns ==
  /\ phase = "answer"
  /\ iteration' = iteration + 1
  /\ Completes
  /\ UNCHANGED <<error_count, api_errors, text_only, returns_none, request, answer>>

\* A result that is rejected counts as an error, but for one that a method
\* without a result has been given; its postconditions are asked all the same.
CountsRejection ==
  error_count' \in {error_count + 1} \cup (IF returns_none THEN {error_count} ELSE {})

\* The text is no valid result.  With the turn that was just counted the
\* session may be exhausted, and then the error ends it.
TextInvalid ==
  /\ phase = "answer"
  /\ iteration' = iteration + 1
  /\ CountsRejection
  /\ IF error_count' # error_count /\ IsExhausted(iteration', error_count')
     THEN Raises("failed", FALSE) /\ UNCHANGED text_only
     ELSE CountsText
  /\ UNCHANGED <<api_errors, returns_none, request, answer>>

----------------------------------------------------------------------------
(***************************************************************************)
(* Tool calls, one after the other, until one ends the turn.               *)
(***************************************************************************)

\* The turn ends without a result.
ToolsEnd ==
  IF synthetic THEN CountsText ELSE Continues /\ UNCHANGED text_only

\* The loop guard raises after a call that was repeated too often.
GuardRaises == Guarded /\ Raises("looping", FALSE) /\ UNCHANGED text_only

\* A call that has failed ends the turn or, repeated, the session.
CallFails == (ToolsEnd \/ GuardRaises) /\ tools' = 0

\* The guard does not let a call run that failed before in the same way.
GuardBlocks ==
  /\ phase = "tools" /\ Guarded /\ entry = "none"
  /\ CallFails
  /\ UNCHANGED <<iteration, error_count, api_errors, returns_none, request, synthetic, entry,
                 unanswered>>

\* Arguments that are no JSON object, empty code, an unknown tool.
BadCall ==
  /\ phase = "tools" /\ entry = "none"
  /\ error_count' = error_count + 1
  /\ CallFails
  /\ UNCHANGED <<iteration, api_errors, returns_none, request, synthetic, entry, unanswered>>

\* A ToolCallEvent is recorded for a call of return_result ...
ReturnCalled ==
  /\ phase = "tools" /\ entry = "none"
  /\ entry' = "open"
  /\ phase' = "validate"
  /\ UNCHANGED <<counters, returns_none, request, tools, synthetic, unanswered, ending>>

\* ... or for a cell, with a receipt before the cell runs.
CellStarts ==
  /\ phase = "tools" /\ entry = "none"
  /\ entry' = "receipt"
  /\ phase' = "cell"
  /\ UNCHANGED <<counters, returns_none, request, tools, synthetic, unanswered, ending>>

\* The cell ended without an error and without a result.
CellEnds ==
  /\ phase = "cell"
  /\ entry' = "none"
  /\ IF tools > 1
     THEN \/ tools' = tools - 1 /\ phase' = "tools" /\ UNCHANGED <<text_only, ending>>
          \/ GuardRaises /\ tools' = 0
     ELSE CallFails
  /\ UNCHANGED <<iteration, error_count, api_errors, returns_none, request, synthetic, unanswered>>

CellFails ==
  /\ phase = "cell"
  /\ entry' = "none"
  /\ CallFails
  /\ UNCHANGED <<iteration, error_count, api_errors, returns_none, request, synthetic, unanswered>>

\* The cell called return_result.
CellReturns ==
  /\ phase = "cell"
  /\ phase' = "validate"
  /\ UNCHANGED <<counters, returns_none, request, answer, ending>>

\* _handle_return_result accepts the value.
ResultAccepted ==
  /\ phase = "validate"
  /\ entry' = "none"
  /\ Completes
  /\ tools' = 0
  /\ UNCHANGED <<counters, returns_none, request, synthetic, unanswered>>

\* Mutant: the GenerationError is not caught on its way.
ResultRejectedOpen ==
  /\ phase = "validate"
  /\ CountsRejection
  /\ entry' = "none"
  /\ IF error_count' # error_count /\ IsExhausted(iteration, error_count')
     THEN /\ Raises("failed", FALSE) /\ UNCHANGED text_only /\ tools' = 0
          /\ unanswered' = IF entry = "open" THEN unanswered + 1 ELSE unanswered
     ELSE CallFails /\ UNCHANGED unanswered
  /\ UNCHANGED <<iteration, api_errors, returns_none, request, synthetic>>

\* It does not: the event gets an error result, also when the session is
\* exhausted and the error is raised.
ResultRejected ==
  /\ phase = "validate"
  /\ CountsRejection
  /\ entry' = "none"
  /\ IF error_count' # error_count /\ IsExhausted(iteration, error_count')
     THEN Raises("failed", FALSE) /\ UNCHANGED text_only /\ tools' = 0
     ELSE CallFails
  /\ UNCHANGED <<iteration, api_errors, returns_none, request, synthetic, unanswered>>

\* A postcondition raises an error that is not an InvariantError.
PostconditionRaises ==
  /\ phase = "validate"
  /\ Raises("raised", FALSE)
  /\ unanswered' = IF entry = "open" THEN unanswered + 1 ELSE unanswered
  /\ entry' = "none" /\ tools' = 0
  /\ UNCHANGED <<counters, returns_none, request, synthetic>>

\* The call is cancelled at an await; a cell leaves its receipt.
CancelSession ==
  /\ phase \in {"start", "prompt", "request", "answer", "cell"}
  /\ Raises("cancelled", FALSE)
  /\ entry' = "none" /\ tools' = 0
  /\ UNCHANGED <<counters, returns_none, request, synthetic, unanswered>>

----------------------------------------------------------------------------
SessionInit ==
  /\ phase = "start"
  /\ iteration = 0 /\ error_count = 0 /\ api_errors = 0 /\ text_only = 0
  /\ returns_none \in BOOLEAN
  /\ attempt = 0 /\ recovered = FALSE /\ requests = 0 /\ attempts = 0
  /\ tools = 0 /\ synthetic = FALSE /\ entry = "none" /\ unanswered = 0
  /\ finals = 0 /\ succeeded = 0 /\ outcome = "none"

\* What the session, its client and its cells do by themselves.
SessionSteps ==
  \/ Begin \/ TurnBegins \/ LoopExhausted
  \/ BlockError \/ Dispatch \/ (\E r \in BOOLEAN : Retry(r)) \/ Recover
  \/ RequestFails \/ ReplayFails \/ Responds
  \/ Incomplete \/ EmptyResponse \/ ToolCalls \/ TextRetry \/ TextRaises \/ TextReturns \/ TextInvalid
  \/ GuardBlocks \/ BadCall \/ ReturnCalled \/ CellStarts \/ CellEnds \/ CellFails \/ CellReturns
  \/ ResultAccepted \/ ResultRejected \/ PostconditionRaises

SessionNext == SessionSteps \/ CancelSession

SessionSpec == SessionInit /\ [][SessionNext]_sessionVars

----------------------------------------------------------------------------
(***************************************************************************)
(* Properties                                                              *)
(***************************************************************************)

SessionTypeOK ==
  /\ phase \in {"start", "loop", "prompt", "request", "answer", "tools", "validate", "cell", "over"}
  /\ iteration \in Nat /\ error_count \in Nat /\ api_errors \in Nat /\ text_only \in Nat
  /\ returns_none \in BOOLEAN
  /\ attempt \in Nat /\ recovered \in BOOLEAN /\ requests \in Nat /\ attempts \in Nat
  /\ tools \in 0..MaxTools /\ synthetic \in BOOLEAN
  /\ entry \in {"none", "open", "receipt"} /\ unanswered \in Nat
  /\ finals \in Nat /\ succeeded \in Nat
  /\ outcome \in {"none", "returned", "failed", "raised", "looping", "cancelled"}

\* Attempts that one call of generate() may take.
PerRequest == 2 * (LLMRetries + ExtraRetries + 1)

\* Four counters that are reset at different places bound the loop together:
\* whatever the model answers and however the endpoint fails in between, a
\* session makes at most (max_iterations + max_retries) * max_retries +
\* max_retries requests and, with the two retry budgets of the client and the
\* recovery from a prompt that was too long, PerRequest attempts for each one.
RequestsBounded ==
  /\ SessionTypeOK
  /\ iteration <= MaxIterations /\ error_count <= MaxRetries /\ api_errors <= MaxRetries
  /\ requests <= (iteration + error_count + 1) * MaxRetries
  /\ attempts <= PerRequest

\* What a session leaves in the log is complete.  Observers are told of the
\* end once: after an AfterTurn with is_final there is no further turn, and
\* success is reported with it exactly when the call returns a value
\* (MethodSummarizer and the ATIF exporter act on it).  "So the event is never
\* left with result=None in the DB": when a session is over, every
\* ToolCallEvent has a result, unless a postcondition raised.
WellRecorded ==
  /\ finals <= 1 /\ (finals = 1 => phase = "over")
  /\ succeeded = (IF outcome = "returned" THEN 1 ELSE 0)
  /\ succeeded <= finals
  /\ unanswered > 0 => outcome = "raised"

\* A session stays within its bounds and leaves a complete record.
SessionSound == RequestsBounded /\ WellRecorded

\* A session that has begun ends: no answer of the model and no failure of the endpoint,
\* repeated or mixed, keeps the loop going.
SessionEnds == phase = "loop" ~> phase = "over"
=============================================================================
