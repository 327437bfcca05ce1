------------------------------ MODULE MCAgent ------------------------------
(***************************************************************************)
(* Small instances of the parts of one agent that run on its event loop:   *)
(* its channels, a generation session, the calls of methods that need one, *)
(* its background jobs and the closing of its event manager.  The parts    *)
(* share no state, so a behaviour is one of one part, chosen at the start. *)
(***************************************************************************)
EXTENDS Channels, CodeAct, Generation, Jobs, Drain, TLC

CONSTANTS q1, a1, a2, j1, j2, k1, k2, k3

MCOrder  == <<q1>>
MCGetOf  == [g \in {} |-> q1]
\* A generator and a coroutine feed the same channel.
MCFeedOf == [j \in {j1, j2} |-> q1]

VARIABLE part

channelVars == vars
agentVars   == <<channelVars, sessionVars, generationVars, jobVars, drainVars, part>>

Moves(p, A) == part = p /\ A /\ UNCHANGED part

Channel(A) == Moves("channels", A) /\ UNCHANGED <<sessionVars, generationVars, jobVars, drainVars>>
Session(A) == Moves("session", A) /\ UNCHANGED <<channelVars, generationVars, jobVars, drainVars>>
Calls(A)   == Moves("calls", A) /\ UNCHANGED <<channelVars, sessionVars, jobVars, drainVars>>
Job(A)     == Moves("jobs", A) /\ UNCHANGED <<channelVars, sessionVars, generationVars, drainVars>>
Close(A)   == Moves("close", A) /\ UNCHANGED <<channelVars, sessionVars, generationVars, jobVars>>

AgentInit ==
  /\ part \in {"channels", "session", "calls", "jobs", "close"}
  /\ Init /\ SessionInit /\ GenerationInit /\ JobsInit /\ DrainInit
  /\ part # "session" => ~returns_none

AgentNext == Channel(Next) \/ Session(SessionNext) \/ Calls(GenerationNext) \/ Job(JobsNext) \/ Close(DrainNext)

\* The fairness of each part: its loop runs what is ready.
AgentFairness ==
  /\ \A t \in Tasks : /\ WF_channelVars(part = "channels" /\ TaskStep(t))
                      /\ WF_channelVars(part = "channels" /\ RunWake(t))
  /\ WF_channelVars(part = "channels" /\ Thread)
  /\ WF_channelVars(part = "channels" /\ RunNotify)
  /\ WF_channelVars(part = "channels" /\ NotifyStep)
  /\ WF_channelVars(part = "channels" /\ RaceStep)
  /\ WF_sessionVars(part = "session" /\ SessionSteps)
  /\ \A c \in 1..MaxCalls : WF_generationVars(part = "calls" /\ Serve(c))
  /\ WF_drainVars(part = "close" /\ DrainSteps)

\* Whoever waits for the agent comes back: callers of its methods, however they
\* are nested, and those who close it (CallsFinish, AcloseEnds).
CallersReturn == CallsFinish /\ AcloseEnds

AgentSpec == AgentInit /\ [][AgentNext]_agentVars /\ AgentFairness
=============================================================================
