------------------------------- MODULE MCLoop -------------------------------
(***************************************************************************)
(* Small instances of two things an agent's loop serves: its channels and  *)
(* its shell.  They share no state, so a behaviour is one of either.       *)
(***************************************************************************)
EXTENDS Channels, Shell, TLC

CONSTANTS q1, q2, g1, s1, s2

MCTwo     == {q1, q2}
MCOrder   == <<q1, q2>>
\* One task in get() beside the dispatcher, on the second channel.
MCGetters == {g1}
MCGetOf   == [g \in MCGetters |-> q2]

VARIABLE part

channelVars == vars
loopVars    == <<channelVars, shellVars, part>>

LoopInit ==
  /\ part \in {"channels", "shell"}
  /\ Init /\ ShellInit
  /\ part = "channels" => ~keep

LoopNext ==
  \/ part = "channels" /\ Next /\ UNCHANGED <<shellVars, part>>
  \/ part = "shell" /\ ShellNext /\ UNCHANGED <<channelVars, part>>

LoopFairness ==
  /\ \A t \in Commands : WF_shellVars(part = "shell" /\ Progress(t))
  /\ WF_shellVars(part = "shell" /\ StartAnswers)

LoopSpec == LoopInit /\ [][LoopNext]_loopVars /\ LoopFairness
=============================================================================
