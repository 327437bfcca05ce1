----------------------------- MODULE MCSession -----------------------------
(***************************************************************************)
(* Small instances of two things a session of an agent has: its event log, *)
(* with the summarizers on it, and, in an ACP server, the requests of its  *)
(* client.  They share no state, so a behaviour is one of either.          *)
(***************************************************************************)
EXTENDS Summaries, Acp, TLC

CONSTANTS u1, u2, x1, x2, n1, n2

MCTurns   == {u1, u2}
MCCancels == {n1, n2}

MCSymmetry == Permutations(MCTurns) \cup Permutations(MCCancels)

VARIABLE part

sessionPartVars == <<allvars, acpVars, part>>

SessionInit ==
  /\ part \in {"log", "requests"}
  /\ SInit /\ AcpInit
  /\ part = "requests" => ~active /\ backend = CHOOSE b \in Backends : TRUE

SessionNext ==
  \/ part = "log" /\ SNext /\ UNCHANGED <<acpVars, part>>
  \/ part = "requests" /\ AcpNext /\ UNCHANGED <<allvars, part>>

SessionSpec == SessionInit /\ [][SessionNext]_sessionPartVars
=============================================================================
