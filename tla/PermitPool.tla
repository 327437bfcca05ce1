----------------------------- MODULE PermitPool -----------------------------
(***************************************************************************)
(* What an admission controller promises, whoever implements it: a line    *)
(* of clients and at most Slots of them inside.  Clients are let in from   *)
(* the front of the line only, and each is inside until it comes out.      *)
(*                                                                         *)
(* The process-local group (Admission) and the multiprocess broker         *)
(* (Broker) both implement this pool.                                      *)
(***************************************************************************)
EXTENDS Integers, Sequences, FiniteSets, Queues

CONSTANTS
  Clients,
  Slots       \* max_in_flight

VARIABLES
  line,       \* the clients that wait, in order of arrival
  inside      \* the clients that hold a slot

pool == <<line, inside>>

InLine == Members(line)

\* The first k clients of q leave the line.  Some of them are let in to join
\* the clients in hold, the others are turned away or are gone.
Serve(q, hold) ==
  \E k \in 0..Len(q) :
    /\ line' = SubSeq(q, k + 1, Len(q))
    /\ \E admitted \in SUBSET {q[i] : i \in 1..k} : inside' = hold \cup admitted
    /\ Cardinality(inside') <= Slots

\* A client arrives at the back of the line.
Arrive(c) == c \notin inside \cup InLine /\ Serve(Append(line, c), inside)

\* A client leaves the line, wherever it stands.
Leave(c) == c \in InLine /\ Serve(Without(line, c), inside)

\* A client comes out.
ComeOut(c) == c \in inside /\ Serve(line, inside \ {c})

Init == line = <<>> /\ inside = {}

Next ==
  \/ \E c \in Clients : Arrive(c) \/ Leave(c) \/ ComeOut(c)
  \/ Serve(line, inside)

Spec == Init /\ [][Next]_pool

=============================================================================
