------------------------------- MODULE Queues -------------------------------
(***************************************************************************)
(* The deques and lists that tasks, calls and callbacks wait in.           *)
(***************************************************************************)
EXTENDS Integers, Sequences

Members(q) == {q[i] : i \in 1..Len(q)}

\* deque.remove and list.remove, without effect when x is not there.  What
\* waits in these queues waits in them once.
Without(q, x) ==
  IF x \notin Members(q) THEN q
  ELSE LET i == CHOOSE i \in 1..Len(q) : q[i] = x
       IN  [j \in 1..(Len(q) - 1) |-> IF j < i THEN q[j] ELSE q[j + 1]]

\* A comprehension that keeps the members of a list that are in S, in their
\* order (SelectSeq, in a form whose meaning a prover can expand).
Only(q, S) ==
  LET kept[i \in 0..Len(q)] ==
        IF i = 0 THEN <<>>
        ELSE IF q[i] \in S THEN Append(kept[i - 1], q[i])
        ELSE kept[i - 1]
  IN  kept[Len(q)]
=============================================================================
