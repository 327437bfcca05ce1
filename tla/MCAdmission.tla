----------------------------- MODULE MCAdmission -----------------------------
\* Small instances of the process-local admission group.
EXTENDS Admission, TLC

CONSTANTS t1, t2, t3, l1, l2

\* Two tasks on one loop and one on another.
MCTasks  == {t1, t2, t3}
MCLoops  == {l1, l2}
MCLoopOf == (t1 :> l1) @@ (t2 :> l1) @@ (t3 :> l2)

MCSymmetry == Permutations({t1, t2})
=============================================================================
