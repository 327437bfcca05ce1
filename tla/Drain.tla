------------------------------- MODULE Drain -------------------------------
(***************************************************************************)
(* EventManager.on_close and aclose (runtime/event_manager.py): owners     *)
(* that close share one drain task, which runs the registered cleanup      *)
(* callbacks in reverse order; an owner that is cancelled waits on.        *)
(***************************************************************************)
EXTENDS Integers, Sequences, Queues

CONSTANTS
  Callbacks,   \* cleanup callbacks; each is registered once
  Owners       \* tasks that call aclose(), once each

ASSUME DrainAssumption == "nobody" \notin Callbacks

VARIABLES
  close_callbacks,   \* registered, in order
  drains,            \* the drain tasks created so far
  close_task,        \* the one an owner joins, 0 for none
  draining,          \* callbacks the drain has still to run, the next one last
  current,           \* the callback it awaits
  owner,             \* for each owner: where it is
  joined,            \* for each owner: the drain it waits for
  cancelled,         \* owners that remember a cancellation
  unused,            \* callbacks that were not registered yet
  ended,             \* history: callbacks that returned, failed or were cancelled
  owed               \* history: for each owner, what its drain has to run

drainVars == <<close_callbacks, drains, close_task, draining, current, owner, joined, cancelled,
               unused, ended, owed>>

Nobody       == "nobody"
Is(t, st)    == t # 0 /\ drains[t] = st
Step(t, st)  == drains' = [drains EXCEPT ![t] = st]
DrainOver(t) == Is(t, "done") \/ Is(t, "aborted")

----------------------------------------------------------------------------
OnClose(c) ==
  /\ c \in unused
  /\ close_callbacks' = Append(close_callbacks, c)
  /\ unused' = unused \ {c}
  /\ owed' = [k \in Owners |-> IF Is(joined[k], "new") THEN owed[k] \cup {c} ELSE owed[k]]
  /\ UNCHANGED <<drains, close_task, draining, current, owner, joined, cancelled, ended>>

\* Without effect on a callback that a drain has taken.
Unsubscribe(c) ==
  /\ c \in Members(close_callbacks)
  /\ close_callbacks' = Without(close_callbacks, c)
  /\ owed' = [k \in Owners |-> owed[k] \ {c}]
  /\ UNCHANGED <<drains, close_task, draining, current, owner, joined, cancelled, unused, ended>>

\* What the drain that an owner joins runs, or will when it starts: nothing
\* if it is done and its other owners have not run yet.
UnderWay ==
  IF close_task = 0 \/ Is(close_task, "new") THEN Members(close_callbacks)
  ELSE IF Is(close_task, "running") THEN Members(draining) \cup ({current} \ {Nobody})
  ELSE {}

\* aclose: a drain is created, or the one there is joined.
Aclose(k) ==
  /\ owner[k] = "idle"
  /\ owner' = [owner EXCEPT ![k] = "waiting"]
  /\ IF close_task = 0
     THEN drains' = Append(drains, "new") /\ close_task' = Len(drains) + 1
     ELSE UNCHANGED <<drains, close_task>>
  /\ joined' = [joined EXCEPT ![k] = close_task']
  /\ owed' = [owed EXCEPT ![k] = UnderWay]
  /\ UNCHANGED <<close_callbacks, draining, current, cancelled, unused, ended>>

\* A cleanup callback, or a task it started, closes again: it returns at once,
\* since the drain waits for it.
AcloseWithin(k) ==
  /\ owner[k] = "idle" /\ current # Nobody
  /\ owner' = [owner EXCEPT ![k] = "nested"]
  /\ UNCHANGED <<close_callbacks, drains, close_task, draining, current, joined, cancelled, unused, ended, owed>>

\* Mutant: a cancelled owner stops waiting.
OwnerCancelledLeaves(k) ==
  /\ owner[k] = "waiting" /\ ~DrainOver(joined[k])
  /\ cancelled' = cancelled \cup {k}
  /\ owner' = [owner EXCEPT ![k] = "raised"]
  /\ UNCHANGED <<close_callbacks, drains, close_task, draining, current, joined, unused, ended, owed>>

\* The shielded wait is cancelled: the owner remembers and waits on.
OwnerCancelled(k) ==
  /\ owner[k] = "waiting" /\ ~DrainOver(joined[k])
  /\ cancelled' = cancelled \cup {k}
  /\ UNCHANGED <<close_callbacks, drains, close_task, draining, current, owner, joined, unused, ended, owed>>

\* The drain is over: its first owner to run forgets it, and the cancellation
\* is raised now.  An owner that runs late leaves the next drain alone.
OwnerLeaves(k) ==
  /\ owner[k] = "waiting" /\ DrainOver(joined[k])
  /\ close_task' = IF close_task = joined[k] THEN 0 ELSE close_task
  /\ owner' = [owner EXCEPT ![k] = IF Is(joined[k], "aborted") THEN "aborted"
                                   ELSE IF k \in cancelled THEN "raised" ELSE "returned"]
  /\ UNCHANGED <<close_callbacks, drains, draining, current, joined, cancelled, unused, ended, owed>>

----------------------------------------------------------------------------
(***************************************************************************)
(* _drain_close_callbacks                                                  *)
(***************************************************************************)

DrainStarts ==
  /\ Is(close_task, "new") /\ Step(close_task, "running")
  /\ draining' = close_callbacks /\ close_callbacks' = <<>>
  /\ UNCHANGED <<close_task, current, owner, joined, cancelled, unused, ended, owed>>

\* The loop shuts down and cancels the drain before it ran.
DrainAborted ==
  /\ Is(close_task, "new") /\ Step(close_task, "aborted")
  /\ UNCHANGED <<close_callbacks, close_task, draining, current, owner, joined, cancelled, unused, ended, owed>>

CallbackStarts ==
  /\ Is(close_task, "running") /\ current = Nobody /\ draining # <<>>
  /\ current' = draining[Len(draining)]
  /\ draining' = SubSeq(draining, 1, Len(draining) - 1)
  /\ UNCHANGED <<close_callbacks, drains, close_task, owner, joined, cancelled, unused, ended, owed>>

\* It returns, fails, or is cancelled alone or with the drain, which goes on
\* to the next one in every case.
CallbackEnds ==
  /\ current # Nobody
  /\ ended' = ended \cup {current}
  /\ current' = Nobody
  /\ UNCHANGED <<close_callbacks, drains, close_task, draining, owner, joined, cancelled, unused, owed>>

DrainEnds ==
  /\ Is(close_task, "running") /\ current = Nobody /\ draining = <<>>
  /\ Step(close_task, "done")
  /\ UNCHANGED <<close_callbacks, close_task, draining, current, owner, joined, cancelled, unused, ended, owed>>

----------------------------------------------------------------------------
DrainInit ==
  /\ close_callbacks = <<>> /\ unused = Callbacks
  /\ drains = <<>> /\ close_task = 0 /\ draining = <<>> /\ current = Nobody
  /\ owner = [k \in Owners |-> "idle"] /\ joined = [k \in Owners |-> 0] /\ cancelled = {}
  /\ ended = {} /\ owed = [k \in Owners |-> {}]

\* What the loop runs: the drain, its callbacks and the owners it wakes.
DrainSteps ==
  \/ DrainStarts \/ CallbackStarts \/ CallbackEnds \/ DrainEnds
  \/ \E k \in Owners : OwnerLeaves(k)

DrainNext ==
  \/ DrainSteps \/ DrainAborted
  \/ \E c \in Callbacks : OnClose(c) \/ Unsubscribe(c)
  \/ \E k \in Owners : Aclose(k) \/ AcloseWithin(k) \/ OwnerCancelled(k)

DrainSpec == DrainInit /\ [][DrainNext]_drainVars

----------------------------------------------------------------------------
(***************************************************************************)
(* Properties                                                              *)
(***************************************************************************)

DrainTypeOK ==
  /\ close_callbacks \in Seq(Callbacks) /\ unused \subseteq Callbacks
  /\ drains \in Seq({"new", "running", "done", "aborted"}) /\ close_task \in 0..Len(drains)
  /\ draining \in Seq(Callbacks) /\ current \in Callbacks \cup {Nobody}
  /\ owner \in [Owners -> {"idle", "waiting", "nested", "returned", "raised", "aborted"}]
  /\ joined \in [Owners -> 0..Len(drains)] /\ cancelled \subseteq Owners
  /\ ended \subseteq Callbacks /\ owed \in [Owners -> SUBSET Callbacks]

\* "Drain background cleanup before propagating caller cancellation": when
\* aclose() returns or raises its caller's cancellation, every callback of the
\* drain it created or joined has ended, also those another owner's drain had
\* half done.  A recursive close promises nothing.
CloseDrains ==
  /\ DrainTypeOK
  /\ \A k \in Owners : owner[k] \in {"returned", "raised"} => owed[k] \subseteq ended

\* With callbacks that end, every aclose() ends.
AcloseEnds == \A k \in Owners : owner[k] = "waiting" ~> owner[k] # "waiting"

=============================================================================
