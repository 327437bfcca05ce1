--------------------------- MODULE SessionProofs ---------------------------
(***************************************************************************)
(* Proofs about sessions: the requests that meet on one session of the ACP *)
(* server, for any number of prompts, cancellations and lost updates, and  *)
(* the calls that share one shell session, for any number of them, of      *)
(* shells, deaths and time-outs.                                           *)
(***************************************************************************)
EXTENDS Acp, Shell, QueueTheorems

AcpSpec == AcpInit /\ [][AcpNext]_acpVars

Items == {Update(S) : S \in SUBSET Prompts} \cup {Mark(w) : w \in Flushers} \cup {StopMark}

Bridge == [queue : Seq(Items), pump : {"running", "over"}, error : SUBSET Prompts, closed : BOOLEAN]

----------------------------------------------------------------------------
(***************************************************************************)
(* The queue of the event bridge.                                          *)
(***************************************************************************)

About(p, m) == m.kind = "update" /\ p \in m.of

\* No update of p waits in the queue; none waits behind p's marker.
Quiet(p, q) == \A i \in 1..Len(q) : ~About(p, q[i])
Ordered(p, q) == \A i, j \in 1..Len(q) : i < j /\ q[i] = Mark(p) => ~About(p, q[j])

\* At most one update of p waits in the queue.
Once(p, q) == \A i, j \in 1..Len(q) : About(p, q[i]) /\ About(p, q[j]) => i = j

\* The kinds of items, and which of them are about p.
LEMMA ItemKinds ==
  /\ \A p, S : About(p, Update(S)) <=> p \in S
  /\ \A p, w : ~About(p, Mark(w)) /\ ~About(p, StopMark)
  /\ \A S : Update(S).kind = "update" /\ Update(S).of = S
  /\ \A w : Mark(w).kind = "mark" /\ Mark(w).of = {w}
  /\ StopMark.kind = "stop"
  /\ \A v, w : Mark(v) = Mark(w) => v = w
  /\ \A w, S : Mark(w) # Update(S) /\ Mark(w) # StopMark /\ Update(S) # StopMark
<1>1. \A p, S : About(p, Update(S)) <=> p \in S
  BY DEF About, Update
<1>2. \A p, w : ~About(p, Mark(w)) /\ ~About(p, StopMark)
  BY DEF About, Mark, StopMark
<1>3. /\ \A S : Update(S).kind = "update" /\ Update(S).of = S
      /\ \A w : Mark(w).kind = "mark" /\ Mark(w).of = {w}
      /\ StopMark.kind = "stop"
  BY DEF Update, Mark, StopMark
<1>4. \A v, w : Mark(v) = Mark(w) => v = w
  <2> SUFFICES ASSUME NEW v, NEW w, Mark(v) = Mark(w) PROVE v = w
    OBVIOUS
  <2>1. {v} = {w}
    BY <1>3
  <2> QED
    BY <2>1
<1>5. \A w, S : Mark(w) # Update(S) /\ Mark(w) # StopMark /\ Update(S) # StopMark
  BY <1>3
<1> QED
  BY <1>1, <1>2, <1>3, <1>4, <1>5

\* An item is added.
LEMMA QueueGrows ==
  ASSUME NEW q \in Seq(Items), NEW m \in Items
  PROVE  /\ Append(q, m) \in Seq(Items) /\ Members(Append(q, m)) = Members(q) \cup {m}
         /\ \A p : Quiet(p, q) /\ ~About(p, m) => Quiet(p, Append(q, m))
         /\ \A p : Ordered(p, q) /\ ~About(p, m) => Ordered(p, Append(q, m))
         /\ \A p : Mark(p) \notin Members(q) => Ordered(p, Append(q, m))
         /\ \A p : Once(p, q) /\ ~About(p, m) => Once(p, Append(q, m))
         /\ \A p : Quiet(p, q) => Once(p, q) /\ Once(p, Append(q, m))
<1> DEFINE r == Append(q, m)
<1>1. /\ Len(q) \in Nat /\ r \in Seq(Items) /\ Len(r) = Len(q) + 1 /\ r[Len(q) + 1] = m
      /\ \A i \in 1..Len(q) : r[i] = q[i]
  BY LenProperties, AppendProperties
<1> HIDE DEF r
<1>2. \A i \in 1..Len(r) : i \in 1..Len(q) \/ i = Len(q) + 1
  BY <1>1
<1>3. 1..Len(q) \subseteq 1..Len(r) /\ Len(q) + 1 \in 1..Len(r)
  BY <1>1
<1>4. Members(r) \subseteq Members(q) \cup {m} /\ Members(q) \cup {m} \subseteq Members(r)
  BY <1>1, <1>2, <1>3 DEF Members
<1>5. \A p : Quiet(p, q) /\ ~About(p, m) => Quiet(p, r)
  BY <1>1, <1>2 DEF Quiet
<1>6. \A i, j \in 1..Len(r) : i < j => i \in 1..Len(q)
  BY <1>1
<1>7. \A p : Ordered(p, q) /\ ~About(p, m) => Ordered(p, r)
  <2> SUFFICES ASSUME NEW p, Ordered(p, q), ~About(p, m), NEW i \in 1..Len(r), NEW j \in 1..Len(r), i < j, r[i] = Mark(p)
               PROVE  ~About(p, r[j])
    BY DEF Ordered
  <2>1. CASE j = Len(q) + 1
    BY <1>1, <2>1
  <2>2. CASE j \in 1..Len(q)
    BY <1>1, <1>6, <2>2 DEF Ordered
  <2> QED
    BY <1>2, <2>1, <2>2
<1>8. \A p : Mark(p) \notin Members(q) => Ordered(p, r)
  BY <1>1, <1>6 DEF Ordered, Members
<1>9. \A p : Once(p, q) /\ ~About(p, m) => Once(p, r)
  BY <1>1, <1>2 DEF Once
<1>10. \A p : Quiet(p, q) => Once(p, q) /\ Once(p, r)
  BY <1>1, <1>2 DEF Once, Quiet
<1> QED
  BY <1>1, <1>4, <1>5, <1>7, <1>8, <1>9, <1>10 DEF r

\* The head is taken.
LEMMA QueueServed ==
  ASSUME NEW q \in Seq(Items), q # <<>>
  PROVE  /\ Head(q) \in Items /\ Head(q) \in Members(q) /\ Tail(q) \in Seq(Items)
         /\ Members(Tail(q)) \subseteq Members(q)
         /\ \A x \in Members(q) : x # Head(q) => x \in Members(Tail(q))
         /\ \A p : Quiet(p, q) => Quiet(p, Tail(q)) /\ ~About(p, Head(q))
         /\ \A p : Ordered(p, q) => Ordered(p, Tail(q))
         /\ \A p : Ordered(p, q) /\ Head(q) = Mark(p) => Quiet(p, Tail(q))
         /\ \A p : Once(p, q) => Once(p, Tail(q))
         /\ \A p : Quiet(p, Tail(q)) => Once(p, Tail(q))
<1> DEFINE r == Tail(q)
           h == Head(q)
<1>1. /\ Len(q) \in Nat /\ Len(q) # 0 /\ r \in Seq(Items) /\ Len(r) = Len(q) - 1
      /\ \A i \in 1..Len(r) : r[i] = q[i + 1]
      /\ h = q[1] /\ h \in Items
  BY LenProperties, EmptySeq, HeadTailProperties
<1> HIDE DEF r, h
<1>2. 1 \in 1..Len(q) /\ \A i \in 1..Len(r) : i + 1 \in 1..Len(q) /\ 1 < i + 1
  BY <1>1
<1>3. \A i \in 1..Len(q) : i = 1 \/ (i - 1 \in 1..Len(r) /\ (i - 1) + 1 = i)
  BY <1>1
<1>4. h \in Members(q) /\ Members(r) \subseteq Members(q)
  BY <1>1, <1>2 DEF Members
<1>5. ASSUME NEW x \in Members(q), x # h PROVE x \in Members(r)
  <2>1. PICK i \in 1..Len(q) : x = q[i]
    BY DEF Members
  <2>2. i - 1 \in 1..Len(r) /\ r[i - 1] = q[i]
    BY <1>1, <1>3, <1>5, <2>1
  <2> QED
    BY <2>1, <2>2 DEF Members
<1>6. \A p : Quiet(p, q) => Quiet(p, r) /\ ~About(p, h)
  BY <1>1, <1>2 DEF Quiet
<1>7. \A i, j \in 1..Len(r) : i < j => i + 1 < j + 1
  BY <1>1
<1>8. \A p : Ordered(p, q) => Ordered(p, r)
  BY <1>1, <1>2, <1>7 DEF Ordered
<1>9. \A p : Ordered(p, q) /\ h = Mark(p) => Quiet(p, r)
  BY <1>1, <1>2 DEF Ordered, Quiet
<1>10. \A p : Once(p, q) => Once(p, r)
  <2>1. \A i, j \in 1..Len(r) : i + 1 = j + 1 => i = j
    BY <1>1
  <2> QED
    BY <1>1, <1>2, <2>1 DEF Once
<1>11. \A p : Quiet(p, r) => Once(p, r)
  BY DEF Quiet, Once
<1> QED
  BY <1>1, <1>4, <1>5, <1>6, <1>8, <1>9, <1>10, <1>11 DEF r, h

\* The empty queue.
LEMMA QueueEmpty ==
  <<>> \in Seq(Items) /\ Members(<<>>) = {} /\ \A p : Quiet(p, <<>>) /\ Ordered(p, <<>>) /\ Once(p, <<>>)
<1>1. <<>> \in Seq(Items) /\ Len(<<>>) = 0 /\ 1..0 = {}
  OBVIOUS
<1>2. Members(<<>>) = {}
  BY <1>1 DEF Members
<1>3. ASSUME NEW p PROVE Quiet(p, <<>>) /\ Ordered(p, <<>>) /\ Once(p, <<>>)
  BY <1>1 DEF Quiet, Ordered, Once
<1> QED
  BY <1>1, <1>2, <1>3

\* What a queue q may become when updates about the prompts of S and the items
\* of M are added.
Grows(q, r, S, M) ==
  /\ r \in Seq(Items) /\ Members(q) \subseteq Members(r)
  /\ Members(r) \subseteq (Members(q) \cup {Update(S)}) \cup M
  /\ \A p : p \notin S => /\ Quiet(p, q) => Quiet(p, r)
                          /\ Ordered(p, q) => Ordered(p, r)
                          /\ Once(p, q) => Once(p, r)
  /\ \A p : Mark(p) \notin Members(q) => Ordered(p, r)
  /\ \A p : Quiet(p, q) => Once(p, r)

\* The bridge after updates about S, if any.
Extends(b, S) == b = bridge \/ b = Enqueue(bridge, Update(S))

\* Nothing is added.
LEMMA GrowsSame ==
  ASSUME NEW q \in Seq(Items), NEW S, NEW M
  PROVE  Grows(q, q, S, M)
<1>1. \A p : Mark(p) \notin Members(q) => Ordered(p, q)
  BY DEF Ordered, Members
<1>2. \A p : Quiet(p, q) => Once(p, q)
  BY DEF Quiet, Once
<1> QED
  BY <1>1, <1>2 DEF Grows

\* An update about S is added.
LEMMA GrowsUpdate ==
  ASSUME NEW q \in Seq(Items), NEW S \in SUBSET Prompts, NEW M
  PROVE  Grows(q, Append(q, Update(S)), S, M)
<1>1. Update(S) \in Items
  BY DEF Items
<1>2. \A p : p \notin S => ~About(p, Update(S))
  BY ItemKinds
<1> QED
  BY <1>1, <1>2, QueueGrows DEF Grows

\* A marker is added behind.
LEMMA GrowsMore ==
  ASSUME NEW q \in Seq(Items), NEW r \in Seq(Items), NEW S, NEW m \in Items,
         \A p : ~About(p, m), \A p, T : m # Update(T), Grows(q, r, S, {})
  PROVE  /\ Grows(q, Append(r, m), S, {m}) /\ m \in Members(Append(r, m))
<1> DEFINE t == Append(r, m)
<1>1. /\ t \in Seq(Items) /\ Members(t) = Members(r) \cup {m}
      /\ \A p : Quiet(p, r) => Quiet(p, t)
      /\ \A p : Ordered(p, r) => Ordered(p, t)
      /\ \A p : Once(p, r) => Once(p, t)
  BY QueueGrows
<1> HIDE DEF t
<1>2. /\ Members(q) \subseteq Members(r)
      /\ Members(r) \subseteq (Members(q) \cup {Update(S)})
      /\ \A p : p \notin S => /\ Quiet(p, q) => Quiet(p, r)
                              /\ Ordered(p, q) => Ordered(p, r)
                              /\ Once(p, q) => Once(p, r)
      /\ \A p : Mark(p) \notin Members(q) => Ordered(p, r)
      /\ \A p : Quiet(p, q) => Once(p, r)
  BY DEF Grows
<1>3. Members(t) \subseteq (Members(q) \cup {Update(S)}) \cup {m} /\ Members(q) \subseteq Members(t)
  BY <1>1, <1>2
<1>4. ASSUME NEW p
      PROVE  /\ p \notin S => /\ Quiet(p, q) => Quiet(p, t)
                              /\ Ordered(p, q) => Ordered(p, t)
                              /\ Once(p, q) => Once(p, t)
             /\ Mark(p) \notin Members(q) => Ordered(p, t)
             /\ Quiet(p, q) => Once(p, t)
  BY <1>1, <1>2
<1>5. Grows(q, t, S, {m})
  BY <1>1, <1>3, <1>4 DEF Grows
<1> QED
  BY <1>1, <1>5 DEF t

\* The bridge after updates about S.
LEMMA ExtendsShape ==
  ASSUME bridge \in Bridge, NEW S \in SUBSET Prompts, NEW b, Extends(b, S)
  PROVE  /\ b \in Bridge /\ b.pump = bridge.pump /\ b.error = bridge.error /\ b.closed = bridge.closed
         /\ Grows(bridge.queue, b.queue, S, {})
         /\ b.closed \/ ~Pumping(b) => b = bridge
<1> DEFINE m == Update(S)
<1>1. m \in Items
  BY DEF Items
<1>2. CASE b = bridge
  BY <1>2, GrowsSame DEF Bridge
<1>3. CASE b # bridge
  <2>1. b = [bridge EXCEPT !.queue = Append(bridge.queue, m)] /\ ~(bridge.closed \/ ~Pumping(bridge))
    BY <1>3 DEF Extends, Enqueue
  <2>2. Append(bridge.queue, m) \in Seq(Items)
    BY <1>1, QueueGrows DEF Bridge
  <2> HIDE DEF m
  <2>3. b \in Bridge /\ b.pump = bridge.pump /\ b.error = bridge.error /\ b.closed = bridge.closed
        /\ b.queue = Append(bridge.queue, m)
    BY <2>1, <2>2 DEF Bridge
  <2>4. Grows(bridge.queue, b.queue, S, {})
    BY <2>3, GrowsUpdate DEF Bridge, m
  <2> QED
    BY <2>1, <2>3, <2>4 DEF Pumping
<1> QED
  BY <1>2, <1>3

\* The flush of w, up to its await.
LEMMA FlushShape ==
  ASSUME bridge \in Bridge, NEW S \in SUBSET Prompts, NEW b, Extends(b, S),
         NEW w \in Flushers, FlushBegins(w, b)
  PROVE  /\ bridge' \in Bridge /\ bridge'.pump = bridge.pump /\ bridge'.error = bridge.error
         /\ bridge'.closed = bridge.closed
         /\ Grows(bridge.queue, bridge'.queue, S, {Mark(w)})
         /\ Mark(w) \in Members(bridge'.queue)
         /\ marker' = [marker EXCEPT ![w] = "queued"] /\ Pumping(bridge)
<1> DEFINE m == Mark(w)
<1>1. m \in Items /\ (\A p : ~About(p, m)) /\ (\A p, T : m # Update(T))
  BY ItemKinds DEF Items
<1>2. /\ b \in Bridge /\ b.pump = bridge.pump /\ b.error = bridge.error /\ b.closed = bridge.closed
      /\ Grows(bridge.queue, b.queue, S, {})
  BY ExtendsShape
<1>3. bridge' = [b EXCEPT !.queue = Append(b.queue, m)] /\ Pumping(b)
  BY DEF FlushBegins, Enqueue
<1>4. b.queue \in Seq(Items) /\ bridge.queue \in Seq(Items)
  BY <1>2 DEF Bridge
<1> HIDE DEF m
<1>5. Append(b.queue, m) \in Seq(Items)
  BY <1>1, <1>4, QueueGrows
<1>6. /\ bridge' \in Bridge /\ bridge'.pump = b.pump /\ bridge'.error = b.error /\ bridge'.closed = b.closed
      /\ bridge'.queue = Append(b.queue, m)
  BY <1>2, <1>3, <1>5 DEF Bridge
<1>7. Grows(bridge.queue, Append(b.queue, m), S, {m}) /\ m \in Members(Append(b.queue, m))
  BY <1>1, <1>2, <1>4, GrowsMore
<1> QED
  BY <1>2, <1>3, <1>6, <1>7 DEF m, Pumping, FlushBegins

----------------------------------------------------------------------------
(***************************************************************************)
(* The inductive invariant.                                                *)
(***************************************************************************)

AcpTypes ==
  /\ AcpTypeOK
  /\ target \in [CancelRequests -> Prompts \cup {Nobody}]
  /\ closer \in {"idle", "wait", "flush", "pump", "over"}
  /\ cancel_complete \in BOOLEAN
  /\ dispatcher \in [active : Prompts \cup {Nobody}, requested : BOOLEAN, cancelling : BOOLEAN]
  /\ told \in [Prompts -> BOOLEAN] /\ card \in [Prompts -> {"new", "open", "closed", "failed"}]
  /\ bridge \in Bridge

\* One prompt holds the turn, and only its task runs.
TurnHeld ==
  /\ \A p \in Prompts : prompt[p] \in {"dispatch", "wait", "flush"} <=> holder = p
  /\ \A p \in Prompts : prompt[p] = "dispatch" <=> dispatcher.active = p
  /\ \A p \in Prompts : Running(p) => prompt[p] = "dispatch"
  /\ \A p \in Prompts : prompt[p] = "idle" => work[p] = "none"
  /\ closer \in {"flush", "pump", "over"} => holder = Nobody

\* One cancellation holds the lock; until it has cleared its turn no other turn
\* begins, and the turn that holds the session is the one it cancels, or one
\* that collided with it.
CancelHeld ==
  /\ \A k \in CancelRequests : cancel[k] = "task" => target[k] \in Prompts /\ work[target[k]] # "none"
  /\ \A k, l \in CancelRequests : Holds(k) /\ Holds(l) => k = l
  /\ dispatcher.cancelling <=> \E k \in CancelRequests : cancel[k] \in {"task", "shutdown"}
  /\ \A k \in CancelRequests, p \in Prompts : cancel[k] = "task" /\ holder = p => p = target[k] \/ work[p] = "none"
  /\ \A k \in CancelRequests, p \in Prompts : cancel[k] = "shutdown" =>
        ~Running(p) /\ (holder = p => work[p] \in {"none", "result", "cancelled"})

Targets(k, p) == cancel[k] = "task" /\ target[k] = p

\* A turn is told to stop by the cancellation that targets it, and one that
\* waits after it has stopped waits for a cancellation.
ToldToStop ==
  /\ \A p \in Prompts : told[p] =>
       Running(p) /\ dispatcher.requested /\ \E k \in CancelRequests : Targets(k, p)
  /\ \A p \in Prompts : prompt[p] \in {"dispatch", "wait"} /\ work[p] = "cancelled" => dispatcher.requested
  /\ \A p \in Prompts : prompt[p] = "wait" => work[p] = "cancelled"
  /\ \A p \in Prompts : prompt[p] \in {"dispatch", "wait"} /\ dispatcher.requested =>
        cancel_complete \/ \E k \in CancelRequests : Holds(k)

\* The text on the channel is that of the turn that runs, or of one that was
\* cancelled before it read it.
TextKept ==
  /\ \A p \in messages : /\ work[p] = "racing" \/ (work[p] = "cancelled" /\ \E k \in CancelRequests : Targets(k, p))
                         /\ messages = {p}
  /\ \A p \in Prompts : heard[p] \subseteq {p}
  /\ \A p \in Prompts : work[p] \in {"racing", "handling"} => p \in messages \cup heard[p]

\* The answer to p is settled but for the flush, or given.
Concluded(p) == prompt[p] = "flush" \/ Sound(p)

\* Which tool calls the client is shown as open, and which work a prompt that
\* is flushed or answered has done.
Shown ==
  /\ \A p \in Prompts : work[p] \in {"none", "command"} => card[p] = "new"
  /\ \A p \in Prompts : work[p] = "result" => card[p] # "open"
  /\ \A p \in Prompts : Concluded(p) =>
       /\ work[p] \in {"none", "result", "limit", "failed", "cancelled"}
       /\ work[p] = "limit" => card[p] # "open"
       /\ work[p] = "failed" => p \in Slash
       /\ work[p] = "cancelled" => reason[p] = "cancelled"

\* Who waits for the pump is in its queue, and what it lost it will report.
PumpOwes ==
  /\ \A w \in Flushers : marker[w] = "queued" /\ Pumping(bridge) => Mark(w) \in Members(bridge.queue)
  /\ closer = "pump" /\ Pumping(bridge) => StopMark \in Members(bridge.queue)
  /\ unreported = bridge.error

Settled(p) == reason[p] = "cancelled" => ignored = {}

\* The updates of a prompt stand before its marker, and are gone with it; one
\* more follows about a tool call that a slash command left open.
Delivered(p) ==
  /\ prompt[p] \in {"idle", "dispatch", "wait"} => Mark(p) \notin Members(bridge.queue) /\ marker[p] = "none"
  /\ prompt[p] = "flush" /\ Settled(p) => Ordered(p, bridge.queue)
  /\ ((prompt[p] = "flush" /\ marker[p] = "sent") \/ Sound(p)) /\ Settled(p) =>
       IF CardLeft(p) THEN Once(p, bridge.queue)
       ELSE p \notin bridge.error /\ Quiet(p, bridge.queue)

UpdatesFirst == \A p \in Prompts : Delivered(p)

\* Nothing of the turn of p goes on.
Still(p) == job # p /\ p \notin messages /\ card[p] # "open"

\* A cancellation of a turn that heeds it: the turn runs and is told, or has
\* failed, or has stopped and waits.
Chased(k) ==
  /\ dispatcher.requested /\ ~cancel_complete
  /\ \/ Running(target[k]) /\ told[target[k]]
     \/ work[target[k]] \in {"limit", "failed"}
     \/ work[target[k]] = "cancelled" /\ prompt[target[k]] \in {"dispatch", "wait"}

\* The turn that stopped waits for the cancellation to be complete.
Caught(k) ==
  /\ dispatcher.requested /\ ~cancel_complete /\ messages = {}
  /\ holder \in Prompts /\ work[holder] = "cancelled" /\ prompt[holder] \in {"dispatch", "wait"}
  /\ cancel[k] = "flush" => Still(holder)

\* As long as every turn heeds its cancellation, a cancellation that is under
\* way has the turn it cancels in its hands, and the turn is still when the
\* cancellation is complete.
Heeded ==
  /\ \A k \in CancelRequests : cancel[k] = "task" => Chased(k)
  /\ \A k \in CancelRequests : cancel[k] \in {"shutdown", "flush"} => Caught(k)
  /\ \A p \in Prompts : Running(p) => ~cancel_complete
  /\ \A p \in Prompts : prompt[p] \in {"dispatch", "wait"} /\ work[p] = "cancelled" /\ cancel_complete => Still(p)
  /\ \A p \in Prompts : reason[p] = "cancelled" => work[p] = "cancelled" /\ Still(p)

AcpInv ==
  /\ AcpTypes /\ TurnHeld /\ CancelHeld /\ ToldToStop /\ TextKept /\ Shown /\ PumpOwes /\ UpdatesFirst
  /\ ignored = {} => Heeded

----------------------------------------------------------------------------
(***************************************************************************)
(* What the steps of the requests do to the bridge.                        *)
(***************************************************************************)

\* Updates about S, if any, and then the marker of w, if it flushes.
Posts(S, w) == \E b : Extends(b, S) /\ (FlushBegins(w, b) \/ (bridge' = b /\ UNCHANGED marker))

Marks == {"none", "queued", "sent", "failed"}

\* Posting adds to the queue, and a marker is set only when it is queued.
LEMMA PostsShape ==
  ASSUME bridge \in Bridge, marker \in [Flushers -> Marks],
         NEW S \in SUBSET Prompts, NEW w \in Flushers, Posts(S, w)
  PROVE  /\ bridge' \in Bridge /\ bridge'.pump = bridge.pump /\ bridge'.error = bridge.error
         /\ Grows(bridge.queue, bridge'.queue, S, {Mark(w)})
         /\ marker' \in [Flushers -> Marks]
         /\ \A v \in Flushers : v # w => marker'[v] = marker[v]
         /\ \A v \in Flushers : marker'[v] = marker[v]
                                \/ (marker'[v] = "queued" /\ Mark(v) \in Members(bridge'.queue))
<1>1. PICK b : Extends(b, S) /\ (FlushBegins(w, b) \/ (bridge' = b /\ UNCHANGED marker))
  BY DEF Posts
<1>2. CASE FlushBegins(w, b)
  <2>1. /\ bridge' \in Bridge /\ bridge'.pump = bridge.pump /\ bridge'.error = bridge.error
        /\ Grows(bridge.queue, bridge'.queue, S, {Mark(w)})
        /\ Mark(w) \in Members(bridge'.queue)
        /\ marker' = [marker EXCEPT ![w] = "queued"]
    BY <1>1, <1>2, FlushShape
  <2>2. marker' \in [Flushers -> Marks] /\ marker'[w] = "queued" /\ \A v \in Flushers : v # w => marker'[v] = marker[v]
    BY <2>1 DEF Marks
  <2> QED
    BY <2>1, <2>2
<1>3. CASE bridge' = b /\ UNCHANGED marker
  <2>1. /\ bridge' \in Bridge /\ bridge'.pump = bridge.pump /\ bridge'.error = bridge.error
        /\ Grows(bridge.queue, bridge'.queue, S, {})
    BY <1>1, <1>3, ExtendsShape
  <2>2. Grows(bridge.queue, bridge'.queue, S, {Mark(w)})
    BY <2>1 DEF Grows
  <2> QED
    BY <1>3, <2>1, <2>2
<1> QED
  BY <1>1, <1>2, <1>3

\* How the end of a turn posts.
LEMMA ConcludesShape ==
  ASSUME bridge \in Bridge, NEW S \in SUBSET Prompts, NEW b, Extends(b, S),
         NEW p \in Prompts, NEW r, Concludes(p, r, b)
  PROVE  /\ Posts(S, p)
         /\ \/ /\ prompt' = [prompt EXCEPT ![p] = "flush"] /\ reason' = [reason EXCEPT ![p] = r] /\ holder' = p
               /\ marker' = [marker EXCEPT ![p] = "queued"]
            \/ Answers(p, "error")
<1>1. p \in Flushers
  BY DEF Flushers
<1>2. CASE NoFlush(b)
  BY <1>2 DEF NoFlush, Posts, Concludes, FlushBegins
<1>3. CASE FlushBegins(p, b)
  BY <1>3 DEF NoFlush, Posts, Concludes, FlushBegins
<1> QED
  BY <1>2, <1>3 DEF Concludes

\* The failing of the tool calls posts about those that are open.
LEMMA ToolsFailedShape ==
  /\ Extends(ToolsFailed(bridge), OpenTools) /\ OpenTools \in SUBSET Prompts
  /\ \A p \in Prompts : p \in OpenTools <=> card[p] = "open"
  /\ \A S : Extends(bridge, S)
<1>1. OpenTools \in SUBSET Prompts /\ \A p \in Prompts : p \in OpenTools <=> card[p] = "open"
  BY DEF OpenTools
<1>2. Extends(ToolsFailed(bridge), OpenTools)
  BY DEF Extends, ToolsFailed
<1>3. \A S : Extends(bridge, S)
  BY DEF Extends
<1> QED
  BY <1>1, <1>2, <1>3

\* An update about p alone.
LEMMA OwnUpdate ==
  ASSUME NEW p \in Prompts
  PROVE  /\ {p} \in SUBSET Prompts /\ p \in Flushers
         /\ Extends(bridge, {p}) /\ Extends(Enqueue(bridge, Update({p})), {p})
BY DEF Extends, Flushers

\* A step that leaves the bridge alone posts nothing.
LEMMA PostsNothing ==
  ASSUME UNCHANGED bridgeVars, NEW S, NEW w
  PROVE  Posts(S, w)
BY DEF Posts, Extends, bridgeVars

\* What a prompt and its task post.
LEMMA PromptPosts ==
  ASSUME bridge \in Bridge, NEW p \in Prompts
  PROVE  /\ Collides(p) \/ Begins(p) \/ Stopped(p) \/ Task(p) => Posts({p}, p)
         /\ Resumes(p) => \/ Posts({p}, p) /\ UNCHANGED card
                          \/ work[p] = "limit" /\ Posts(OpenTools, p) /\ FailOpenTools
<1>0. /\ {p} \in SUBSET Prompts /\ p \in Flushers
      /\ Extends(bridge, {p}) /\ Extends(Enqueue(bridge, Update({p})), {p})
      /\ Extends(ToolsFailed(bridge), OpenTools) /\ OpenTools \in SUBSET Prompts
  BY OwnUpdate, ToolsFailedShape
<1>1. Collides(p) => Posts({p}, p)
  <2>1. CASE p \in Slash
    BY <1>0, <2>1, ConcludesShape DEF Collides
  <2>2. CASE p \notin Slash
    BY <2>2, PostsNothing DEF Collides
  <2> QED
    BY <2>1, <2>2
<1>2. Begins(p) => Posts({p}, p)
  BY PostsNothing DEF Begins
<1>3. Stopped(p) => Posts({p}, p)
  BY <1>0, ConcludesShape DEF Stopped
<1>4. Task(p) => Posts({p}, p)
  <2>1. ShowsTool(p) => Posts({p}, p)
    BY <1>0 DEF ShowsTool, Posts
  <2>2. CommandDone(p) \/ Hears(p) \/ StartsJob(p) \/ Waits(p) \/ TaskEnds(p) \/ Ignores(p) => UNCHANGED bridgeVars
    BY DEF CommandDone, Hears, StartsJob, Waits, TaskEnds, Ignores
  <2> QED
    BY <2>1, <2>2, PostsNothing DEF Task
<1>5. ASSUME Resumes(p)
      PROVE  \/ Posts({p}, p) /\ UNCHANGED card
             \/ work[p] = "limit" /\ Posts(OpenTools, p) /\ FailOpenTools
  <2>1. \/ UNCHANGED bridgeVars /\ UNCHANGED card
        \/ Concludes(p, "end_turn", bridge) /\ UNCHANGED card
        \/ work[p] = "limit" /\ Concludes(p, "limit", ToolsFailed(bridge)) /\ FailOpenTools
        \/ Concludes(p, "end_turn", Enqueue(bridge, Update({p}))) /\ UNCHANGED card
    BY <1>5 DEF Resumes
  <2> QED
    BY <1>0, <2>1, ConcludesShape, PostsNothing
<1> QED
  BY <1>1, <1>2, <1>3, <1>4, <1>5

\* What a cancellation posts.
LEMMA CancelPosts ==
  ASSUME bridge \in Bridge, NEW k \in CancelRequests
  PROVE  /\ CancelArrives(k) \/ CancelActs(k) \/ CancelClears(k) => UNCHANGED bridgeVars
         /\ CancelReports(k) => Posts(OpenTools, k)
         /\ k \in Flushers
<1>1. CancelArrives(k) \/ CancelActs(k) \/ CancelClears(k) => UNCHANGED bridgeVars
  BY DEF CancelArrives, CancelActs, CancelClears
<1>2. CancelReports(k) => Posts(OpenTools, k)
  BY ToolsFailedShape DEF CancelReports, NoFlush, Posts
<1> QED
  BY <1>1, <1>2 DEF Flushers

\* The stop that closes the bridge.
LEMMA StopShape ==
  ASSUME bridge \in Bridge, bridge' = Stop(bridge)
  PROVE  /\ bridge' \in Bridge /\ bridge'.pump = bridge.pump /\ bridge'.error = bridge.error
         /\ \A S : Grows(bridge.queue, bridge'.queue, S, {StopMark})
         /\ Pumping(bridge) => StopMark \in Members(bridge'.queue)
<1> DEFINE m == StopMark
<1>1. m \in Items /\ (\A p : ~About(p, m)) /\ (\A p, T : m # Update(T)) /\ bridge.queue \in Seq(Items)
  BY ItemKinds DEF Items, Bridge
<1>2. /\ \A S : Grows(bridge.queue, Append(bridge.queue, m), S, {m})
      /\ m \in Members(Append(bridge.queue, m)) /\ Append(bridge.queue, m) \in Seq(Items)
  <2>1. m \in Members(Append(bridge.queue, m)) /\ Append(bridge.queue, m) \in Seq(Items)
    BY <1>1, QueueGrows
  <2>2. ASSUME NEW S PROVE Grows(bridge.queue, Append(bridge.queue, m), S, {m})
    <3>1. Grows(bridge.queue, bridge.queue, S, {})
      BY <1>1, GrowsSame
    <3> HIDE DEF m
    <3> QED
      BY <1>1, <3>1, GrowsMore
  <2> QED
    BY <2>1, <2>2
<1>3. \A S : Grows(bridge.queue, bridge.queue, S, {m})
  BY <1>1, GrowsSame
<1> HIDE DEF m
<1>4. CASE Pumping(bridge)
  <2>1. bridge' = [bridge EXCEPT !.closed = TRUE, !.queue = Append(bridge.queue, m)]
    BY <1>4 DEF Stop, m
  <2> QED
    BY <1>2, <2>1 DEF Bridge, m
<1>5. CASE ~Pumping(bridge)
  <2>1. bridge' = [bridge EXCEPT !.closed = TRUE, !.queue = bridge.queue]
    BY <1>5 DEF Stop
  <2>2. bridge' \in Bridge /\ bridge'.pump = bridge.pump /\ bridge'.error = bridge.error /\ bridge'.queue = bridge.queue
    BY <2>1 DEF Bridge
  <2> QED
    BY <1>3, <1>5, <2>2 DEF m
<1> QED
  BY <1>4, <1>5

\* The bridge and its markers keep their types.
LEMMA BridgeTypes ==
  ASSUME bridge \in Bridge, marker \in [Flushers -> Marks], AcpNext
  PROVE  bridge' \in Bridge /\ marker' \in [Flushers -> Marks]
<1>0. ASSUME NEW S \in SUBSET Prompts, NEW w \in Flushers, Posts(S, w)
      PROVE  bridge' \in Bridge /\ marker' \in [Flushers -> Marks]
  BY <1>0, PostsShape
<1>1. ASSUME NEW w \in Flushers, Forgotten(w) PROVE marker' \in [Flushers -> Marks]
  BY <1>1 DEF Forgotten, Marks
<1>2. OpenTools \in SUBSET Prompts
  BY ToolsFailedShape
<1>3. ASSUME NEW p \in Prompts, Collides(p) \/ Begins(p) \/ PromptGoesOn(p) \/ Task(p)
      PROVE  bridge' \in Bridge /\ marker' \in [Flushers -> Marks]
  <2>1. p \in Flushers /\ {p} \in SUBSET Prompts
    BY DEF Flushers
  <2>2. CASE Flushed(p)
    BY <1>1, <2>1, <2>2 DEF Flushed
  <2>3. CASE ~Flushed(p)
    BY <1>0, <1>2, <1>3, <2>1, <2>3, PromptPosts DEF PromptGoesOn
  <2> QED
    BY <2>2, <2>3
<1>4. ASSUME NEW k \in CancelRequests, CancelArrives(k) \/ CancelGoesOn(k)
      PROVE  bridge' \in Bridge /\ marker' \in [Flushers -> Marks]
  <2>2. CASE CancelEnds(k)
    BY <1>1, <2>2, CancelPosts DEF CancelEnds
  <2>3. CASE CancelReports(k)
    BY <1>0, <1>2, <2>3, CancelPosts
  <2>4. CASE CancelArrives(k) \/ CancelActs(k) \/ CancelClears(k)
    BY <2>4, CancelPosts DEF bridgeVars
  <2> QED
    BY <1>4, <2>2, <2>3, <2>4 DEF CancelGoesOn
<1>5. ASSUME Pump PROVE bridge' \in Bridge /\ marker' \in [Flushers -> Marks]
  <2>0. bridge.queue # <<>> /\ Pumping(bridge)
    BY <1>5 DEF Pump, PumpSends, PumpDrops, PumpMarks, PumpStops, PumpDies, PumpTakes
  <2>1. Head(bridge.queue) \in Items /\ Tail(bridge.queue) \in Seq(Items) /\ <<>> \in Seq(Items)
    BY <2>0, QueueServed, QueueEmpty DEF Bridge
  <2>2. CASE PumpSends
    BY <2>1, <2>2 DEF PumpSends, Bridge, Popped
  <2>3. CASE PumpDrops
    <3>1. Head(bridge.queue).of \subseteq Prompts
      <4>1. PICK S \in SUBSET Prompts : Head(bridge.queue) = Update(S)
        BY <2>1, <2>3, ItemKinds DEF PumpDrops, PumpTakes, Items
      <4> QED
        BY <4>1, ItemKinds
    <3> QED
      BY <2>1, <2>3, <3>1 DEF PumpDrops, Bridge, Popped
  <2>4. CASE PumpMarks
    BY <2>1, <2>4 DEF PumpMarks, Bridge, Popped, Marks
  <2>5. CASE PumpStops
    BY <2>1, <2>5 DEF PumpStops, Bridge
  <2>6. CASE PumpDies
    BY <2>1, <2>6 DEF PumpDies, Bridge, Marks
  <2> QED
    BY <1>5, <2>2, <2>3, <2>4, <2>5, <2>6 DEF Pump
<1>6. ASSUME JobEnds \/ CloseBegins \/ CloseAgent PROVE bridge' \in Bridge /\ marker' \in [Flushers -> Marks]
  BY <1>6 DEF JobEnds, CloseBegins, CloseAgent, bridgeVars
<1>7. "closer" \in Flushers
  BY DEF Flushers
<1>8. ASSUME ClosePump PROVE bridge' \in Bridge /\ marker' \in [Flushers -> Marks]
  BY <1>1, <1>7, <1>8, StopShape DEF ClosePump
<1>9. ASSUME CloseBridge PROVE bridge' \in Bridge /\ marker' \in [Flushers -> Marks]
  <2>1. CASE FlushBegins("closer", ToolsFailed(bridge))
    BY <1>0, <1>2, <1>7, <2>1, ToolsFailedShape DEF Posts
  <2>2. CASE bridge' = Stop(bridge) /\ UNCHANGED marker
    BY <2>2, StopShape
  <2> QED
    BY <1>9, <2>1, <2>2 DEF CloseBridge
<1> QED
  BY <1>3, <1>4, <1>5, <1>6, <1>8, <1>9 DEF AcpNext, CloseGoesOn

----------------------------------------------------------------------------
(***************************************************************************)
(* Types.                                                                  *)
(***************************************************************************)

\* How a turn may end: with a flush, or answered at once.
Ends(p, r) ==
  \/ /\ prompt' = [prompt EXCEPT ![p] = "flush"] /\ reason' = [reason EXCEPT ![p] = r] /\ holder' = p
     /\ marker' = [marker EXCEPT ![p] = "queued"]
  \/ Answers(p, "error")

\* The steps that end a turn: how, and what they leave of the tool calls.
LEMMA TurnEnds ==
  ASSUME bridge \in Bridge, NEW p \in Prompts
  PROVE  /\ Collides(p) => \/ p \in Slash /\ Ends(p, "end_turn")
                           \/ p \notin Slash /\ Answers(p, "error")
         /\ Stopped(p) => Ends(p, "cancelled")
         /\ Resumes(p) =>
              \/ /\ work[p] = "cancelled" /\ dispatcher.requested
                 /\ prompt' = [prompt EXCEPT ![p] = "wait"] /\ UNCHANGED <<reason, holder, card, bridgeVars>>
              \/ work[p] = "result" /\ Ends(p, "end_turn") /\ UNCHANGED card
              \/ work[p] = "limit" /\ Ends(p, "limit") /\ FailOpenTools
              \/ /\ work[p] = "failed" /\ UNCHANGED card
                 /\ (p \in Slash /\ Ends(p, "end_turn")) \/ Answers(p, "error")
<1>0. /\ {p} \in SUBSET Prompts /\ p \in Flushers
      /\ Extends(bridge, {p}) /\ Extends(Enqueue(bridge, Update({p})), {p})
      /\ Extends(ToolsFailed(bridge), OpenTools) /\ OpenTools \in SUBSET Prompts
  BY OwnUpdate, ToolsFailedShape
<1>1. \A r : Concludes(p, r, bridge) \/ Concludes(p, r, Enqueue(bridge, Update({p})))
             \/ Concludes(p, r, ToolsFailed(bridge)) => Ends(p, r)
  <2> SUFFICES ASSUME NEW r, NEW b, Concludes(p, r, b), b \in {bridge, Enqueue(bridge, Update({p})), ToolsFailed(bridge)}
               PROVE  Ends(p, r)
    OBVIOUS
  <2>1. \E S \in SUBSET Prompts : Extends(b, S)
    BY <1>0
  <2> QED
    BY <2>1, ConcludesShape DEF Ends
<1> HIDE DEF Ends
<1>2. Collides(p) => \/ p \in Slash /\ Ends(p, "end_turn")
                     \/ p \notin Slash /\ Answers(p, "error")
  BY <1>1 DEF Collides
<1>3. Stopped(p) => Ends(p, "cancelled")
  BY <1>1 DEF Stopped
<1>4. ASSUME Resumes(p)
      PROVE  \/ /\ work[p] = "cancelled" /\ dispatcher.requested
                /\ prompt' = [prompt EXCEPT ![p] = "wait"] /\ UNCHANGED <<reason, holder, card, bridgeVars>>
             \/ work[p] = "result" /\ Ends(p, "end_turn") /\ UNCHANGED card
             \/ work[p] = "limit" /\ Ends(p, "limit") /\ FailOpenTools
             \/ /\ work[p] = "failed" /\ UNCHANGED card
                /\ (p \in Slash /\ Ends(p, "end_turn")) \/ Answers(p, "error")
  BY <1>1, <1>4 DEF Resumes
<1> QED
  BY <1>2, <1>3, <1>4

Reasons == {"none", "end_turn", "limit", "cancelled", "error"}
Stages  == {"idle", "dispatch", "wait", "flush", "over"}

\* The end of a turn is within the types.
LEMMA EndsTypes ==
  ASSUME AcpTypes, NEW p \in Prompts, NEW r \in Reasons, Ends(p, r) \/ Answers(p, r)
  PROVE  /\ prompt' \in [Prompts -> Stages] /\ reason' \in [Prompts -> Reasons]
         /\ holder' \in Prompts \cup {Nobody}
<1>1. prompt \in [Prompts -> Stages] /\ reason \in [Prompts -> Reasons]
  BY DEF AcpTypes, AcpTypeOK, Stages, Reasons
<1>2. prompt' = [prompt EXCEPT ![p] = "flush"] \/ prompt' = [prompt EXCEPT ![p] = "over"]
  BY DEF Ends, Answers
<1>3. "flush" \in Stages /\ "over" \in Stages /\ "error" \in Reasons
  BY DEF Stages, Reasons
<1>4. reason' = [reason EXCEPT ![p] = r] \/ reason' = [reason EXCEPT ![p] = "error"]
  BY DEF Ends, Answers
<1>5. holder' = p \/ holder' = Nobody
  BY DEF Ends, Answers
<1> QED
  BY <1>1, <1>2, <1>3, <1>4, <1>5

\* Failing the tool calls that are open leaves none open.
LEMMA FailedTools ==
  ASSUME AcpTypes, FailOpenTools
  PROVE  /\ card' \in [Prompts -> {"new", "open", "closed", "failed"}]
         /\ \A p \in Prompts : card'[p] # "open" /\ (card[p] # "open" => card'[p] = card[p])
BY DEF AcpTypes, FailOpenTools

\* What becomes of the tool call that is open.
LEMMA FailedTool ==
  ASSUME FailOpenTools, NEW p \in OpenTools
  PROVE  p \in Prompts /\ card[p] = "open" /\ card'[p] = "failed"
BY DEF FailOpenTools, OpenTools

\* Every variable keeps its type.
LEMMA AcpTypesKept ==
  ASSUME AcpTypes, AcpNext
  PROVE  AcpTypes'
<1>0. bridge' \in Bridge /\ marker' \in [Flushers -> Marks]
  BY BridgeTypes DEF AcpTypes, AcpTypeOK, Marks
<1> USE DEF Marks
<1>1. ASSUME NEW p \in Prompts, Collides(p) \/ Stopped(p) \/ Flushed(p) \/ Resumes(p) PROVE AcpTypes'
  <2>1. prompt' \in [Prompts -> Stages] /\ reason' \in [Prompts -> Reasons] /\ holder' \in Prompts \cup {Nobody}
    <3>0. "error" \in Reasons /\ "end_turn" \in Reasons /\ "limit" \in Reasons /\ "cancelled" \in Reasons
          /\ "wait" \in Stages
      BY DEF Reasons, Stages
    <3>1. CASE Collides(p)
      BY <3>0, <3>1, EndsTypes, TurnEnds DEF AcpTypes
    <3>2. CASE Stopped(p)
      BY <3>0, <3>2, EndsTypes, TurnEnds DEF AcpTypes
    <3>3. CASE Flushed(p)
      <4>1. reason[p] \in Reasons
        BY DEF AcpTypes, AcpTypeOK, Reasons
      <4>2. \E r \in Reasons : Answers(p, r)
        BY <3>0, <3>3, <4>1 DEF Flushed
      <4> QED
        BY <4>2, EndsTypes
    <3>4. CASE Resumes(p)
      <4>1. CASE prompt' = [prompt EXCEPT ![p] = "wait"] /\ UNCHANGED <<reason, holder>>
        BY <4>1 DEF AcpTypes, AcpTypeOK, Reasons, Stages
      <4>2. CASE \E r \in Reasons : Ends(p, r) \/ Answers(p, r)
        BY <4>2, EndsTypes
      <4> QED
        BY <3>0, <3>4, <4>1, <4>2, TurnEnds DEF AcpTypes
    <3> QED
      BY <1>1, <3>1, <3>2, <3>3, <3>4
  <2>2. card' \in [Prompts -> {"new", "open", "closed", "failed"}]
    <3>1. UNCHANGED card \/ FailOpenTools
      BY <1>1 DEF Collides, Stopped, Flushed, Resumes, taskVars
    <3> QED
      BY <3>1, FailedTools DEF AcpTypes
  <2>3. cancel_complete' \in BOOLEAN /\ UNCHANGED <<cancel, target, closer, messages, job, work, told, heard>>
    BY <1>1 DEF Collides, Stopped, Flushed, Resumes, taskVars, AcpTypes
  <2>4. dispatcher' \in [active : Prompts \cup {Nobody}, requested : BOOLEAN, cancelling : BOOLEAN]
    BY <1>1 DEF Collides, Stopped, Flushed, Resumes, taskVars, AcpTypes
  <2> QED
    BY <1>0, <2>1, <2>2, <2>3, <2>4 DEF AcpTypes, AcpTypeOK, Reasons, Stages
<1>2. ASSUME NEW p \in Prompts, Begins(p) PROVE AcpTypes'
  <2>1. /\ prompt' \in [Prompts -> Stages] /\ holder' \in Prompts \cup {Nobody}
        /\ cancel_complete' \in BOOLEAN
    BY <1>2 DEF Begins, AcpTypes, AcpTypeOK, Stages
  <2>2. dispatcher' \in [active : Prompts \cup {Nobody}, requested : BOOLEAN, cancelling : BOOLEAN]
    BY <1>2 DEF Begins, AcpTypes
  <2>3. messages' \subseteq Prompts
    BY <1>2 DEF Begins, AcpTypes, AcpTypeOK
  <2>4. work' = [work EXCEPT ![p] = IF p \in Slash THEN "command" ELSE "racing"]
        /\ UNCHANGED <<reason, cancel, target, closer, job, told, heard, card>>
    BY <1>2 DEF Begins
  <2> QED
    BY <1>0, <2>1, <2>2, <2>3, <2>4 DEF AcpTypes, AcpTypeOK, Stages
<1>3. ASSUME NEW p \in Prompts, Task(p) PROVE AcpTypes'
  <2>0. UNCHANGED <<prompt, reason, cancel, target, closer, holder, cancel_complete, dispatcher>>
    BY <1>3 DEF Task, Works, CommandDone, Hears, ShowsTool, StartsJob, Waits, TaskEnds, Ignores
  <2>1. CASE CommandDone(p)
    BY <1>0, <2>0, <2>1 DEF CommandDone, Works, AcpTypes, AcpTypeOK
  <2>2. CASE Hears(p)
    BY <1>0, <2>0, <2>2 DEF Hears, Works, AcpTypes, AcpTypeOK
  <2>3. CASE ShowsTool(p)
    BY <1>0, <2>0, <2>3 DEF ShowsTool, Works, AcpTypes, AcpTypeOK
  <2>4. CASE StartsJob(p)
    BY <1>0, <2>0, <2>4 DEF StartsJob, Works, AcpTypes, AcpTypeOK
  <2>5. CASE Waits(p)
    BY <1>0, <2>0, <2>5 DEF Waits, Works, AcpTypes, AcpTypeOK
  <2>6. CASE TaskEnds(p)
    BY <1>0, <2>0, <2>6 DEF TaskEnds, Works, AcpTypes, AcpTypeOK
  <2>7. CASE Ignores(p)
    BY <1>0, <2>0, <2>7 DEF Ignores, Works, AcpTypes, AcpTypeOK
  <2> QED
    BY <1>3, <2>1, <2>2, <2>3, <2>4, <2>5, <2>6, <2>7 DEF Task
<1>4. ASSUME NEW k \in CancelRequests, CancelArrives(k) \/ CancelGoesOn(k) PROVE AcpTypes'
  <2>1. CASE CancelArrives(k)
    BY <1>0, <2>1 DEF CancelArrives, CancelGoes, AcpTypes, AcpTypeOK, sessionVars, taskVars
  <2>2. CASE CancelActs(k)
    <3>1. UNCHANGED <<prompt, reason, closer, holder, messages, job, work, heard, card>>
      BY <2>2 DEF CancelActs
    <3>2. cancel' = [cancel EXCEPT ![k] = "task"] \/ cancel' = [cancel EXCEPT ![k] = "over"]
      BY <2>2 DEF CancelActs, CancelGoes
    <3>3. UNCHANGED target \/ target' = [target EXCEPT ![k] = dispatcher.active]
      BY <2>2 DEF CancelActs
    <3>4. dispatcher.active \in Prompts \cup {Nobody}
      BY DEF AcpTypes
    <3>5. cancel_complete' \in BOOLEAN
      BY <2>2 DEF CancelActs, AcpTypes
    <3>6. UNCHANGED <<dispatcher, told>>
          \/ (dispatcher' = [dispatcher EXCEPT !.requested = TRUE, !.cancelling = TRUE]
              /\ told' = [told EXCEPT ![dispatcher.active] = TRUE])
      BY <2>2 DEF CancelActs
    <3>7. cancel' \in [CancelRequests -> {"idle", "lock", "task", "shutdown", "flush", "over"}]
          /\ target' \in [CancelRequests -> Prompts \cup {Nobody}]
      BY <3>2, <3>3, <3>4 DEF AcpTypes, AcpTypeOK
    <3>8. dispatcher' \in [active : Prompts \cup {Nobody}, requested : BOOLEAN, cancelling : BOOLEAN]
      BY <3>6 DEF AcpTypes
    <3>9. told' \in [Prompts -> BOOLEAN]
      BY <3>6 DEF AcpTypes
    <3> QED
      BY <1>0, <3>1, <3>5, <3>7, <3>8, <3>9 DEF AcpTypes, AcpTypeOK
  <2>3. CASE CancelClears(k)
    <3>1. /\ UNCHANGED <<prompt, reason, closer, holder, job, taskVars>>
          /\ target' = [target EXCEPT ![k] = Nobody]
      BY <2>3 DEF CancelClears
    <3>2. /\ cancel' = [cancel EXCEPT ![k] = "over"] \/ cancel' = [cancel EXCEPT ![k] = "shutdown"]
          /\ messages' = {} \/ UNCHANGED messages
          /\ cancel_complete' = TRUE \/ UNCHANGED cancel_complete
          /\ dispatcher' = [dispatcher EXCEPT !.cancelling = FALSE] \/ UNCHANGED dispatcher
      BY <2>3 DEF CancelClears, CancelGoes
    <3>3. cancel' \in [CancelRequests -> {"idle", "lock", "task", "shutdown", "flush", "over"}]
          /\ target' \in [CancelRequests -> Prompts \cup {Nobody}]
      BY <3>1, <3>2 DEF AcpTypes, AcpTypeOK
    <3>4. dispatcher' \in [active : Prompts \cup {Nobody}, requested : BOOLEAN, cancelling : BOOLEAN]
      BY <3>2 DEF AcpTypes
    <3>5. messages' \subseteq Prompts /\ cancel_complete' \in BOOLEAN
      BY <3>2 DEF AcpTypes, AcpTypeOK
    <3> QED
      BY <1>0, <3>1, <3>3, <3>4, <3>5 DEF AcpTypes, AcpTypeOK, taskVars
  <2>4. CASE CancelReports(k)
    <3>1. card' \in [Prompts -> {"new", "open", "closed", "failed"}]
      BY <2>4, FailedTools DEF CancelReports
    <3> QED
      BY <1>0, <2>4, <3>1 DEF CancelReports, CancelGoes, AcpTypes, AcpTypeOK
  <2>5. CASE CancelEnds(k)
    BY <1>0, <2>5 DEF CancelEnds, CancelGoes, AcpTypes, AcpTypeOK, taskVars
  <2> QED
    BY <1>4, <2>1, <2>2, <2>3, <2>4, <2>5 DEF CancelGoesOn
<1>5. ASSUME Pump PROVE AcpTypes'
  BY <1>0, <1>5 DEF Pump, AcpTypes, AcpTypeOK, sessionVars, taskVars
<1>6. ASSUME JobEnds PROVE AcpTypes'
  BY <1>0, <1>6 DEF JobEnds, AcpTypes, AcpTypeOK, taskVars
<1>7. ASSUME CloseBegins \/ CloseGoesOn PROVE AcpTypes'
  <2>1. card' \in [Prompts -> {"new", "open", "closed", "failed"}]
    <3>1. UNCHANGED card \/ FailOpenTools
      BY <1>7 DEF CloseBegins, CloseGoesOn, CloseBridge, ClosePump, CloseAgent, taskVars
    <3> QED
      BY <3>1, FailedTools DEF AcpTypes
  <2>2. /\ closer' \in {"wait", "flush", "pump", "over"}
        /\ UNCHANGED <<prompt, reason, cancel, target, sessionVars, work, told, heard>>
    BY <1>7 DEF CloseBegins, CloseGoesOn, CloseBridge, ClosePump, CloseAgent, taskVars
  <2> QED
    BY <1>0, <2>1, <2>2 DEF AcpTypes, AcpTypeOK, sessionVars
<1> QED
  BY <1>1, <1>2, <1>3, <1>4, <1>5, <1>6, <1>7 DEF AcpNext, PromptGoesOn

----------------------------------------------------------------------------
(***************************************************************************)
(* The turn.                                                               *)
(***************************************************************************)

\* A step that moves one prompt, and what else it does to the turn.
LEMMA TurnMoves ==
  ASSUME AcpTypes, TurnHeld, NEW p \in Prompts, NEW s \in Stages,
         prompt' = [prompt EXCEPT ![p] = s],
         holder = Nobody \/ holder = p,
         holder' = (IF s = "over" THEN Nobody ELSE p), s # "idle",
         dispatcher'.active = (IF s = "dispatch" THEN p ELSE Nobody),
         \A q \in Prompts : q # p => work'[q] = work[q],
         Running(p)' => s = "dispatch",
         closer' = closer, closer \in {"flush", "pump", "over"} => s = "over"
  PROVE  TurnHeld'
<1>0. p # Nobody /\ \A q \in Prompts : q # Nobody
  BY AcpAssumption DEF Nobody
<1>1. /\ prompt'[p] = s /\ \A q \in Prompts : q # p => prompt'[q] = prompt[q]
  BY DEF AcpTypes, AcpTypeOK
<1>2. ASSUME NEW q \in Prompts, q # p
      PROVE  /\ prompt'[q] \notin {"dispatch", "wait", "flush"} /\ holder' # q /\ dispatcher'.active # q
             /\ ~Running(q)' /\ (prompt'[q] = "idle" => work'[q] = "none")
  <2>1. prompt[q] \notin {"dispatch", "wait", "flush"} /\ ~Running(q) /\ (prompt[q] = "idle" => work[q] = "none")
    BY <1>0, <1>2 DEF TurnHeld
  <2> QED
    BY <1>0, <1>1, <1>2, <2>1 DEF Running
<1>3. /\ prompt'[p] \in {"dispatch", "wait", "flush"} <=> holder' = p
      /\ prompt'[p] = "dispatch" <=> dispatcher'.active = p
      /\ Running(p)' => prompt'[p] = "dispatch"
      /\ prompt'[p] # "idle"
  BY <1>0, <1>1 DEF Stages
<1>4. closer' \in {"flush", "pump", "over"} => holder' = Nobody
  OBVIOUS
<1> QED
  BY <1>2, <1>3, <1>4 DEF TurnHeld

\* A step of the task of p leaves the turn where it is.
LEMMA TurnWorks ==
  ASSUME AcpTypes, TurnHeld, NEW p \in Prompts, prompt[p] = "dispatch",
         \A q \in Prompts : q # p => work'[q] = work[q],
         UNCHANGED <<prompt, holder, dispatcher, closer>>
  PROVE  TurnHeld'
BY DEF TurnHeld, Running

\* A step that concerns neither the turn nor the tasks.
LEMMA TurnStays ==
  ASSUME AcpTypes, TurnHeld, UNCHANGED <<prompt, holder, work>>, dispatcher'.active = dispatcher.active,
         closer' \in {"flush", "pump", "over"} => holder = Nobody
  PROVE  TurnHeld'
BY DEF TurnHeld, Running

\* One prompt holds the turn after every step.
LEMMA TurnKept ==
  ASSUME AcpTypes, TurnHeld, ToldToStop, AcpNext
  PROVE  TurnHeld'
<1>0. "dispatch" \in Stages /\ "wait" \in Stages /\ "flush" \in Stages /\ "over" \in Stages
  BY DEF Stages
<1>1. ASSUME NEW p \in Prompts, Collides(p) PROVE TurnHeld'
  <2>1. /\ prompt[p] = "idle" /\ closer = "idle" /\ holder = Nobody
        /\ UNCHANGED <<closer, dispatcher, work>>
    BY <1>1 DEF Collides, taskVars
  <2>2. dispatcher'.active = Nobody
    BY <2>1, AcpAssumption DEF TurnHeld, AcpTypes, Nobody
  <2>3. ~Running(p)'
    BY <2>1 DEF TurnHeld, Running
  <2>4. \/ prompt' = [prompt EXCEPT ![p] = "flush"] /\ holder' = p
        \/ prompt' = [prompt EXCEPT ![p] = "over"] /\ holder' = Nobody
    BY <1>1, TurnEnds DEF AcpTypes, Ends, Answers
  <2> QED
    BY <1>0, <2>1, <2>2, <2>3, <2>4, TurnMoves
<1>2. ASSUME NEW p \in Prompts, Begins(p) PROVE TurnHeld'
  <2>1. /\ prompt' = [prompt EXCEPT ![p] = "dispatch"] /\ holder' = p /\ holder = Nobody
        /\ closer = "idle" /\ closer' = closer
        /\ dispatcher' = [dispatcher EXCEPT !.active = p, !.requested = FALSE]
        /\ work' = [work EXCEPT ![p] = IF p \in Slash THEN "command" ELSE "racing"]
    BY <1>2 DEF Begins
  <2>2. dispatcher'.active = p /\ \A q \in Prompts : q # p => work'[q] = work[q]
    BY <2>1 DEF AcpTypes, AcpTypeOK
  <2> QED
    BY <1>0, <2>1, <2>2, TurnMoves
<1>3. ASSUME NEW p \in Prompts, Resumes(p) PROVE TurnHeld'
  <2>1. /\ prompt[p] = "dispatch" /\ ~Running(p) /\ UNCHANGED <<closer, work>>
        /\ dispatcher' = [dispatcher EXCEPT !.active = Nobody]
    BY <1>3 DEF Resumes
  <2>2. dispatcher'.active = Nobody /\ ~Running(p)' /\ holder = p
    BY <2>1 DEF TurnHeld, AcpTypes, Running
  <2>3. closer \notin {"flush", "pump", "over"}
    BY <2>2, AcpAssumption DEF TurnHeld, Nobody
  <2>4. \/ prompt' = [prompt EXCEPT ![p] = "flush"] /\ holder' = p
        \/ prompt' = [prompt EXCEPT ![p] = "wait"] /\ holder' = holder
        \/ prompt' = [prompt EXCEPT ![p] = "over"] /\ holder' = Nobody
    BY <1>3, TurnEnds DEF AcpTypes, Ends, Answers
  <2> QED
    BY <1>0, <2>1, <2>2, <2>3, <2>4, TurnMoves
<1>4. ASSUME NEW p \in Prompts, Stopped(p) \/ Flushed(p) PROVE TurnHeld'
  <2>1. /\ prompt[p] \in {"wait", "flush"} /\ UNCHANGED <<closer, work, dispatcher>>
    BY <1>4 DEF Stopped, Flushed, taskVars
  <2>2. ~Running(p)' /\ holder = p
    BY <2>1 DEF TurnHeld, AcpTypes, Running
  <2>3. closer \notin {"flush", "pump", "over"}
    BY <2>2, AcpAssumption DEF TurnHeld, Nobody
  <2>4. dispatcher'.active = Nobody
    BY <2>1, <2>2 DEF TurnHeld, AcpTypes
  <2>5. \/ prompt' = [prompt EXCEPT ![p] = "flush"] /\ holder' = p
        \/ prompt' = [prompt EXCEPT ![p] = "over"] /\ holder' = Nobody
    BY <1>4, TurnEnds DEF AcpTypes, Ends, Answers, Flushed
  <2> QED
    BY <1>0, <2>1, <2>2, <2>3, <2>4, <2>5, TurnMoves
<1>5. ASSUME NEW p \in Prompts, Task(p) PROVE TurnHeld'
  <2>1. /\ Running(p) /\ UNCHANGED <<prompt, holder, dispatcher, closer>>
        /\ \E w : work' = [work EXCEPT ![p] = w]
    BY <1>5 DEF Task, Works, CommandDone, Hears, ShowsTool, StartsJob, Waits, TaskEnds, Ignores, Running
  <2>2. prompt[p] = "dispatch" /\ \A q \in Prompts : q # p => work'[q] = work[q]
    BY <2>1 DEF TurnHeld, AcpTypes, AcpTypeOK
  <2> QED
    BY <2>1, <2>2, TurnWorks
<1>6. ASSUME NEW k \in CancelRequests, CancelArrives(k) \/ CancelGoesOn(k) PROVE TurnHeld'
  <2>1. UNCHANGED <<prompt, holder, work, closer>>
    BY <1>6 DEF CancelGoesOn, CancelArrives, CancelActs, CancelClears, CancelReports, CancelEnds, sessionVars, taskVars
  <2>2. \/ UNCHANGED dispatcher
        \/ dispatcher' = [dispatcher EXCEPT !.requested = TRUE, !.cancelling = TRUE]
        \/ dispatcher' = [dispatcher EXCEPT !.cancelling = FALSE]
    BY <1>6 DEF CancelGoesOn, CancelArrives, CancelActs, CancelClears, CancelReports, CancelEnds, sessionVars, taskVars
  <2>3. dispatcher'.active = dispatcher.active
    BY <2>2 DEF AcpTypes
  <2>4. closer' \in {"flush", "pump", "over"} => holder = Nobody
    BY <2>1 DEF TurnHeld
  <2> QED
    BY <2>1, <2>3, <2>4, TurnStays
<1>7. ASSUME Pump \/ JobEnds PROVE TurnHeld'
  <2>1. UNCHANGED <<prompt, holder, work, closer, dispatcher>>
    BY <1>7 DEF Pump, JobEnds, sessionVars, taskVars
  <2> QED
    BY <2>1, TurnStays DEF TurnHeld
<1>8. ASSUME CloseBegins \/ CloseGoesOn PROVE TurnHeld'
  <2>1. UNCHANGED <<prompt, holder, work, dispatcher>>
    BY <1>8 DEF CloseBegins, CloseGoesOn, CloseBridge, ClosePump, CloseAgent, sessionVars, taskVars
  <2>2. closer' \in {"flush", "pump", "over"} => holder = Nobody
    BY <1>8 DEF CloseBegins, CloseGoesOn, CloseBridge, ClosePump, CloseAgent, TurnHeld
  <2> QED
    BY <2>1, <2>2, TurnStays
<1> QED
  BY <1>1, <1>2, <1>3, <1>4, <1>5, <1>6, <1>7, <1>8 DEF AcpNext, PromptGoesOn

----------------------------------------------------------------------------
(***************************************************************************)
(* The cancellations.                                                      *)
(***************************************************************************)

\* A cancellation that moves leaves the others where they are.
LEMMA CancelMoves ==
  ASSUME AcpTypes, NEW k \in CancelRequests, NEW s, CancelGoes(k, s)
  PROVE  cancel'[k] = s /\ \A l \in CancelRequests : l # k => cancel'[l] = cancel[l]
BY DEF AcpTypes, AcpTypeOK, CancelGoes

\* The steps of a prompt: cancellations stand still.
LEMMA CancelHeldByPrompt ==
  ASSUME AcpTypes, TurnHeld, CancelHeld, NEW p \in Prompts,
         Collides(p) \/ Begins(p) \/ PromptGoesOn(p)
  PROVE  CancelHeld'
<1>1. UNCHANGED <<cancel, target>> /\ dispatcher'.cancelling = dispatcher.cancelling
  <2>1. UNCHANGED <<cancel, target>>
    BY DEF Collides, Begins, PromptGoesOn, Resumes, Stopped, Flushed
  <2>2. \/ UNCHANGED dispatcher
        \/ dispatcher' = [dispatcher EXCEPT !.active = p, !.requested = FALSE]
        \/ dispatcher' = [dispatcher EXCEPT !.active = Nobody]
    BY DEF Collides, Begins, PromptGoesOn, Resumes, Stopped, Flushed
  <2> QED
    BY <2>1, <2>2 DEF AcpTypes
<1>2. CASE Begins(p)
  <2>1. ~dispatcher.cancelling
    BY <1>2 DEF Begins, Active
  <2>2. \A k \in CancelRequests : cancel[k] \notin {"task", "shutdown"}
    BY <2>1 DEF CancelHeld
  <2>3. \A k \in CancelRequests : cancel'[k] = cancel[k]
    BY <1>1
  <2> QED
    BY <1>1, <2>1, <2>2, <2>3 DEF CancelHeld, Holds
<1>3. CASE ~Begins(p)
  <2>1. UNCHANGED work
    BY <1>3 DEF Collides, PromptGoesOn, Resumes, Stopped, Flushed, taskVars
  <2>2. \A q \in Prompts : holder' = q => holder = q \/ work[q] = "none"
    <3>1. CASE Collides(p)
      <4>1. work[p] = "none" /\ (holder' = p \/ holder' = Nobody)
        BY <3>1, TurnEnds DEF Collides, TurnHeld, AcpTypes, Ends, Answers
      <4> QED
        BY <4>1, AcpAssumption DEF Nobody
    <3>2. CASE PromptGoesOn(p)
      <4>1. holder = p
        BY <3>2 DEF PromptGoesOn, Resumes, Stopped, Flushed, TurnHeld
      <4>2. holder' = p \/ holder' = Nobody
        BY <3>2, <4>1, TurnEnds DEF PromptGoesOn, Flushed, AcpTypes, Ends, Answers
      <4> QED
        BY <4>1, <4>2, AcpAssumption DEF Nobody
    <3> QED
      BY <1>3, <3>1, <3>2
  <2> QED
    BY <1>1, <2>1, <2>2 DEF CancelHeld, Holds, Running
<1> QED
  BY <1>2, <1>3

\* The steps of a task, which the cancellation of it waits for.
LEMMA CancelHeldByTask ==
  ASSUME AcpTypes, TurnHeld, CancelHeld, NEW p \in Prompts, Task(p)
  PROVE  CancelHeld'
<1>1. Running(p) /\ UNCHANGED <<cancel, target, holder, dispatcher>>
  BY DEF Task, Works, CommandDone, Hears, ShowsTool, StartsJob, Waits, TaskEnds, Ignores, Running
<1>2. PICK w : work' = [work EXCEPT ![p] = w] /\ w # "none"
  BY <1>1 DEF Task, Works, CommandDone, Hears, ShowsTool, StartsJob, Waits, TaskEnds, Ignores, Running
<1>3. work'[p] = w /\ \A q \in Prompts : q # p => work'[q] = work[q]
  BY <1>2 DEF AcpTypes, AcpTypeOK
<1>4. \A k \in CancelRequests : cancel[k] # "shutdown"
  BY <1>1 DEF CancelHeld
<1>5. \A k \in CancelRequests : cancel[k] = "task" => target[k] = p
  BY <1>1 DEF CancelHeld, TurnHeld, Running
<1>6. \A k \in CancelRequests : cancel[k] = "task" => work'[target[k]] # "none"
  BY <1>2, <1>3, <1>5
<1>7. holder = p
  BY <1>1 DEF TurnHeld
<1> QED
  BY <1>1, <1>4, <1>5, <1>6, <1>7 DEF CancelHeld, Holds

\* The steps of a cancellation.
LEMMA CancelHeldByCancel ==
  ASSUME AcpTypes, TurnHeld, CancelHeld, NEW k \in CancelRequests, CancelArrives(k) \/ CancelGoesOn(k)
  PROVE  CancelHeld'
<1>0. UNCHANGED <<holder, work>>
  BY DEF CancelGoesOn, CancelArrives, CancelActs, CancelClears, CancelReports, CancelEnds, sessionVars, taskVars
<1>1. CASE CancelArrives(k)
  <2>1. cancel[k] = "idle" /\ CancelGoes(k, "lock") /\ UNCHANGED <<target, dispatcher>>
    BY <1>1 DEF CancelArrives, sessionVars
  <2>2. cancel'[k] = "lock" /\ \A l \in CancelRequests : l # k => cancel'[l] = cancel[l]
    BY <2>1, CancelMoves
  <2> QED
    BY <1>0, <2>1, <2>2 DEF CancelHeld, Holds, Running
<1>2. CASE CancelActs(k)
  <2>0. cancel[k] = "lock" /\ \A l \in CancelRequests : ~Holds(l)
    BY <1>2 DEF CancelActs
  <2>1. CASE dispatcher.active # Nobody /\ Running(dispatcher.active)
    <3>1. /\ CancelGoes(k, "task") /\ target' = [target EXCEPT ![k] = dispatcher.active]
          /\ dispatcher' = [dispatcher EXCEPT !.requested = TRUE, !.cancelling = TRUE]
      BY <1>2, <2>1 DEF CancelActs
    <3>2. cancel'[k] = "task" /\ \A l \in CancelRequests : l # k => cancel'[l] = cancel[l]
      BY <3>1, CancelMoves
    <3>3. dispatcher.active \in Prompts /\ holder = dispatcher.active
      BY <2>1 DEF AcpTypes, TurnHeld
    <3>4. dispatcher'.cancelling /\ target'[k] = dispatcher.active
      BY <3>1 DEF AcpTypes
    <3>5. \A l \in CancelRequests : cancel'[l] \in {"task", "shutdown", "flush"} => l = k
      BY <2>0, <3>2 DEF Holds
    <3>6. work[dispatcher.active] # "none"
      BY <2>1 DEF Running
    <3> QED
      BY <1>0, <3>2, <3>3, <3>4, <3>5, <3>6 DEF CancelHeld, Holds
  <2>2. CASE ~(dispatcher.active # Nobody /\ Running(dispatcher.active))
    <3>1. CancelGoes(k, "over") /\ UNCHANGED <<target, dispatcher>>
      BY <1>2, <2>2 DEF CancelActs
    <3>2. cancel'[k] = "over" /\ \A l \in CancelRequests : l # k => cancel'[l] = cancel[l]
      BY <3>1, CancelMoves
    <3> QED
      BY <1>0, <2>0, <3>1, <3>2 DEF CancelHeld, Holds
  <2> QED
    BY <2>1, <2>2
<1>3. CASE CancelClears(k)
  <2>0. cancel[k] = "task" /\ ~Running(target[k]) /\ target' = [target EXCEPT ![k] = Nobody]
    BY <1>3 DEF CancelClears
  <2>1. \A l \in CancelRequests : l # k => ~Holds(l)
    BY <2>0 DEF CancelHeld, Holds
  <2>2. CASE work[target[k]] \in {"limit", "failed"}
    <3>1. CancelGoes(k, "over") /\ dispatcher' = [dispatcher EXCEPT !.cancelling = FALSE]
      BY <1>3, <2>2 DEF CancelClears
    <3>2. cancel'[k] = "over" /\ \A l \in CancelRequests : l # k => cancel'[l] = cancel[l]
      BY <3>1, CancelMoves
    <3>3. ~dispatcher'.cancelling
      BY <3>1 DEF AcpTypes
    <3>4. \A l \in CancelRequests : cancel'[l] \notin {"task", "shutdown", "flush"}
      BY <2>1, <3>2 DEF Holds
    <3> QED
      BY <3>3, <3>4 DEF CancelHeld, Holds
  <2>3. CASE work[target[k]] \notin {"limit", "failed"}
    <3>1. CancelGoes(k, "shutdown") /\ UNCHANGED dispatcher
      BY <1>3, <2>3 DEF CancelClears
    <3>2. cancel'[k] = "shutdown" /\ \A l \in CancelRequests : l # k => cancel'[l] = cancel[l]
      BY <3>1, CancelMoves
    <3>3. dispatcher.cancelling
      BY <2>0 DEF CancelHeld
    <3>4. \A l \in CancelRequests : cancel'[l] \in {"task", "shutdown", "flush"} => l = k
      BY <2>1, <3>2 DEF Holds
    <3>5. ASSUME NEW p \in Prompts
          PROVE  ~Running(p) /\ (holder = p => work[p] \in {"none", "result", "cancelled"})
      <4>1. holder = p => p = target[k] \/ work[p] = "none"
        BY <2>0 DEF CancelHeld
      <4>2. work[p] \in {"none", "command", "racing", "handling", "result", "limit", "failed", "cancelled"}
        BY DEF AcpTypes, AcpTypeOK
      <4>3. holder = p => work[p] \in {"none", "result", "cancelled"}
        BY <2>0, <2>3, <4>1, <4>2 DEF Running
      <4>4. Running(p) => holder = p
        BY DEF TurnHeld
      <4> QED
        BY <4>3, <4>4 DEF Running
    <3> QED
      BY <1>0, <3>1, <3>2, <3>3, <3>4, <3>5 DEF CancelHeld, Holds, Running
  <2> QED
    BY <2>2, <2>3
<1>4. CASE CancelReports(k)
  <2>0. cancel[k] = "shutdown" /\ dispatcher' = [dispatcher EXCEPT !.cancelling = FALSE] /\ UNCHANGED target
    BY <1>4 DEF CancelReports
  <2>1. \A l \in CancelRequests : l # k => ~Holds(l)
    BY <2>0 DEF CancelHeld, Holds
  <2>2. CancelGoes(k, "flush") \/ CancelGoes(k, "over")
    BY <1>4 DEF CancelReports
  <2>3. cancel'[k] \in {"flush", "over"} /\ \A l \in CancelRequests : l # k => cancel'[l] = cancel[l]
    BY <2>2, CancelMoves
  <2>4. ~dispatcher'.cancelling
    BY <2>0 DEF AcpTypes
  <2>5. \A l \in CancelRequests : cancel'[l] \notin {"task", "shutdown"} /\ (cancel'[l] = "flush" => l = k)
    BY <2>1, <2>3 DEF Holds
  <2> QED
    BY <2>4, <2>5 DEF CancelHeld, Holds
<1>5. CASE CancelEnds(k)
  <2>0. cancel[k] = "flush" /\ CancelGoes(k, "over") /\ UNCHANGED <<target, dispatcher>>
    BY <1>5 DEF CancelEnds
  <2>1. cancel'[k] = "over" /\ \A l \in CancelRequests : l # k => cancel'[l] = cancel[l]
    BY <2>0, CancelMoves
  <2> QED
    BY <1>0, <2>0, <2>1 DEF CancelHeld, Holds, Running
<1> QED
  BY <1>1, <1>2, <1>3, <1>4, <1>5 DEF CancelGoesOn

\* The cancellations keep their order.
LEMMA CancelKept ==
  ASSUME AcpTypes, TurnHeld, CancelHeld, AcpNext
  PROVE  CancelHeld'
<1>1. CASE Pump \/ JobEnds \/ CloseBegins \/ CloseGoesOn
  <2>1. UNCHANGED <<cancel, target, holder, dispatcher, work>>
    BY <1>1 DEF Pump, JobEnds, CloseBegins, CloseGoesOn, CloseBridge, ClosePump, CloseAgent, sessionVars, taskVars
  <2> QED
    BY <2>1 DEF CancelHeld, Holds, Running
<1> QED
  BY <1>1, CancelHeldByPrompt, CancelHeldByTask, CancelHeldByCancel DEF AcpNext

\* The steps of a prompt, and who is told.
LEMMA ToldByPrompt ==
  ASSUME AcpTypes, TurnHeld, ToldToStop, NEW p \in Prompts,
         Collides(p) \/ Begins(p) \/ PromptGoesOn(p)
  PROVE  ToldToStop'
<1>1. UNCHANGED <<cancel, target, told>>
  BY DEF Collides, Begins, PromptGoesOn, Resumes, Stopped, Flushed, taskVars
<1>2. \A q \in Prompts, k \in CancelRequests : Targets(k, q)' = Targets(k, q) /\ Holds(k)' = Holds(k)
  BY <1>1 DEF Targets, Holds
<1>3. \A q \in Prompts : q # p => prompt'[q] = prompt[q]
  <2>1. \E s : prompt' = [prompt EXCEPT ![p] = s]
    BY TurnEnds DEF Collides, Begins, PromptGoesOn, Flushed, AcpTypes, Ends, Answers
  <2> QED
    BY <2>1 DEF AcpTypes, AcpTypeOK
<1>4. \A q \in Prompts : q # p => prompt[q] \notin {"dispatch", "wait"} /\ ~Running(q)
  <2>1. holder = Nobody \/ holder = p
    BY DEF Collides, Begins, PromptGoesOn, Resumes, Stopped, Flushed, TurnHeld
  <2> QED
    BY <2>1, AcpAssumption DEF TurnHeld, Nobody
<1>5. \A q \in Prompts : told[q] => q = p /\ Running(p) /\ dispatcher.requested
  BY <1>4 DEF ToldToStop
<1>6. CASE Begins(p)
  <2>1. prompt[p] = "idle" /\ prompt'[p] = "dispatch" /\ work'[p] # "cancelled" /\ ~dispatcher'.requested
    BY <1>6 DEF Begins, AcpTypes, AcpTypeOK
  <2>2. ~Running(p)
    BY <2>1 DEF TurnHeld
  <2>3. \A q \in Prompts : ~told'[q]
    BY <1>1, <1>5, <2>2
  <2> QED
    BY <1>3, <1>4, <2>1, <2>3 DEF ToldToStop
<1>7. CASE ~Begins(p)
  <2>1. UNCHANGED work /\ dispatcher'.requested = dispatcher.requested
    <3>1. UNCHANGED work
      BY <1>7 DEF Collides, PromptGoesOn, Resumes, Stopped, Flushed, taskVars
    <3>2. UNCHANGED dispatcher \/ dispatcher' = [dispatcher EXCEPT !.active = Nobody]
      BY <1>7 DEF Collides, PromptGoesOn, Resumes, Stopped, Flushed
    <3> QED
      BY <3>1, <3>2 DEF AcpTypes
  <2>2. CASE Resumes(p)
    <3>1. ~Running(p) /\ prompt[p] = "dispatch" /\ UNCHANGED cancel_complete
      BY <2>2 DEF Resumes
    <3>2. \A q \in Prompts : ~told'[q]
      BY <1>1, <1>5, <3>1
    <3>3. \/ prompt'[p] = "wait" /\ work[p] = "cancelled" /\ dispatcher.requested
          \/ prompt'[p] \in {"flush", "over"}
      BY <2>2, TurnEnds DEF AcpTypes, AcpTypeOK, Ends, Answers
    <3> QED
      BY <1>2, <1>3, <1>4, <2>1, <3>1, <3>2, <3>3 DEF ToldToStop
  <2>3. CASE Collides(p) \/ Stopped(p) \/ Flushed(p)
    <3>1. prompt'[p] \in {"flush", "over"}
      BY <2>3, TurnEnds DEF AcpTypes, AcpTypeOK, Ends, Answers, Flushed
    <3>2. ~Running(p)
      BY <2>3 DEF TurnHeld, Collides, Stopped, Flushed
    <3>3. \A q \in Prompts : ~told'[q]
      BY <1>1, <1>5, <3>2
    <3> QED
      BY <1>3, <1>4, <3>1, <3>3 DEF ToldToStop
  <2> QED
    BY <1>7, <2>2, <2>3 DEF PromptGoesOn
<1> QED
  BY <1>6, <1>7

\* The steps of a task, and who is told.
LEMMA ToldByTask ==
  ASSUME AcpTypes, TurnHeld, ToldToStop, NEW p \in Prompts, Task(p)
  PROVE  ToldToStop'
<1>1. UNCHANGED <<cancel, target, prompt, dispatcher, cancel_complete>> /\ Running(p)
  BY DEF Task, Works, CommandDone, Hears, ShowsTool, StartsJob, Waits, TaskEnds, Ignores, Running
<1>2. \A q \in Prompts, k \in CancelRequests : Targets(k, q)' = Targets(k, q) /\ Holds(k)' = Holds(k)
  BY <1>1 DEF Targets, Holds
<1>3. PICK w : work' = [work EXCEPT ![p] = w]
  BY DEF Task, Works, CommandDone, Hears, ShowsTool, StartsJob, Waits, TaskEnds, Ignores
<1>4. work'[p] = w /\ \A q \in Prompts : q # p => work'[q] = work[q]
  BY <1>3 DEF AcpTypes, AcpTypeOK
<1>5. told' = told \/ told' = [told EXCEPT ![p] = FALSE]
  BY DEF Task, CommandDone, Hears, ShowsTool, StartsJob, Waits, TaskEnds, Ignores
<1>6. told'[p] => told[p] /\ Running(p)'
  <2>1. CASE told' = [told EXCEPT ![p] = FALSE]
    BY <2>1 DEF AcpTypes
  <2>2. CASE told' = told /\ told' # [told EXCEPT ![p] = FALSE]
    <3>1. ~told[p] \/ w \in {"command", "racing", "handling"}
      BY <1>3, <1>4, <2>2 DEF Task, Works, CommandDone, Hears, ShowsTool, StartsJob, Waits, TaskEnds, Ignores, AcpTypes, AcpTypeOK
    <3> QED
      BY <1>4, <2>2, <3>1 DEF Running
  <2> QED
    BY <1>5, <2>1, <2>2
<1>7. \A q \in Prompts : told'[q] => told[q]
  BY <1>5, <1>6 DEF AcpTypes
<1>8. w = "cancelled" => dispatcher.requested
  <2>1. w = "cancelled" => told[p]
    BY <1>1, <1>3, <1>4 DEF Task, Works, CommandDone, Hears, ShowsTool, StartsJob, Waits, TaskEnds, Ignores, AcpTypes, AcpTypeOK, Running
  <2> QED
    BY <2>1 DEF ToldToStop
<1>9. prompt[p] = "dispatch"
  BY <1>1 DEF TurnHeld
<1>10. \A q \in Prompts : told'[q] => Running(q)'
  BY <1>4, <1>6, <1>7 DEF ToldToStop, Running
<1>11. \A q \in Prompts : told'[q] => dispatcher'.requested /\ \E k \in CancelRequests : Targets(k, q)'
  BY <1>1, <1>2, <1>7 DEF ToldToStop
<1>12. \A q \in Prompts : prompt'[q] \in {"dispatch", "wait"} /\ work'[q] = "cancelled" => dispatcher'.requested
  BY <1>1, <1>4, <1>8 DEF ToldToStop
<1>13. \A q \in Prompts : prompt'[q] = "wait" => work'[q] = "cancelled"
  BY <1>1, <1>4, <1>9 DEF ToldToStop
<1>14. \A q \in Prompts : prompt'[q] \in {"dispatch", "wait"} /\ dispatcher'.requested =>
          cancel_complete' \/ \E k \in CancelRequests : Holds(k)'
  BY <1>1, <1>2 DEF ToldToStop
<1> QED
  BY <1>10, <1>11, <1>12, <1>13, <1>14 DEF ToldToStop

\* The steps of a cancellation, and who is told.
LEMMA ToldByCancel ==
  ASSUME AcpTypes, TurnHeld, CancelHeld, ToldToStop, NEW k \in CancelRequests, CancelArrives(k) \/ CancelGoesOn(k)
  PROVE  ToldToStop'
<1>0. UNCHANGED <<prompt, work>>
  BY DEF CancelGoesOn, CancelArrives, CancelActs, CancelClears, CancelReports, CancelEnds, taskVars
<1>1. PICK s : CancelGoes(k, s)
  BY DEF CancelGoesOn, CancelArrives, CancelActs, CancelClears, CancelReports, CancelEnds
<1>2. cancel'[k] = s /\ \A l \in CancelRequests : l # k => cancel'[l] = cancel[l]
  BY <1>1, CancelMoves
<1>3. CASE CancelActs(k) /\ dispatcher.active # Nobody /\ Running(dispatcher.active)
  <2>1. /\ CancelGoes(k, "task") /\ target' = [target EXCEPT ![k] = dispatcher.active]
        /\ dispatcher' = [dispatcher EXCEPT !.requested = TRUE, !.cancelling = TRUE]
        /\ told' = [told EXCEPT ![dispatcher.active] = TRUE] /\ cancel[k] = "lock"
    BY <1>3 DEF CancelActs
  <2>2. cancel'[k] = "task"
    BY <2>1, CancelMoves
  <2>3. target'[k] = dispatcher.active /\ dispatcher'.requested /\ \A l \in CancelRequests : l # k => target'[l] = target[l]
    BY <2>1 DEF AcpTypes
  <2>4. Targets(k, dispatcher.active)' /\ Holds(k)'
    BY <2>2, <2>1, <2>3 DEF Targets, Holds, AcpTypes
  <2>5. ASSUME NEW q \in Prompts, told'[q] PROVE Running(q) /\ \E l \in CancelRequests : Targets(l, q)'
    <3>1. CASE q = dispatcher.active
      BY <1>3, <2>2, <2>3, <3>1 DEF Targets
    <3>2. CASE q # dispatcher.active
      <4>1. told[q]
        BY <2>1, <2>5, <3>2 DEF AcpTypes
      <4>2. PICK l \in CancelRequests : Targets(l, q)
        BY <4>1 DEF ToldToStop
      <4>3. l # k
        BY <2>1, <4>2 DEF Targets
      <4>4. Targets(l, q)'
        BY <1>2, <2>3, <4>2, <4>3 DEF Targets
      <4> QED
        BY <4>1, <4>4 DEF ToldToStop
    <3> QED
      BY <3>1, <3>2
  <2> QED
    BY <1>0, <2>3, <2>4, <2>5 DEF ToldToStop, Running
<1>4. CASE ~(CancelActs(k) /\ dispatcher.active # Nobody /\ Running(dispatcher.active))
  <2>1. UNCHANGED told /\ dispatcher'.requested = dispatcher.requested
    <3>1. UNCHANGED told
      BY <1>4 DEF CancelGoesOn, CancelArrives, CancelActs, CancelClears, CancelReports, CancelEnds, taskVars
    <3>2. UNCHANGED dispatcher \/ dispatcher' = [dispatcher EXCEPT !.cancelling = FALSE]
      BY <1>4 DEF CancelGoesOn, CancelArrives, CancelActs, CancelClears, CancelReports, CancelEnds, sessionVars
    <3> QED
      BY <3>1, <3>2 DEF AcpTypes
  <2>2. \A q \in Prompts : Targets(k, q) => ~Running(q)
    BY <1>4 DEF Targets, CancelGoesOn, CancelArrives, CancelActs, CancelClears, CancelReports, CancelEnds
  <2>3. \A l \in CancelRequests : l # k => target'[l] = target[l]
    BY <1>4 DEF CancelGoesOn, CancelArrives, CancelActs, CancelClears, CancelReports, CancelEnds, AcpTypes
  <2>4. ASSUME NEW q \in Prompts, told[q]
        PROVE  Running(q) /\ dispatcher.requested /\ \E l \in CancelRequests : Targets(l, q)'
    <3>1. PICK l \in CancelRequests : Targets(l, q)
      BY <2>4 DEF ToldToStop
    <3>2. Running(q) /\ dispatcher.requested
      BY <2>4 DEF ToldToStop
    <3>3. l # k
      BY <2>2, <3>1, <3>2
    <3> QED
      BY <1>2, <2>3, <3>1, <3>2, <3>3 DEF Targets
  <2>5. (cancel_complete \/ \E l \in CancelRequests : Holds(l)) => (cancel_complete' \/ \E l \in CancelRequests : Holds(l)')
    <3>1. \/ cancel_complete'
          \/ cancel_complete' = cancel_complete /\ (Holds(k) => Holds(k)')
      <4>1. CASE CancelArrives(k)
        BY <4>1 DEF CancelArrives, Holds, sessionVars
      <4>2. CASE CancelActs(k)
        BY <1>4, <4>2 DEF CancelActs
      <4>3. CASE CancelClears(k)
        <5>1. \/ cancel_complete'
              \/ CancelGoes(k, "shutdown") /\ cancel_complete' = cancel_complete
          BY <4>3 DEF CancelClears
        <5> QED
          BY <5>1, CancelMoves DEF Holds
      <4>4. CASE CancelReports(k)
        <5>1. \/ cancel_complete'
              \/ CancelGoes(k, "flush") /\ cancel_complete' = cancel_complete
          BY <4>4 DEF CancelReports
        <5> QED
          BY <5>1, CancelMoves DEF Holds
      <4>5. CASE CancelEnds(k)
        BY <4>5 DEF CancelEnds
      <4> QED
        BY <4>1, <4>2, <4>3, <4>4, <4>5 DEF CancelGoesOn
    <3>2. \A l \in CancelRequests : l # k => (Holds(l) => Holds(l)')
      BY <1>2 DEF Holds
    <3> QED
      BY <3>1, <3>2
  <2> QED
    BY <1>0, <2>1, <2>4, <2>5 DEF ToldToStop, Running
<1> QED
  BY <1>3, <1>4

\* Who is told to stop stays known.
LEMMA ToldKept ==
  ASSUME AcpTypes, TurnHeld, CancelHeld, ToldToStop, AcpNext
  PROVE  ToldToStop'
<1>1. CASE Pump \/ JobEnds \/ CloseBegins \/ CloseGoesOn
  <2>1. UNCHANGED <<prompt, cancel, target, dispatcher, cancel_complete, work, told>>
    BY <1>1 DEF Pump, JobEnds, CloseBegins, CloseGoesOn, CloseBridge, ClosePump, CloseAgent, sessionVars, taskVars
  <2> QED
    BY <2>1 DEF ToldToStop, Holds, Targets, Running
<1> QED
  BY <1>1, ToldByPrompt, ToldByTask, ToldByCancel DEF AcpNext

----------------------------------------------------------------------------
(***************************************************************************)
(* The pump and those that wait for it.                                    *)
(***************************************************************************)

\* A step that posts owes no more than the queue holds.
LEMMA OwesPosted ==
  ASSUME AcpTypes, PumpOwes, NEW S \in SUBSET Prompts, NEW w \in Flushers, Posts(S, w),
         UNCHANGED unreported, closer' = "pump" => closer = "pump" \/ ~Pumping(bridge)
  PROVE  PumpOwes'
<1>1. /\ bridge'.pump = bridge.pump /\ bridge'.error = bridge.error
      /\ Members(bridge.queue) \subseteq Members(bridge'.queue)
      /\ \A v \in Flushers : marker'[v] = marker[v]
                             \/ (marker'[v] = "queued" /\ Mark(v) \in Members(bridge'.queue))
  BY PostsShape DEF AcpTypes, AcpTypeOK, Marks, Grows
<1> QED
  BY <1>1 DEF PumpOwes, Pumping

\* A step that forgets one marker owes no more than before.
LEMMA OwesForgotten ==
  ASSUME AcpTypes, PumpOwes, NEW w \in Flushers, Forgotten(w), UNCHANGED <<bridge, closer, unreported>>
  PROVE  PumpOwes'
<1>1. \A v \in Flushers : marker'[v] = "queued" => marker[v] = "queued"
  BY DEF Forgotten, AcpTypes, AcpTypeOK
<1> QED
  BY <1>1 DEF PumpOwes, Pumping

\* The pump: what is next in its queue.
LEMMA PumpNext ==
  ASSUME AcpTypes, Pump
  PROVE  /\ Pumping(bridge) /\ bridge.queue \in Seq(Items) /\ bridge.queue # <<>>
         /\ \A w : Head(bridge.queue) = Mark(w) => Head(bridge.queue).kind = "mark"
         /\ Head(bridge.queue).kind = "mark" => \E w \in Flushers : Head(bridge.queue) = Mark(w) /\ Head(bridge.queue).of = {w}
         /\ Head(bridge.queue) = StopMark <=> Head(bridge.queue).kind = "stop"
<1>1. Pumping(bridge) /\ bridge.queue # <<>>
  BY DEF Pump, PumpSends, PumpDrops, PumpMarks, PumpStops, PumpDies, PumpTakes
<1>2. bridge.queue \in Seq(Items) /\ Head(bridge.queue) \in Items
  BY <1>1, QueueServed DEF AcpTypes, Bridge
<1>3. \/ \E S : Head(bridge.queue) = Update(S)
      \/ \E w \in Flushers : Head(bridge.queue) = Mark(w)
      \/ Head(bridge.queue) = StopMark
  BY <1>2 DEF Items
<1> QED
  BY <1>1, <1>2, <1>3, ItemKinds

\* What the pump does to its queue: all of it is gone, or the head of it.
LEMMA PumpShape ==
  ASSUME AcpTypes, Pump
  PROVE  \/ PumpStops /\ bridge'.pump = "over" /\ bridge'.queue = <<>> /\ bridge'.error = bridge.error
            /\ UNCHANGED <<marker, history>>
         \/ PumpDies /\ bridge'.pump = "over" /\ bridge'.queue = <<>> /\ bridge'.error = bridge.error
            /\ UNCHANGED unreported
            /\ \A v \in Flushers : marker'[v] = IF marker[v] = "queued" THEN "failed" ELSE marker[v]
         \/ /\ bridge'.pump = bridge.pump /\ bridge'.queue = Tail(bridge.queue)
            /\ \/ PumpSends /\ bridge'.error = bridge.error /\ UNCHANGED <<marker, unreported>>
               \/ PumpDrops /\ bridge'.error = bridge.error \cup Head(bridge.queue).of /\ UNCHANGED marker
                  /\ unreported' = unreported \cup Head(bridge.queue).of
               \/ PumpMarks /\ bridge'.error = {} /\ unreported' = unreported \ bridge.error
                  /\ \A v \in Flushers : marker'[v] = IF v \notin Head(bridge.queue).of THEN marker[v]
                                                      ELSE IF bridge.error = {} THEN "sent" ELSE "failed"
<1> USE DEF AcpTypes, Bridge, Popped
<1>1. CASE PumpStops
  BY <1>1 DEF PumpStops
<1>2. CASE PumpDies
  <2>1. bridge'.pump = "over" /\ bridge'.queue = <<>> /\ bridge'.error = bridge.error
    BY <1>2 DEF PumpDies
  <2>2. \A v \in Flushers : marker'[v] = IF marker[v] = "queued" THEN "failed" ELSE marker[v]
    BY <1>2 DEF PumpDies
  <2> QED
    BY <1>2, <2>1, <2>2 DEF PumpDies
<1>3. CASE PumpSends
  BY <1>3 DEF PumpSends, history
<1>4. CASE PumpDrops
  <2>1. /\ bridge' = [bridge EXCEPT !.queue = Tail(bridge.queue), !.error = bridge.error \cup Head(bridge.queue).of]
        /\ UNCHANGED marker /\ unreported' = unreported \cup Head(bridge.queue).of
    BY <1>4 DEF PumpDrops
  <2> QED
    BY <1>4, <2>1
<1>5. CASE PumpMarks
  <2>1. bridge' = [bridge EXCEPT !.queue = Tail(bridge.queue), !.error = {}] /\ unreported' = unreported \ bridge.error
    BY <1>5 DEF PumpMarks
  <2>2. \A v \in Flushers : marker'[v] = IF v \notin Head(bridge.queue).of THEN marker[v]
                                         ELSE IF bridge.error = {} THEN "sent" ELSE "failed"
    BY <1>5 DEF PumpMarks
  <2> QED
    BY <1>5, <2>1, <2>2
<1> QED
  BY <1>1, <1>2, <1>3, <1>4, <1>5 DEF Pump

\* A step of the pump, and what it owes.
LEMMA OwesPumped ==
  ASSUME AcpTypes, PumpOwes, Pump
  PROVE  PumpOwes'
<1>0. closer' = closer
  BY DEF Pump
<1> DEFINE h == Head(bridge.queue)
           q == bridge.queue
<1>1. /\ Pumping(bridge) /\ q \in Seq(Items) /\ q # <<>>
      /\ h.kind = "mark" => \E w \in Flushers : h = Mark(w) /\ h.of = {w}
      /\ \A w : h = Mark(w) => h.kind = "mark"
      /\ h = StopMark <=> h.kind = "stop"
  BY PumpNext
<1>2. \A x \in Members(q) : x # h => x \in Members(Tail(q))
  BY <1>1, QueueServed
<1>3. unreported' = bridge'.error
  BY PumpShape DEF PumpOwes, history
<1>4. CASE PumpStops \/ PumpDies
  <2>1. bridge'.pump = "over"
    BY <1>4 DEF PumpStops, PumpDies, AcpTypes, Bridge
  <2> QED
    BY <1>3, <2>1 DEF PumpOwes, Pumping
<1>5. CASE ~(PumpStops \/ PumpDies)
  <2>1. bridge'.queue = Tail(q) /\ bridge'.pump = bridge.pump
    BY <1>5, PumpShape
  <2>2. h.kind \in {"update", "mark"}
    BY <1>5 DEF Pump, PumpSends, PumpDrops, PumpMarks, PumpTakes
  <2>3. closer' = "pump" /\ Pumping(bridge') => StopMark \in Members(bridge'.queue)
    <3>1. h # StopMark
      BY <1>1, <2>2
    <3> QED
      BY <1>0, <1>1, <1>2, <2>1, <3>1 DEF PumpOwes
  <2>4. ASSUME NEW v \in Flushers, marker'[v] = "queued" PROVE Mark(v) \in Members(bridge'.queue)
    <3>1. marker[v] = "queued" /\ h # Mark(v)
      <4>1. CASE PumpSends \/ PumpDrops
        <5>1. h.kind = "update" /\ UNCHANGED marker
          BY <4>1 DEF PumpSends, PumpDrops, PumpTakes
        <5> QED
          BY <1>1, <2>4, <5>1
      <4>2. CASE PumpMarks
        <5>1. h.kind = "mark" /\ marker'[v] = IF v \notin h.of THEN marker[v]
                                              ELSE IF bridge.error = {} THEN "sent" ELSE "failed"
          BY <4>2 DEF PumpMarks, PumpTakes
        <5>2. v \notin h.of /\ marker[v] = "queued"
          BY <2>4, <5>1
        <5>3. h # Mark(v)
          BY <5>2, ItemKinds
        <5> QED
          BY <5>2, <5>3
      <4> QED
        BY <1>5, <4>1, <4>2 DEF Pump
    <3>2. Mark(v) \in Members(q)
      BY <1>1, <3>1 DEF PumpOwes
    <3> QED
      BY <1>2, <2>1, <3>1, <3>2
  <2> QED
    BY <1>3, <2>3, <2>4 DEF PumpOwes
<1> QED
  BY <1>4, <1>5

\* Whoever waits for the pump keeps its place.
LEMMA OwesKept ==
  ASSUME AcpTypes, PumpOwes, AcpNext
  PROVE  PumpOwes'
<1>0. bridge \in Bridge /\ OpenTools \in SUBSET Prompts
  BY ToolsFailedShape DEF AcpTypes
<1>1. ASSUME NEW p \in Prompts, Collides(p) \/ Begins(p) \/ PromptGoesOn(p) \/ Task(p) PROVE PumpOwes'
  <2>1. p \in Flushers /\ {p} \in SUBSET Prompts
    BY OwnUpdate
  <2>2. UNCHANGED <<closer, unreported>>
    BY <1>1 DEF Collides, Begins, PromptGoesOn, Resumes, Stopped, Flushed, history,
                Task, Works, CommandDone, Hears, ShowsTool, StartsJob, Waits, TaskEnds, Ignores
  <2>3. CASE Flushed(p)
    BY <2>1, <2>2, <2>3, OwesForgotten DEF Flushed
  <2>4. CASE ~Flushed(p)
    <3>1. Posts({p}, p) \/ Posts(OpenTools, p)
      BY <1>0, <1>1, <2>4, PromptPosts DEF PromptGoesOn
    <3> QED
      BY <1>0, <2>1, <2>2, <3>1, OwesPosted
  <2> QED
    BY <2>3, <2>4
<1>2. ASSUME NEW k \in CancelRequests, CancelArrives(k) \/ CancelGoesOn(k) PROVE PumpOwes'
  <2>1. UNCHANGED <<closer, unreported>> /\ k \in Flushers
    BY <1>0, <1>2, CancelPosts DEF CancelGoesOn, CancelArrives, CancelActs, CancelClears, CancelReports, CancelEnds, history
  <2>2. CASE CancelEnds(k)
    BY <2>1, <2>2, OwesForgotten DEF CancelEnds
  <2>3. CASE ~CancelEnds(k)
    <3>1. Posts(OpenTools, k)
      BY <1>0, <1>2, <2>3, CancelPosts, PostsNothing DEF CancelGoesOn
    <3> QED
      BY <1>0, <2>1, <3>1, OwesPosted
  <2> QED
    BY <2>2, <2>3
<1>3. "closer" \in Flushers
  BY DEF Flushers
<1>4. ASSUME JobEnds \/ CloseBegins \/ CloseAgent PROVE PumpOwes'
  <2>1. UNCHANGED <<bridgeVars, unreported>> /\ (closer' = "pump" => closer = "pump")
    BY <1>4 DEF JobEnds, CloseBegins, CloseAgent, history
  <2> QED
    BY <1>0, <1>3, <2>1, OwesPosted, PostsNothing
<1>5. ASSUME bridge' = Stop(bridge), UNCHANGED unreported,
             \A v \in Flushers : marker'[v] = "queued" => marker[v] = "queued"
      PROVE  PumpOwes'
  <2>1. /\ bridge'.pump = bridge.pump /\ bridge'.error = bridge.error
        /\ Members(bridge.queue) \subseteq Members(bridge'.queue)
        /\ Pumping(bridge) => StopMark \in Members(bridge'.queue)
    BY <1>0, <1>5, StopShape DEF Grows
  <2> QED
    BY <1>5, <2>1 DEF PumpOwes, Pumping
<1>6. ASSUME CloseBridge PROVE PumpOwes'
  <2>1. CASE FlushBegins("closer", ToolsFailed(bridge)) /\ closer' = "flush"
    <3>1. Posts(OpenTools, "closer") /\ UNCHANGED unreported
      BY <1>6, <2>1, ToolsFailedShape DEF Posts, CloseBridge, history
    <3> QED
      BY <1>0, <1>3, <2>1, <3>1, OwesPosted
  <2>2. CASE bridge' = Stop(bridge) /\ UNCHANGED marker
    BY <1>5, <1>6, <2>2 DEF CloseBridge, history
  <2> QED
    BY <1>6, <2>1, <2>2 DEF CloseBridge
<1>7. ASSUME ClosePump PROVE PumpOwes'
  <2>1. \A v \in Flushers : marker'[v] = "queued" => marker[v] = "queued"
    BY <1>7 DEF ClosePump, Forgotten, AcpTypes, AcpTypeOK
  <2> QED
    BY <1>5, <1>7, <2>1 DEF ClosePump, history
<1> QED
  BY <1>1, <1>2, <1>4, <1>6, <1>7, OwesPumped DEF AcpNext, CloseGoesOn

----------------------------------------------------------------------------
(***************************************************************************)
(* The text of the prompts and the tool calls.                             *)
(***************************************************************************)

\* While a turn runs, no other turn has text on the channel.
LEMMA OneText ==
  ASSUME AcpTypes, TurnHeld, CancelHeld, TextKept, NEW p \in Prompts, Running(p)
  PROVE  messages \subseteq {p} /\ \A q \in Prompts : Running(q) => q = p
<1>1. holder = p /\ \A q \in Prompts : Running(q) => q = p
  BY DEF TurnHeld
<1>2. ASSUME NEW q \in messages PROVE q = p
  <2>1. q \in Prompts
    BY DEF AcpTypes, AcpTypeOK
  <2>2. CASE work[q] = "racing"
    BY <1>1, <2>1, <2>2 DEF Running
  <2>3. CASE work[q] # "racing"
    <3>1. PICK k \in CancelRequests : Targets(k, q)
      BY <2>3 DEF TextKept
    <3> QED
      BY <1>1, <3>1 DEF CancelHeld, Targets, Running
  <2> QED
    BY <2>2, <2>3
<1> QED
  BY <1>1, <1>2

\* A turn begins on an empty channel.
LEMMA NoText ==
  ASSUME AcpTypes, TurnHeld, CancelHeld, TextKept, holder = Nobody, ~Active
  PROVE  messages = {}
<1> SUFFICES ASSUME NEW q \in messages PROVE FALSE
  OBVIOUS
<1>1. q \in Prompts
  BY DEF AcpTypes, AcpTypeOK
<1>2. ~Running(q)
  BY <1>1, AcpAssumption DEF TurnHeld, Nobody
<1>3. PICK k \in CancelRequests : Targets(k, q)
  BY <1>2 DEF TextKept, Running
<1>4. dispatcher.cancelling
  BY <1>3 DEF CancelHeld, Targets
<1> QED
  BY <1>4 DEF Active

\* Turns are told their own text.
LEMMA TextStaysKept ==
  ASSUME AcpTypes, TurnHeld, CancelHeld, ToldToStop, TextKept, AcpNext
  PROVE  TextKept'
<1>1. ASSUME NEW p \in Prompts, Begins(p) PROVE TextKept'
  <2>1. messages = {}
    BY <1>1, NoText DEF Begins
  <2>2. /\ work' = [work EXCEPT ![p] = IF p \in Slash THEN "command" ELSE "racing"]
        /\ messages' = (IF p \in Slash THEN {} ELSE {p}) /\ UNCHANGED heard
    BY <1>1, <2>1 DEF Begins
  <2>3. /\ work'[p] = IF p \in Slash THEN "command" ELSE "racing"
        /\ \A q \in Prompts : q # p => work'[q] = work[q]
    BY <2>2 DEF AcpTypes, AcpTypeOK
  <2> QED
    BY <2>1, <2>2, <2>3 DEF TextKept
<1>2. ASSUME NEW p \in Prompts, Task(p) PROVE TextKept'
  <2>0. Running(p) /\ UNCHANGED <<cancel, target>>
    BY <1>2 DEF Task, Works, CommandDone, Hears, ShowsTool, StartsJob, Waits, TaskEnds, Ignores, Running
  <2>1. messages \subseteq {p} /\ \A q \in Prompts : Running(q) => q = p
    BY <2>0, OneText
  <2>2. PICK w : work' = [work EXCEPT ![p] = w]
    BY <1>2 DEF Task, Works, CommandDone, Hears, ShowsTool, StartsJob, Waits, TaskEnds, Ignores
  <2>3. work'[p] = w /\ \A q \in Prompts : q # p => work'[q] = work[q]
    BY <2>2 DEF AcpTypes, AcpTypeOK
  <2>4. \A q \in Prompts : q # p => work'[q] \notin {"racing", "handling"}
    BY <2>1, <2>3 DEF Running
  <2>5. \A k \in CancelRequests : Targets(k, p)' = Targets(k, p)
    BY <2>0 DEF Targets
  <2>6. CASE Hears(p)
    <3>1. /\ work[p] = "racing" /\ messages' = {}
          /\ heard' = [heard EXCEPT ![p] = heard[p] \cup messages]
      BY <2>6 DEF Hears
    <3>2. heard'[p] = heard[p] \cup messages /\ \A q \in Prompts : q # p => heard'[q] = heard[q]
      BY <3>1 DEF AcpTypes, AcpTypeOK
    <3>3. p \in heard'[p] /\ heard'[p] \subseteq {p}
      BY <2>1, <3>1, <3>2 DEF TextKept
    <3> QED
      BY <2>4, <3>1, <3>2, <3>3 DEF TextKept
  <2>7. CASE CommandDone(p)
    <3>1. p \notin messages /\ work[p] = "command" /\ UNCHANGED heard
      BY <2>7 DEF CommandDone, TextKept
    <3>2. messages = {}
      BY <2>1, <3>1
    <3>3. \/ work'[p] = "racing" /\ messages' = {p}
          \/ work'[p] = "result" /\ messages' = {}
      BY <2>7, <3>2 DEF CommandDone, Works, AcpTypes, AcpTypeOK
    <3> QED
      BY <2>4, <3>1, <3>3 DEF TextKept
  <2>8. CASE ShowsTool(p) \/ StartsJob(p) \/ Waits(p)
    <3>1. p \notin messages /\ work[p] = "handling" /\ UNCHANGED <<messages, heard>>
      BY <2>8 DEF ShowsTool, StartsJob, Waits, TextKept
    <3>2. messages = {} /\ p \in heard[p]
      BY <2>1, <3>1 DEF TextKept
    <3> QED
      BY <2>4, <3>1, <3>2 DEF TextKept
  <2>9. CASE TaskEnds(p)
    <3>1. UNCHANGED <<messages, heard>>
      BY <2>9 DEF TaskEnds
    <3>2. w \in {"result", "limit", "failed", "cancelled"}
          /\ (work[p] = "racing" => w = "cancelled" /\ told[p])
      BY <2>2, <2>3, <2>9 DEF TaskEnds, Works, AcpTypes, AcpTypeOK
    <3>3. p \in messages => work'[p] = "cancelled" /\ \E k \in CancelRequests : Targets(k, p)'
      <4>1. p \in messages => work[p] = "racing"
        BY <2>0 DEF TextKept, Running
      <4> QED
        BY <2>3, <2>5, <3>2, <4>1 DEF ToldToStop
    <3> QED
      BY <2>1, <2>3, <2>4, <3>1, <3>2, <3>3 DEF TextKept
  <2>10. CASE Ignores(p)
    <3>1. UNCHANGED <<messages, heard>> /\ work' = [work EXCEPT ![p] = work[p]]
      BY <2>10 DEF Ignores, Works
    <3>2. UNCHANGED work
      BY <3>1 DEF AcpTypes, AcpTypeOK
    <3> QED
      BY <2>0, <3>1, <3>2 DEF TextKept, Targets
  <2> QED
    BY <1>2, <2>6, <2>7, <2>8, <2>9, <2>10 DEF Task
<1>3. ASSUME NEW k \in CancelRequests, CancelActs(k) \/ CancelArrives(k) \/ CancelReports(k) \/ CancelEnds(k)
      PROVE  TextKept'
  <2>1. UNCHANGED <<messages, work, heard>>
    BY <1>3 DEF CancelArrives, CancelActs, CancelReports, CancelEnds, sessionVars, taskVars
  <2>2. \A l \in CancelRequests : cancel[l] = "task" => cancel'[l] = cancel[l] /\ target'[l] = target[l]
    BY <1>3 DEF CancelArrives, CancelActs, CancelReports, CancelEnds, CancelGoes, AcpTypes, AcpTypeOK
  <2>3. \A l \in CancelRequests, q \in Prompts : Targets(l, q) => Targets(l, q)'
    BY <2>2 DEF Targets
  <2>4. messages \subseteq Prompts
    BY DEF AcpTypes, AcpTypeOK
  <2>5. ASSUME NEW q \in messages
        PROVE  work[q] = "racing" \/ (work[q] = "cancelled" /\ \E l \in CancelRequests : Targets(l, q)')
    BY <2>3, <2>4 DEF TextKept
  <2> QED
    BY <2>1, <2>5 DEF TextKept
<1>4. ASSUME NEW k \in CancelRequests, CancelClears(k) PROVE TextKept'
  <2>1. /\ cancel[k] = "task" /\ ~Running(target[k]) /\ UNCHANGED <<work, heard>>
        /\ target' = [target EXCEPT ![k] = Nobody]
    BY <1>4 DEF CancelClears, taskVars
  <2>2. \A q \in Prompts : ~Running(q)
    BY <2>1 DEF CancelHeld, TurnHeld, Running
  <2>3. CASE work[target[k]] \in {"limit", "failed"}
    <3>1. UNCHANGED messages
      BY <1>4, <2>3 DEF CancelClears
    <3>2. ASSUME NEW q \in messages PROVE FALSE
      <4>1. q \in Prompts
        BY DEF AcpTypes, AcpTypeOK
      <4>2. PICK l \in CancelRequests : Targets(l, q) /\ work[q] = "cancelled"
        BY <2>2, <4>1 DEF TextKept, Running
      <4>3. l = k
        BY <2>1, <4>2 DEF CancelHeld, Holds, Targets
      <4> QED
        BY <2>3, <4>2, <4>3 DEF Targets
    <3> QED
      BY <2>1, <3>1, <3>2 DEF TextKept
  <2>4. CASE work[target[k]] \notin {"limit", "failed"}
    <3>1. messages' = {}
      BY <1>4, <2>4 DEF CancelClears
    <3> QED
      BY <2>1, <2>2, <3>1 DEF TextKept, Running
  <2> QED
    BY <2>3, <2>4
<1>5. ASSUME NEW p \in Prompts, Collides(p) \/ PromptGoesOn(p) PROVE TextKept'
  <2>1. UNCHANGED <<messages, work, heard, cancel, target>>
    BY <1>5 DEF Collides, PromptGoesOn, Resumes, Stopped, Flushed, taskVars
  <2> QED
    BY <2>1 DEF TextKept, Targets
<1>6. ASSUME Pump \/ JobEnds \/ CloseBegins \/ CloseGoesOn PROVE TextKept'
  <2>1. UNCHANGED <<messages, work, heard, cancel, target>>
    BY <1>6 DEF Pump, JobEnds, CloseBegins, CloseGoesOn, CloseBridge, ClosePump, CloseAgent, sessionVars, taskVars
  <2> QED
    BY <2>1 DEF TextKept, Targets
<1> QED
  BY <1>1, <1>2, <1>3, <1>4, <1>5, <1>6 DEF AcpNext, CancelGoesOn

\* What the client is shown of the tool calls, and what a flushed prompt did.
LEMMA ShownKept ==
  ASSUME AcpTypes, TurnHeld, ToldToStop, Shown, AcpNext
  PROVE  Shown'
<1>0. ASSUME UNCHANGED work, UNCHANGED card \/ FailOpenTools, NEW p \in Prompts
      PROVE  /\ work'[p] \in {"none", "command"} => card'[p] = "new"
             /\ work'[p] = "result" => card'[p] # "open"
             /\ card[p] # "open" => card'[p] # "open"
  BY <1>0, FailedTools DEF Shown
<1>1. ASSUME NEW p \in Prompts, Collides(p) \/ PromptGoesOn(p) PROVE Shown'
  <2>1. UNCHANGED work /\ (UNCHANGED card \/ FailOpenTools)
    BY <1>1 DEF Collides, PromptGoesOn, Resumes, Stopped, Flushed, taskVars
  <2>2. \A q \in Prompts : q # p => prompt'[q] = prompt[q] /\ reason'[q] = reason[q]
    <3>1. /\ \E s : prompt' = [prompt EXCEPT ![p] = s]
          /\ (\E r : reason' = [reason EXCEPT ![p] = r]) \/ UNCHANGED reason
      <4>1. CASE \E r : Ends(p, r) \/ Answers(p, r)
        BY <4>1 DEF Ends, Answers
      <4>2. CASE prompt' = [prompt EXCEPT ![p] = "wait"] /\ UNCHANGED reason
        BY <4>2
      <4>3. \/ \E r : Ends(p, r) \/ Answers(p, r)
            \/ prompt' = [prompt EXCEPT ![p] = "wait"] /\ UNCHANGED reason
        BY <1>1, TurnEnds DEF PromptGoesOn, Flushed, AcpTypes
      <4> QED
        BY <4>1, <4>2, <4>3
    <3> QED
      BY <3>1 DEF AcpTypes, AcpTypeOK
  <2>3. Concluded(p)' => /\ work[p] \in {"none", "result", "limit", "failed", "cancelled"}
                         /\ work[p] = "limit" => card'[p] # "open"
                         /\ work[p] = "failed" => p \in Slash
                         /\ work[p] = "cancelled" => reason'[p] = "cancelled"
    <3>1. CASE Collides(p)
      BY <3>1 DEF Collides, TurnHeld
    <3>2. CASE Resumes(p)
      <4>1. \/ ~Concluded(p)'
            \/ work[p] = "result"
            \/ work[p] = "limit" /\ FailOpenTools
            \/ work[p] = "failed" /\ p \in Slash
        <5>1. prompt' = [prompt EXCEPT ![p] = "wait"] \/ Answers(p, "error") => ~Concluded(p)'
          BY DEF Answers, Concluded, Sound, AcpTypes, AcpTypeOK
        <5> QED
          BY <3>2, <5>1, TurnEnds DEF AcpTypes
      <4> QED
        BY <4>1, FailedTools
    <3>3. CASE Stopped(p)
      <4>1. work[p] = "cancelled"
        BY <3>3 DEF Stopped, ToldToStop
      <4>2. Concluded(p)' => reason'[p] = "cancelled"
        BY <3>3, TurnEnds DEF AcpTypes, AcpTypeOK, Ends, Answers, Concluded, Sound
      <4> QED
        BY <4>1, <4>2
    <3>4. CASE Flushed(p)
      <4>1. Concluded(p) /\ UNCHANGED <<work, card>>
        BY <3>4 DEF Flushed, Concluded, taskVars
      <4>2. Concluded(p)' => reason'[p] = reason[p]
        BY <3>4 DEF Flushed, Answers, Concluded, Sound, AcpTypes, AcpTypeOK
      <4> QED
        BY <4>1, <4>2 DEF Shown
    <3> QED
      BY <1>1, <3>1, <3>2, <3>3, <3>4 DEF PromptGoesOn
  <2>4. ASSUME NEW q \in Prompts, Concluded(q)'
        PROVE  /\ work'[q] \in {"none", "result", "limit", "failed", "cancelled"}
               /\ work'[q] = "limit" => card'[q] # "open"
               /\ work'[q] = "failed" => q \in Slash
               /\ work'[q] = "cancelled" => reason'[q] = "cancelled"
    <3>1. CASE q = p
      BY <2>1, <2>3, <2>4, <3>1
    <3>2. CASE q # p
      <4>1. Concluded(q)
        BY <2>2, <2>4, <3>2 DEF Concluded, Sound
      <4> QED
        BY <1>0, <2>1, <2>2, <3>2, <4>1 DEF Shown
    <3> QED
      BY <3>1, <3>2
  <2> QED
    BY <1>0, <2>1, <2>4 DEF Shown
<1>2. ASSUME NEW p \in Prompts, Begins(p) PROVE Shown'
  <2>1. work[p] = "none" /\ UNCHANGED <<card, reason>>
    BY <1>2 DEF Begins, TurnHeld
  <2>2. /\ prompt'[p] = "dispatch" /\ work'[p] \in {"command", "racing"}
        /\ \A q \in Prompts : q # p => prompt'[q] = prompt[q] /\ work'[q] = work[q]
    BY <1>2 DEF Begins, AcpTypes, AcpTypeOK
  <2>3. \A q \in Prompts : Concluded(q)' => q # p /\ Concluded(q)
    BY <2>1, <2>2 DEF Concluded, Sound
  <2> QED
    BY <2>1, <2>2, <2>3 DEF Shown
<1>3. ASSUME NEW p \in Prompts, Task(p) PROVE Shown'
  <2>1. Running(p) /\ UNCHANGED <<prompt, reason>>
    BY <1>3 DEF Task, Works, CommandDone, Hears, ShowsTool, StartsJob, Waits, TaskEnds, Ignores, Running
  <2>2. prompt[p] = "dispatch"
    BY <2>1 DEF TurnHeld
  <2>3. \A q \in Prompts : q # p => work'[q] = work[q] /\ card'[q] = card[q]
    BY <1>3 DEF Task, Works, CommandDone, Hears, ShowsTool, StartsJob, Waits, TaskEnds, Ignores, AcpTypes, AcpTypeOK
  <2>4. /\ work'[p] \in {"none", "command"} => card'[p] = "new"
        /\ work'[p] = "result" => card'[p] # "open"
    <3>1. CASE CommandDone(p)
      BY <3>1 DEF CommandDone, Works, AcpTypes, AcpTypeOK, Shown
    <3>2. CASE TaskEnds(p)
      BY <3>2 DEF TaskEnds, Works, AcpTypes, AcpTypeOK, Shown
    <3>3. CASE Ignores(p)
      BY <3>3 DEF Ignores, Works, AcpTypes, AcpTypeOK, Shown
    <3>4. CASE Hears(p) \/ ShowsTool(p) \/ StartsJob(p) \/ Waits(p)
      BY <3>4 DEF Hears, ShowsTool, StartsJob, Waits, Works, AcpTypes, AcpTypeOK
    <3> QED
      BY <1>3, <3>1, <3>2, <3>3, <3>4 DEF Task
  <2>5. \A q \in Prompts : Concluded(q)' => q # p /\ Concluded(q)
    BY <2>1, <2>2 DEF Concluded, Sound
  <2> QED
    BY <2>1, <2>3, <2>4, <2>5 DEF Shown
<1>4. ASSUME \/ \E k \in CancelRequests : CancelArrives(k) \/ CancelGoesOn(k)
             \/ Pump \/ JobEnds \/ CloseBegins \/ CloseGoesOn
      PROVE  Shown'
  <2>1. UNCHANGED <<prompt, reason, work>> /\ (UNCHANGED card \/ FailOpenTools)
    BY <1>4 DEF CancelGoesOn, CancelArrives, CancelActs, CancelClears, CancelReports, CancelEnds, Pump, JobEnds,
                CloseBegins, CloseGoesOn, CloseBridge, ClosePump, CloseAgent, taskVars
  <2>2. \A p \in Prompts : Concluded(p)' <=> Concluded(p)
    BY <2>1 DEF Concluded, Sound
  <2> QED
    BY <1>0, <2>1, <2>2 DEF Shown
<1> QED
  BY <1>1, <1>2, <1>3, <1>4 DEF AcpNext

----------------------------------------------------------------------------
(***************************************************************************)
(* Turns that heed their cancellation.                                     *)
(***************************************************************************)

\* A step that moves no request and lets nothing new go on.
LEMMA HeededStays ==
  ASSUME Heeded, UNCHANGED <<prompt, reason, cancel, target, holder, cancel_complete, dispatcher, work, told>>,
         messages' \subseteq messages, \A p \in Prompts : Still(p) => Still(p)'
  PROVE  Heeded'
<1>1. \A k \in CancelRequests : cancel[k] = "task" => Chased(k)'
  BY DEF Heeded, Chased, Running
<1>2. ASSUME NEW k \in CancelRequests, cancel[k] \in {"shutdown", "flush"} PROVE Caught(k)'
  <2>1. Caught(k)
    BY <1>2 DEF Heeded
  <2>2. holder \in Prompts /\ holder' = holder /\ (Still(holder) => Still(holder)')
    BY <2>1 DEF Caught
  <2>3. messages' = {}
    BY <2>1 DEF Caught
  <2> QED
    BY <2>1, <2>2, <2>3 DEF Caught
<1>3. \A p \in Prompts : Running(p)' <=> Running(p)
  BY DEF Running
<1> QED
  BY <1>1, <1>2, <1>3 DEF Heeded

\* The steps of a prompt.
LEMMA HeededByPrompt ==
  ASSUME AcpTypes, TurnHeld, CancelHeld, ToldToStop, TextKept, Shown, Heeded, NEW p \in Prompts,
         Collides(p) \/ PromptGoesOn(p)
  PROVE  Heeded'
<1>1. UNCHANGED <<cancel, target, work, told, messages, job>> /\ dispatcher'.requested = dispatcher.requested
  <2>1. UNCHANGED <<cancel, target, work, told, messages, job>>
    BY DEF Collides, PromptGoesOn, Resumes, Stopped, Flushed, taskVars
  <2>2. UNCHANGED dispatcher \/ dispatcher' = [dispatcher EXCEPT !.active = Nobody]
    BY DEF Collides, PromptGoesOn, Resumes, Stopped, Flushed
  <2> QED
    BY <2>1, <2>2 DEF AcpTypes
<1>2. \A q \in Prompts : Still(q) => Still(q)'
  <2>1. UNCHANGED card \/ FailOpenTools
    BY DEF Collides, PromptGoesOn, Resumes, Stopped, Flushed, taskVars
  <2> QED
    BY <1>1, <2>1, FailedTools DEF Still
<1>3. \A q \in Prompts : Running(q)' <=> Running(q)
  BY <1>1 DEF Running
<1>4. \/ \E r : Ends(p, r) \/ Answers(p, r)
      \/ prompt' = [prompt EXCEPT ![p] = "wait"] /\ UNCHANGED <<reason, holder>>
  BY TurnEnds DEF PromptGoesOn, Flushed, AcpTypes
<1>5. \A q \in Prompts : q # p => prompt'[q] = prompt[q] /\ reason'[q] = reason[q]
  BY <1>4 DEF Ends, Answers, AcpTypes, AcpTypeOK
<1>6. CASE Resumes(p) /\ prompt' = [prompt EXCEPT ![p] = "wait"] /\ UNCHANGED <<reason, holder>>
  <2>1. prompt[p] = "dispatch" /\ prompt'[p] = "wait" /\ cancel_complete' = cancel_complete
    BY <1>6 DEF Resumes, AcpTypes, AcpTypeOK
  <2>2. \A q \in Prompts : prompt'[q] \in {"dispatch", "wait"} <=> prompt[q] \in {"dispatch", "wait"}
    BY <1>5, <2>1
  <2>3. \A k \in CancelRequests : cancel[k] = "task" => Chased(k)'
    BY <1>1, <1>3, <2>1, <2>2 DEF Heeded, Chased, CancelHeld
  <2>4. ASSUME NEW k \in CancelRequests, cancel[k] \in {"shutdown", "flush"} PROVE Caught(k)'
    <3>1. Caught(k)
      BY <2>4 DEF Heeded
    <3>2. holder \in Prompts /\ holder' = holder /\ (Still(holder) => Still(holder)')
      BY <1>2, <1>6, <3>1 DEF Caught
    <3> QED
      BY <1>1, <2>1, <2>2, <3>1, <3>2 DEF Caught
  <2> QED
    BY <1>1, <1>2, <1>3, <1>6, <2>1, <2>2, <2>3, <2>4 DEF Heeded
<1>7. CASE Collides(p)
  <2>1. holder = Nobody /\ ~cancel_complete' /\ \A q \in Prompts : prompt[q] \notin {"dispatch", "wait"} /\ ~Running(q)
    BY <1>7, AcpAssumption DEF Collides, TurnHeld, Nobody
  <2>2. \A k \in CancelRequests : cancel[k] = "task" => Chased(k)'
    BY <1>1, <2>1 DEF Heeded, Chased, CancelHeld
  <2>3. \A k \in CancelRequests : cancel[k] \notin {"shutdown", "flush"}
    BY <2>1, AcpAssumption DEF Heeded, Caught, Nobody
  <2>4. reason'[p] # "cancelled"
    BY <1>7, TurnEnds DEF AcpTypes, AcpTypeOK, Ends, Answers
  <2> QED
    BY <1>1, <1>2, <1>3, <1>5, <2>1, <2>2, <2>3, <2>4 DEF Heeded
<1>8. CASE Resumes(p) /\ ~(prompt' = [prompt EXCEPT ![p] = "wait"] /\ UNCHANGED <<reason, holder>>)
  <2>1. /\ holder = p /\ cancel_complete' = cancel_complete /\ ~Running(p)
        /\ work[p] \in {"result", "limit", "failed"}
        /\ prompt'[p] \in {"flush", "over"} /\ reason'[p] # "cancelled"
    <3>1. /\ work[p] \in {"result", "limit", "failed"}
          /\ Ends(p, "end_turn") \/ Ends(p, "limit") \/ Answers(p, "error")
      BY <1>8, TurnEnds DEF AcpTypes
    <3>2. prompt'[p] \in {"flush", "over"} /\ reason'[p] # "cancelled"
      BY <3>1 DEF Ends, Answers, AcpTypes, AcpTypeOK
    <3> QED
      BY <1>8, <3>1, <3>2 DEF Resumes, TurnHeld
  <2>2. \A k \in CancelRequests : cancel[k] = "task" => Chased(k)'
    BY <1>1, <1>3, <1>5, <2>1 DEF Heeded, Chased, CancelHeld
  <2>3. \A k \in CancelRequests : cancel[k] \notin {"shutdown", "flush"}
    BY <2>1 DEF Heeded, Caught
  <2> QED
    BY <1>1, <1>2, <1>3, <1>5, <2>1, <2>2, <2>3 DEF Heeded
<1>9. CASE Stopped(p)
  <2>1. /\ holder = p /\ cancel_complete' = cancel_complete /\ cancel_complete /\ prompt[p] = "wait"
        /\ work[p] = "cancelled"
    BY <1>9 DEF Stopped, TurnHeld, ToldToStop
  <2>2. \A k \in CancelRequests : cancel[k] \notin {"task", "shutdown", "flush"}
    BY <2>1 DEF Heeded, Chased, Caught
  <2>3. prompt'[p] \in {"flush", "over"}
    BY <1>9, TurnEnds DEF AcpTypes, AcpTypeOK, Ends, Answers
  <2>4. Still(p)'
    BY <1>2, <2>1 DEF Heeded
  <2> QED
    BY <1>1, <1>2, <1>3, <1>5, <2>1, <2>2, <2>3, <2>4 DEF Heeded
<1>10. CASE Flushed(p)
  <2>1. /\ holder = p /\ cancel_complete' = cancel_complete /\ prompt[p] = "flush" /\ ~Running(p)
        /\ prompt'[p] = "over" /\ (reason'[p] = "cancelled" => reason[p] = "cancelled")
    BY <1>10 DEF Flushed, Answers, TurnHeld, AcpTypes, AcpTypeOK
  <2>2. \A k \in CancelRequests : cancel[k] = "task" => Chased(k)'
    BY <1>1, <1>3, <1>5, <2>1 DEF Heeded, Chased, CancelHeld
  <2>3. \A k \in CancelRequests : cancel[k] \notin {"shutdown", "flush"}
    BY <2>1 DEF Heeded, Caught
  <2> QED
    BY <1>1, <1>2, <1>3, <1>5, <2>1, <2>2, <2>3 DEF Heeded
<1> QED
  BY <1>6, <1>7, <1>8, <1>9, <1>10 DEF PromptGoesOn

\* A turn begins.
LEMMA HeededByBegins ==
  ASSUME AcpTypes, TurnHeld, CancelHeld, Heeded, NEW p \in Prompts, Begins(p)
  PROVE  Heeded'
<1>1. /\ holder = Nobody /\ prompt[p] = "idle" /\ work[p] = "none" /\ ~dispatcher.cancelling /\ ~cancel_complete'
      /\ UNCHANGED <<cancel, job, card, reason>> /\ messages' \subseteq messages \cup {p}
  BY DEF Begins, TurnHeld, Active
<1>2. \A q \in Prompts : q # p => work'[q] = work[q]
  BY DEF Begins, AcpTypes, AcpTypeOK
<1>3. \A k \in CancelRequests : cancel[k] \notin {"task", "shutdown", "flush"}
  BY <1>1, AcpAssumption DEF CancelHeld, Heeded, Caught, Nobody
<1>4. ASSUME NEW q \in Prompts, reason[q] = "cancelled" PROVE work'[q] = "cancelled" /\ Still(q)'
  <2>1. work[q] = "cancelled" /\ Still(q) /\ q # p
    BY <1>1, <1>4 DEF Heeded
  <2> QED
    BY <1>1, <1>2, <2>1 DEF Still
<1> QED
  BY <1>1, <1>3, <1>4 DEF Heeded

\* The steps of a task that does not ignore its cancellation.
LEMMA HeededByTask ==
  ASSUME AcpTypes, TurnHeld, CancelHeld, Heeded, NEW p \in Prompts, Task(p), ~Ignores(p)
  PROVE  Heeded'
<1>1. Running(p) /\ UNCHANGED <<cancel, target, prompt, reason, holder, dispatcher, cancel_complete>>
  BY DEF Task, Works, CommandDone, Hears, ShowsTool, StartsJob, Waits, TaskEnds, Ignores, Running
<1>2. PICK w : work' = [work EXCEPT ![p] = w]
  BY DEF Task, Works, CommandDone, Hears, ShowsTool, StartsJob, Waits, TaskEnds, Ignores
<1>3. work'[p] = w /\ \A q \in Prompts : q # p => work'[q] = work[q]
  BY <1>2 DEF AcpTypes, AcpTypeOK
<1>4. ~cancel_complete /\ holder = p /\ prompt[p] = "dispatch"
  BY <1>1 DEF Heeded, TurnHeld
<1>5. \A q \in Prompts : q # p => card'[q] = card[q] /\ ~Running(q)
  BY <1>1 DEF TurnHeld, Task, CommandDone, Hears, ShowsTool, StartsJob, Waits, TaskEnds, AcpTypes, AcpTypeOK
<1>6. messages' \subseteq messages \cup {p} /\ job' \in {job, p}
  BY DEF Task, CommandDone, Hears, ShowsTool, StartsJob, Waits, TaskEnds, Ignores
<1>7. \A k \in CancelRequests : cancel[k] \notin {"shutdown", "flush"}
  BY <1>1, <1>4 DEF Heeded, Caught, Running
<1>8. ASSUME NEW k \in CancelRequests, cancel[k] = "task" PROVE Chased(k)'
  <2>1. target[k] = p /\ dispatcher.requested
    BY <1>1, <1>4, <1>8 DEF CancelHeld, Heeded, Chased, Running
  <2>2. told[p]
    BY <1>1, <1>8, <2>1 DEF Heeded, Chased, Running
  <2>3. CASE ShowsTool(p) \/ StartsJob(p)
    <3>1. told' = told /\ w = "handling"
      BY <1>2, <1>3, <2>3 DEF ShowsTool, StartsJob, Works, AcpTypes, AcpTypeOK
    <3> QED
      BY <1>1, <1>3, <1>4, <2>1, <2>2, <3>1 DEF Chased, Running
  <2>4. CASE TaskEnds(p)
    <3>1. w \in {"limit", "failed", "cancelled"}
      BY <1>2, <1>3, <2>2, <2>4 DEF TaskEnds, Works, AcpTypes, AcpTypeOK
    <3> QED
      BY <1>1, <1>3, <1>4, <2>1, <3>1 DEF Chased
  <2>5. ~CommandDone(p) /\ ~Hears(p) /\ ~Waits(p)
    BY <2>2 DEF CommandDone, Hears, Waits
  <2> QED
    BY <2>3, <2>4, <2>5 DEF Task
<1>9. ASSUME NEW q \in Prompts, reason[q] = "cancelled" PROVE work'[q] = "cancelled" /\ Still(q)'
  <2>1. work[q] = "cancelled" /\ Still(q) /\ q # p
    BY <1>1, <1>9 DEF Heeded, Running
  <2> QED
    BY <1>3, <1>5, <1>6, <2>1 DEF Still
<1> QED
  BY <1>1, <1>4, <1>7, <1>8, <1>9 DEF Heeded

\* A cancellation that leaves a free lock, and what was still under it.
LEMMA HeededOver ==
  ASSUME AcpTypes, Heeded, UNCHANGED <<prompt, reason, work, job>>, messages' \subseteq messages,
         UNCHANGED card \/ FailOpenTools,
         \A k \in CancelRequests : cancel'[k] \notin {"task", "shutdown", "flush"},
         \A p \in Prompts : ~Running(p),
         \A p \in Prompts : prompt[p] \in {"dispatch", "wait"} /\ work[p] = "cancelled" => Still(p)'
  PROVE  Heeded'
<1>1. \A p \in Prompts : Still(p) => Still(p)'
  BY FailedTools DEF Still
<1>2. \A p \in Prompts : ~Running(p)'
  BY DEF Running
<1> QED
  BY <1>1, <1>2 DEF Heeded

\* The steps of a cancellation.
LEMMA HeededByCancel ==
  ASSUME AcpTypes, TurnHeld, CancelHeld, ToldToStop, TextKept, Heeded,
         NEW k \in CancelRequests, CancelArrives(k) \/ CancelGoesOn(k)
  PROVE  Heeded'
<1>0. UNCHANGED <<prompt, reason, holder, work, job>> /\ messages' \subseteq messages
  BY DEF CancelGoesOn, CancelArrives, CancelActs, CancelClears, CancelReports, CancelEnds, sessionVars, taskVars
<1>1. UNCHANGED card \/ FailOpenTools
  BY DEF CancelGoesOn, CancelArrives, CancelActs, CancelClears, CancelReports, CancelEnds, taskVars
<1>2. \A p \in Prompts : Still(p) => Still(p)'
  BY <1>0, <1>1, FailedTools DEF Still
<1>3. \A l \in CancelRequests : l # k /\ Holds(k) => ~Holds(l)
  BY DEF CancelHeld
<1>4. \A p \in Prompts : (Running(p)' <=> Running(p)) /\ (Running(p) => holder = p)
  BY <1>0 DEF Running, TurnHeld
<1>5. CASE CancelArrives(k)
  <2>1. cancel[k] = "idle" /\ CancelGoes(k, "lock") /\ UNCHANGED <<target, cancel_complete, dispatcher, told, card, messages>>
    BY <1>5 DEF CancelArrives, sessionVars, taskVars
  <2>2. cancel'[k] = "lock" /\ \A l \in CancelRequests : l # k => cancel'[l] = cancel[l]
    BY <2>1, CancelMoves
  <2>3. \A l \in CancelRequests : cancel'[l] = "task" => Chased(l)'
    BY <1>0, <1>4, <2>1, <2>2 DEF Heeded, Chased, CancelHeld
  <2>4. \A l \in CancelRequests : cancel'[l] \in {"shutdown", "flush"} => Caught(l)'
    BY <1>0, <2>1, <2>2 DEF Heeded, Caught, Still
  <2> QED
    BY <1>0, <1>2, <1>4, <2>1, <2>3, <2>4 DEF Heeded
<1>6. CASE CancelActs(k) /\ dispatcher.active # Nobody /\ Running(dispatcher.active)
  <2>1. /\ CancelGoes(k, "task") /\ target' = [target EXCEPT ![k] = dispatcher.active]
        /\ dispatcher' = [dispatcher EXCEPT !.requested = TRUE, !.cancelling = TRUE]
        /\ told' = [told EXCEPT ![dispatcher.active] = TRUE]
        /\ UNCHANGED cancel_complete /\ \A l \in CancelRequests : ~Holds(l)
    BY <1>6 DEF CancelActs
  <2>2. cancel'[k] = "task" /\ \A l \in CancelRequests : l # k => cancel'[l] = cancel[l]
    BY <2>1, CancelMoves
  <2>3. dispatcher.active \in Prompts
    BY <1>6 DEF AcpTypes
  <2>4. dispatcher'.requested /\ target'[k] = dispatcher.active /\ told'[dispatcher.active]
    BY <2>1, <2>3 DEF AcpTypes
  <2>5. ~cancel_complete
    BY <1>6, <2>3 DEF Heeded
  <2>6. work'[target'[k]] \in {"command", "racing", "handling"} /\ told'[target'[k]]
    BY <1>0, <1>6, <2>4 DEF Running
  <2>7. Chased(k)'
    BY <2>1, <2>4, <2>5, <2>6 DEF Chased, Running
  <2>8. \A l \in CancelRequests : cancel'[l] \in {"task", "shutdown", "flush"} => l = k
    BY <2>1, <2>2 DEF Holds
  <2> QED
    BY <1>0, <1>2, <1>4, <2>1, <2>2, <2>7, <2>8 DEF Heeded
<1>7. CASE CancelActs(k) /\ ~(dispatcher.active # Nobody /\ Running(dispatcher.active))
  <2>1. CancelGoes(k, "over") /\ \A l \in CancelRequests : ~Holds(l)
    BY <1>7 DEF CancelActs
  <2>2. cancel'[k] = "over" /\ \A l \in CancelRequests : l # k => cancel'[l] = cancel[l]
    BY <2>1, CancelMoves
  <2>3. \A p \in Prompts : ~Running(p)
    BY <1>7, AcpAssumption DEF TurnHeld, Nobody
  <2>4. \A p \in Prompts : prompt[p] \in {"dispatch", "wait"} /\ work[p] = "cancelled" => Still(p)'
    <3>1. \A p \in Prompts : prompt[p] \in {"dispatch", "wait"} /\ work[p] = "cancelled" => cancel_complete
      BY <2>1 DEF ToldToStop
    <3> QED
      BY <1>2, <3>1 DEF Heeded
  <2>5. \A l \in CancelRequests : cancel'[l] \notin {"task", "shutdown", "flush"}
    BY <2>1, <2>2 DEF Holds
  <2> QED
    BY <1>0, <1>1, <2>3, <2>4, <2>5, HeededOver
<1>8. CASE CancelClears(k)
  <2>1. cancel[k] = "task" /\ ~Running(target[k]) /\ \A l \in CancelRequests : l # k => ~Holds(l)
    BY <1>3, <1>8 DEF CancelClears, Holds
  <2>2. Chased(k) /\ target[k] \in Prompts
    BY <2>1 DEF Heeded, CancelHeld
  <2>3. \A p \in Prompts : ~Running(p)
    BY <1>4, <2>1 DEF CancelHeld, Running
  <2>4. CASE work[target[k]] \in {"limit", "failed"}
    <3>1. CancelGoes(k, "over")
      BY <1>8, <2>4 DEF CancelClears
    <3>2. cancel'[k] = "over" /\ \A l \in CancelRequests : l # k => cancel'[l] = cancel[l]
      BY <3>1, CancelMoves
    <3>3. \A l \in CancelRequests : cancel'[l] \notin {"task", "shutdown", "flush"}
      BY <2>1, <3>2 DEF Holds
    <3>4. ASSUME NEW p \in Prompts, prompt[p] \in {"dispatch", "wait"}, work[p] = "cancelled" PROVE FALSE
      BY <2>1, <2>4, <3>4 DEF TurnHeld, CancelHeld
    <3> QED
      BY <1>0, <1>1, <2>3, <3>3, <3>4, HeededOver
  <2>5. CASE work[target[k]] \notin {"limit", "failed"}
    <3>1. CancelGoes(k, "shutdown") /\ messages' = {} /\ UNCHANGED <<cancel_complete, dispatcher>>
      BY <1>8, <2>5 DEF CancelClears
    <3>2. cancel'[k] = "shutdown" /\ \A l \in CancelRequests : l # k => cancel'[l] = cancel[l]
      BY <3>1, CancelMoves
    <3>3. \A l \in CancelRequests : cancel'[l] \in {"task", "shutdown", "flush"} => l = k
      BY <2>1, <3>2 DEF Holds
    <3>4. /\ dispatcher.requested /\ ~cancel_complete /\ holder = target[k] /\ work[holder] = "cancelled"
          /\ prompt[holder] \in {"dispatch", "wait"}
      BY <2>1, <2>2, <2>5 DEF Chased, TurnHeld
    <3>5. Caught(k)'
      BY <1>0, <2>2, <3>1, <3>2, <3>4 DEF Caught
    <3> QED
      BY <1>0, <1>2, <1>4, <2>3, <3>1, <3>2, <3>3, <3>4, <3>5 DEF Heeded
  <2> QED
    BY <2>4, <2>5
<1>9. CASE CancelReports(k)
  <2>1. cancel[k] = "shutdown" /\ job = Nobody /\ FailOpenTools /\ UNCHANGED messages
        /\ \A l \in CancelRequests : l # k => ~Holds(l)
    BY <1>3, <1>9 DEF CancelReports, Holds
  <2>2. Caught(k) /\ \A p \in Prompts : ~Running(p)
    BY <2>1 DEF Heeded, CancelHeld
  <2>3. \A p \in Prompts : Still(p)'
    BY <1>0, <2>1, <2>2, FailedTools, AcpAssumption DEF Still, Caught, Nobody
  <2>4. CASE CancelGoes(k, "over")
    <3>1. cancel'[k] = "over" /\ \A l \in CancelRequests : l # k => cancel'[l] = cancel[l]
      BY <2>4, CancelMoves
    <3>2. \A l \in CancelRequests : cancel'[l] \notin {"task", "shutdown", "flush"}
      BY <2>1, <3>1 DEF Holds
    <3> QED
      BY <1>0, <1>1, <2>2, <2>3, <3>2, HeededOver
  <2>5. CASE CancelGoes(k, "flush") /\ UNCHANGED cancel_complete
    <3>1. cancel'[k] = "flush" /\ \A l \in CancelRequests : l # k => cancel'[l] = cancel[l]
      BY <2>5, CancelMoves
    <3>2. \A l \in CancelRequests : cancel'[l] \in {"task", "shutdown", "flush"} => l = k
      BY <2>1, <3>1 DEF Holds
    <3>3. dispatcher'.requested
      <4>1. dispatcher' = [dispatcher EXCEPT !.cancelling = FALSE]
        BY <1>9 DEF CancelReports
      <4>2. dispatcher.requested
        BY <2>2 DEF Caught
      <4> QED
        BY <4>1, <4>2 DEF AcpTypes
    <3>4. Caught(k)'
      <4>1. holder \in Prompts /\ holder' = holder
        BY <1>0, <2>2 DEF Caught
      <4>2. Still(holder)'
        BY <2>3, <4>1 DEF Still
      <4> QED
        BY <1>0, <2>1, <2>2, <2>5, <3>3, <4>1, <4>2 DEF Caught
    <3> QED
      BY <1>0, <1>2, <1>4, <2>2, <2>3, <3>1, <3>2, <3>4 DEF Heeded
  <2> QED
    BY <1>9, <2>4, <2>5 DEF CancelReports
<1>10. CASE CancelEnds(k)
  <2>1. cancel[k] = "flush" /\ CancelGoes(k, "over") /\ \A l \in CancelRequests : l # k => ~Holds(l)
    BY <1>3, <1>10 DEF CancelEnds, Holds
  <2>2. cancel'[k] = "over" /\ \A l \in CancelRequests : l # k => cancel'[l] = cancel[l]
    BY <2>1, CancelMoves
  <2>3. Caught(k) /\ Still(holder) /\ holder \in Prompts
    BY <2>1 DEF Heeded, Caught
  <2>4. \A p \in Prompts : ~Running(p)
    BY <1>4, <2>3 DEF Caught, Running
  <2>5. \A p \in Prompts : prompt[p] \in {"dispatch", "wait"} => holder = p
    BY DEF TurnHeld
  <2>6. \A p \in Prompts : prompt[p] \in {"dispatch", "wait"} => Still(p)'
    BY <1>2, <2>3, <2>5
  <2>7. \A l \in CancelRequests : cancel'[l] \notin {"task", "shutdown", "flush"}
    BY <2>1, <2>2 DEF Holds
  <2> QED
    BY <1>0, <1>1, <2>4, <2>6, <2>7, HeededOver
<1> QED
  BY <1>5, <1>6, <1>7, <1>8, <1>9, <1>10 DEF CancelGoesOn

\* As long as no turn ignores its cancellation.
LEMMA HeededKept ==
  ASSUME AcpTypes, TurnHeld, CancelHeld, ToldToStop, TextKept, Shown, ignored = {} => Heeded, AcpNext, ignored' = {}
  PROVE  Heeded'
<1>1. \A p \in Prompts : ~Ignores(p)
  BY DEF Ignores
<1>2. ignored = {}
  BY <1>1 DEF AcpNext, Collides, Begins, PromptGoesOn, Resumes, Stopped, Flushed,
              Task, CommandDone, Hears, ShowsTool, StartsJob, Waits, TaskEnds,
              CancelGoesOn, CancelArrives, CancelActs, CancelClears, CancelReports, CancelEnds,
              Pump, PumpSends, PumpDrops, PumpMarks, PumpStops, PumpDies, JobEnds,
              CloseBegins, CloseGoesOn, CloseBridge, ClosePump, CloseAgent, history
<1>3. Heeded
  BY <1>2
<1>4. CASE Pump \/ JobEnds \/ CloseBegins \/ CloseGoesOn
  <2>1. /\ UNCHANGED <<prompt, reason, cancel, target, holder, cancel_complete, dispatcher, work, told, messages>>
        /\ UNCHANGED card \/ FailOpenTools
        /\ UNCHANGED job \/ job' = Nobody
    BY <1>4 DEF Pump, JobEnds, CloseBegins, CloseGoesOn, CloseBridge, ClosePump, CloseAgent, sessionVars, taskVars
  <2>2. \A p \in Prompts : Still(p) => Still(p)'
    BY <2>1, FailedTools, AcpAssumption DEF Still, Nobody
  <2> QED
    BY <1>3, <2>1, <2>2, HeededStays
<1> QED
  BY <1>1, <1>3, <1>4, HeededByPrompt, HeededByBegins, HeededByTask, HeededByCancel DEF AcpNext

----------------------------------------------------------------------------
(***************************************************************************)
(* The updates of a prompt, its marker and its answer.                     *)
(***************************************************************************)

\* The tool call that is open after the answer is one that a slash command left.
LEMMA OpenAnswered ==
  ASSUME AcpTypes, Shown, ignored = {} => Heeded, FailOpenTools, UNCHANGED work,
         NEW p \in Prompts, p \in OpenTools, Sound(p), Settled(p)
  PROVE  ~CardLeft(p) /\ CardLeft(p)'
<1>1. card[p] = "open" /\ card'[p] = "failed"
  BY FailedTool
<1>2. work[p] # "cancelled"
  <2> SUFFICES ASSUME work[p] = "cancelled" PROVE FALSE
    OBVIOUS
  <2>1. reason[p] = "cancelled"
    BY DEF Shown, Concluded
  <2> QED
    BY <1>1, <2>1 DEF Settled, Heeded, Still
<1>3. work[p] = "failed" /\ p \in Slash
  BY <1>1, <1>2 DEF Shown, Concluded
<1> QED
  BY <1>1, <1>3 DEF CardLeft

\* A tool call that was left open and failed stays so.
LEMMA CardStays ==
  ASSUME AcpTypes, NEW p \in Prompts, CardLeft(p), work'[p] = work[p], card'[p] = card[p] \/ FailOpenTools
  PROVE  CardLeft(p)'
<1>1. card[p] = "failed" /\ card[p] # "open"
  BY DEF CardLeft
<1>2. card'[p] = "failed"
  BY <1>1, FailedTools
<1> QED
  BY <1>2 DEF CardLeft

\* A step that posts updates of others, or of a turn that is not answered, or
\* about a tool call that a slash command left open.
LEMMA DeliveredElsewhere ==
  ASSUME AcpTypes, NEW S \in SUBSET Prompts, NEW w \in Flushers, Posts(S, w), ignored \subseteq ignored',
         NEW p \in Prompts, p # w, Delivered(p), prompt'[p] = prompt[p], reason'[p] = reason[p],
         CardLeft(p) => CardLeft(p)',
         p \in S /\ Settled(p) => prompt[p] # "flush" /\ (Sound(p) => ~CardLeft(p) /\ CardLeft(p)')
  PROVE  Delivered(p)'
<1>1. /\ bridge'.error = bridge.error /\ Grows(bridge.queue, bridge'.queue, S, {Mark(w)})
      /\ p \in Flushers /\ marker'[p] = marker[p]
  <2>1. p \in Flushers
    BY DEF Flushers
  <2>2. bridge \in Bridge /\ marker \in [Flushers -> Marks]
    BY DEF AcpTypes, AcpTypeOK, Marks
  <2> QED
    BY <2>1, <2>2, PostsShape
<1>2. Settled(p)' => Settled(p)
  BY DEF Settled
<1>3. Sound(p)' <=> Sound(p)
  BY DEF Sound
<1>4. Mark(p) # Mark(w) /\ Mark(p) # Update(S)
  BY ItemKinds
<1>5. Mark(p) \notin Members(bridge.queue) => Mark(p) \notin Members(bridge'.queue)
  BY <1>1, <1>4 DEF Grows
<1>6. /\ p \notin S => /\ Quiet(p, bridge.queue) => Quiet(p, bridge'.queue)
                       /\ Ordered(p, bridge.queue) => Ordered(p, bridge'.queue)
                       /\ Once(p, bridge.queue) => Once(p, bridge'.queue)
      /\ Quiet(p, bridge.queue) => Once(p, bridge'.queue)
  BY <1>1 DEF Grows
<1>7. ASSUME prompt'[p] = "flush", Settled(p)' PROVE Ordered(p, bridge'.queue)
  <2>1. prompt[p] = "flush" /\ Settled(p)
    BY <1>2, <1>7
  <2>2. p \notin S /\ Ordered(p, bridge.queue)
    BY <2>1 DEF Delivered
  <2> QED
    BY <1>6, <2>2
<1>8. ASSUME (prompt'[p] = "flush" /\ marker'[p] = "sent") \/ Sound(p)', Settled(p)'
      PROVE  IF CardLeft(p)' THEN Once(p, bridge'.queue)
             ELSE p \notin bridge'.error /\ Quiet(p, bridge'.queue)
  <2>1. IF CardLeft(p) THEN Once(p, bridge.queue) ELSE p \notin bridge.error /\ Quiet(p, bridge.queue)
    BY <1>1, <1>2, <1>3, <1>8 DEF Delivered
  <2>2. CASE p \in S
    <3>1. Sound(p) /\ ~CardLeft(p) /\ CardLeft(p)'
      BY <1>2, <1>3, <1>8, <2>2
    <3> QED
      BY <1>6, <2>1, <3>1
  <2>3. CASE p \notin S
    BY <1>1, <1>6, <2>1, <2>3
  <2> QED
    BY <2>2, <2>3
<1> QED
  BY <1>1, <1>5, <1>7, <1>8 DEF Delivered

\* The prompt that posts: its updates come before its marker.
LEMMA DeliveredAtEnd ==
  ASSUME AcpTypes, NEW p \in Prompts, NEW S \in SUBSET Prompts, Posts(S, p), NEW r, Delivered(p),
         prompt[p] \in {"idle", "dispatch", "wait"}, Ends(p, r)
  PROVE  Delivered(p)'
<1>1. Grows(bridge.queue, bridge'.queue, S, {Mark(p)}) /\ p \in Flushers
  BY PostsShape DEF AcpTypes, AcpTypeOK, Marks, Flushers
<1>2. Ordered(p, bridge'.queue)
  BY <1>1 DEF Grows, Delivered
<1>3. CASE Answers(p, "error")
  <2>1. prompt'[p] = "over" /\ reason'[p] = "error"
    BY <1>3 DEF Answers, AcpTypes, AcpTypeOK
  <2> QED
    BY <2>1 DEF Delivered, Sound
<1>4. CASE ~Answers(p, "error")
  <2>1. prompt'[p] = "flush" /\ marker'[p] = "queued"
    BY <1>1, <1>4 DEF Ends, AcpTypes, AcpTypeOK
  <2> QED
    BY <1>2, <2>1 DEF Delivered, Sound
<1> QED
  BY <1>3, <1>4

\* A prompt that posts nothing of its own marker and goes on.
LEMMA DeliveredStill ==
  ASSUME AcpTypes, NEW p \in Prompts, NEW S \in SUBSET Prompts, NEW b, Extends(b, S), bridge' = b, UNCHANGED marker,
         Delivered(p), prompt[p] \in {"idle", "dispatch", "wait"}, prompt'[p] \in {"dispatch", "wait"}
  PROVE  Delivered(p)'
<1>1. Grows(bridge.queue, bridge'.queue, S, {})
  BY ExtendsShape DEF AcpTypes
<1>2. Mark(p) # Update(S)
  BY ItemKinds
<1>3. Mark(p) \notin Members(bridge'.queue)
  BY <1>1, <1>2 DEF Grows, Delivered
<1> QED
  BY <1>3 DEF Delivered, Sound

\* The steps of a prompt and of its task.
LEMMA DeliveredByPrompt ==
  ASSUME AcpTypes, TurnHeld, Shown, UpdatesFirst, ignored = {} => Heeded, NEW p \in Prompts,
         Collides(p) \/ Begins(p) \/ PromptGoesOn(p) \/ Task(p)
  PROVE  UpdatesFirst'
<1>0. /\ bridge \in Bridge /\ {p} \in SUBSET Prompts /\ p \in Flushers /\ Extends(bridge, {p})
      /\ OpenTools \in SUBSET Prompts
  BY OwnUpdate, ToolsFailedShape DEF AcpTypes
<1>1. ignored \subseteq ignored'
  BY DEF Collides, Begins, PromptGoesOn, Resumes, Stopped, Flushed,
         Task, CommandDone, Hears, ShowsTool, StartsJob, Waits, TaskEnds, Ignores, history
<1>2. \A q \in Prompts : q # p => prompt'[q] = prompt[q] /\ reason'[q] = reason[q] /\ prompt[q] \in {"idle", "over"}
  <2>1. CASE Begins(p) \/ Task(p)
    <3>1. UNCHANGED reason /\ (UNCHANGED prompt \/ prompt' = [prompt EXCEPT ![p] = "dispatch"])
      BY <2>1 DEF Begins, Task, Works, CommandDone, Hears, ShowsTool, StartsJob, Waits, TaskEnds, Ignores
    <3>2. holder = Nobody \/ holder = p
      BY <2>1 DEF TurnHeld, Begins, Task, CommandDone, Hears, ShowsTool, StartsJob, Waits, TaskEnds, Ignores, Running
    <3> QED
      BY <3>1, <3>2, AcpAssumption DEF AcpTypes, AcpTypeOK, TurnHeld, Nobody
  <2>2. CASE Collides(p) \/ PromptGoesOn(p)
    <3>1. \/ \E r : Ends(p, r) \/ Answers(p, r)
          \/ prompt' = [prompt EXCEPT ![p] = "wait"] /\ UNCHANGED reason
      BY <2>2, TurnEnds DEF PromptGoesOn, Flushed, AcpTypes
    <3>2. \A q \in Prompts : q # p => prompt'[q] = prompt[q] /\ reason'[q] = reason[q]
      BY <3>1 DEF Ends, Answers, AcpTypes, AcpTypeOK
    <3>3. holder = Nobody \/ holder = p
      BY <2>2 DEF Collides, PromptGoesOn, Resumes, Stopped, Flushed, TurnHeld
    <3> QED
      BY <3>2, <3>3, AcpAssumption DEF AcpTypes, AcpTypeOK, TurnHeld, Nobody
  <2> QED
    BY <2>1, <2>2
<1>3. \A q \in Prompts : q # p => work'[q] = work[q] /\ (card'[q] = card[q] \/ FailOpenTools)
  BY DEF Collides, Begins, PromptGoesOn, Resumes, Stopped, Flushed, taskVars, AcpTypes, AcpTypeOK,
         Task, Works, CommandDone, Hears, ShowsTool, StartsJob, Waits, TaskEnds, Ignores
<1>4. ASSUME NEW S \in SUBSET Prompts, Posts(S, p), S = {p} \/ (S = OpenTools /\ FailOpenTools /\ UNCHANGED work),
             NEW q \in Prompts, q # p
      PROVE  Delivered(q)'
  <2>1. q \in S /\ Settled(q) => prompt[q] # "flush" /\ (Sound(q) => ~CardLeft(q) /\ CardLeft(q)')
    BY <1>2, <1>4, OpenAnswered
  <2>2. Delivered(q) /\ (CardLeft(q) => CardLeft(q)')
    BY <1>4, <1>3, CardStays DEF UpdatesFirst
  <2> QED
    BY <1>0, <1>1, <1>2, <1>4, <2>1, <2>2, DeliveredElsewhere
<1>5. Delivered(p)
  BY DEF UpdatesFirst
<1>6. CASE Flushed(p)
  <2>1. UNCHANGED bridge /\ Forgotten(p) /\ prompt[p] = "flush"
        /\ Answers(p, IF marker[p] = "sent" THEN reason[p] ELSE "error")
        /\ \A q \in Prompts : CardLeft(q)' <=> CardLeft(q)
    BY <1>6 DEF Flushed, CardLeft, taskVars
  <2>2. \A q \in Prompts : q # p => marker'[q] = marker[q]
    BY <2>1 DEF Forgotten, AcpTypes, AcpTypeOK, Flushers
  <2>3. ASSUME NEW q \in Prompts, q # p PROVE Delivered(q)'
    <3>1. Delivered(q) /\ (Settled(q)' => Settled(q)) /\ (Sound(q)' <=> Sound(q))
      BY <1>1, <1>2, <2>3 DEF UpdatesFirst, Settled, Sound
    <3> QED
      BY <1>2, <2>1, <2>2, <2>3, <3>1 DEF Delivered
  <2>4. Delivered(p)'
    <3>1. prompt'[p] = "over" /\ reason'[p] = IF marker[p] = "sent" THEN reason[p] ELSE "error"
      BY <2>1 DEF Answers, AcpTypes, AcpTypeOK
    <3>2. Sound(p)' => marker[p] = "sent" /\ reason'[p] = reason[p]
      BY <3>1 DEF Sound
    <3>3. Sound(p)' /\ Settled(p)' =>
            IF CardLeft(p) THEN Once(p, bridge.queue) ELSE p \notin bridge.error /\ Quiet(p, bridge.queue)
      BY <1>1, <1>5, <2>1, <3>2 DEF Settled, Delivered
    <3> QED
      BY <2>1, <3>1, <3>3 DEF Delivered
  <2> QED
    BY <2>3, <2>4 DEF UpdatesFirst
<1>7. CASE Begins(p) \/ Task(p) \/ (Resumes(p) /\ prompt' = [prompt EXCEPT ![p] = "wait"])
  <2>1. UNCHANGED marker /\ (\E b : Extends(b, {p}) /\ bridge' = b)
    <3>1. CASE ShowsTool(p)
      BY <3>1, OwnUpdate DEF ShowsTool
    <3>2. CASE ~ShowsTool(p)
      <4>1. CASE Begins(p) \/ Task(p)
        BY <1>0, <3>2, <4>1 DEF Begins, Task, CommandDone, Hears, StartsJob, Waits, TaskEnds, Ignores, bridgeVars
      <4>2. CASE Resumes(p) /\ prompt' = [prompt EXCEPT ![p] = "wait"]
        <5>1. prompt'[p] = "wait"
          BY <4>2 DEF AcpTypes, AcpTypeOK
        <5>2. ~Ends(p, "end_turn") /\ ~Ends(p, "limit") /\ ~Answers(p, "error")
          BY <5>1 DEF Ends, Answers, AcpTypes, AcpTypeOK
        <5>3. UNCHANGED bridgeVars
          BY <1>0, <4>2, <5>2, TurnEnds
        <5> QED
          BY <1>0, <5>3 DEF bridgeVars
      <4> QED
        BY <1>7, <4>1, <4>2
    <3> QED
      BY <3>1, <3>2
  <2>2. Posts({p}, p)
    BY <2>1 DEF Posts
  <2>3. prompt[p] \in {"idle", "dispatch", "wait"} /\ prompt'[p] \in {"dispatch", "wait"}
    <3>1. CASE Begins(p)
      BY <3>1 DEF Begins, AcpTypes, AcpTypeOK
    <3>2. CASE Task(p)
      BY <3>2 DEF Task, Works, CommandDone, Hears, ShowsTool, StartsJob, Waits, TaskEnds, Ignores, Running, TurnHeld
    <3>3. CASE Resumes(p) /\ prompt' = [prompt EXCEPT ![p] = "wait"]
      BY <3>3 DEF Resumes, AcpTypes, AcpTypeOK
    <3> QED
      BY <1>7, <3>1, <3>2, <3>3
  <2>4. Delivered(p)'
    BY <1>0, <1>5, <2>1, <2>3, DeliveredStill
  <2> QED
    BY <1>0, <1>4, <2>2, <2>4 DEF UpdatesFirst
<1>8. CASE Collides(p) \/ Stopped(p) \/ (Resumes(p) /\ prompt' # [prompt EXCEPT ![p] = "wait"])
  <2>1. prompt[p] \in {"idle", "dispatch", "wait"}
    BY <1>8 DEF Collides, Stopped, Resumes
  <2>2. (\E r : Ends(p, r)) /\ (Posts({p}, p) \/ (Posts(OpenTools, p) /\ FailOpenTools /\ UNCHANGED work))
    <3>1. \E r : Ends(p, r)
      BY <1>0, <1>8, TurnEnds DEF Ends
    <3>2. Posts({p}, p) \/ (Posts(OpenTools, p) /\ FailOpenTools /\ UNCHANGED work)
      BY <1>0, <1>8, PromptPosts DEF Resumes
    <3> QED
      BY <3>1, <3>2
  <2>3. Delivered(p)'
    BY <1>0, <1>5, <2>1, <2>2, DeliveredAtEnd
  <2> QED
    BY <1>0, <1>4, <2>2, <2>3 DEF UpdatesFirst
<1> QED
  BY <1>6, <1>7, <1>8 DEF PromptGoesOn

\* A step that leaves the prompts, and their markers, where they are.
LEMMA DeliveredStays ==
  ASSUME UNCHANGED <<prompt, reason, ignored>>, bridge'.error = bridge.error,
         \A p \in Prompts : CardLeft(p) => CardLeft(p)',
         \A p \in Prompts : marker'[p] = marker[p],
         bridge'.queue = bridge.queue \/ Grows(bridge.queue, bridge'.queue, {}, {StopMark}),
         UpdatesFirst
  PROVE  UpdatesFirst'
<1> SUFFICES ASSUME NEW p \in Prompts PROVE Delivered(p)'
  BY DEF UpdatesFirst
<1>1. Mark(p) # StopMark /\ \A S : Mark(p) # Update(S)
  BY ItemKinds
<1>2. /\ Mark(p) \notin Members(bridge.queue) => Mark(p) \notin Members(bridge'.queue)
      /\ Quiet(p, bridge.queue) => Quiet(p, bridge'.queue)
      /\ Ordered(p, bridge.queue) => Ordered(p, bridge'.queue)
      /\ Once(p, bridge.queue) => Once(p, bridge'.queue)
      /\ Quiet(p, bridge.queue) => Once(p, bridge'.queue)
  <2>1. Quiet(p, bridge.queue) => Once(p, bridge.queue)
    BY DEF Quiet, Once
  <2>2. CASE bridge'.queue = bridge.queue
    BY <2>1, <2>2
  <2>3. CASE Grows(bridge.queue, bridge'.queue, {}, {StopMark})
    BY <1>1, <2>3 DEF Grows
  <2> QED
    BY <2>2, <2>3
<1>3. Delivered(p) /\ (CardLeft(p) => CardLeft(p)')
  BY DEF UpdatesFirst
<1> QED
  BY <1>2, <1>3 DEF Delivered, Sound, Settled

\* The steps of a cancellation, which fails the tool calls of a turn that stopped.
LEMMA DeliveredByCancel ==
  ASSUME AcpTypes, TurnHeld, CancelHeld, Shown, UpdatesFirst, ignored = {} => Heeded,
         NEW k \in CancelRequests, CancelArrives(k) \/ CancelGoesOn(k)
  PROVE  UpdatesFirst'
<1>0. UNCHANGED <<prompt, reason, ignored>> /\ k \in Flushers /\ k \notin Prompts
  BY AcpAssumption
     DEF CancelGoesOn, CancelArrives, CancelActs, CancelClears, CancelReports, CancelEnds, history, Flushers
<1>1. \A p \in Prompts : CardLeft(p) => CardLeft(p)'
  <2>1. UNCHANGED work /\ (UNCHANGED card \/ FailOpenTools)
    BY DEF CancelGoesOn, CancelArrives, CancelActs, CancelClears, CancelReports, CancelEnds, taskVars
  <2> QED
    BY <2>1, CardStays
<1>2. CASE CancelReports(k)
  <2>0. bridge \in Bridge /\ OpenTools \in SUBSET Prompts /\ \A p \in OpenTools : card[p] = "open"
    BY ToolsFailedShape DEF AcpTypes
  <2>1. Posts(OpenTools, k) /\ cancel[k] = "shutdown"
    BY <1>2, <2>0, CancelPosts DEF CancelReports
  <2>2. ASSUME NEW p \in OpenTools, Settled(p), prompt[p] = "flush" PROVE FALSE
    <3>1. p \in Prompts /\ card[p] = "open" /\ holder = p
      BY <2>0, <2>2 DEF TurnHeld
    <3>2. work[p] \in {"none", "result", "cancelled"}
      BY <2>1, <3>1 DEF CancelHeld
    <3>3. work[p] = "cancelled" /\ reason[p] = "cancelled"
      BY <2>2, <3>1, <3>2 DEF Shown, Concluded
    <3>4. Still(p)
      BY <2>2, <3>1, <3>3 DEF Settled, Heeded
    <3> QED
      BY <3>1, <3>4 DEF Still
  <2>3. ASSUME NEW p \in Prompts PROVE Delivered(p)'
    <3>1. Delivered(p) /\ p # k /\ (p \in OpenTools /\ Settled(p) => prompt[p] # "flush")
      BY <1>0, <2>0, <2>2 DEF UpdatesFirst
    <3>2. p \in OpenTools /\ Settled(p) /\ Sound(p) => ~CardLeft(p) /\ CardLeft(p)'
      BY <1>2, OpenAnswered DEF CancelReports
    <3> QED
      BY <1>0, <1>1, <2>0, <2>1, <3>1, <3>2, DeliveredElsewhere
  <2> QED
    BY <2>3 DEF UpdatesFirst
<1>3. CASE ~CancelReports(k)
  <2>1. UNCHANGED bridge /\ (UNCHANGED marker \/ Forgotten(k))
    BY <1>3 DEF CancelGoesOn, CancelArrives, CancelActs, CancelClears, CancelEnds, bridgeVars
  <2>2. \A p \in Prompts : marker'[p] = marker[p]
    BY <1>0, <2>1 DEF Forgotten, AcpTypes, AcpTypeOK, Flushers
  <2> QED
    BY <1>0, <1>1, <2>1, <2>2, DeliveredStays
<1> QED
  BY <1>2, <1>3

\* The closing, which finds no turn.
LEMMA DeliveredByClose ==
  ASSUME AcpTypes, TurnHeld, Shown, UpdatesFirst, ignored = {} => Heeded, CloseBegins \/ CloseGoesOn \/ JobEnds
  PROVE  UpdatesFirst'
<1>0. /\ UNCHANGED <<prompt, reason, ignored>> /\ "closer" \in Flushers /\ "closer" \notin Prompts
      /\ bridge \in Bridge
  BY AcpAssumption DEF CloseBegins, CloseGoesOn, CloseBridge, ClosePump, CloseAgent, JobEnds, history, Flushers, AcpTypes
<1>1. \A p \in Prompts : CardLeft(p) => CardLeft(p)'
  <2>1. UNCHANGED work /\ (UNCHANGED card \/ FailOpenTools)
    BY DEF CloseBegins, CloseGoesOn, CloseBridge, ClosePump, CloseAgent, JobEnds, taskVars
  <2> QED
    BY <2>1, CardStays
<1>2. CASE bridge' = Stop(bridge) /\ (UNCHANGED marker \/ Forgotten("closer"))
  <2>1. bridge'.error = bridge.error /\ Grows(bridge.queue, bridge'.queue, {}, {StopMark})
    BY <1>0, <1>2, StopShape
  <2>2. \A p \in Prompts : marker'[p] = marker[p]
    BY <1>0, <1>2 DEF Forgotten, AcpTypes, AcpTypeOK, Flushers
  <2> QED
    BY <1>0, <1>1, <2>1, <2>2, DeliveredStays
<1>3. CASE UNCHANGED bridgeVars
  BY <1>0, <1>3, <1>1, DeliveredStays DEF bridgeVars
<1>4. CASE CloseBridge /\ FlushBegins("closer", ToolsFailed(bridge))
  <2>1. Posts(OpenTools, "closer") /\ OpenTools \in SUBSET Prompts
    BY <1>4, ToolsFailedShape DEF Posts
  <2>2. \A p \in Prompts : prompt[p] # "flush"
    BY <1>4, AcpAssumption DEF CloseBridge, TurnHeld, Nobody
  <2>3. ASSUME NEW p \in Prompts PROVE Delivered(p)'
    <3>1. Delivered(p) /\ p # "closer" /\ prompt[p] # "flush"
      BY <1>0, <2>2 DEF UpdatesFirst
    <3>2. p \in OpenTools /\ Settled(p) /\ Sound(p) => ~CardLeft(p) /\ CardLeft(p)'
      BY <1>4, OpenAnswered DEF CloseBridge
    <3> QED
      BY <1>0, <1>1, <2>1, <3>1, <3>2, DeliveredElsewhere
  <2> QED
    BY <2>3 DEF UpdatesFirst
<1> QED
  BY <1>2, <1>3, <1>4 DEF CloseBegins, CloseGoesOn, CloseBridge, ClosePump, CloseAgent, JobEnds

\* The pump: an update that is lost is not of a prompt that is answered, and
\* the marker that it reaches has every update of its prompt before it.
LEMMA DeliveredByPump ==
  ASSUME AcpTypes, UpdatesFirst, Pump
  PROVE  UpdatesFirst'
<1> SUFFICES ASSUME NEW p \in Prompts PROVE Delivered(p)'
  BY DEF UpdatesFirst
<1> DEFINE q == bridge.queue
           h == Head(bridge.queue)
<1>0. UNCHANGED <<prompt, reason>> /\ Delivered(p) /\ p \in Flushers
  BY DEF Pump, UpdatesFirst, Flushers
<1>1. Settled(p)' <=> Settled(p)
  <2>1. ignored' = ignored
    BY DEF Pump, PumpSends, PumpDrops, PumpMarks, PumpStops, PumpDies, history
  <2> QED
    BY <1>0, <2>1 DEF Settled
<1>2. (Sound(p)' <=> Sound(p)) /\ (CardLeft(p)' <=> CardLeft(p))
  BY <1>0 DEF Sound, CardLeft, Pump, taskVars
<1>3. /\ q \in Seq(Items) /\ q # <<>>
      /\ h.kind = "mark" => \E w \in Flushers : h = Mark(w) /\ h.of = {w}
  BY PumpNext
<1>4. /\ h \in Members(q) /\ Members(Tail(q)) \subseteq Members(q)
      /\ Quiet(p, q) => Quiet(p, Tail(q)) /\ ~About(p, h)
      /\ Ordered(p, q) => Ordered(p, Tail(q))
      /\ Ordered(p, q) /\ h = Mark(p) => Quiet(p, Tail(q))
      /\ Once(p, q) \/ Quiet(p, Tail(q)) => Once(p, Tail(q))
  BY <1>3, QueueServed
<1>5. CASE PumpStops \/ PumpDies
  <2>1. bridge'.queue = <<>> /\ bridge'.error = bridge.error
    BY <1>5 DEF PumpStops, PumpDies, AcpTypes, Bridge
  <2>2. Members(<<>>) = {} /\ Quiet(p, <<>>) /\ Ordered(p, <<>>) /\ Once(p, <<>>)
    BY QueueEmpty
  <2>3. marker'[p] = marker[p] \/ (marker[p] = "queued" /\ marker'[p] = "failed")
    BY <1>0, <1>5 DEF PumpStops, PumpDies
  <2> QED
    BY <1>0, <1>1, <1>2, <2>1, <2>2, <2>3 DEF Delivered
<1>6. CASE PumpSends \/ PumpDrops
  <2>1. /\ h.kind = "update" /\ marker' = marker /\ bridge'.queue = Tail(q)
        /\ bridge'.error = bridge.error \/ bridge'.error = bridge.error \cup h.of
    BY <1>6 DEF PumpSends, PumpDrops, PumpTakes, AcpTypes, Bridge, Popped
  <2>2. Quiet(p, q) => p \notin h.of
    BY <1>4, <2>1 DEF About
  <2>3. p \notin bridge.error /\ Quiet(p, q) => p \notin bridge'.error
    BY <2>1, <2>2
  <2> QED
    BY <1>0, <1>1, <1>2, <1>4, <2>1, <2>3 DEF Delivered
<1>7. CASE PumpMarks
  <2>1. /\ h.kind = "mark" /\ bridge'.queue = Tail(q) /\ bridge'.error = {}
        /\ marker'[p] = IF p \notin h.of THEN marker[p] ELSE IF bridge.error = {} THEN "sent" ELSE "failed"
    BY <1>0, <1>7 DEF PumpMarks, PumpTakes, AcpTypes, Bridge, Popped
  <2>2. p \in h.of => h = Mark(p)
    BY <1>3, <2>1
  <2>3. prompt[p] \in {"idle", "dispatch", "wait"} => p \notin h.of
    BY <1>0, <1>4, <2>2 DEF Delivered
  <2>4. prompt[p] = "flush" /\ Settled(p) /\ p \in h.of => Quiet(p, Tail(q))
    BY <1>0, <1>4, <2>2 DEF Delivered
  <2> QED
    BY <1>0, <1>1, <1>2, <1>4, <2>1, <2>3, <2>4 DEF Delivered
<1> QED
  BY <1>5, <1>6, <1>7 DEF Pump

----------------------------------------------------------------------------
(***************************************************************************)
(* The theorems.                                                           *)
(***************************************************************************)

\* The session starts in the invariant.
LEMMA AcpStarts ==
  ASSUME AcpInit
  PROVE  AcpInv
<1> USE DEF AcpInit
<1>0. \A p \in Prompts : p # Nobody
  BY AcpAssumption DEF Nobody
<1>1. AcpTypes
  <2>1. bridge \in Bridge
    BY QueueEmpty DEF Bridge
  <2> QED
    BY <2>1 DEF AcpTypes, AcpTypeOK
<1>2. TurnHeld
  BY <1>0 DEF TurnHeld, Running
<1>3. CancelHeld /\ ToldToStop
  BY DEF CancelHeld, ToldToStop, Holds
<1>4. TextKept /\ Shown
  BY DEF TextKept, Shown, Concluded, Sound
<1>5. PumpOwes
  BY DEF PumpOwes
<1>6. UpdatesFirst
  BY QueueEmpty DEF UpdatesFirst, Delivered, Sound, Flushers
<1>7. Heeded
  BY DEF Heeded, Running
<1> QED
  BY <1>1, <1>2, <1>3, <1>4, <1>5, <1>6, <1>7 DEF AcpInv

\* Every step keeps the invariant.
LEMMA AcpGoesOn ==
  ASSUME AcpInv, [AcpNext]_acpVars
  PROVE  AcpInv'
<1>1. CASE UNCHANGED acpVars
  <2> USE <1>1 DEF acpVars, sessionVars, taskVars, bridgeVars, history
  <2>1. AcpTypes' /\ TurnHeld' /\ CancelHeld' /\ ToldToStop'
    BY DEF AcpInv, AcpTypes, AcpTypeOK, TurnHeld, CancelHeld, ToldToStop, Running, Holds, Targets
  <2>2. TextKept' /\ Shown' /\ PumpOwes' /\ UpdatesFirst'
    BY DEF AcpInv, TextKept, Shown, Concluded, PumpOwes, UpdatesFirst, Delivered, Sound, Settled, CardLeft,
             Targets, Pumping
  <2>3. ignored' = {} => Heeded'
    BY DEF AcpInv, Heeded, Chased, Caught, Still, Running
  <2> QED
    BY <2>1, <2>2, <2>3 DEF AcpInv
<1>2. CASE AcpNext
  <2> USE DEF AcpInv
  <2>1. AcpTypes' /\ TurnHeld' /\ CancelHeld' /\ ToldToStop'
    BY <1>2, AcpTypesKept, TurnKept, CancelKept, ToldKept
  <2>2. TextKept' /\ Shown' /\ PumpOwes'
    BY <1>2, TextStaysKept, ShownKept, OwesKept
  <2>3. UpdatesFirst'
    BY <1>2, DeliveredByPrompt, DeliveredByCancel, DeliveredByClose, DeliveredByPump DEF AcpNext
  <2>4. ignored' = {} => Heeded'
    BY <1>2, HeededKept
  <2> QED
    BY <2>1, <2>2, <2>3, <2>4
<1> QED
  BY <1>1, <1>2

\* In the invariant nobody waits for what will not come.
LEMMA ComingByInv ==
  ASSUME AcpInv
  PROVE  AnswersComing
<1> USE DEF AcpInv
<1>1. \A p \in Prompts : prompt[p] = "wait" => cancel_complete \/ \E k \in CancelRequests : Holds(k)
  BY DEF ToldToStop
<1>2. \A i : i \in Members(bridge.queue) => Queued(i)
  BY DEF Members, Queued
<1>3. \A w \in Flushers : marker[w] = "queued" => FlushOver(w) \/ Queued(Mark(w))
  BY <1>2 DEF PumpOwes, FlushOver
<1>4. closer = "pump" => ~Pumping(bridge) \/ Queued(StopMark)
  BY <1>2 DEF PumpOwes
<1>5. dispatcher.cancelling => \E k \in CancelRequests : Holds(k)
  BY DEF CancelHeld, Holds
<1>6. holder # Nobody => prompt[holder] \in {"dispatch", "wait", "flush"}
  BY DEF TurnHeld, AcpTypes, AcpTypeOK
<1> QED
  BY <1>1, <1>3, <1>4, <1>5, <1>6 DEF AnswersComing

\* In the invariant the turns are kept apart.
LEMMA KeptByInv ==
  ASSUME AcpInv
  PROVE  TurnsKept
<1> USE DEF AcpInv
<1>1. PromptHeard
  <2>1. \A p \in Prompts : heard[p] \subseteq {p} /\ (work[p] \in {"racing", "handling"} => p \in messages \cup heard[p])
    BY DEF TextKept
  <2>2. \A p \in Prompts : Running(p) => closer \in {"idle", "wait"}
    BY AcpAssumption DEF TurnHeld, AcpTypes, Nobody
  <2> QED
    BY <2>1, <2>2 DEF PromptHeard
<1>2. ASSUME NEW p \in Prompts, Sound(p), reason[p] = "cancelled" => ignored = {}
      PROVE  /\ IF CardLeft(p) THEN \A i, j \in Updates(p) : i = j
                ELSE p \notin unreported /\ Updates(p) = {}
             /\ reason[p] = "cancelled" => ~Running(p) /\ job # p /\ p \notin messages /\ card[p] # "open"
  <2>1. IF CardLeft(p) THEN Once(p, bridge.queue) ELSE p \notin bridge.error /\ Quiet(p, bridge.queue)
    BY <1>2 DEF UpdatesFirst, Delivered, Settled
  <2>2. CardLeft(p) => \A i, j \in Updates(p) : i = j
    BY <2>1 DEF Once, About, Updates
  <2>3. ~CardLeft(p) => p \notin unreported /\ Updates(p) = {}
    BY <2>1 DEF Quiet, About, Updates, PumpOwes
  <2>4. reason[p] = "cancelled" => work[p] = "cancelled" /\ Still(p)
    BY <1>2 DEF Heeded
  <2> QED
    BY <2>2, <2>3, <2>4 DEF Still, Running
<1>3. AnswerIsLast
  BY <1>2 DEF AnswerIsLast
<1> QED
  BY <1>1, <1>3 DEF TurnsKept, AcpTypes

\* Whatever the requests, the agents and the client of a session do, nobody
\* waits for what will not come: a prompt that was cancelled has a cancellation
\* under way, a flush has its marker in the queue of a pump that runs, the
\* closing has its stop there, and a session that keeps prompts out has a
\* prompt or a cancellation under way (SessionRuntime, ACPEventBridge.flush).
THEOREM AnswersAwaited == AcpSpec => []AnswersComing
<1>1. AcpInit => AcpInv
  BY AcpStarts
<1>2. AcpInv /\ [AcpNext]_acpVars => AcpInv'
  BY AcpGoesOn
<1>3. AcpInv => AnswersComing
  BY ComingByInv
<1> QED
  BY <1>1, <1>2, <1>3, PTL DEF AcpSpec

\* The turns of a session do not mix: each is told its own prompt, no turn runs
\* on a closed session, and the answer to a prompt is the last word on it, with
\* every update sent and, after the answer "cancelled", nothing of it left
\* unless a turn ignored its cancellation (prompt, cancel, _pump).  A slash
\* command that failed may be followed by one update more, which fails the tool
\* call that it left open (fail_open_tools).
THEOREM TurnsApart == AcpSpec => []TurnsKept
<1>1. AcpInit => AcpInv
  BY AcpStarts
<1>2. AcpInv /\ [AcpNext]_acpVars => AcpInv'
  BY AcpGoesOn
<1>3. AcpInv => TurnsKept
  BY KeptByInv
<1> QED
  BY <1>1, <1>2, <1>3, PTL DEF AcpSpec

----------------------------------------------------------------------------
(***************************************************************************)
(* The shell session.  Types first.                                        *)
(***************************************************************************)

Past         == Suspended \cup {"sending"}
Lookouts     == {"pinging", "reading", "term", "kill"}
CallRecords  == [place : Past \cup {"idle", "queued", "done"}, lock : Nat,
                 after : {"none", "send", "write", "rewrite", "return"}, pipe : Nat,
                 awaits : Commands \cup {"none", "start"}, first : Commands \cup {"none", "start"}]
Fields       == [started : BOOLEAN, loop : Nat, process : Nat, reader : Nat,
                 pids : SUBSET Commands, lock : Nat]
StdinItems   == [of : Commands \cup {"start"}, do : {"run", "code", "sentinel"}]
Shells       == [stdin : Seq(StdinItems), control : Seq(StdinItems), alive : BOOLEAN]

ShellTypes ==
  /\ session \in Fields /\ session.process \in 0..Len(bash)
  /\ this_loop \in Nat \ {0}
  /\ line \in Seq(Commands) /\ \A i, j \in 1..Len(line) : line[i] = line[j] => i = j
  /\ call \in [Commands -> CallRecords]
  /\ returned \in [Commands -> Commands \cup {"none", "start", "raised", "timed_out", "dead", "cancelled"}]
  /\ bash \in Seq(Shells)
  /\ jobs \subseteq Commands /\ home \in [Commands -> 0..Len(bash)]
  /\ keep \in BOOLEAN
  /\ disturbed \subseteq 1..Len(bash)

\* The calls under way stand in line for one lock, the one that is past it first.
Locking ==
  /\ \A t \in Commands : t \in Members(line) <=> InUse(t)
  /\ \A t, u \in Members(line) : call[t].lock = call[u].lock
  /\ \A t \in Commands : Place(t) \in Past => line # <<>> /\ Head(line) = t
  /\ line # <<>> => session.loop \in {0, this_loop}

\* The fields of the session, and what the call past the lock knows of them.
Fielded ==
  /\ session.reader \in {0, session.process}
  /\ IF session.started THEN session.process # 0 /\ session.loop # 0
     ELSE session.loop = 0 /\ session.reader = 0
  /\ \A t \in Commands :
       /\ Place(t) \in Lookouts =>
            session.started /\ session.reader = session.process /\ call[t].pipe = session.process
       /\ Place(t) \in {"spawning", "connecting"} => ~session.started
       /\ Place(t) = "connecting" => session.process # 0 /\ call[t].pipe = session.process
       /\ Place(t) = "closing" =>
            session.process # 0 /\ session.reader = 0 /\ call[t].pipe = session.process
       /\ Place(t) = "reading" => call[t].awaits = t
       /\ Place(t) = "pinging" => call[t].awaits = "start"
       /\ Place(t) \in {"term", "kill"} => call[t].awaits \in {t, "start"}

\* The shells.
Kept ==
  /\ session.started \/ session.process \in disturbed \cup {0}
       \/ \E t \in Commands : Place(t) = "connecting"
  /\ \A p \in 1..Len(bash) :
       /\ bash[p].alive => p = session.process \/ p \in disturbed
       /\ ~bash[p].alive => bash[p].stdin = <<>>
  /\ \A t \in Commands : Place(t) = "connecting" =>
       /\ bash[session.process].stdin = <<>> /\ bash[session.process].control = <<>>
       /\ session.process \notin disturbed
       /\ \A c \in Commands : home[c] # session.process

\* What a shell that nobody abandoned has still to read and to report is of
\* one writing, and the sentinel comes last.
Awaited(b, x) ==
  /\ \A i \in 1..Len(b.stdin) : b.stdin[i].of = x /\ (b.stdin[i].do = "sentinel" => i = Len(b.stdin))
  /\ \A i \in 1..Len(b.control) :
       b.control[i].of = x /\ (b.control[i].do = "sentinel" => i = Len(b.control) /\ b.stdin = <<>>)

Streams ==
  session.reader # 0 /\ session.process \notin disturbed =>
    /\ (\A t \in Commands : Place(t) \notin Lookouts) =>
         bash[session.process].stdin = <<>> /\ bash[session.process].control = <<>>
    /\ \A t \in Commands : Place(t) \in Lookouts => Awaited(bash[session.process], call[t].awaits)

\* What a call has heard, and what it has returned.
Heard ==
  \A t \in Commands :
    /\ call[t].first # "none" => call[t].after = "return" \/ call[t].awaits = t
    /\ call[t].awaits = t => call[t].after = "return" \/ Place(t) \in {"reading", "term", "kill"}
    /\ Place(t) \in {"idle", "queued"} => call[t].after = "none" /\ call[t].awaits = "none"
    /\ Place(t) # "done" => returned[t] = "none"
    /\ Place(t) = "reading" /\ call[t].first # "none" => call[t].first = t \/ call[t].pipe \in disturbed
    /\ returned[t] \in Commands \cup {"start"} => returned[t] = t \/ call[t].pipe \in disturbed

\* The script of a call is written once, and its command runs before it reports.
Unwritten(t) == Place(t) # "done" /\ call[t].after # "return" /\ call[t].awaits # t

\* For the items of c that bash has still to read or that wait in a control pipe:
\* there are none; the command comes first; the command is still to run.
Silent(b, c) ==
  \A p \in 1..Len(b) :
    /\ \A i \in 1..Len(b[p].stdin) : b[p].stdin[i].of # c
    /\ \A i \in 1..Len(b[p].control) : b[p].control[i].of # c
RunFirst(b, c) ==
  \A p \in 1..Len(b) : \A i \in 1..Len(b[p].stdin) : b[p].stdin[i] = [of |-> c, do |-> "run"] =>
    \A q \in 1..Len(b) :
      /\ \A j \in 1..Len(b[q].control) : b[q].control[j].of # c
      /\ \A j \in 1..Len(b[q].stdin) : b[q].stdin[j].of = c => q = p /\ i <= j
HasRun(b, c) == \E p \in 1..Len(b) : \E i \in 1..Len(b[p].stdin) : b[p].stdin[i] = [of |-> c, do |-> "run"]

Scripts ==
  \A c \in Commands :
    /\ Unwritten(c) => Silent(bash, c) /\ home[c] = 0 /\ \A u \in Commands : call[u].first # c
    /\ RunFirst(bash, c)
    /\ HasRun(bash, c) => returned[c] # c /\ \A u \in Commands : call[u].first # c

\* The jobs of those that have their answer are noted.
Noted ==
  /\ \A c \in Commands : Place(c) = "reading" /\ home[c] # 0 => c \in jobs
  /\ \A c \in Commands : returned[c] = c /\ home[c] # 0 =>
       /\ home[c] = session.process /\ c \in jobs => c \in session.pids
       /\ keep => c \in jobs
       /\ home[c] = session.process /\ Alive(session.process) /\ session.reader # 0 => c \in jobs

ShellInv == ShellTypes /\ Locking /\ Fielded /\ Kept /\ Streams /\ Heard /\ Scripts /\ Noted

\* Who sleeps in the line is not past the lock.
LEMMA ShellPlaces ==
  /\ Lookouts \subseteq Past /\ Reading = Lookouts
  /\ Past = {"spawning", "connecting", "closing", "pinging", "reading", "term", "kill", "sending"}
BY DEF Past, Lookouts, Suspended, Reading

----------------------------------------------------------------------------
(***************************************************************************)
(* What happens to the shells.                                             *)
(***************************************************************************)

Gone == [stdin |-> <<>>, control |-> <<>>, alive |-> FALSE]

\* The fields of a record that one or two of them change.
LEMMA ShellRecords ==
  ASSUME NEW S, NEW b \in [stdin : S, control : S, alive : BOOLEAN], NEW x, NEW y, NEW z
  PROVE  /\ [b EXCEPT !.stdin = x] = [stdin |-> x, control |-> b.control, alive |-> b.alive]
         /\ [b EXCEPT !.control = y] = [stdin |-> b.stdin, control |-> y, alive |-> b.alive]
         /\ [[b EXCEPT !.stdin = x] EXCEPT !.control = y] = [stdin |-> x, control |-> y, alive |-> b.alive]
         /\ [[b EXCEPT !.alive = z] EXCEPT !.stdin = x] = [stdin |-> x, control |-> b.control, alive |-> z]
<1>1. PICK i, j, k : b = [stdin |-> i, control |-> j, alive |-> k]
  <2>1. b = [stdin |-> b.stdin, control |-> b.control, alive |-> b.alive]
    OBVIOUS
  <2> QED
    BY <2>1
<1>2. b.stdin = i /\ b.control = j /\ b.alive = k
  BY <1>1
<1>3. [b EXCEPT !.stdin = x] = [stdin |-> x, control |-> j, alive |-> k]
  BY <1>1
<1>4. [b EXCEPT !.control = y] = [stdin |-> i, control |-> y, alive |-> k]
  BY <1>1
<1>5. [b EXCEPT !.alive = z] = [stdin |-> i, control |-> j, alive |-> z]
  BY <1>1
<1>6. \A f : f = [stdin |-> x, control |-> j, alive |-> k] =>
        [f EXCEPT !.control = y] = [stdin |-> x, control |-> y, alive |-> k]
  OBVIOUS
<1>7. \A f : f = [stdin |-> i, control |-> j, alive |-> z] =>
        [f EXCEPT !.stdin = x] = [stdin |-> x, control |-> j, alive |-> z]
  OBVIOUS
<1>8. [[b EXCEPT !.stdin = x] EXCEPT !.control = y] = [stdin |-> x, control |-> y, alive |-> k]
  BY <1>3, <1>6, Zenon
<1>9. [[b EXCEPT !.alive = z] EXCEPT !.stdin = x] = [stdin |-> x, control |-> j, alive |-> z]
  BY <1>5, <1>7, Zenon
<1> QED
  BY <1>2, <1>3, <1>4, <1>8, <1>9, Zenon

\* A shell is ended; the others are as they were.
LEMMA EndedShell ==
  ASSUME bash \in Seq(Shells), NEW p \in 0..Len(bash)
  PROVE  /\ Ended(p) \in Seq(Shells) /\ Len(Ended(p)) = Len(bash)
         /\ p # 0 => Ended(p)[p] = Gone
         /\ \A q \in 1..Len(bash) : q # p => Ended(p)[q] = bash[q]
<1>1. Gone \in Shells
  <2>1. <<>> \in Seq(StdinItems)
    BY EmptySeq
  <2> QED
    BY <2>1 DEF Gone, Shells
<1>2. Len(bash) \in Nat
  BY LenProperties
<1>3. CASE p = 0
  BY <1>3, <1>2 DEF Ended
<1>4. CASE p # 0
  <2>1. p \in 1..Len(bash)
    BY <1>2, <1>4
  <2>2. Ended(p) = [bash EXCEPT ![p] = Gone]
    BY <1>4 DEF Ended, Set, Gone
  <2> QED
    BY <1>1, <2>1, <2>2, ExceptSeq
<1> QED
  BY <1>3, <1>4

\* One shell changes, to b.
LEMMA ChangedShell ==
  ASSUME bash \in Seq(Shells), NEW p \in 1..Len(bash), NEW b \in Shells
  PROVE  /\ [bash EXCEPT ![p] = b] \in Seq(Shells) /\ Len([bash EXCEPT ![p] = b]) = Len(bash)
         /\ [bash EXCEPT ![p] = b][p] = b
         /\ \A q \in 1..Len(bash) : q # p => [bash EXCEPT ![p] = b][q] = bash[q]
BY ExceptSeq

\* A writing is added to what a shell has to read.
LEMMA WrittenShell ==
  ASSUME bash \in Seq(Shells), NEW p \in 1..Len(bash), NEW s \in Seq(StdinItems)
  PROVE  /\ Written(p, s) \in Seq(Shells) /\ Len(Written(p, s)) = Len(bash)
         /\ Written(p, s)[p] = [stdin |-> bash[p].stdin \o s, control |-> bash[p].control, alive |-> bash[p].alive]
         /\ \A q \in 1..Len(bash) : q # p => Written(p, s)[q] = bash[q]
<1> DEFINE b == [stdin |-> bash[p].stdin \o s, control |-> bash[p].control, alive |-> bash[p].alive]
<1>1. bash[p] \in Shells
  OBVIOUS
<1>2. bash[p].stdin \o s \in Seq(StdinItems)
  BY <1>1, ConcatProperties DEF Shells
<1>3. b \in Shells
  BY <1>1, <1>2 DEF Shells
<1>4. [bash[p] EXCEPT !.stdin = @ \o s] = b
  BY <1>1, ShellRecords DEF Shells
<1>5. Written(p, s) = [bash EXCEPT ![p] = b]
  BY <1>4 DEF Written
<1> HIDE DEF b
<1>6. /\ Written(p, s) \in Seq(Shells) /\ Len(Written(p, s)) = Len(bash) /\ Written(p, s)[p] = b
      /\ \A q \in 1..Len(bash) : q # p => Written(p, s)[q] = bash[q]
  BY <1>3, <1>5, ChangedShell
<1> QED
  BY <1>6 DEF b

\* A line is read from the control pipe of a shell.
LEMMA ReadShell ==
  ASSUME bash \in Seq(Shells), NEW t \in Commands, call[t].pipe \in 1..Len(bash)
  PROVE  LET p == call[t].pipe
             rest == IF bash[p].control = <<>> THEN <<>> ELSE Tail(bash[p].control)
         IN  /\ OneLess(t) \in Seq(Shells) /\ Len(OneLess(t)) = Len(bash)
             /\ OneLess(t)[p] = [stdin |-> bash[p].stdin, control |-> rest, alive |-> bash[p].alive]
             /\ \A q \in 1..Len(bash) : q # p => OneLess(t)[q] = bash[q]
<1> DEFINE p == call[t].pipe
           rest == IF bash[p].control = <<>> THEN <<>> ELSE Tail(bash[p].control)
           b == [stdin |-> bash[p].stdin, control |-> rest, alive |-> bash[p].alive]
<1>1. bash[p] \in Shells
  OBVIOUS
<1>2. rest \in Seq(StdinItems)
  BY <1>1, HeadTailProperties, EmptySeq DEF Shells
<1>3. b \in Shells
  <2> HIDE DEF rest
  <2> QED
    BY <1>1, <1>2 DEF Shells
<1>4. [bash[p] EXCEPT !.control = IF @ = <<>> THEN @ ELSE Tail(@)] = b
  BY <1>1, ShellRecords DEF Shells
<1>5. OneLess(t) = [bash EXCEPT ![p] = b]
  BY <1>4 DEF OneLess
<1> HIDE DEF b
<1>6. /\ OneLess(t) \in Seq(Shells) /\ Len(OneLess(t)) = Len(bash) /\ OneLess(t)[p] = b
      /\ \A q \in 1..Len(bash) : q # p => OneLess(t)[q] = bash[q]
  BY <1>3, <1>5, ChangedShell
<1> QED
  BY <1>6 DEF b

\* A shell is started.
LEMMA SpawnedShell ==
  ASSUME bash \in Seq(Shells)
  PROVE  LET b == [stdin |-> <<>>, control |-> <<>>, alive |-> TRUE]
             c == Append(bash, b)
         IN  /\ c \in Seq(Shells) /\ Len(c) = Len(bash) + 1 /\ c[Len(bash) + 1] = b
             /\ \A q \in 1..Len(bash) : c[q] = bash[q]
<1> DEFINE b == [stdin |-> <<>>, control |-> <<>>, alive |-> TRUE]
<1>1. b \in Shells
  <2>1. <<>> \in Seq(StdinItems)
    BY EmptySeq
  <2> QED
    BY <2>1 DEF Shells
<1> HIDE DEF b
<1>2. /\ Append(bash, b) \in Seq(Shells) /\ Len(Append(bash, b)) = Len(bash) + 1
      /\ Append(bash, b)[Len(bash) + 1] = b /\ \A q \in 1..Len(bash) : Append(bash, b)[q] = bash[q]
  BY <1>1, AppendProperties
<1> QED
  BY <1>2 DEF b

\* A shell does the next thing.
LEMMA SteppedShell ==
  ASSUME bash \in Seq(Shells), NEW p \in 1..Len(bash), BashStep(p)
  PROVE  /\ Head(bash[p].stdin) \in StdinItems
         /\ bash' \in Seq(Shells) /\ Len(bash') = Len(bash)
         /\ bash'[p] = [stdin |-> Tail(bash[p].stdin),
                        control |-> IF Head(bash[p].stdin).do = "run" THEN bash[p].control
                                    ELSE Append(bash[p].control, Head(bash[p].stdin)),
                        alive |-> bash[p].alive]
         /\ \A q \in 1..Len(bash) : q # p => bash'[q] = bash[q]
<1> DEFINE item == Head(bash[p].stdin)
           said == IF item.do = "run" THEN bash[p].control ELSE Append(bash[p].control, item)
           b == [stdin |-> Tail(bash[p].stdin), control |-> said, alive |-> bash[p].alive]
<1>0. bash[p] \in Shells
  OBVIOUS
<1>1. bash[p] \in Shells /\ bash[p].stdin # <<>> /\ bash[p].alive \in BOOLEAN
  <2>1. bash[p].stdin # <<>>
    BY DEF BashStep
  <2> QED
    BY <1>0, <2>1 DEF Shells
<1>2. bash[p].stdin \in Seq(StdinItems) /\ bash[p].control \in Seq(StdinItems)
  BY <1>1 DEF Shells
<1>3. item \in StdinItems /\ Tail(bash[p].stdin) \in Seq(StdinItems)
  BY <1>1, <1>2, HeadTailProperties
<1>4. said \in Seq(StdinItems)
  <2> HIDE DEF item
  <2> QED
    BY <1>2, <1>3, AppendProperties
<1>5. b \in Shells
  <2> DEFINE rest == Tail(bash[p].stdin)
             up == bash[p].alive
  <2>1. rest \in Seq(StdinItems) /\ up \in BOOLEAN
    BY <1>1, <1>3
  <2> HIDE DEF said, item, rest, up
  <2>2. [stdin |-> rest, control |-> said, alive |-> up] \in Shells
    BY <1>4, <2>1 DEF Shells
  <2> QED
    BY <2>2 DEF rest, up
<1>6. bash' = [bash EXCEPT ![p] = b]
  <2>1. bash' = [bash EXCEPT ![p].stdin = Tail(@),
                             ![p].control = IF item.do = "run" THEN @ ELSE Append(@, item)]
    BY DEF BashStep
  <2>2. bash' = [bash EXCEPT ![p] = [[bash[p] EXCEPT !.stdin = Tail(@)]
                                      EXCEPT !.control = IF item.do = "run" THEN @ ELSE Append(@, item)]]
    <3> HIDE DEF item
    <3> QED
      BY <2>1
  <2>3. [[bash[p] EXCEPT !.stdin = Tail(@)]
           EXCEPT !.control = IF item.do = "run" THEN @ ELSE Append(@, item)] = b
    <3> HIDE DEF item
    <3> QED
      BY <1>1, ShellRecords DEF Shells
  <2> QED
    BY <2>2, <2>3
<1> HIDE DEF b
<1>7. /\ bash' \in Seq(Shells) /\ Len(bash') = Len(bash) /\ bash'[p] = b
      /\ \A q \in 1..Len(bash) : q # p => bash'[q] = bash[q]
  BY <1>5, <1>6, ChangedShell
<1> QED
  BY <1>3, <1>7 DEF b

\* A shell dies.
LEMMA DeadShell ==
  ASSUME bash \in Seq(Shells), NEW p \in 1..Len(bash), Dies(p)
  PROVE  /\ bash' \in Seq(Shells) /\ Len(bash') = Len(bash)
         /\ bash'[p] = [stdin |-> <<>>, control |-> bash[p].control, alive |-> FALSE]
         /\ \A q \in 1..Len(bash) : q # p => bash'[q] = bash[q]
<1> DEFINE b == [stdin |-> <<>>, control |-> bash[p].control, alive |-> FALSE]
<1>1. bash[p] \in Shells
  OBVIOUS
<1>2. b \in Shells
  <2>1. <<>> \in Seq(StdinItems)
    BY EmptySeq
  <2> QED
    BY <1>1, <2>1 DEF Shells
<1>3. bash' = [bash EXCEPT ![p] = b]
  <2>1. bash' = [bash EXCEPT ![p] = [[bash[p] EXCEPT !.alive = FALSE] EXCEPT !.stdin = <<>>]]
    BY DEF Dies
  <2>2. [[bash[p] EXCEPT !.alive = FALSE] EXCEPT !.stdin = <<>>] = b
    BY <1>1, ShellRecords DEF Shells
  <2> QED
    BY <2>1, <2>2
<1> HIDE DEF b
<1>4. /\ bash' \in Seq(Shells) /\ Len(bash') = Len(bash) /\ bash'[p] = b
      /\ \A q \in 1..Len(bash) : q # p => bash'[q] = bash[q]
  BY <1>2, <1>3, ChangedShell
<1> QED
  BY <1>4 DEF b

\* What is left of it is what it had to report.
LEMMA DeadParts ==
  ASSUME bash \in Seq(Shells), NEW p \in 1..Len(bash), Dies(p)
  PROVE  /\ Len(bash') = Len(bash)
         /\ bash'[p].stdin = <<>> /\ bash'[p].control = bash[p].control /\ ~bash'[p].alive
         /\ \A q \in 1..Len(bash) : q # p => bash'[q] = bash[q]
<1>1. /\ Len(bash') = Len(bash) /\ bash'[p] = [stdin |-> <<>>, control |-> bash[p].control, alive |-> FALSE]
      /\ \A q \in 1..Len(bash) : q # p => bash'[q] = bash[q]
  BY DeadShell
<1>2. bash'[p].stdin = <<>> /\ bash'[p].control = bash[p].control
  BY <1>1
<1>3. ~bash'[p].alive
  BY <1>1
<1> QED
  BY <1>1, <1>2, <1>3

----------------------------------------------------------------------------
(***************************************************************************)
(* The moves of the calls, with the fields they set written out.           *)
(***************************************************************************)

CallRec(at, lock, next, pipe, wanted, said) ==
  [place |-> at, lock |-> lock, after |-> next, pipe |-> pipe, awaits |-> wanted, first |-> said]
SessionRec(started, loop, process, reader, pids, lock) ==
  [started |-> started, loop |-> loop, process |-> process, reader |-> reader, pids |-> pids, lock |-> lock]

CallSet(t, c) == call' = [u \in Commands |-> IF u = t THEN c ELSE call[u]]

\* What follows a start(): a call that has written its script returns.
Nexts(t) == IF call[t].after = "return" \/ call[t].awaits = t THEN {"return"}
            ELSE {"none", "send", "write", "rewrite"}

Gets(t, where) ==
  \E next \in Nexts(t) :
    CallSet(t, CallRec(where, call[t].lock, next, call[t].pipe, call[t].awaits, call[t].first))

\* What is awaited has come, or the pipe has ended.
Over(t) == IF Lines(t) = <<>> THEN ~Alive(call[t].pipe) ELSE IsLast(t)

Others == UNCHANGED <<this_loop, home, keep, disturbed>>

Closes(t) ==
  /\ Place(t) \in {"sending", "kill"} /\ session.process # 0
  /\ \E next \in Nexts(t) :
       CallSet(t, CallRec("closing", call[t].lock, next, session.process, call[t].awaits, call[t].first))
  /\ session' = SessionRec(session.started, session.loop, session.process, 0, session.pids, session.lock)
  /\ jobs' = Surviving
  /\ UNCHANGED <<bash, line, returned>> /\ Others

Restarts(t) ==
  /\ Place(t) \in {"sending", "kill", "closing"}
  /\ Gets(t, "spawning")
  /\ session' = Fresh(session.lock + 1) /\ bash' = Ended(session.process)
  /\ UNCHANGED <<jobs, line, returned>> /\ Others

Spawns(t) ==
  /\ Place(t) = "spawning"
  /\ CallSet(t, CallRec("connecting", call[t].lock, call[t].after, Len(bash) + 1, call[t].awaits, call[t].first))
  /\ session' = SessionRec(session.started, session.loop, Len(bash) + 1, session.reader, session.pids, session.lock)
  /\ bash' = Append(bash, [stdin |-> <<>>, control |-> <<>>, alive |-> TRUE])
  /\ UNCHANGED <<jobs, line, returned>> /\ Others

Connects(t) ==
  /\ Place(t) = "connecting"
  /\ CallSet(t, CallRec("pinging", call[t].lock, call[t].after, call[t].pipe, "start", call[t].first))
  /\ session' = SessionRec(TRUE, this_loop, session.process, session.process, session.pids, session.lock)
  /\ bash' = IF Alive(session.process) THEN Written(session.process, <<Sentinel("start")>>) ELSE bash
  /\ UNCHANGED <<jobs, line, returned>> /\ Others

Writes(t) ==
  /\ Place(t) = "sending" /\ call[t].after # "return" /\ Alive(session.process) /\ session.reader # 0
  /\ CallSet(t, CallRec("reading", call[t].lock, call[t].after, session.reader, t, call[t].first))
  /\ bash' = Written(session.process, Script(t))
  /\ UNCHANGED <<session, jobs, line, returned>> /\ Others

Skips(t) ==
  /\ Place(t) \in Lookouts /\ Lines(t) # <<>> /\ ~IsLast(t)
  /\ CallSet(t, CallRec(Place(t), call[t].lock, call[t].after, call[t].pipe, call[t].awaits,
                        IF Place(t) = "reading" /\ call[t].first = "none" THEN Head(Lines(t)).of
                        ELSE call[t].first))
  /\ bash' = OneLess(t)
  /\ UNCHANGED <<session, jobs, line, returned>> /\ Others

Proceeds(t) ==
  /\ Place(t) \in {"pinging", "term", "kill"} /\ Over(t)
  /\ Gets(t, "sending")
  /\ bash' = OneLess(t) /\ jobs' \in {jobs, Spared}
  /\ UNCHANGED <<session, line, returned>> /\ Others

Kills(t) ==
  /\ Place(t) \in {"pinging", "reading", "term"}
  /\ \E where \in {"term", "kill"} :
       CallSet(t, CallRec(where, call[t].lock, call[t].after, call[t].pipe, call[t].awaits, call[t].first))
  /\ jobs' = Spared
  /\ UNCHANGED <<session, bash, line, returned>> /\ Others

Fails(t) ==
  /\ Place(t) \in {"sending", "spawning"}
  /\ CallSet(t, CallRec("done", 0, "none", call[t].pipe, "none", "none"))
  /\ \E result \in {"raised", "timed_out"} : returned' = [returned EXCEPT ![t] = result]
  /\ line' = Without(line, t)
  /\ UNCHANGED <<session, bash, jobs>> /\ Others

Reports(t) ==
  /\ Place(t) = "reading" /\ Over(t)
  /\ CallSet(t, CallRec("done", 0, "none", call[t].pipe, "none", "none"))
  /\ returned' = [returned EXCEPT ![t] = IF call[t].first = "none" THEN "dead" ELSE call[t].first]
  /\ line' = Without(line, t)
  /\ session' = IF call[t].first = "none" THEN session
                ELSE SessionRec(session.started, session.loop, session.process, session.reader,
                                {c \in jobs : home[c] = call[t].pipe}, session.lock)
  /\ bash' = OneLess(t)
  /\ UNCHANGED jobs /\ Others

Enters(t) ==
  /\ \/ Place(t) = "idle" /\ line = <<>> /\ line' = Append(line, t)
     \/ Place(t) = "queued" /\ line # <<>> /\ Head(line) = t /\ line' = line
  /\ \E l \in Nat :
       /\ Place(t) = "queued" => l = call[t].lock
       /\ \/ /\ ~session.started
             /\ CallSet(t, CallRec("spawning", l, "send", 0, "none", "none"))
             /\ UNCHANGED <<session, bash, jobs>>
          \/ /\ CallSet(t, CallRec("spawning", l, "send", 0, "none", "none"))
             /\ session' = Fresh(l + 1) /\ bash' = Ended(session.process) /\ jobs' \in Leftover
          \/ /\ session.started /\ session.loop = this_loop
             /\ CallSet(t, CallRec("sending", l, "send", 0, "none", "none"))
             /\ UNCHANGED <<session, bash, jobs>>
  /\ UNCHANGED returned /\ Others

Joins(t) ==
  /\ Place(t) = "idle" /\ line # <<>> /\ line' = Append(line, t)
  /\ \A u \in Members(line) : call[u].lock = session.lock
  /\ CallSet(t, CallRec("queued", session.lock, "none", 0, "none", "none"))
  /\ UNCHANGED <<session, bash, jobs, returned>> /\ Others

Cancels(S) ==
  /\ \A t \in S : InUse(t) /\ Place(t) # "sending"
  /\ this_loop' = this_loop \/ (this_loop' = this_loop + 1 /\ S = {t \in Commands : InUse(t)})
  /\ call' = [t \in Commands |-> IF t \in S THEN CallRec("done", 0, "none", 0, "none", "none") ELSE call[t]]
  /\ returned' = [t \in Commands |-> IF t \in S THEN "cancelled" ELSE returned[t]]
  /\ line' = Only(line, Commands \ S)
  /\ disturbed' = disturbed \cup {call[t].pipe : t \in {u \in S : Place(u) \in Lookouts \cup {"connecting"}}}
  /\ UNCHANGED <<session, bash, jobs, home, keep>>

ClosesUp ==
  /\ line = <<>> /\ session.process # 0
  /\ session' = Fresh(session.lock + 1) /\ bash' = Ended(session.process) /\ jobs' \in Leftover
  /\ UNCHANGED <<line, call, returned>> /\ Others

MovesOn(t) ==
  \/ Closes(t) \/ Restarts(t) \/ Spawns(t) \/ Connects(t) \/ Writes(t) \/ Skips(t) \/ Proceeds(t)
  \/ Kills(t)

ShellMove ==
  \/ \E t \in Commands : MovesOn(t) \/ Fails(t) \/ Reports(t) \/ Enters(t) \/ Joins(t)
  \/ \E p \in 1..Len(bash) : BashStep(p) \/ Dies(p)
  \/ \E S \in SUBSET Commands : Cancels(S)
  \/ ClosesUp

\* The fields of a call that its steps change.
LEMMA CallFields ==
  ASSUME NEW c \in CallRecords, NEW w, NEW v
  PROVE  /\ [c EXCEPT !.place = w] = CallRec(w, c.lock, c.after, c.pipe, c.awaits, c.first)
         /\ [c EXCEPT !.first = w] = CallRec(c.place, c.lock, c.after, c.pipe, c.awaits, w)
         /\ [c EXCEPT !.place = w, !.after = v] = CallRec(w, c.lock, v, c.pipe, c.awaits, c.first)
         /\ [c EXCEPT !.place = w, !.pipe = v] = CallRec(w, c.lock, c.after, v, c.awaits, c.first)
         /\ [c EXCEPT !.place = w, !.awaits = v] = CallRec(w, c.lock, c.after, c.pipe, v, c.first)
<1> DEFINE R(at, l, next, pipe, wanted, said) ==
             [place |-> at, lock |-> l, after |-> next, pipe |-> pipe, awaits |-> wanted, first |-> said]
<1>1. PICK p1, p2, p3, p4, p5, p6 : c = R(p1, p2, p3, p4, p5, p6)
  <2>1. c = R(c.place, c.lock, c.after, c.pipe, c.awaits, c.first)
    BY DEF CallRecords
  <2> QED
    BY <2>1
<1>2. c.place = p1 /\ c.lock = p2 /\ c.after = p3 /\ c.pipe = p4 /\ c.awaits = p5 /\ c.first = p6
  BY <1>1
<1>3. /\ \A u : [u EXCEPT !.place = w, !.after = v] = [[u EXCEPT !.place = w] EXCEPT !.after = v]
      /\ \A u : [u EXCEPT !.place = w, !.pipe = v] = [[u EXCEPT !.place = w] EXCEPT !.pipe = v]
      /\ \A u : [u EXCEPT !.place = w, !.awaits = v] = [[u EXCEPT !.place = w] EXCEPT !.awaits = v]
  OBVIOUS
<1>4. \A u : u = R(p1, p2, p3, p4, p5, p6) => [u EXCEPT !.place = w] = R(w, p2, p3, p4, p5, p6)
  OBVIOUS
<1>5. \A u : u = R(p1, p2, p3, p4, p5, p6) => [u EXCEPT !.first = w] = R(p1, p2, p3, p4, p5, w)
  OBVIOUS
<1>6. \A u : u = R(w, p2, p3, p4, p5, p6) => [u EXCEPT !.after = v] = R(w, p2, v, p4, p5, p6)
  OBVIOUS
<1>7. \A u : u = R(w, p2, p3, p4, p5, p6) => [u EXCEPT !.pipe = v] = R(w, p2, p3, v, p5, p6)
  OBVIOUS
<1>8. \A u : u = R(w, p2, p3, p4, p5, p6) => [u EXCEPT !.awaits = v] = R(w, p2, p3, p4, v, p6)
  OBVIOUS
<1>9. /\ [c EXCEPT !.place = w] = R(w, p2, p3, p4, p5, p6)
      /\ [c EXCEPT !.first = w] = R(p1, p2, p3, p4, p5, w)
  BY <1>1, <1>4, <1>5, Zenon
<1>10. [c EXCEPT !.place = w, !.after = v] = R(w, p2, v, p4, p5, p6)
  BY <1>3, <1>6, <1>9, Zenon
<1>11. [c EXCEPT !.place = w, !.pipe = v] = R(w, p2, p3, v, p5, p6)
  BY <1>3, <1>7, <1>9, Zenon
<1>12. [c EXCEPT !.place = w, !.awaits = v] = R(w, p2, p3, p4, v, p6)
  BY <1>3, <1>8, <1>9, Zenon
<1> QED
  BY <1>2, <1>9, <1>10, <1>11, <1>12, Zenon DEF CallRec

\* The fields of the session that its calls change.
LEMMA SessionFields ==
  ASSUME NEW s \in Fields, NEW p, NEW r, NEW j
  PROVE  /\ [s EXCEPT !.reader = r] = SessionRec(s.started, s.loop, s.process, r, s.pids, s.lock)
         /\ [s EXCEPT !.process = p] = SessionRec(s.started, s.loop, p, s.reader, s.pids, s.lock)
         /\ [s EXCEPT !.pids = j] = SessionRec(s.started, s.loop, s.process, s.reader, j, s.lock)
<1> DEFINE R(st, lo, pr, re, pi, lk) ==
             [started |-> st, loop |-> lo, process |-> pr, reader |-> re, pids |-> pi, lock |-> lk]
<1>1. PICK p1, p2, p3, p4, p5, p6 : s = R(p1, p2, p3, p4, p5, p6)
  <2>1. s = R(s.started, s.loop, s.process, s.reader, s.pids, s.lock)
    BY DEF Fields
  <2> QED
    BY <2>1
<1>2. s.started = p1 /\ s.loop = p2 /\ s.process = p3 /\ s.reader = p4 /\ s.pids = p5 /\ s.lock = p6
  BY <1>1
<1>3. \A v : v = R(p1, p2, p3, p4, p5, p6) => [v EXCEPT !.reader = r] = R(p1, p2, p3, r, p5, p6)
  OBVIOUS
<1>4. \A v : v = R(p1, p2, p3, p4, p5, p6) => [v EXCEPT !.process = p] = R(p1, p2, p, p4, p5, p6)
  OBVIOUS
<1>5. \A v : v = R(p1, p2, p3, p4, p5, p6) => [v EXCEPT !.pids = j] = R(p1, p2, p3, p4, j, p6)
  OBVIOUS
<1>6. /\ [s EXCEPT !.reader = r] = R(p1, p2, p3, r, p5, p6)
      /\ [s EXCEPT !.process = p] = R(p1, p2, p, p4, p5, p6)
      /\ [s EXCEPT !.pids = j] = R(p1, p2, p3, p4, j, p6)
  BY <1>1, <1>3, <1>4, <1>5, Zenon
<1> QED
  BY <1>2, <1>6, Zenon DEF SessionRec

\* A call that is past the lock stands first in line, and no other is past it.
LEMMA OnePast ==
  ASSUME Locking, NEW t \in Commands, Place(t) \in Past
  PROVE  /\ line # <<>> /\ Head(line) = t
         /\ \A u \in Commands : u # t => Place(u) \notin Past
BY DEF Locking

\* The frame of a call is set as a record.
LEMMA FrameSet ==
  ASSUME ShellTypes, NEW t \in Commands, NEW f, Frame(t, f)
  PROVE  CallSet(t, f)
<1>1. call' = [call EXCEPT ![t] = f] /\ DOMAIN call = Commands
  BY DEF ShellTypes, Frame, Set
<1> QED
  BY <1>1 DEF CallSet

\* What an idle call gets when it enters, or joins the line.
LEMMA IdleFields ==
  ASSUME NEW w, NEW l, NEW p
  PROVE  /\ Idle(w, p) = CallRec(w, 0, "none", p, "none", "none")
         /\ [Idle(w, 0) EXCEPT !.lock = l] = CallRec(w, l, "none", 0, "none", "none")
         /\ [Idle(w, 0) EXCEPT !.lock = l, !.after = "send"] = CallRec(w, l, "send", 0, "none", "none")
<1>1. Idle(w, p) = CallRec(w, 0, "none", p, "none", "none") /\ Idle(w, 0) = CallRec(w, 0, "none", 0, "none", "none")
  BY DEF Idle, CallRec, None
<1>2. \A v : v = CallRec(w, 0, "none", 0, "none", "none") =>
        [v EXCEPT !.lock = l] = CallRec(w, l, "none", 0, "none", "none")
  BY DEF CallRec
<1>3. \A v, a : v = CallRec(w, l, "none", 0, "none", "none") =>
        [v EXCEPT !.after = a] = CallRec(w, l, a, 0, "none", "none")
  BY DEF CallRec
<1>4. \A v : [v EXCEPT !.lock = l, !.after = "send"] = [[v EXCEPT !.lock = l] EXCEPT !.after = "send"]
  OBVIOUS
<1> QED
  BY <1>1, <1>2, <1>3, <1>4, Zenon

\* A shell is closed, or replaced when it is known to be dead.
LEMMA ResetMoves ==
  ASSUME ShellTypes, NEW t \in Commands, Place(t) \in {"sending", "kill"},
         NEW next \in Nexts(t), Reset(t, next), Others
  PROVE  Closes(t) \/ Restarts(t)
<1>1. call[t] \in CallRecords /\ session \in Fields
  BY DEF ShellTypes
<1>2. CASE /\ session.process # 0
           /\ Frame(t, [call[t] EXCEPT !.place = "closing", !.after = next, !.pipe = session.process])
           /\ session' = [session EXCEPT !.reader = 0]
           /\ jobs' = Surviving /\ UNCHANGED <<bash, line, returned>>
  <2>1. CallSet(t, CallRec("closing", call[t].lock, next, session.process, call[t].awaits, call[t].first))
    <3>1. [call[t] EXCEPT !.place = "closing", !.after = next, !.pipe = session.process]
            = CallRec("closing", call[t].lock, next, session.process, call[t].awaits, call[t].first)
      <4>1. [call[t] EXCEPT !.place = "closing", !.after = next] = CallRec("closing", call[t].lock, next, call[t].pipe, call[t].awaits, call[t].first)
        BY <1>1, CallFields, Zenon
      <4>2. \A u : u = CallRec("closing", call[t].lock, next, call[t].pipe, call[t].awaits, call[t].first) =>
              [u EXCEPT !.pipe = session.process] = CallRec("closing", call[t].lock, next, session.process, call[t].awaits, call[t].first)
        BY DEF CallRec
      <4>3. [call[t] EXCEPT !.place = "closing", !.after = next, !.pipe = session.process]
              = [[call[t] EXCEPT !.place = "closing", !.after = next] EXCEPT !.pipe = session.process]
        OBVIOUS
      <4> QED
        BY <4>1, <4>2, <4>3, Zenon
    <3>2. CallSet(t, [call[t] EXCEPT !.place = "closing", !.after = next, !.pipe = session.process])
      BY <1>2, FrameSet
    <3> QED
      BY <3>1, <3>2, Zenon
  <2>2. session' = SessionRec(session.started, session.loop, session.process, 0, session.pids, session.lock)
    BY <1>1, <1>2, SessionFields, Zenon
  <2> QED
    BY <1>2, <2>1, <2>2 DEF Closes
<1>3. CASE /\ Frame(t, [call[t] EXCEPT !.place = "spawning", !.after = next])
           /\ session' = Fresh(session.lock + 1) /\ bash' = Ended(session.process)
           /\ UNCHANGED <<jobs, line, returned>>
  <2>1. CallSet(t, CallRec("spawning", call[t].lock, next, call[t].pipe, call[t].awaits, call[t].first))
    <3>1. [call[t] EXCEPT !.place = "spawning", !.after = next]
            = CallRec("spawning", call[t].lock, next, call[t].pipe, call[t].awaits, call[t].first)
      BY <1>1, CallFields, Zenon
    <3>2. CallSet(t, [call[t] EXCEPT !.place = "spawning", !.after = next])
      BY <1>3, FrameSet
    <3> QED
      BY <3>1, <3>2, Zenon
  <2> QED
    BY <1>3, <2>1 DEF Restarts, Gets
<1> QED
  BY <1>2, <1>3 DEF Reset

\* A call ends; what bash listed is noted if there was a report.
LEMMA ReturnMoves ==
  ASSUME ShellTypes, NEW t \in Commands, NEW result, Return(t, result)
  PROVE  /\ CallSet(t, CallRec("done", 0, "none", call[t].pipe, "none", "none"))
         /\ returned' = [returned EXCEPT ![t] = result] /\ line' = Without(line, t) /\ jobs' = jobs
         /\ session' = IF result \in {"raised", "timed_out", "dead"} THEN session
                       ELSE SessionRec(session.started, session.loop, session.process, session.reader,
                                       {c \in jobs : home[c] = call[t].pipe}, session.lock)
<1>1. session \in Fields
  BY DEF ShellTypes
<1>2. [session EXCEPT !.pids = {c \in jobs : home[c] = call[t].pipe}] =
        SessionRec(session.started, session.loop, session.process, session.reader,
                   {c \in jobs : home[c] = call[t].pipe}, session.lock)
  BY <1>1, SessionFields, Zenon
<1>3. CallSet(t, Idle("done", call[t].pipe))
  BY FrameSet DEF Return
<1>4. CallSet(t, CallRec("done", 0, "none", call[t].pipe, "none", "none"))
  BY <1>3, IdleFields, Zenon
<1> QED
  BY <1>2, <1>4 DEF Return, Set

\* The write of a script, the second try of it, or the error.
LEMMA WriteMoves ==
  ASSUME ShellTypes, Fielded, Heard, NEW t \in Commands, Place(t) = "sending",
         call[t].after \in {"send", "write", "rewrite"},
         NEW next \in {"rewrite", "raise"}, Write(t, next), Others
  PROVE  Closes(t) \/ Restarts(t) \/ Writes(t) \/ Fails(t)
<1>1. call[t] \in CallRecords
  BY DEF ShellTypes
<1>2. {"write", "rewrite"} \subseteq Nexts(t)
  BY DEF Heard, Nexts
<1>3. CASE /\ Alive(session.process) /\ session.reader # 0
           /\ bash' = Written(session.process, Script(t))
           /\ Frame(t, [call[t] EXCEPT !.place = "reading", !.awaits = t, !.pipe = session.reader])
           /\ UNCHANGED <<session, line, returned, jobs>>
  <2>1. CallSet(t, CallRec("reading", call[t].lock, call[t].after, session.reader, t, call[t].first))
    <3>1. [call[t] EXCEPT !.place = "reading", !.awaits = t, !.pipe = session.reader]
            = CallRec("reading", call[t].lock, call[t].after, session.reader, t, call[t].first)
      <4>1. [call[t] EXCEPT !.place = "reading", !.awaits = t] = CallRec("reading", call[t].lock, call[t].after, call[t].pipe, t, call[t].first)
        BY <1>1, CallFields, Zenon
      <4>2. \A u : u = CallRec("reading", call[t].lock, call[t].after, call[t].pipe, t, call[t].first) =>
              [u EXCEPT !.pipe = session.reader] = CallRec("reading", call[t].lock, call[t].after, session.reader, t, call[t].first)
        BY DEF CallRec
      <4>3. [call[t] EXCEPT !.place = "reading", !.awaits = t, !.pipe = session.reader]
              = [[call[t] EXCEPT !.place = "reading", !.awaits = t] EXCEPT !.pipe = session.reader]
        OBVIOUS
      <4> QED
        BY <4>1, <4>2, <4>3, Zenon
    <3>2. CallSet(t, [call[t] EXCEPT !.place = "reading", !.awaits = t, !.pipe = session.reader])
      BY <1>3, FrameSet
    <3> QED
      BY <3>1, <3>2, Zenon
  <2> QED
    BY <1>3, <2>1 DEF Writes
<1>4. CASE next # "raise" /\ Reset(t, next)
  BY <1>2, <1>4, ResetMoves
<1>5. CASE Return(t, "raised") /\ UNCHANGED bash
  <2>1. /\ CallSet(t, CallRec("done", 0, "none", call[t].pipe, "none", "none"))
        /\ returned' = [returned EXCEPT ![t] = "raised"] /\ line' = Without(line, t)
        /\ jobs' = jobs /\ session' = session
    BY <1>5, ReturnMoves
  <2> QED
    BY <1>5, <2>1 DEF Fails
<1> QED
  BY <1>3, <1>4, <1>5 DEF Write

\* Whoever has the shell ready looks at it and writes, starts over, or gives up.
LEMMA SendMoves ==
  ASSUME ShellTypes, Fielded, Heard, NEW t \in Commands, Send(t)
  PROVE  Closes(t) \/ Restarts(t) \/ Writes(t) \/ Fails(t)
<1>1. Place(t) = "sending" /\ Others
  BY DEF Send, Others
<1>2. CASE call[t].after = "send" /\ Reset(t, "write")
  <2>1. "write" \in Nexts(t)
    BY <1>1, <1>2 DEF Heard, Nexts
  <2> QED
    BY <1>1, <1>2, <2>1, ResetMoves
<1>3. CASE call[t].after \in {"send", "write"} /\ Write(t, "rewrite")
  BY <1>1, <1>3, WriteMoves
<1>4. CASE call[t].after = "rewrite" /\ Write(t, "raise")
  BY <1>1, <1>4, WriteMoves
<1>5. CASE call[t].after = "return" /\ Return(t, "timed_out") /\ UNCHANGED bash
  <2>1. /\ CallSet(t, CallRec("done", 0, "none", call[t].pipe, "none", "none"))
        /\ returned' = [returned EXCEPT ![t] = "timed_out"] /\ line' = Without(line, t)
        /\ jobs' = jobs /\ session' = session
    BY <1>5, ReturnMoves
  <2> QED
    BY <1>1, <1>5, <2>1 DEF Fails
<1> QED
  BY <1>2, <1>3, <1>4, <1>5 DEF Send

\* The three ways to start, for a call that holds the lock.
LEMMA EnterMoves ==
  ASSUME NEW t \in Commands, NEW l \in Nat, ShellTypes, Enter(t, l),
         \/ Place(t) = "idle" /\ line = <<>> /\ line' = Append(line, t)
         \/ Place(t) = "queued" /\ line # <<>> /\ Head(line) = t /\ line' = line /\ l = call[t].lock
  PROVE  Enters(t)
<1>1. \A w : Frame(t, [Idle(w, 0) EXCEPT !.lock = l, !.after = "send"]) =>
               CallSet(t, CallRec(w, l, "send", 0, "none", "none"))
  <2> SUFFICES ASSUME NEW w, Frame(t, [Idle(w, 0) EXCEPT !.lock = l, !.after = "send"])
               PROVE  CallSet(t, CallRec(w, l, "send", 0, "none", "none"))
    OBVIOUS
  <2>1. CallSet(t, [Idle(w, 0) EXCEPT !.lock = l, !.after = "send"])
    BY FrameSet
  <2>2. [Idle(w, 0) EXCEPT !.lock = l, !.after = "send"] = CallRec(w, l, "send", 0, "none", "none")
    BY IdleFields, Zenon
  <2> QED
    BY <2>1, <2>2, Zenon
<1>2. UNCHANGED returned /\ Others
  BY DEF Enter, Others
<1>3. CASE /\ ~session.started
           /\ Frame(t, [Idle("spawning", 0) EXCEPT !.lock = l, !.after = "send"])
           /\ UNCHANGED <<session, bash, jobs>>
  <2>1. CallSet(t, CallRec("spawning", l, "send", 0, "none", "none"))
    BY <1>1, <1>3, Zenon
  <2> QED
    BY <1>2, <1>3, <2>1 DEF Enters
<1>4. CASE /\ Frame(t, [Idle("spawning", 0) EXCEPT !.lock = l, !.after = "send"])
           /\ session' = Fresh(l + 1) /\ bash' = Ended(session.process) /\ jobs' \in Leftover
  <2>1. CallSet(t, CallRec("spawning", l, "send", 0, "none", "none"))
    BY <1>1, <1>4, Zenon
  <2> QED
    BY <1>2, <1>4, <2>1 DEF Enters
<1>5. CASE /\ session.started /\ session.loop = this_loop
           /\ Frame(t, [Idle("sending", 0) EXCEPT !.lock = l, !.after = "send"])
           /\ UNCHANGED <<session, bash, jobs>>
  <2>1. CallSet(t, CallRec("sending", l, "send", 0, "none", "none"))
    BY <1>1, <1>5, Zenon
  <2> QED
    BY <1>2, <1>5, <2>1 DEF Enters
<1> QED
  BY <1>3, <1>4, <1>5 DEF Enter

\* With Joined a call finds the line empty and enters, or stands in it.
LEMMA CallMoves ==
  ASSUME Joined, ShellTypes, Locking, NEW t \in Commands, Call(t)
  PROVE  Enters(t) \/ Joins(t)
<1>1. session \in Fields /\ line \in Seq(Commands) /\ Len(line) \in Nat
  BY LenProperties DEF ShellTypes
<1>2. Place(t) = "idle" /\ line' = Append(line, t)
  BY DEF Call, At
<1>3. CASE line = <<>>
  <2> DEFINE l == IF session.loop \in {0, this_loop} THEN session.lock ELSE session.lock + 1
  <2>1. l \in Nat
    BY <1>1 DEF Fields
  <2>2. 1..Len(line) = {}
    BY <1>3
  <2>3. Enter(t, l)
    BY <2>2 DEF Call
  <2> HIDE DEF l
  <2> QED
    BY <1>2, <1>3, <2>1, <2>3, EnterMoves
<1>4. CASE line # <<>>
  <2>1. session.loop \in {0, this_loop}
    BY <1>4 DEF Locking
  <2>2. 1 \in 1..Len(line)
    BY <1>1, <1>4, EmptySeq
  <2>3. \A i \in 1..Len(line) : call[line[i]].lock = session.lock
    BY DEF Call
  <2>4. /\ Frame(t, [Idle("queued", 0) EXCEPT !.lock = session.lock])
        /\ UNCHANGED <<session, bash, jobs, this_loop, returned, home, keep, disturbed>>
    BY <2>1, <2>2, <2>3 DEF Call
  <2>5. CallSet(t, [Idle("queued", 0) EXCEPT !.lock = session.lock])
    BY <2>4, FrameSet
  <2>6. [Idle("queued", 0) EXCEPT !.lock = session.lock] = CallRec("queued", session.lock, "none", 0, "none", "none")
    BY IdleFields, Zenon
  <2>7. CallSet(t, CallRec("queued", session.lock, "none", 0, "none", "none"))
    BY <2>5, <2>6, Zenon
  <2>8. \A u \in Members(line) : call[u].lock = session.lock
    BY <2>3 DEF Members
  <2> QED
    BY <1>2, <1>4, <2>4, <2>7, <2>8 DEF Joins, Others
<1> QED
  BY <1>3, <1>4

\* Whoever wakes stands first.
LEMMA WakeMoves ==
  ASSUME ShellTypes, Locking, NEW t \in Commands, Wake(t)
  PROVE  Enters(t)
<1>1. line \in Seq(Commands) /\ Len(line) \in Nat /\ call[t] \in CallRecords
  BY LenProperties DEF ShellTypes
<1>2. Place(t) = "queued" /\ line' = line /\ Enter(t, call[t].lock)
  BY DEF Wake, At
<1>3. t \in Members(line)
  BY <1>2 DEF Locking, InUse
<1>4. line # <<>> /\ 1 \in 1..Len(line) /\ Head(line) = line[1]
  <2>1. Len(line) # 0
    BY <1>1, <1>3 DEF Members
  <2>2. line # <<>>
    BY <1>1, <2>1, EmptySeq
  <2> QED
    BY <1>1, <2>1, <2>2, HeadTailProperties
<1>5. line[1] = t
  <2>1. line[1] \in Members(line)
    BY <1>4 DEF Members
  <2>2. call[line[1]].lock = call[t].lock
    BY <1>3, <2>1 DEF Locking
  <2>3. \E j \in 1..1 : line[j] = t
    BY <1>4, <2>2 DEF Wake
  <2> QED
    BY <2>3
<1>6. call[t].lock \in Nat
  BY <1>1 DEF CallRecords
<1> QED
  BY <1>2, <1>4, <1>5, <1>6, EnterMoves

\* What follows a start() is what was to follow it.
LEMMA NextStays ==
  ASSUME ShellTypes, Fielded, Heard, NEW t \in Commands
  PROVE  /\ Place(t) \in {"pinging", "closing"} => call[t].after \in Nexts(t)
         /\ Onward(t) \in Nexts(t)
<1>1. call[t].after \in {"none", "send", "write", "rewrite", "return"}
  BY DEF ShellTypes, CallRecords
<1>2. t # "start"
  BY ShellAssumption
<1>3. Place(t) \in {"pinging", "closing"} => call[t].after = "return" \/ call[t].awaits # t
  BY <1>2 DEF Fielded, Heard
<1> QED
  BY <1>1, <1>3 DEF Nexts, Onward

\* A call goes to another place.
LEMMA GoMoves ==
  ASSUME ShellTypes, NEW t \in Commands, NEW w, Go(t, w)
  PROVE  CallSet(t, CallRec(w, call[t].lock, call[t].after, call[t].pipe, call[t].awaits, call[t].first))
<1>1. call[t] \in CallRecords
  BY DEF ShellTypes
<1>2. CallSet(t, [call[t] EXCEPT !.place = w])
  BY FrameSet DEF Go
<1>3. [call[t] EXCEPT !.place = w] = CallRec(w, call[t].lock, call[t].after, call[t].pipe, call[t].awaits, call[t].first)
  BY <1>1, CallFields, Zenon
<1> QED
  BY <1>2, <1>3, Zenon

\* A shell is started and connected.
LEMMA StartMoves ==
  ASSUME ShellTypes, Fielded, Heard, NEW t \in Commands
  PROVE  /\ CloseEnds(t) => Restarts(t)
         /\ Spawned(t) => Spawns(t)
         /\ Connected(t) => Connects(t)
         /\ SpawnFails(t) => Fails(t)
<1>1. call[t] \in CallRecords /\ session \in Fields /\ bash \in Seq(Shells)
  BY DEF ShellTypes
<1>2. ASSUME CloseEnds(t) PROVE Restarts(t)
  <2>1. Place(t) = "closing" /\ call[t].pipe = session.process
    BY <1>2 DEF CloseEnds, At, Fielded
  <2>2. CallSet(t, CallRec("spawning", call[t].lock, call[t].after, call[t].pipe, call[t].awaits, call[t].first))
    BY <1>2, GoMoves DEF CloseEnds
  <2>3. Gets(t, "spawning")
    BY <2>1, <2>2, NextStays DEF Gets
  <2> QED
    BY <1>2, <2>1, <2>3 DEF CloseEnds, Restarts, Others
<1>3. ASSUME Spawned(t) PROVE Spawns(t)
  <2>1. bash' = Append(bash, [stdin |-> <<>>, control |-> <<>>, alive |-> TRUE]) /\ Len(bash') = Len(bash) + 1
    BY <1>1, <1>3, SpawnedShell DEF Spawned
  <2>2. session' = [session EXCEPT !.process = Len(bash) + 1]
    BY <1>3, <2>1 DEF Spawned
  <2>3. session' = SessionRec(session.started, session.loop, Len(bash) + 1, session.reader, session.pids, session.lock)
    BY <1>1, <2>2, SessionFields, Zenon
  <2>4. CallSet(t, [call[t] EXCEPT !.place = "connecting", !.pipe = Len(bash) + 1])
    BY <1>3, <2>1, FrameSet DEF Spawned
  <2>5. [call[t] EXCEPT !.place = "connecting", !.pipe = Len(bash) + 1] =
          CallRec("connecting", call[t].lock, call[t].after, Len(bash) + 1, call[t].awaits, call[t].first)
    <3>1. \A n : [call[t] EXCEPT !.place = "connecting", !.pipe = n] =
                   CallRec("connecting", call[t].lock, call[t].after, n, call[t].awaits, call[t].first)
      BY <1>1, CallFields, Zenon
    <3> QED
      BY <3>1, Zenon
  <2>6. CallSet(t, CallRec("connecting", call[t].lock, call[t].after, Len(bash) + 1, call[t].awaits, call[t].first))
    BY <2>4, <2>5, Zenon
  <2> QED
    BY <1>3, <2>1, <2>3, <2>6 DEF Spawned, Spawns, At, Others
<1>4. ASSUME Connected(t) PROVE Connects(t)
  <2>1. Place(t) = "connecting" /\ call[t].pipe = session.process
    BY <1>4 DEF Connected, At, Fielded
  <2>2. session' = [session EXCEPT !.reader = session.process, !.started = TRUE, !.loop = this_loop]
    BY <1>4, <2>1 DEF Connected
  <2>3. session' = SessionRec(TRUE, this_loop, session.process, session.process, session.pids, session.lock)
    <3> DEFINE p == session.process
               R(b, l) == SessionRec(b, l, p, p, session.pids, session.lock)
    <3>1. [session EXCEPT !.reader = p] = R(session.started, session.loop)
      BY <1>1, SessionFields, Zenon
    <3>2. \A u, b : u = R(session.started, session.loop) => [u EXCEPT !.started = b] = R(b, session.loop)
      BY DEF SessionRec
    <3>3. \A u, b : u = R(b, session.loop) => [u EXCEPT !.loop = this_loop] = R(b, this_loop)
      BY DEF SessionRec
    <3> HIDE DEF R
    <3>4. ASSUME NEW b, b = TRUE PROVE session' = R(b, this_loop)
      <4>1. [[session EXCEPT !.reader = p] EXCEPT !.started = b] = R(b, session.loop)
        BY <3>1, <3>2, Zenon
      <4>2. [[[session EXCEPT !.reader = p] EXCEPT !.started = b] EXCEPT !.loop = this_loop] = R(b, this_loop)
        BY <3>3, <4>1, Zenon
      <4>3. [session EXCEPT !.reader = p, !.started = b, !.loop = this_loop]
              = [[[session EXCEPT !.reader = p] EXCEPT !.started = b] EXCEPT !.loop = this_loop]
        OBVIOUS
      <4>4. session' = [session EXCEPT !.reader = p, !.started = b, !.loop = this_loop]
        BY <2>2, <3>4
      <4> QED
        BY <4>2, <4>3, <4>4, Zenon
    <3> QED
      BY <3>4, Zenon DEF R
  <2>4. CallSet(t, [call[t] EXCEPT !.place = "pinging", !.awaits = "start"])
    BY <1>4, FrameSet DEF Connected, Start
  <2>5. [call[t] EXCEPT !.place = "pinging", !.awaits = "start"] =
          CallRec("pinging", call[t].lock, call[t].after, call[t].pipe, "start", call[t].first)
    BY <1>1, CallFields, Zenon
  <2>6. CallSet(t, CallRec("pinging", call[t].lock, call[t].after, call[t].pipe, "start", call[t].first))
    BY <2>4, <2>5, Zenon
  <2> QED
    BY <1>4, <2>1, <2>3, <2>6 DEF Connected, Connects, Start, Others
<1>5. ASSUME SpawnFails(t) PROVE Fails(t)
  <2>1. Place(t) = "spawning" /\ Return(t, "raised") /\ UNCHANGED bash /\ Others
    BY <1>5 DEF SpawnFails, At, Others
  <2>2. /\ CallSet(t, CallRec("done", 0, "none", call[t].pipe, "none", "none"))
        /\ returned' = [returned EXCEPT ![t] = "raised"] /\ line' = Without(line, t)
        /\ jobs' = jobs /\ session' = session
    BY <2>1, ReturnMoves
  <2> QED
    BY <2>1, <2>2 DEF Fails
<1> QED
  BY <1>2, <1>3, <1>4, <1>5

\* The lines of a report, and its end.
LEMMA ReadMoves ==
  ASSUME ShellTypes, Fielded, Heard, NEW t \in Commands
  PROVE  /\ Skip(t) => Skips(t)
         /\ Reported(t) => Reports(t)
         /\ Ready(t) \/ Recovered(t) => Proceeds(t)
<1>1. call[t] \in CallRecords /\ session \in Fields
  BY DEF ShellTypes
<1>2. ASSUME Skip(t) PROVE Skips(t)
  <2> DEFINE f == IF Place(t) = "reading" /\ call[t].first = "none" THEN Head(Lines(t)).of ELSE call[t].first
  <2>1. CallSet(t, [call[t] EXCEPT !.first = f])
    BY <1>2, FrameSet DEF Skip, None
  <2> HIDE DEF f
  <2>2. [call[t] EXCEPT !.first = f] =
          CallRec(Place(t), call[t].lock, call[t].after, call[t].pipe, call[t].awaits, f)
    BY <1>1, CallFields, Zenon DEF Place
  <2>3. CallSet(t, CallRec(Place(t), call[t].lock, call[t].after, call[t].pipe, call[t].awaits, f))
    BY <2>1, <2>2, Zenon
  <2>4. Place(t) \in Lookouts /\ Lines(t) # <<>> /\ ~IsLast(t) /\ bash' = OneLess(t)
        /\ UNCHANGED <<session, jobs, line, returned>> /\ Others
    BY <1>2, ShellPlaces DEF Skip, Others
  <2> QED
    BY <2>3, <2>4 DEF Skips, f
<1>3. ASSUME Reported(t) PROVE Reports(t)
  <2> DEFINE result == IF call[t].first = "none" THEN "dead" ELSE call[t].first
  <2>1. /\ Place(t) = "reading" /\ bash' = OneLess(t) /\ Others /\ Over(t)
    BY <1>3 DEF Reported, At, Others, Over, Eof
  <2>2. Return(t, result)
    BY <1>3 DEF Reported, Report, None
  <2>3. call[t].first \in Commands \cup {"none", "start"}
    BY <1>1 DEF CallRecords
  <2>4. result \in {"raised", "timed_out", "dead"} <=> call[t].first = "none"
    BY <2>3, ShellAssumption
  <2>5. result = IF call[t].first = "none" THEN "dead" ELSE call[t].first
    OBVIOUS
  <2> HIDE DEF result
  <2>6. /\ CallSet(t, CallRec("done", 0, "none", call[t].pipe, "none", "none"))
        /\ returned' = [returned EXCEPT ![t] = result] /\ line' = Without(line, t) /\ jobs' = jobs
        /\ session' = IF result \in {"raised", "timed_out", "dead"} THEN session
                      ELSE SessionRec(session.started, session.loop, session.process, session.reader,
                                      {c \in jobs : home[c] = call[t].pipe}, session.lock)
    BY <2>2, ReturnMoves
  <2> QED
    BY <2>1, <2>4, <2>5, <2>6 DEF Reports
<1>4. ASSUME Ready(t) PROVE Proceeds(t)
  <2>1. Place(t) = "pinging" /\ Over(t) /\ Go(t, "sending")
    BY <1>4 DEF Ready, At, Over, Eof
  <2>2. Gets(t, "sending")
    BY <2>1, GoMoves, NextStays DEF Gets
  <2> QED
    BY <1>4, <2>1, <2>2 DEF Ready, Proceeds, Others
<1>5. ASSUME Recovered(t) PROVE Proceeds(t)
  <2>1. Place(t) \in {"term", "kill"} /\ Over(t) /\ jobs' \in {jobs, Spared}
    BY <1>5 DEF Recovered, At, Over
  <2>2. CallSet(t, [call[t] EXCEPT !.place = "sending", !.after = Onward(t)])
    BY <1>5, FrameSet DEF Recovered
  <2>3. [call[t] EXCEPT !.place = "sending", !.after = Onward(t)] =
          CallRec("sending", call[t].lock, Onward(t), call[t].pipe, call[t].awaits, call[t].first)
    BY <1>1, CallFields, Zenon
  <2>4. CallSet(t, CallRec("sending", call[t].lock, Onward(t), call[t].pipe, call[t].awaits, call[t].first))
    BY <2>2, <2>3, Zenon
  <2>5. Gets(t, "sending")
    BY <2>4, NextStays DEF Gets
  <2> QED
    BY <1>5, <2>1, <2>5 DEF Recovered, Proceeds, Others
<1> QED
  BY <1>2, <1>3, <1>4, <1>5

\* The steps of the loop and of bash are these moves.
LEMMA ShellMoves ==
  ASSUME Joined, ShellTypes, Locking, Fielded, Heard, ShellNext
  PROVE  ShellMove
<1>1. ASSUME NEW t \in Commands, Call(t) \/ Progress(t) \/ SpawnFails(t)
      PROVE  MovesOn(t) \/ Fails(t) \/ Reports(t) \/ Enters(t) \/ Joins(t)
  <2>1. CASE Call(t)
    BY <2>1, CallMoves
  <2>2. CASE Wake(t)
    BY <2>2, WakeMoves
  <2>3. CASE CloseEnds(t) \/ Spawned(t) \/ Connected(t) \/ SpawnFails(t)
    BY <2>3, StartMoves DEF MovesOn
  <2>4. CASE Send(t)
    BY <2>4, SendMoves DEF MovesOn
  <2>5. CASE Skip(t) \/ Reported(t) \/ Ready(t) \/ Recovered(t)
    BY <2>5, ReadMoves DEF MovesOn
  <2>6. CASE TimesOut(t) \/ Escalates(t)
    <3>1. Place(t) \in {"pinging", "reading", "term"} /\ jobs' = Spared
          /\ (Go(t, "term") \/ Go(t, "kill"))
          /\ UNCHANGED <<session, bash, line, returned>> /\ Others
      BY <2>6 DEF TimesOut, Escalates, At, Others
    <3>2. \E w \in {"term", "kill"} :
            CallSet(t, CallRec(w, call[t].lock, call[t].after, call[t].pipe, call[t].awaits, call[t].first))
      BY <3>1, GoMoves
    <3>3. Kills(t)
      BY <3>1, <3>2 DEF Kills
    <3> QED
      BY <3>3 DEF MovesOn
  <2>7. CASE Unrecovered(t)
    <3>1. Place(t) = "kill" /\ Reset(t, Onward(t)) /\ Others
      BY <2>7 DEF Unrecovered, At, Others
    <3>2. Onward(t) \in Nexts(t)
      BY NextStays
    <3> QED
      BY <3>1, <3>2, ResetMoves DEF MovesOn
  <2> QED
    BY <1>1, <2>1, <2>2, <2>3, <2>4, <2>5, <2>6, <2>7 DEF Progress
<1>2. ASSUME NEW S \in SUBSET Commands, CallsCancelled(S), \A t \in S : InUse(t),
             this_loop' = this_loop \/ (this_loop' = this_loop + 1 /\ S = {t \in Commands : InUse(t)})
      PROVE  Cancels(S)
  <2>1. Idle("done", 0) = CallRec("done", 0, "none", 0, "none", "none")
    BY IdleFields, Zenon
  <2>2. call' = [t \in Commands |-> IF t \in S THEN CallRec("done", 0, "none", 0, "none", "none") ELSE call[t]]
    BY <1>2, <2>1 DEF CallsCancelled
  <2> QED
    BY <1>2, <2>2, ShellPlaces DEF CallsCancelled, Cancels
<1>3. ASSUME NEW t \in Commands, Cancel(t) PROVE ShellMove
  <2>1. CallsCancelled({t}) /\ InUse(t) /\ this_loop' = this_loop
    BY <1>3 DEF Cancel
  <2>2. {t} \in SUBSET Commands /\ \A u \in {t} : InUse(u)
    BY <2>1
  <2>3. Cancels({t})
    BY <1>2, <2>1, <2>2
  <2> QED
    BY <2>2, <2>3 DEF ShellMove
<1>4. ASSUME NewLoop PROVE ShellMove
  <2> DEFINE S == {t \in Commands : InUse(t)}
  <2>1. CallsCancelled(S) /\ this_loop' = this_loop + 1 /\ S \in SUBSET Commands /\ \A t \in S : InUse(t)
    BY <1>4 DEF NewLoop
  <2>2. Cancels(S)
    BY <1>2, <2>1
  <2> QED
    BY <2>1, <2>2 DEF ShellMove
<1>5. ASSUME Close PROVE ClosesUp
  BY <1>5 DEF Close, ClosesUp, Others
<1> QED
  BY <1>1, <1>3, <1>4, <1>5 DEF ShellNext, ShellMove

----------------------------------------------------------------------------
(***************************************************************************)
(* Types are kept.                                                         *)
(***************************************************************************)

\* The types of the records that calls and the session become.
LEMMA RecordTypes ==
  /\ \A w \in Past \cup {"idle", "queued", "done"}, l \in Nat,
        n \in {"none", "send", "write", "rewrite", "return"}, p \in Nat,
        a \in Commands \cup {"none", "start"}, f \in Commands \cup {"none", "start"} :
       CallRec(w, l, n, p, a, f) \in CallRecords
  /\ \A s \in BOOLEAN, l \in Nat, p \in Nat, r \in Nat, j \in SUBSET Commands, k \in Nat :
       SessionRec(s, l, p, r, j, k) \in Fields
  /\ \A k \in Nat : Fresh(k) \in Fields
<1>1. \A s \in BOOLEAN, l \in Nat, p \in Nat, r \in Nat, j \in SUBSET Commands, k \in Nat :
        SessionRec(s, l, p, r, j, k) \in Fields
  BY DEF SessionRec, Fields
<1>2. ASSUME NEW k \in Nat PROVE Fresh(k) \in Fields
  <2>1. \A b \in BOOLEAN : SessionRec(b, 0, 0, 0, {}, k) \in Fields
    BY <1>1
  <2>2. \A b : b = FALSE => Fresh(k) = SessionRec(b, 0, 0, 0, {}, k)
    BY DEF Fresh, SessionRec
  <2> QED
    BY <2>1, <2>2
<1>3. \A w \in Past \cup {"idle", "queued", "done"}, l \in Nat,
         n \in {"none", "send", "write", "rewrite", "return"}, p \in Nat,
         a \in Commands \cup {"none", "start"}, f \in Commands \cup {"none", "start"} :
        CallRec(w, l, n, p, a, f) \in CallRecords
  BY DEF CallRec, CallRecords
<1> QED
  BY <1>1, <1>2, <1>3

\* The shell that a call reads from is the session's.
LEMMA ReadFrom ==
  ASSUME ShellTypes, Fielded, NEW t \in Commands, Place(t) \in Lookouts
  PROVE  /\ session.process \in 1..Len(bash) /\ call[t].pipe = session.process
         /\ session.started /\ session.reader = session.process /\ session.loop # 0
         /\ Lines(t) \in Seq(StdinItems)
<1>1. session.process \in 1..Len(bash) /\ call[t].pipe = session.process
  <2>1. Len(bash) \in Nat
    BY LenProperties DEF ShellTypes
  <2> QED
    BY <2>1 DEF ShellTypes, Fielded
<1>2. bash[session.process] \in Shells
  BY <1>1 DEF ShellTypes
<1> QED
  BY <1>1, <1>2 DEF Lines, Shells, Fielded

\* What a call that moves on becomes: it stays past the lock, which is the same.
LEMMA CallMovesOn ==
  ASSUME ShellTypes, Fielded, NEW t \in Commands, MovesOn(t)
  PROVE  /\ Place(t) \in Past /\ UNCHANGED <<line, returned, this_loop, home, keep, disturbed>>
         /\ \E c \in CallRecords : CallSet(t, c) /\ c.place \in Past /\ c.lock = call[t].lock
<1>1. Len(bash) \in Nat /\ call[t] \in CallRecords /\ session \in Fields
  BY LenProperties DEF ShellTypes
<1>2. /\ call[t].lock \in Nat /\ call[t].after \in {"none", "send", "write", "rewrite", "return"}
      /\ call[t].pipe \in Nat /\ call[t].awaits \in Commands \cup {"none", "start"}
      /\ call[t].first \in Commands \cup {"none", "start"}
      /\ session.process \in Nat /\ session.reader \in Nat
  BY <1>1 DEF CallRecords, Fields
<1>3. Nexts(t) \subseteq {"none", "send", "write", "rewrite", "return"}
  BY DEF Nexts
<1>4. ASSUME NEW w \in Past, NEW n \in {"none", "send", "write", "rewrite", "return"}, NEW p \in Nat,
             NEW a \in Commands \cup {"none", "start"}, NEW f \in Commands \cup {"none", "start"},
             CallSet(t, CallRec(w, call[t].lock, n, p, a, f))
      PROVE  \E c \in CallRecords : CallSet(t, c) /\ c.place \in Past /\ c.lock = call[t].lock
  <2> DEFINE c == CallRec(w, call[t].lock, n, p, a, f)
  <2>1. c \in CallRecords
    BY <1>2, RecordTypes
  <2>2. c.place = w /\ c.lock = call[t].lock
    BY DEF CallRec
  <2> HIDE DEF c
  <2>3. CallSet(t, c)
    BY <1>4 DEF c
  <2> QED
    BY <2>1, <2>2, <2>3
<1>5. {"closing", "spawning", "connecting", "pinging", "reading", "sending", "term", "kill"} \subseteq Past
  BY ShellPlaces
<1>6. UNCHANGED <<line, returned, this_loop, home, keep, disturbed>> /\ Place(t) \in Past
  BY <1>5, ShellPlaces DEF MovesOn, Closes, Restarts, Spawns, Connects, Writes, Skips, Proceeds, Kills, Others
<1> USE DEF Gets
<1>7. CASE Closes(t)
  BY <1>2, <1>3, <1>4, <1>5, <1>6, <1>7 DEF Closes
<1>8. CASE Restarts(t)
  BY <1>2, <1>3, <1>4, <1>5, <1>6, <1>8 DEF Restarts
<1>9. CASE Spawns(t)
  <2>1. Len(bash) + 1 \in Nat
    BY <1>1
  <2> QED
    BY <1>2, <1>4, <1>5, <1>6, <1>9, <2>1 DEF Spawns
<1>10. CASE Connects(t)
  BY <1>2, <1>4, <1>5, <1>6, <1>10 DEF Connects
<1>11. CASE Writes(t)
  BY <1>2, <1>4, <1>5, <1>6, <1>11 DEF Writes
<1>12. CASE Skips(t)
  <2> DEFINE f == IF Place(t) = "reading" /\ call[t].first = "none" THEN Head(Lines(t)).of ELSE call[t].first
  <2>1. Lines(t) \in Seq(StdinItems) /\ Lines(t) # <<>>
    BY <1>12, ReadFrom DEF Skips
  <2>2. Head(Lines(t)) \in StdinItems
    BY <2>1, HeadTailProperties
  <2>3. Head(Lines(t)).of \in Commands \cup {"start"}
    BY <2>2 DEF StdinItems
  <2>4. f \in Commands \cup {"none", "start"}
    BY <2>3, <1>2
  <2>5. CallSet(t, CallRec(Place(t), call[t].lock, call[t].after, call[t].pipe, call[t].awaits, f))
    BY <1>12 DEF Skips
  <2> HIDE DEF f
  <2> QED
    BY <1>2, <1>4, <1>6, <2>4, <2>5
<1>13. CASE Proceeds(t)
  BY <1>2, <1>3, <1>4, <1>5, <1>6, <1>13 DEF Proceeds
<1>14. CASE Kills(t)
  <2>1. PICK where \in {"term", "kill"} :
          CallSet(t, CallRec(where, call[t].lock, call[t].after, call[t].pipe, call[t].awaits, call[t].first))
    BY <1>14 DEF Kills
  <2>2. where \in Past
    BY <1>5
  <2>3. \E c \in CallRecords : CallSet(t, c) /\ c.place \in Past /\ c.lock = call[t].lock
    BY <1>2, <1>4, <2>1, <2>2
  <2> QED
    BY <1>6, <2>3
<1> QED
  BY <1>7, <1>8, <1>9, <1>10, <1>11, <1>12, <1>13, <1>14 DEF MovesOn

\* What a call that enters or joins the line becomes.
LEMMA CallComesIn ==
  ASSUME ShellTypes, NEW t \in Commands, Enters(t) \/ Joins(t)
  PROVE  /\ UNCHANGED <<returned, this_loop, home, keep, disturbed>>
         /\ \E c \in CallRecords :
              /\ CallSet(t, c) /\ c.awaits = "none" /\ c.first = "none"
              /\ Enters(t) => c.place \in {"spawning", "sending"} /\ c.after = "send" /\ (line # <<>> => c.lock = call[t].lock)
              /\ Joins(t) => c.place = "queued" /\ c.after = "none" /\ c.lock = session.lock
<1>1. session.lock \in Nat
  BY DEF ShellTypes, Fields
<1>2. ASSUME NEW w \in {"spawning", "sending", "queued"}, NEW l \in Nat, NEW n \in {"send", "none"},
             CallSet(t, CallRec(w, l, n, 0, "none", "none"))
      PROVE  \E c \in CallRecords : /\ CallSet(t, c) /\ c.awaits = "none" /\ c.first = "none"
                                    /\ c.place = w /\ c.after = n /\ c.lock = l
  <2> DEFINE c == CallRec(w, l, n, 0, "none", "none")
  <2>1. c \in CallRecords
    BY RecordTypes, ShellPlaces
  <2>2. c.place = w /\ c.after = n /\ c.lock = l /\ c.awaits = "none" /\ c.first = "none"
    BY DEF CallRec
  <2> HIDE DEF c
  <2>3. CallSet(t, c)
    BY <1>2 DEF c
  <2> QED
    BY <2>1, <2>2, <2>3
<1>3. CASE Enters(t)
  <2>1. ~Joins(t)
    BY <1>3 DEF Enters, Joins
  <2>2. PICK l \in Nat, w \in {"spawning", "sending"} :
          (Place(t) = "queued" => l = call[t].lock) /\ CallSet(t, CallRec(w, l, "send", 0, "none", "none"))
    BY <1>3 DEF Enters
  <2>3. line # <<>> => Place(t) = "queued"
    BY <1>3 DEF Enters
  <2>4. UNCHANGED <<returned, this_loop, home, keep, disturbed>>
    BY <1>3 DEF Enters, Others
  <2>5. PICK c \in CallRecords : /\ CallSet(t, c) /\ c.awaits = "none" /\ c.first = "none"
                                 /\ c.place = w /\ c.after = "send" /\ c.lock = l
    BY <1>2, <2>2
  <2> QED
    BY <2>1, <2>2, <2>3, <2>4, <2>5
<1>4. CASE Joins(t)
  <2>1. ~Enters(t)
    BY <1>4 DEF Enters, Joins
  <2>2. UNCHANGED <<returned, this_loop, home, keep, disturbed>>
        /\ CallSet(t, CallRec("queued", session.lock, "none", 0, "none", "none"))
    BY <1>4 DEF Joins, Others
  <2>3. PICK c \in CallRecords : /\ CallSet(t, c) /\ c.awaits = "none" /\ c.first = "none"
                                 /\ c.place = "queued" /\ c.after = "none" /\ c.lock = session.lock
    BY <1>1, <1>2, <2>2
  <2> QED
    BY <2>1, <2>2, <2>3
<1> QED
  BY <1>3, <1>4

\* An empty line has no members, and the head of another one is a member.
LEMMA LineMembers ==
  ASSUME NEW q \in Seq(Commands)
  PROVE  /\ q = <<>> <=> Members(q) = {}
         /\ q # <<>> => Head(q) \in Members(q)
         /\ \A t \in Commands : q = <<>> => Append(q, t) # <<>> /\ Head(Append(q, t)) = t
         /\ \A t \in Commands : q # <<>> => Append(q, t) # <<>> /\ Head(Append(q, t)) = Head(q)
<1>1. Len(q) \in Nat
  BY LenProperties
<1>2. q # <<>> => 1 \in 1..Len(q) /\ Head(q) = q[1]
  BY <1>1, EmptySeq, HeadTailProperties
<1>3. q = <<>> => 1..Len(q) = {} /\ Len(q) = 0
  BY EmptySeq
<1>4. ASSUME NEW t \in Commands
      PROVE  /\ Append(q, t) # <<>>
             /\ Head(Append(q, t)) = IF q = <<>> THEN t ELSE Head(q)
  <2> DEFINE r == Append(q, t)
  <2>1. r \in Seq(Commands) /\ Len(r) = Len(q) + 1 /\ r[Len(q) + 1] = t /\ \A i \in 1..Len(q) : r[i] = q[i]
    BY AppendProperties
  <2> HIDE DEF r
  <2>2. r # <<>>
    BY <1>1, <2>1, EmptySeq
  <2>3. Head(r) = r[1]
    BY <2>1, <2>2, HeadTailProperties
  <2> QED
    BY <1>1, <1>2, <1>3, <2>1, <2>2, <2>3 DEF r
<1> QED
  BY <1>2, <1>3, <1>4 DEF Members

\* The line, and who stands in it, while a call moves on.
LEMMA LockingMovesOn ==
  ASSUME ShellTypes, Locking, Fielded, NEW t \in Commands, MovesOn(t)
  PROVE  Locking'
<1>1. PICK c \in CallRecords : CallSet(t, c) /\ c.place \in Past /\ c.lock = call[t].lock
  BY CallMovesOn
<1>2. Place(t) \in Past /\ UNCHANGED <<line, this_loop>>
  BY CallMovesOn
<1>3. \A u \in Commands : call'[u].lock = call[u].lock /\ (Place(u)' \in Past <=> Place(u) \in Past)
                          /\ (InUse(u)' <=> InUse(u))
  BY <1>1, <1>2 DEF CallSet, Place, InUse, Past
<1>4. session'.loop \in {session.loop, 0, this_loop}
  BY DEF MovesOn, Closes, Restarts, Spawns, Connects, Writes, Skips, Proceeds, Kills, SessionRec, Fresh
<1>5. Members(line) \subseteq Commands
  BY DEF ShellTypes, Members
<1> QED
  BY <1>2, <1>3, <1>4, <1>5 DEF Locking

\* A call ends, and leaves the line.
LEMMA LockingEnds ==
  ASSUME ShellTypes, Locking, NEW t \in Commands, Place(t) \in Past, this_loop' = this_loop,
         session'.loop = session.loop, line' = Without(line, t),
         CallSet(t, CallRec("done", 0, "none", call[t].pipe, "none", "none"))
  PROVE  /\ Locking' /\ line' \in Seq(Commands)
         /\ \A i, j \in 1..Len(line') : line'[i] = line'[j] => i = j
<1>1. line \in Seq(Commands) /\ \A i, j \in 1..Len(line) : line[i] = line[j] => i = j
  BY DEF ShellTypes
<1>2. t \in Members(line)
  BY DEF Locking, InUse, Past
<1>3. line' \in Seq(Commands)
  BY <1>1, <1>2, WithoutType
<1>4. Members(line') = Members(line) \ {t} /\ \A i, j \in 1..Len(line') : line'[i] = line'[j] => i = j
  BY <1>1, <1>2, WithoutMembers
<1>5. /\ \A u \in Commands \ {t} : call'[u] = call[u]
      /\ call'[t].place = "done"
  BY DEF CallSet, CallRec
<1>6. \A u \in Commands : /\ Place(u)' \notin Past
                          /\ InUse(u)' <=> InUse(u) /\ u # t
  BY <1>5, OnePast, ShellPlaces DEF Place, InUse, Past
<1>7. line' # <<>> => session'.loop \in {0, this_loop'}
  BY DEF Locking
<1>8. Members(line) \subseteq Commands
  BY <1>1 DEF Members
<1> QED
  BY <1>3, <1>4, <1>5, <1>6, <1>7, <1>8 DEF Locking

\* A call comes in.
LEMMA LockingComesIn ==
  ASSUME ShellTypes, Locking, Fielded, NEW t \in Commands, Enters(t) \/ Joins(t)
  PROVE  /\ Locking' /\ line' \in Seq(Commands)
         /\ \A i, j \in 1..Len(line') : line'[i] = line'[j] => i = j
<1>1. line \in Seq(Commands) /\ \A i, j \in 1..Len(line) : line[i] = line[j] => i = j
  BY DEF ShellTypes
<1>2. PICK c \in CallRecords :
              /\ CallSet(t, c) /\ c.awaits = "none" /\ c.first = "none"
              /\ Enters(t) => c.place \in {"spawning", "sending"} /\ c.after = "send" /\ (line # <<>> => c.lock = call[t].lock)
              /\ Joins(t) => c.place = "queued" /\ c.after = "none" /\ c.lock = session.lock
  BY CallComesIn
<1>3. this_loop' = this_loop
  BY DEF Enters, Joins, Others
<1>4. Members(line) \subseteq Commands
  BY <1>1 DEF Members
<1>5. \/ Place(t) = "idle" /\ line' = Append(line, t)
      \/ Place(t) = "queued" /\ line # <<>> /\ Head(line) = t /\ line' = line /\ Enters(t)
  BY DEF Enters, Joins
<1>6. Place(t) = "idle" => t \notin Members(line)
  BY DEF Locking, InUse, Suspended, Reading
<1>7. line' \in Seq(Commands) /\ Members(line') = Members(line) \cup {t}
      /\ \A i, j \in 1..Len(line') : line'[i] = line'[j] => i = j
  <2>1. CASE Place(t) = "idle" /\ line' = Append(line, t)
    BY <2>1, <1>1, <1>6, JoinedMembers
  <2>2. CASE Place(t) = "queued" /\ line # <<>> /\ Head(line) = t /\ line' = line
    BY <2>2, <1>1, LineMembers
  <2> QED
    BY <1>5, <2>1, <2>2
<1>8. /\ \A u \in Commands \ {t} : call'[u] = call[u]
      /\ call'[t] = c
  BY <1>2 DEF CallSet
<1>9. InUse(t)' /\ \A u \in Commands \ {t} : InUse(u)' <=> InUse(u)
  BY <1>2, <1>8 DEF InUse, Place, Suspended, Reading
<1>10. ASSUME NEW u \in Members(line'), NEW v \in Members(line') PROVE call'[u].lock = call'[v].lock
  <2>1. CASE Enters(t) /\ Place(t) = "idle"
    <3>1. line = <<>>
      BY <2>1 DEF Enters
    <3>2. Members(line') = {t}
      BY <3>1, <1>1, <1>7, LineMembers
    <3> QED
      BY <3>2
  <2>2. CASE Enters(t) /\ Place(t) = "queued"
    <3>1. line # <<>> /\ t \in Members(line)
      BY <2>2, <1>1, LineMembers DEF Enters
    <3>2. \A w \in Members(line) : call'[w].lock = call[w].lock
      BY <2>2, <3>1, <1>2, <1>4, <1>8
    <3> QED
      BY <3>1, <3>2, <1>7 DEF Locking
  <2>3. CASE Joins(t)
    <3>1. \A w \in Members(line) : call[w].lock = session.lock /\ w # t
      BY <2>3, <1>6 DEF Joins
    <3>2. \A w \in Members(line') : call'[w].lock = session.lock
      BY <2>3, <3>1, <1>2, <1>4, <1>7, <1>8
    <3> QED
      BY <3>2
  <2> QED
    BY <2>1, <2>2, <2>3 DEF Enters
<1>11. ASSUME NEW u \in Commands, Place(u)' \in Past PROVE line' # <<>> /\ Head(line') = u
  <2>1. CASE u = t
    <3>1. ~Joins(t)
      BY <1>2, <1>8, <1>11, <2>1, ShellPlaces DEF Place
    <3>2. Enters(t)
      BY <3>1
    <3>3. CASE Place(t) = "idle"
      BY <3>2, <3>3, <2>1, <1>1, LineMembers DEF Enters
    <3>4. CASE Place(t) = "queued"
      BY <3>2, <3>4, <2>1 DEF Enters
    <3> QED
      BY <1>5, <3>3, <3>4
  <2>2. CASE u # t
    <3>1. Place(u) \in Past
      BY <1>8, <1>11, <2>2 DEF Place
    <3>2. line # <<>> /\ Head(line) = u
      BY <3>1 DEF Locking
    <3>3. Joins(t)
      BY <3>2, <2>2 DEF Enters
    <3>4. line' = Append(line, t)
      BY <3>3 DEF Joins
    <3> QED
      BY <3>2, <3>4, <1>1, LineMembers
  <2> QED
    BY <2>1, <2>2
<1>12. session'.loop \in {0, this_loop'}
  <2>1. CASE Joins(t)
    BY <2>1 DEF Joins, Locking, Others
  <2>2. CASE Enters(t) /\ session' = session
    <3>1. CASE ~session.started
      BY <2>2, <3>1 DEF Fielded
    <3>2. CASE session.loop = this_loop
      BY <2>2, <3>2, <1>3
    <3>3. CASE session' = Fresh(session'.lock)
      BY <3>3 DEF Fresh
    <3> QED
      BY <2>2, <3>1, <3>2, <3>3 DEF Enters, Fresh
  <2>3. CASE Enters(t) /\ session' # session
    BY <2>3 DEF Enters, Fresh
  <2> QED
    BY <2>1, <2>2, <2>3
<1>13. \A u \in Commands : u \in Members(line') <=> InUse(u)'
  BY <1>7, <1>9 DEF Locking
<1> QED
  BY <1>7, <1>10, <1>11, <1>12, <1>13 DEF Locking

\* Calls are cancelled, and leave the line.
LEMMA LockingCancels ==
  ASSUME ShellTypes, Locking, NEW S \in SUBSET Commands, Cancels(S)
  PROVE  /\ Locking' /\ line' \in Seq(Commands)
         /\ \A i, j \in 1..Len(line') : line'[i] = line'[j] => i = j
<1> DEFINE K == Commands \ S
<1>1. line \in Seq(Commands) /\ \A i, j \in 1..Len(line) : line[i] = line[j] => i = j
  BY DEF ShellTypes
<1>2. line' = Only(line, K)
  BY DEF Cancels
<1>3. line' \in Seq(Commands)
  BY <1>1, <1>2, OnlyShape
<1>4. Members(line') = Members(line) \cap K /\ \A i, j \in 1..Len(line') : line'[i] = line'[j] => i = j
  <2> DEFINE r == Only(line, K)
  <2>1. Members(r) = Members(line) \cap K
    BY <1>1, OnlyMembers
  <2>2. \A i, j \in 1..Len(r) : r[i] = r[j] => i = j
    BY <1>1, OnlyMembers
  <2> HIDE DEF r
  <2>3. line' = r
    BY <1>2 DEF r
  <2> QED
    BY <2>1, <2>2, <2>3
<1>5. Members(line) \subseteq Commands
  BY <1>1 DEF Members
<1>6. /\ \A u \in K : call'[u] = call[u]
      /\ \A u \in S : call'[u].place = "done"
  BY DEF Cancels, CallRec
<1>7. \A u \in Commands : /\ InUse(u)' <=> InUse(u) /\ u \in K
                          /\ Place(u)' \in Past => Place(u) \in Past /\ u \in K
  BY <1>6, ShellPlaces DEF InUse, Place, Past
<1>8. ASSUME NEW u \in Commands, Place(u)' \in Past PROVE line' # <<>> /\ Head(line') = u
  <2>1. line # <<>> /\ Head(line) = u /\ u \in K
    BY <1>7, <1>8 DEF Locking
  <2> QED
    BY <2>1, <1>1, <1>2, OnlyHead
<1>9. ASSUME line' # <<>> PROVE session'.loop \in {0, this_loop'}
  <2>1. Members(line') # {}
    BY <1>3, <1>9, LineMembers
  <2>2. Members(line) # {}
    BY <1>4, <2>1
  <2>3. line # <<>>
    BY <1>1, <2>2, LineMembers
  <2>4. this_loop' = this_loop
    <3>1. ASSUME S = {t \in Commands : InUse(t)} PROVE FALSE
      BY <1>4, <1>5, <2>1, <3>1 DEF Locking
    <3> QED
      BY <3>1 DEF Cancels
  <2> QED
    BY <2>3, <2>4 DEF Locking, Cancels
<1>10. \A u \in Commands : u \in Members(line') <=> InUse(u)'
  BY <1>4, <1>7 DEF Locking
<1>11. \A u, v \in Members(line') : call'[u].lock = call'[v].lock
  <2>1. \A u \in Members(line') : u \in Members(line) /\ call'[u] = call[u]
    BY <1>4, <1>6
  <2> QED
    BY <2>1 DEF Locking
<1> QED
  BY <1>3, <1>4, <1>8, <1>9, <1>10, <1>11 DEF Locking

\* The line is of its type, and the lock is held by one call, in every step.
LEMMA LockingNext ==
  ASSUME ShellTypes, Locking, Fielded, ShellMove
  PROVE  /\ Locking' /\ line' \in Seq(Commands)
         /\ \A i, j \in 1..Len(line') : line'[i] = line'[j] => i = j
<1>1. line \in Seq(Commands) /\ \A i, j \in 1..Len(line) : line[i] = line[j] => i = j
  BY DEF ShellTypes
<1>2. ASSUME NEW t \in Commands, MovesOn(t) PROVE Locking' /\ line' = line
  BY <1>2, LockingMovesOn, CallMovesOn
<1>3. ASSUME NEW t \in Commands, Fails(t) \/ Reports(t)
      PROVE  /\ Locking' /\ line' \in Seq(Commands)
             /\ \A i, j \in 1..Len(line') : line'[i] = line'[j] => i = j
  <2>1. Place(t) \in Past /\ this_loop' = this_loop /\ line' = Without(line, t)
        /\ CallSet(t, CallRec("done", 0, "none", call[t].pipe, "none", "none"))
    BY <1>3, ShellPlaces DEF Fails, Reports, Others
  <2>2. session'.loop = session.loop
    BY <1>3 DEF Fails, Reports, SessionRec
  <2> QED
    BY <2>1, <2>2, LockingEnds
<1>4. ASSUME UNCHANGED <<line, call, this_loop, session>> \/ (line = <<>> /\ UNCHANGED <<line, call>>)
      PROVE  Locking' /\ line' = line
  BY <1>4 DEF Locking, InUse, Place
<1>5. ASSUME NEW p \in 1..Len(bash), BashStep(p) \/ Dies(p)
      PROVE  UNCHANGED <<line, call, this_loop, session>>
  BY <1>5 DEF BashStep, Dies
<1>6. ASSUME ClosesUp PROVE line = <<>> /\ UNCHANGED <<line, call>>
  BY <1>6 DEF ClosesUp
<1>7. CASE \E t \in Commands : MovesOn(t)
  BY <1>1, <1>2, <1>7
<1>8. CASE \E t \in Commands : Fails(t) \/ Reports(t)
  BY <1>3, <1>8
<1>9. CASE \E t \in Commands : Enters(t) \/ Joins(t)
  BY <1>9, LockingComesIn
<1>10. CASE \E p \in 1..Len(bash) : BashStep(p) \/ Dies(p)
  BY <1>1, <1>4, <1>5, <1>10
<1>11. CASE \E S \in SUBSET Commands : Cancels(S)
  BY <1>11, LockingCancels
<1>12. CASE ClosesUp
  BY <1>1, <1>4, <1>6, <1>12
<1> QED
  BY <1>7, <1>8, <1>9, <1>10, <1>11, <1>12 DEF ShellMove

\* While a call past the lock moves, or enters, no other is past it.
LEMMA OneMoves ==
  ASSUME ShellTypes, Locking, NEW t \in Commands, MovesOn(t) \/ Fails(t) \/ Reports(t) \/ Enters(t)
  PROVE  \A u \in Commands : u # t => Place(u) \notin Past /\ call'[u] = call[u]
<1>1. \A u \in Commands : u # t => Place(u) \notin Past
  <2>1. CASE Place(t) \in Past
    BY <2>1, OnePast
  <2>2. CASE Place(t) \notin Past
    <3>1. Enters(t)
      BY <2>2, ShellPlaces DEF MovesOn, Closes, Restarts, Spawns, Connects, Writes, Skips, Proceeds, Kills, Fails, Reports
    <3>2. line = <<>> \/ Head(line) = t
      BY <3>1 DEF Enters
    <3> QED
      BY <2>2, <3>2 DEF Locking
  <2> QED
    BY <2>1, <2>2
<1>2. \E c : CallSet(t, c)
  BY DEF MovesOn, Closes, Restarts, Spawns, Connects, Writes, Skips, Proceeds, Kills, Fails, Reports, Enters, Gets
<1>3. \A u \in Commands : u # t => call'[u] = call[u]
  BY <1>2 DEF CallSet
<1> QED
  BY <1>1, <1>3

\* What the call past the lock knows of the fields.
FieldedFor(t) ==
  /\ Place(t) \in Lookouts =>
       session.started /\ session.reader = session.process /\ call[t].pipe = session.process
  /\ Place(t) \in {"spawning", "connecting"} => ~session.started
  /\ Place(t) = "connecting" => session.process # 0 /\ call[t].pipe = session.process
  /\ Place(t) = "closing" =>
       session.process # 0 /\ session.reader = 0 /\ call[t].pipe = session.process
  /\ Place(t) = "reading" => call[t].awaits = t
  /\ Place(t) = "pinging" => call[t].awaits = "start"
  /\ Place(t) \in {"term", "kill"} => call[t].awaits \in {t, "start"}

\* A step of one call keeps what is known of the fields.
LEMMA FieldedSteps ==
  ASSUME ShellTypes, Locking, Fielded, NEW t \in Commands, MovesOn(t) \/ Fails(t) \/ Reports(t) \/ Enters(t)
  PROVE  Fielded'
<1>1. \A u \in Commands : u # t => Place(u)' \notin Past
  BY OneMoves DEF Place
<1>2. ASSUME /\ session'.reader \in {0, session'.process}
             /\ IF session'.started THEN session'.process # 0 /\ session'.loop # 0
                ELSE session'.loop = 0 /\ session'.reader = 0
             /\ FieldedFor(t)'
      PROVE  Fielded'
  <2>1. \A u \in Commands : FieldedFor(u)'
    BY <1>1, <1>2, ShellPlaces DEF FieldedFor
  <2> QED
    BY <1>2, <2>1 DEF Fielded, FieldedFor
<1>3. Len(bash) + 1 # 0 /\ this_loop # 0
  <2>1. Len(bash) \in Nat
    BY LenProperties DEF ShellTypes
  <2> QED
    BY <2>1 DEF ShellTypes
<1>4. Fielded /\ FieldedFor(t)
  BY DEF Fielded, FieldedFor
<1> USE DEF CallSet, CallRec, SessionRec, Fresh, Place, Lookouts
<1>5. CASE Closes(t)
  BY <1>2, <1>4, <1>5 DEF Closes, FieldedFor, Fielded
<1>6. CASE Restarts(t)
  BY <1>2, <1>4, <1>6 DEF Restarts, Gets, FieldedFor
<1>7. CASE Spawns(t)
  BY <1>2, <1>3, <1>4, <1>7 DEF Spawns, FieldedFor, Fielded
<1>8. CASE Connects(t)
  BY <1>2, <1>3, <1>4, <1>8 DEF Connects, FieldedFor
<1>9. CASE Writes(t)
  BY <1>2, <1>4, <1>9 DEF Writes, FieldedFor, Fielded
<1>10. CASE Skips(t)
  BY <1>2, <1>4, <1>10 DEF Skips, FieldedFor, Fielded
<1>11. CASE Proceeds(t)
  BY <1>2, <1>4, <1>11 DEF Proceeds, Gets, FieldedFor, Fielded
<1>12. CASE Kills(t)
  BY <1>2, <1>4, <1>12 DEF Kills, FieldedFor, Fielded
<1>13. CASE Fails(t)
  BY <1>2, <1>4, <1>13 DEF Fails, FieldedFor, Fielded
<1>14. CASE Reports(t)
  BY <1>2, <1>4, <1>14 DEF Reports, FieldedFor, Fielded
<1>15. CASE Enters(t)
  BY <1>2, <1>4, <1>15 DEF Enters, FieldedFor, Fielded
<1> QED
  BY <1>5, <1>6, <1>7, <1>8, <1>9, <1>10, <1>11, <1>12, <1>13, <1>14, <1>15 DEF MovesOn

\* So does every step.
LEMMA FieldedNext ==
  ASSUME ShellTypes, Locking, Fielded, ShellMove
  PROVE  Fielded'
<1>1. CASE \E t \in Commands : MovesOn(t) \/ Fails(t) \/ Reports(t) \/ Enters(t)
  BY <1>1, FieldedSteps
<1>2. ASSUME NEW t \in Commands, Joins(t) PROVE Fielded'
  <2>1. session' = session /\ \A u \in Commands : u # t => call'[u] = call[u]
    BY <1>2 DEF Joins, CallSet
  <2>2. call'[t].place = "queued"
    BY <1>2 DEF Joins, CallSet, CallRec
  <2> QED
    BY <2>1, <2>2 DEF Fielded, Place, Lookouts
<1>3. ASSUME NEW p \in 1..Len(bash), BashStep(p) \/ Dies(p) PROVE Fielded'
  BY <1>3 DEF BashStep, Dies, Fielded, Place
<1>4. ASSUME NEW S \in SUBSET Commands, Cancels(S) PROVE Fielded'
  <2>1. session' = session /\ \A u \in Commands : call'[u] = call[u] \/ call'[u].place = "done"
    BY <1>4 DEF Cancels, CallRec
  <2> QED
    BY <2>1 DEF Fielded, Place, Lookouts
<1>5. ASSUME ClosesUp PROVE Fielded'
  <2>1. \A u \in Commands : Place(u)' \notin Past
    BY <1>5 DEF ClosesUp, Locking, Place
  <2>2. session'.reader = 0 /\ ~session'.started /\ session'.loop = 0
    BY <1>5 DEF ClosesUp, Fresh
  <2> QED
    BY <2>1, <2>2, ShellPlaces DEF Fielded
<1> QED
  BY <1>1, <1>2, <1>3, <1>4, <1>5 DEF ShellMove

\* What a call writes, what it asks for when it starts a shell.
LEMMA ScriptType ==
  ASSUME NEW t \in Commands
  PROVE  /\ Script(t) \in Seq(StdinItems) /\ Len(Script(t)) = 3
         /\ Script(t)[1] = [of |-> t, do |-> "run"] /\ Script(t)[2] = [of |-> t, do |-> "code"]
         /\ Script(t)[3] = [of |-> t, do |-> "sentinel"]
         /\ <<Sentinel("start")>> \in Seq(StdinItems) /\ Len(<<Sentinel("start")>>) = 1
         /\ <<Sentinel("start")>>[1] = [of |-> "start", do |-> "sentinel"]
<1>1. \A x \in Commands \cup {"start"}, d \in {"run", "code", "sentinel"} : [of |-> x, do |-> d] \in StdinItems
  BY DEF StdinItems
<1>2. \A a, b, c \in StdinItems : /\ <<a, b, c>> \in Seq(StdinItems) /\ Len(<<a, b, c>>) = 3
                                  /\ <<a, b, c>>[1] = a /\ <<a, b, c>>[2] = b /\ <<a, b, c>>[3] = c
  OBVIOUS
<1>3. \A a \in StdinItems : <<a>> \in Seq(StdinItems) /\ Len(<<a>>) = 1 /\ <<a>>[1] = a
  OBVIOUS
<1>4. [of |-> t, do |-> "run"] \in StdinItems /\ [of |-> t, do |-> "code"] \in StdinItems
      /\ [of |-> t, do |-> "sentinel"] \in StdinItems /\ [of |-> "start", do |-> "sentinel"] \in StdinItems
  BY <1>1
<1> QED
  BY <1>2, <1>3, <1>4 DEF Script, Sentinel

\* The shells stay shells; one is added when one is spawned.
LEMMA ShellsNext ==
  ASSUME ShellTypes, Fielded, ShellMove
  PROVE  /\ bash' \in Seq(Shells)
         /\ Len(bash') = IF \E t \in Commands : Spawns(t) THEN Len(bash) + 1 ELSE Len(bash)
<1> DEFINE Good == bash' \in Seq(Shells) /\ Len(bash') = Len(bash)
<1>1. bash \in Seq(Shells) /\ session.process \in 0..Len(bash)
  BY DEF ShellTypes
<1>2. Ended(session.process) \in Seq(Shells) /\ Len(Ended(session.process)) = Len(bash)
  BY <1>1, EndedShell
<1>3. ASSUME NEW t \in Commands, Place(t) \in Lookouts, bash' = OneLess(t) PROVE Good
  <2>1. call[t].pipe \in 1..Len(bash)
    BY <1>3, ReadFrom
  <2> QED
    BY <1>1, <1>3, <2>1, ReadShell
<1>4. ASSUME NEW s \in Seq(StdinItems), bash' = Written(session.process, s), Alive(session.process) PROVE Good
  <2>1. session.process \in 1..Len(bash)
    <3>1. Len(bash) \in Nat
      BY <1>1, LenProperties
    <3> QED
      BY <1>1, <1>4, <3>1 DEF Alive
  <2> QED
    BY <1>1, <1>4, <2>1, WrittenShell
<1>5. ASSUME bash' = bash PROVE Good
  BY <1>1, <1>5
<1>6. ASSUME bash' = Ended(session.process) PROVE Good
  BY <1>2, <1>6
<1>7. ASSUME NEW p \in 1..Len(bash), BashStep(p) PROVE Good
  BY <1>1, <1>7, SteppedShell
<1>8. ASSUME NEW p \in 1..Len(bash), Dies(p) PROVE Good
  BY <1>1, <1>8, DeadShell
<1>9. ASSUME NEW t \in Commands, Spawns(t) PROVE bash' \in Seq(Shells) /\ Len(bash') = Len(bash) + 1
  BY <1>1, <1>9, SpawnedShell DEF Spawns
<1> HIDE DEF Good
<1>10. ASSUME NEW t \in Commands, MovesOn(t), ~Spawns(t) PROVE Good
  <2>1. CASE Closes(t) \/ Kills(t)
    BY <2>1, <1>5 DEF Closes, Kills
  <2>2. CASE Restarts(t)
    BY <2>2, <1>6 DEF Restarts
  <2>3. CASE Connects(t)
    BY <2>3, <1>4, <1>5, ScriptType DEF Connects
  <2>4. CASE Writes(t)
    BY <2>4, <1>4, ScriptType DEF Writes
  <2>5. CASE Skips(t) \/ Proceeds(t)
    BY <2>5, <1>3 DEF Skips, Proceeds, Lookouts
  <2> QED
    BY <1>10, <2>1, <2>2, <2>3, <2>4, <2>5 DEF MovesOn
<1>11. ASSUME NEW t \in Commands, Fails(t) \/ Reports(t) \/ Enters(t) \/ Joins(t) PROVE Good
  <2>1. CASE Fails(t) \/ Joins(t)
    BY <2>1, <1>5 DEF Fails, Joins
  <2>2. CASE Reports(t)
    BY <2>2, <1>3 DEF Reports, Lookouts
  <2>3. CASE Enters(t)
    BY <2>3, <1>5, <1>6 DEF Enters
  <2> QED
    BY <1>11, <2>1, <2>2, <2>3
<1>12. ASSUME NEW S \in SUBSET Commands, Cancels(S) PROVE Good
  BY <1>5, <1>12 DEF Cancels
<1>13. ASSUME ClosesUp PROVE Good
  BY <1>6, <1>13 DEF ClosesUp
<1>14. CASE \E t \in Commands : Spawns(t)
  BY <1>9, <1>14
<1>15. CASE ~ \E t \in Commands : Spawns(t)
  <2>1. Good
    BY <1>7, <1>8, <1>10, <1>11, <1>12, <1>13, <1>15 DEF ShellMove
  <2> QED
    BY <2>1, <1>15 DEF Good
<1> QED
  BY <1>14, <1>15

\* The calls and what they return.
LEMMA CallsNext ==
  ASSUME ShellTypes, Fielded, ShellMove
  PROVE  /\ call' \in [Commands -> CallRecords]
         /\ returned' \in [Commands -> Commands \cup {"none", "start", "raised", "timed_out", "dead", "cancelled"}]
<1> DEFINE R == Commands \cup {"none", "start", "raised", "timed_out", "dead", "cancelled"}
<1>1. call \in [Commands -> CallRecords] /\ returned \in [Commands -> R]
  BY DEF ShellTypes
<1> HIDE DEF R
<1>2. ASSUME NEW t \in Commands, NEW c \in CallRecords, CallSet(t, c) PROVE call' \in [Commands -> CallRecords]
  BY <1>1, <1>2 DEF CallSet
<1>3. ASSUME NEW t \in Commands, MovesOn(t) PROVE call' \in [Commands -> CallRecords] /\ returned' \in [Commands -> R]
  BY <1>1, <1>2, <1>3, CallMovesOn
<1>4. ASSUME NEW t \in Commands, Enters(t) \/ Joins(t)
      PROVE call' \in [Commands -> CallRecords] /\ returned' \in [Commands -> R]
  BY <1>1, <1>2, <1>4, CallComesIn
<1>5. ASSUME NEW t \in Commands, Fails(t) \/ Reports(t)
      PROVE call' \in [Commands -> CallRecords] /\ returned' \in [Commands -> R]
  <2>1. call[t] \in CallRecords
    BY <1>1
  <2>2. call[t].pipe \in Nat /\ call[t].first \in Commands \cup {"none", "start"}
    BY <2>1 DEF CallRecords
  <2>3. CallRec("done", 0, "none", call[t].pipe, "none", "none") \in CallRecords
    BY <2>2, RecordTypes
  <2>4. CallSet(t, CallRec("done", 0, "none", call[t].pipe, "none", "none"))
    BY <1>5 DEF Fails, Reports
  <2>5. \E r \in R : returned' = [returned EXCEPT ![t] = r]
    BY <1>5, <2>2 DEF Fails, Reports, R
  <2> QED
    BY <1>1, <1>2, <2>3, <2>4, <2>5
<1>6. ASSUME NEW S \in SUBSET Commands, Cancels(S)
      PROVE call' \in [Commands -> CallRecords] /\ returned' \in [Commands -> R]
  <2> DEFINE c == CallRec("done", 0, "none", 0, "none", "none")
  <2>1. c \in CallRecords
    BY RecordTypes
  <2>2. call' = [t \in Commands |-> IF t \in S THEN c ELSE call[t]]
    BY <1>6 DEF Cancels
  <2> HIDE DEF c
  <2>3. returned' = [t \in Commands |-> IF t \in S THEN "cancelled" ELSE returned[t]] /\ "cancelled" \in R
    BY <1>6 DEF Cancels, R
  <2> QED
    BY <1>1, <2>1, <2>2, <2>3
<1>7. ASSUME NEW p \in 1..Len(bash), BashStep(p) \/ Dies(p) PROVE UNCHANGED <<call, returned>>
  BY <1>7 DEF BashStep, Dies
<1>8. ASSUME ClosesUp PROVE UNCHANGED <<call, returned>>
  BY <1>8 DEF ClosesUp
<1>9. call' \in [Commands -> CallRecords] /\ returned' \in [Commands -> R]
  BY <1>1, <1>3, <1>4, <1>5, <1>6, <1>7, <1>8 DEF ShellMove
<1> QED
  BY <1>9 DEF R

\* The fields of the session, the jobs and what is known of them.
LEMMA SessionNext ==
  ASSUME ShellTypes, Fielded, ShellMove
  PROVE  /\ session' \in Fields /\ session'.process \in 0..Len(bash')
         /\ jobs' \in SUBSET Commands /\ home' \in [Commands -> 0..Len(bash')]
         /\ disturbed' \subseteq 1..Len(bash') /\ this_loop' \in Nat \ {0} /\ keep' \in BOOLEAN
<1>1. /\ Len(bash) \in Nat /\ session \in Fields /\ session.process \in 0..Len(bash)
      /\ jobs \in SUBSET Commands /\ home \in [Commands -> 0..Len(bash)]
      /\ disturbed \subseteq 1..Len(bash) /\ this_loop \in Nat \ {0} /\ keep \in BOOLEAN
  BY LenProperties DEF ShellTypes
<1>2. Len(bash') \in Nat /\ 0..Len(bash) \subseteq 0..Len(bash') /\ 1..Len(bash) \subseteq 1..Len(bash')
  <2>1. CASE Len(bash') = Len(bash)
    BY <1>1, <2>1
  <2>2. CASE Len(bash') = Len(bash) + 1
    BY <1>1, <2>2
  <2> QED
    BY <2>1, <2>2, ShellsNext
<1>3. ASSUME NEW j \in SUBSET Commands, session' = SessionRec(session.started, session.loop, session.process, session.reader, j, session.lock)
      PROVE  session' \in Fields /\ session'.process = session.process
  <2>1. /\ session.started \in BOOLEAN /\ session.loop \in Nat /\ session.process \in Nat
        /\ session.reader \in Nat /\ session.lock \in Nat
    BY <1>1 DEF Fields
  <2> QED
    BY <1>3, <2>1, RecordTypes DEF SessionRec
<1>4. ASSUME NEW k \in Nat, session' = Fresh(k)
      PROVE  session' \in Fields /\ session'.process = 0
  BY <1>4, RecordTypes DEF Fresh
<1>5. ASSUME session' = session PROVE session' \in Fields /\ session'.process = session.process
  BY <1>1, <1>5
<1>6. /\ session.started \in BOOLEAN /\ session.loop \in Nat /\ session.process \in Nat
      /\ session.reader \in Nat /\ session.pids \in SUBSET Commands /\ session.lock \in Nat /\ session.lock + 1 \in Nat
  BY <1>1 DEF Fields
<1>7. Surviving \in SUBSET Commands /\ Spared \in SUBSET Commands /\ Leftover \subseteq SUBSET Commands
  BY <1>1 DEF Surviving, Spared, Leftover
<1>8. session' \in Fields /\ session'.process \in 0..Len(bash')
  <2> DEFINE Good == session' \in Fields /\ session'.process \in 0..Len(bash')
  <2>1. ASSUME session' \in Fields /\ session'.process \in {0, session.process} PROVE Good
    BY <1>1, <1>2, <2>1
  <2> HIDE DEF Good
  <2>2. ASSUME NEW t \in Commands, Closes(t) PROVE Good
    <3>1. session' = SessionRec(session.started, session.loop, session.process, 0, session.pids, session.lock)
      BY <2>2 DEF Closes
    <3>2. session' \in Fields /\ session'.process = session.process
      BY <1>6, <3>1, RecordTypes DEF SessionRec
    <3> QED
      BY <2>1, <3>2
  <2>3. ASSUME NEW t \in Commands, Restarts(t) PROVE Good
    BY <1>4, <1>6, <2>1, <2>3 DEF Restarts
  <2>4. ASSUME NEW t \in Commands, Spawns(t) PROVE Good
    <3>1. session' = SessionRec(session.started, session.loop, Len(bash) + 1, session.reader, session.pids, session.lock)
      BY <2>4 DEF Spawns
    <3>2. Len(bash) + 1 \in Nat /\ Len(bash') = Len(bash) + 1
      BY <1>1, <2>4, ShellsNext
    <3>3. session' \in Fields /\ session'.process = Len(bash) + 1
      BY <1>6, <3>1, <3>2, RecordTypes DEF SessionRec
    <3> QED
      BY <3>2, <3>3 DEF Good
  <2>5. ASSUME NEW t \in Commands, Connects(t) PROVE Good
    <3>1. ASSUME NEW b \in BOOLEAN, b = TRUE PROVE Good
      <4>1. session' = SessionRec(b, this_loop, session.process, session.process, session.pids, session.lock)
        BY <2>5, <3>1 DEF Connects
      <4>2. session' \in Fields /\ session'.process = session.process
        BY <1>1, <1>6, <4>1, RecordTypes DEF SessionRec
      <4> QED
        BY <2>1, <4>2
    <3> QED
      BY <3>1
  <2>6. ASSUME NEW t \in Commands, Reports(t) PROVE Good
    <3>1. {c \in jobs : home[c] = call[t].pipe} \in SUBSET Commands
      BY <1>1
    <3> QED
      BY <1>3, <1>5, <2>1, <2>6, <3>1 DEF Reports
  <2>7. ASSUME NEW t \in Commands, Writes(t) \/ Skips(t) \/ Proceeds(t) \/ Kills(t) \/ Fails(t) \/ Joins(t) PROVE Good
    BY <1>5, <2>1, <2>7 DEF Writes, Skips, Proceeds, Kills, Fails, Joins
  <2>8. ASSUME NEW t \in Commands, Enters(t) PROVE Good
    <3>1. session' = session \/ \E l \in Nat : session' = Fresh(l + 1)
      BY <2>8 DEF Enters
    <3>2. CASE session' = session
      BY <1>5, <2>1, <3>2
    <3>3. CASE \E l \in Nat : session' = Fresh(l + 1)
      <4>1. PICK l \in Nat : session' = Fresh(l + 1)
        BY <3>3
      <4>2. l + 1 \in Nat
        OBVIOUS
      <4> QED
        BY <1>4, <2>1, <4>1, <4>2
    <3> QED
      BY <3>1, <3>2, <3>3
  <2>9. ASSUME NEW p \in 1..Len(bash), BashStep(p) \/ Dies(p) PROVE Good
    BY <1>5, <2>1, <2>9 DEF BashStep, Dies
  <2>10. ASSUME NEW S \in SUBSET Commands, Cancels(S) PROVE Good
    BY <1>5, <2>1, <2>10 DEF Cancels
  <2>11. ASSUME ClosesUp PROVE Good
    BY <1>4, <1>6, <2>1, <2>11 DEF ClosesUp
  <2>12. Good
    BY <2>2, <2>3, <2>4, <2>5, <2>6, <2>7, <2>8, <2>9, <2>10, <2>11 DEF ShellMove, MovesOn
  <2> QED
    BY <2>12 DEF Good
<1>9. jobs' \in SUBSET Commands
  <2>1. ASSUME jobs' \in {jobs, Surviving, Spared} \cup Leftover PROVE jobs' \in SUBSET Commands
    BY <1>1, <1>7, <2>1
  <2>2. ASSUME NEW t \in Commands, MovesOn(t) PROVE jobs' \in {jobs, Surviving, Spared}
    BY <2>2 DEF MovesOn, Closes, Restarts, Spawns, Connects, Writes, Skips, Proceeds, Kills
  <2>3. ASSUME NEW t \in Commands, Fails(t) \/ Reports(t) \/ Enters(t) \/ Joins(t) PROVE jobs' \in {jobs} \cup Leftover
    BY <2>3 DEF Fails, Reports, Enters, Joins
  <2>4. ASSUME NEW p \in 1..Len(bash), BashStep(p) PROVE jobs' \in SUBSET Commands
    BY <1>1, <2>4, ShellAssumption DEF BashStep
  <2>5. ASSUME NEW p \in 1..Len(bash), Dies(p) PROVE jobs' = jobs
    BY <2>5 DEF Dies
  <2>6. ASSUME NEW S \in SUBSET Commands, Cancels(S) PROVE jobs' = jobs
    BY <2>6 DEF Cancels
  <2>7. ASSUME ClosesUp PROVE jobs' \in Leftover
    BY <2>7 DEF ClosesUp
  <2> QED
    BY <1>1, <2>1, <2>2, <2>3, <2>4, <2>5, <2>6, <2>7 DEF ShellMove
<1>10. home' \in [Commands -> 0..Len(bash')]
  <2>1. home \in [Commands -> 0..Len(bash')]
    BY <1>1, <1>2
  <2>2. ASSUME NEW p \in 1..Len(bash), BashStep(p) PROVE home' \in [Commands -> 0..Len(bash')]
    <3>1. CASE home' = home
      BY <2>1, <3>1
    <3>2. CASE \E c \in Servers : home' = [home EXCEPT ![c] = p]
      <4>1. p \in 0..Len(bash')
        BY <1>1, <1>2
      <4> QED
        BY <2>1, <3>2, <4>1, ShellAssumption
    <3> QED
      BY <2>2, <3>1, <3>2 DEF BashStep, Set
  <2>3. ASSUME NEW t \in Commands, MovesOn(t) \/ Fails(t) \/ Reports(t) \/ Enters(t) \/ Joins(t) PROVE home' = home
    BY <2>3, CallMovesOn DEF Fails, Reports, Enters, Joins, Others
  <2>4. ASSUME NEW p \in 1..Len(bash), Dies(p) PROVE home' = home
    BY <2>4 DEF Dies
  <2>5. ASSUME NEW S \in SUBSET Commands, Cancels(S) PROVE home' = home
    BY <2>5 DEF Cancels
  <2>6. ASSUME ClosesUp PROVE home' = home
    BY <2>6 DEF ClosesUp, Others
  <2> QED
    BY <2>1, <2>2, <2>3, <2>4, <2>5, <2>6 DEF ShellMove
<1>11. disturbed' \subseteq 1..Len(bash') /\ this_loop' \in Nat \ {0} /\ keep' \in BOOLEAN
  <2>1. ASSUME UNCHANGED <<disturbed, this_loop, keep>>
        PROVE  disturbed' \subseteq 1..Len(bash') /\ this_loop' \in Nat \ {0} /\ keep' \in BOOLEAN
    BY <1>1, <1>2, <2>1
  <2>2. ASSUME NEW t \in Commands, MovesOn(t) \/ Fails(t) \/ Reports(t) \/ Enters(t) \/ Joins(t)
        PROVE  UNCHANGED <<disturbed, this_loop, keep>>
    BY <2>2, CallMovesOn DEF Fails, Reports, Enters, Joins, Others
  <2>3. ASSUME NEW p \in 1..Len(bash), BashStep(p) \/ Dies(p) PROVE UNCHANGED <<disturbed, this_loop, keep>>
    BY <2>3 DEF BashStep, Dies
  <2>4. ASSUME NEW S \in SUBSET Commands, Cancels(S)
        PROVE  disturbed' \subseteq 1..Len(bash') /\ this_loop' \in Nat \ {0} /\ keep' \in BOOLEAN
    <3>1. \A u \in Commands : Place(u) \in Lookouts \cup {"connecting"} => call[u].pipe \in 1..Len(bash)
      BY <1>1 DEF Fielded
    <3>2. disturbed' \subseteq 1..Len(bash)
      BY <1>1, <2>4, <3>1 DEF Cancels
    <3>3. this_loop + 1 \in Nat \ {0}
      BY <1>1
    <3>4. this_loop' \in Nat \ {0} /\ keep' = keep
      BY <1>1, <2>4, <3>3 DEF Cancels
    <3> QED
      BY <1>1, <1>2, <3>2, <3>4
  <2>5. ASSUME ClosesUp PROVE UNCHANGED <<disturbed, this_loop, keep>>
    BY <2>5 DEF ClosesUp, Others
  <2> QED
    BY <2>1, <2>2, <2>3, <2>4, <2>5 DEF ShellMove
<1> QED
  BY <1>8, <1>9, <1>10, <1>11

\* Types are kept.
LEMMA TypesNext ==
  ASSUME ShellTypes, Locking, Fielded, ShellMove
  PROVE  ShellTypes'
BY LockingNext, ShellsNext, CallsNext, SessionNext DEF ShellTypes

----------------------------------------------------------------------------
(***************************************************************************)
(* The shells that run are the session's.                                  *)
(***************************************************************************)

\* Every shell of b that runs is process, or was disturbed; one that does not has
\* nothing to read.
Owned(b, process, d) ==
  \A p \in 1..Len(b) : /\ b[p].alive => p = process \/ p \in d
                       /\ ~b[p].alive => b[p].stdin = <<>>

\* The shell of the session, where it comes from.
Known == session.started \/ session.process \in disturbed \cup {0} \/ \E t \in Commands : Place(t) = "connecting"

\* A shell to connect to is as it was started.
Unused ==
  \A t \in Commands : Place(t) = "connecting" =>
    /\ bash[session.process].stdin = <<>> /\ bash[session.process].control = <<>>
    /\ session.process \notin disturbed
    /\ \A c \in Commands : home[c] # session.process

\* Where the shells read their last line, and what a call that reads does to them.
LEMMA ReadShells ==
  ASSUME ShellTypes, Fielded, NEW t \in Commands, Place(t) \in Lookouts, bash' = OneLess(t)
  PROVE  LET p == session.process
             rest == IF bash[p].control = <<>> THEN <<>> ELSE Tail(bash[p].control)
         IN  /\ Len(bash') = Len(bash) /\ p \in 1..Len(bash)
             /\ bash'[p] = [stdin |-> bash[p].stdin, control |-> rest, alive |-> bash[p].alive]
             /\ \A q \in 1..Len(bash) : q # p => bash'[q] = bash[q]
<1>1. call[t].pipe = session.process /\ session.process \in 1..Len(bash) /\ bash \in Seq(Shells)
  BY ReadFrom DEF ShellTypes
<1> QED
  BY <1>1, ReadShell

\* The script of a call, or what start() asks, is added.
LEMMA WrittenShells ==
  ASSUME ShellTypes, Alive(session.process), NEW s \in Seq(StdinItems), bash' = Written(session.process, s)
  PROVE  LET p == session.process
         IN  /\ Len(bash') = Len(bash) /\ p \in 1..Len(bash)
             /\ bash'[p] = [stdin |-> bash[p].stdin \o s, control |-> bash[p].control, alive |-> bash[p].alive]
             /\ \A q \in 1..Len(bash) : q # p => bash'[q] = bash[q]
<1>1. bash \in Seq(Shells) /\ Len(bash) \in Nat /\ session.process \in 0..Len(bash) /\ session.process # 0
  BY LenProperties DEF ShellTypes, Alive
<1>2. session.process \in 1..Len(bash)
  BY <1>1
<1> QED
  BY <1>1, <1>2, WrittenShell

\* What a call that reads does to what the shell has to read and to report.
LEMMA ReadParts ==
  ASSUME ShellTypes, Fielded, NEW t \in Commands, Place(t) \in Lookouts, bash' = OneLess(t)
  PROVE  /\ bash'[session.process].stdin = bash[session.process].stdin
         /\ bash'[session.process].control =
              IF bash[session.process].control = <<>> THEN <<>> ELSE Tail(bash[session.process].control)
<1> DEFINE rest == IF bash[session.process].control = <<>> THEN <<>> ELSE Tail(bash[session.process].control)
<1>1. bash'[session.process] = [stdin |-> bash[session.process].stdin, control |-> rest,
                                alive |-> bash[session.process].alive]
  BY ReadShells
<1> HIDE DEF rest
<1>2. bash'[session.process].stdin = bash[session.process].stdin /\ bash'[session.process].control = rest
  BY <1>1
<1> QED
  BY <1>2 DEF rest

\* What a writing does to what the shell has to read and to report.
LEMMA WrittenParts ==
  ASSUME ShellTypes, Alive(session.process), NEW s \in Seq(StdinItems), bash' = Written(session.process, s)
  PROVE  /\ bash'[session.process].stdin = bash[session.process].stdin \o s
         /\ bash'[session.process].control = bash[session.process].control
<1> DEFINE all == bash[session.process].stdin \o s
<1>1. bash'[session.process] = [stdin |-> all, control |-> bash[session.process].control,
                                alive |-> bash[session.process].alive]
  BY WrittenShells
<1> HIDE DEF all
<1>2. bash'[session.process].stdin = all /\ bash'[session.process].control = bash[session.process].control
  BY <1>1
<1> QED
  BY <1>2 DEF all

\* The shells that run are owned after each change.
LEMMA OwnedChanges ==
  ASSUME ShellTypes, Fielded, NEW d, disturbed \subseteq d, Owned(bash, session.process, disturbed)
  PROVE  /\ bash' = bash => Owned(bash', session.process, d)
         /\ bash' = Ended(session.process) => \A x : Owned(bash', x, d)
         /\ \A t \in Commands : Place(t) \in Lookouts /\ bash' = OneLess(t) => Owned(bash', session.process, d)
         /\ \A s \in Seq(StdinItems) : Alive(session.process) /\ bash' = Written(session.process, s) =>
              Owned(bash', session.process, d)
         /\ \A p \in 1..Len(bash) : BashStep(p) \/ Dies(p) => Owned(bash', session.process, d)
<1>1. bash \in Seq(Shells) /\ session.process \in 0..Len(bash) /\ Len(bash) \in Nat
  BY LenProperties DEF ShellTypes
<1>2. ASSUME bash' = Ended(session.process), NEW x PROVE Owned(bash', x, d)
  <2>1. /\ Len(bash') = Len(bash) /\ session.process # 0 => bash'[session.process] = Gone
        /\ \A q \in 1..Len(bash) : q # session.process => bash'[q] = bash[q]
    BY <1>1, <1>2, EndedShell
  <2>2. Gone.stdin = <<>> /\ ~Gone.alive
    BY DEF Gone
  <2>3. 0 \notin 1..Len(bash) /\ Len(bash') = Len(bash)
    BY <1>1, <1>2, EndedShell
  <2> QED
    BY <2>1, <2>2, <2>3 DEF Owned
<1>3. ASSUME NEW t \in Commands, Place(t) \in Lookouts, bash' = OneLess(t) PROVE Owned(bash', session.process, d)
  <2>1. /\ Len(bash') = Len(bash) /\ \A q \in 1..Len(bash) : q # session.process => bash'[q] = bash[q]
        /\ bash'[session.process].stdin = bash[session.process].stdin
        /\ bash'[session.process].alive = bash[session.process].alive
    BY <1>3, ReadShells
  <2> QED
    BY <2>1 DEF Owned
<1>4. ASSUME NEW s \in Seq(StdinItems), Alive(session.process), bash' = Written(session.process, s)
      PROVE  Owned(bash', session.process, d)
  <2>1. /\ Len(bash') = Len(bash) /\ \A q \in 1..Len(bash) : q # session.process => bash'[q] = bash[q]
        /\ bash'[session.process].alive
    <3>1. /\ Len(bash') = Len(bash) /\ \A q \in 1..Len(bash) : q # session.process => bash'[q] = bash[q]
          /\ bash'[session.process] = [stdin |-> bash[session.process].stdin \o s,
                                       control |-> bash[session.process].control,
                                       alive |-> bash[session.process].alive]
      BY <1>4, WrittenShells
    <3>2. bash'[session.process].alive = bash[session.process].alive
      BY <3>1
    <3>3. bash[session.process].alive
      BY <1>4 DEF Alive
    <3> QED
      BY <3>1, <3>2, <3>3
  <2> QED
    BY <2>1 DEF Owned
<1>5. ASSUME NEW p \in 1..Len(bash), BashStep(p) PROVE Owned(bash', session.process, d)
  <2>1. /\ Len(bash') = Len(bash) /\ \A q \in 1..Len(bash) : q # p => bash'[q] = bash[q]
        /\ bash'[p].alive = bash[p].alive /\ bash[p].alive
    <3>1. /\ Len(bash') = Len(bash) /\ \A q \in 1..Len(bash) : q # p => bash'[q] = bash[q]
          /\ bash'[p] = [stdin |-> Tail(bash[p].stdin),
                         control |-> IF Head(bash[p].stdin).do = "run" THEN bash[p].control
                                     ELSE Append(bash[p].control, Head(bash[p].stdin)),
                         alive |-> bash[p].alive]
      BY <1>1, <1>5, SteppedShell
    <3>2. bash'[p].alive = bash[p].alive
      BY <3>1
    <3>3. bash[p].alive
      BY <1>5 DEF BashStep, Alive
    <3> QED
      BY <3>1, <3>2, <3>3
  <2> QED
    BY <2>1 DEF Owned
<1>6. ASSUME NEW p \in 1..Len(bash), Dies(p) PROVE Owned(bash', session.process, d)
  <2>1. /\ Len(bash') = Len(bash) /\ \A q \in 1..Len(bash) : q # p => bash'[q] = bash[q]
        /\ ~bash'[p].alive /\ bash'[p].stdin = <<>>
    BY <1>1, <1>6, DeadParts
  <2> QED
    BY <2>1 DEF Owned
<1>7. ASSUME bash' = bash PROVE Owned(bash', session.process, d)
  BY <1>7 DEF Owned
<1> QED
  BY <1>2, <1>3, <1>4, <1>5, <1>6, <1>7

\* Every shell that runs is the session's, in every step.
LEMMA OwnedNext ==
  ASSUME ShellTypes, Locking, Fielded, Kept, ShellMove
  PROVE  Owned(bash', session'.process, disturbed')
<1>1. Owned(bash, session.process, disturbed) /\ Known
  BY DEF Kept, Owned, Known
<1>2. disturbed \subseteq disturbed'
  <2>1. ASSUME NEW t \in Commands, MovesOn(t) \/ Fails(t) \/ Reports(t) \/ Enters(t) \/ Joins(t)
        PROVE  disturbed' = disturbed
    BY <2>1, CallMovesOn DEF Fails, Reports, Enters, Joins, Others
  <2> QED
    BY <2>1 DEF ShellMove, BashStep, Dies, Cancels, ClosesUp, Others
<1>3. /\ bash' = bash => Owned(bash', session.process, disturbed')
      /\ bash' = Ended(session.process) => Owned(bash', session'.process, disturbed')
      /\ \A t \in Commands : Place(t) \in Lookouts /\ bash' = OneLess(t) => Owned(bash', session.process, disturbed')
      /\ \A s \in Seq(StdinItems) : Alive(session.process) /\ bash' = Written(session.process, s) =>
              Owned(bash', session.process, disturbed')
      /\ \A p \in 1..Len(bash) : BashStep(p) \/ Dies(p) => Owned(bash', session.process, disturbed')
  <2>1. ASSUME NEW d, d = disturbed' PROVE
      /\ bash' = bash => Owned(bash', session.process, d)
      /\ bash' = Ended(session.process) => \A x : Owned(bash', x, d)
      /\ \A t \in Commands : Place(t) \in Lookouts /\ bash' = OneLess(t) => Owned(bash', session.process, d)
      /\ \A s \in Seq(StdinItems) : Alive(session.process) /\ bash' = Written(session.process, s) =>
              Owned(bash', session.process, d)
      /\ \A p \in 1..Len(bash) : BashStep(p) \/ Dies(p) => Owned(bash', session.process, d)
    BY <1>1, <1>2, <2>1, OwnedChanges
  <2> QED
    BY <2>1
<1>4. ASSUME NEW t \in Commands, Spawns(t) PROVE Owned(bash', session'.process, disturbed')
  <2>1. session.process \in disturbed \cup {0}
    <3>1. ~session.started /\ \A u \in Commands : Place(u) # "connecting"
      BY <1>4, OneMoves, ShellPlaces DEF Spawns, Fielded, MovesOn
    <3> QED
      BY <1>1, <3>1 DEF Known
  <2>2. session'.process = Len(bash) + 1
    BY <1>4 DEF Spawns, SessionRec
  <2>3. bash \in Seq(Shells) /\ Len(bash) \in Nat
    BY LenProperties DEF ShellTypes
  <2>4. /\ Len(bash') = Len(bash) + 1 /\ bash'[Len(bash) + 1].alive
        /\ \A q \in 1..Len(bash) : bash'[q] = bash[q]
    BY <1>4, <2>3, SpawnedShell DEF Spawns
  <2>5. \A q \in 1..Len(bash') : q = Len(bash) + 1 \/ q \in 1..Len(bash)
    BY <2>3, <2>4
  <2>6. \A q \in 1..Len(bash) : q # 0
    OBVIOUS
  <2> QED
    BY <1>1, <1>2, <2>1, <2>2, <2>4, <2>5, <2>6 DEF Owned
<1> USE DEF SessionRec
<1>5. ASSUME NEW t \in Commands, Closes(t) \/ Kills(t) \/ Fails(t) \/ Joins(t) PROVE Owned(bash', session'.process, disturbed')
  BY <1>3, <1>5 DEF Closes, Kills, Fails, Joins
<1>6. ASSUME NEW t \in Commands, Restarts(t) PROVE Owned(bash', session'.process, disturbed')
  BY <1>3, <1>6 DEF Restarts
<1>7. ASSUME NEW t \in Commands, Connects(t) PROVE Owned(bash', session'.process, disturbed')
  <2>1. session'.process = session.process /\ (bash' = bash \/ (Alive(session.process) /\ bash' = Written(session.process, <<Sentinel("start")>>)))
    BY <1>7 DEF Connects
  <2> QED
    BY <2>1, <1>3, ScriptType
<1>8. ASSUME NEW t \in Commands, Writes(t) PROVE Owned(bash', session'.process, disturbed')
  <2>1. session'.process = session.process /\ Alive(session.process) /\ bash' = Written(session.process, Script(t))
    BY <1>8 DEF Writes
  <2> QED
    BY <2>1, <1>3, ScriptType
<1>9. ASSUME NEW t \in Commands, Skips(t) \/ Proceeds(t) \/ Reports(t) PROVE Owned(bash', session'.process, disturbed')
  BY <1>3, <1>9 DEF Skips, Proceeds, Reports, Lookouts
<1>10. ASSUME NEW t \in Commands, Enters(t) PROVE Owned(bash', session'.process, disturbed')
  BY <1>3, <1>10 DEF Enters
<1>11. ASSUME NEW p \in 1..Len(bash), BashStep(p) \/ Dies(p) PROVE Owned(bash', session'.process, disturbed')
  <2>1. session' = session
    BY <1>11 DEF BashStep, Dies
  <2> QED
    BY <1>3, <1>11, <2>1
<1>12. ASSUME NEW S \in SUBSET Commands, Cancels(S) PROVE Owned(bash', session'.process, disturbed')
  BY <1>3, <1>12 DEF Cancels
<1>13. ASSUME ClosesUp PROVE Owned(bash', session'.process, disturbed')
  BY <1>3, <1>13 DEF ClosesUp
<1> QED
  BY <1>4, <1>5, <1>6, <1>7, <1>8, <1>9, <1>10, <1>11, <1>12, <1>13 DEF ShellMove, MovesOn

\* Where the shell of the session comes from, and that a new one is unused.
LEMMA KnownNext ==
  ASSUME ShellTypes, Locking, Fielded, Kept, ShellMove
  PROVE  Known' /\ Unused'
<1>1. Known /\ Unused
  BY DEF Kept, Known, Unused
<1>2. bash \in Seq(Shells) /\ Len(bash) \in Nat /\ session.process \in 0..Len(bash)
      /\ disturbed \subseteq 1..Len(bash) /\ home \in [Commands -> 0..Len(bash)]
  BY LenProperties DEF ShellTypes
<1>3. ASSUME NEW t \in Commands, Spawns(t) PROVE Known' /\ Unused'
  <2>1. call'[t].place = "connecting" /\ session'.process = Len(bash) + 1 /\ UNCHANGED <<home, disturbed>>
    BY <1>3 DEF Spawns, CallSet, CallRec, SessionRec, Others
  <2>2. bash'[Len(bash) + 1].stdin = <<>> /\ bash'[Len(bash) + 1].control = <<>>
    BY <1>2, <1>3, SpawnedShell DEF Spawns
  <2>3. Len(bash) + 1 \notin 1..Len(bash) /\ Len(bash) + 1 \notin 0..Len(bash)
    BY <1>2
  <2>4. \A c \in Commands : home[c] # Len(bash) + 1
    BY <1>2, <2>3
  <2> QED
    BY <1>2, <2>1, <2>2, <2>3, <2>4 DEF Known, Unused, Place
<1>4. ASSUME NEW t \in Commands, MovesOn(t) \/ Fails(t) \/ Reports(t) \/ Enters(t), ~Spawns(t)
      PROVE  Known' /\ Unused'
  <2>1. \A u \in Commands : u # t => Place(u)' # "connecting" /\ Place(u) # "connecting"
    BY <1>4, OneMoves, ShellPlaces DEF Place
  <2>2. Place(t)' # "connecting"
    <3> USE DEF CallSet, CallRec, Place
    <3>1. CASE Closes(t)
      BY <3>1 DEF Closes
    <3>2. CASE Kills(t)
      BY <3>2 DEF Kills
    <3>3. CASE Fails(t) \/ Reports(t)
      BY <3>3 DEF Fails, Reports
    <3>4. CASE Restarts(t) \/ Proceeds(t)
      BY <3>4 DEF Restarts, Proceeds, Gets
    <3>5. CASE Connects(t)
      <4>1. call'[t].place = "pinging"
        BY <3>5 DEF Connects
      <4> QED
        BY <4>1
    <3>6. CASE Writes(t)
      <4>1. call'[t].place = "reading"
        BY <3>6 DEF Writes
      <4> QED
        BY <4>1
    <3>7. CASE Skips(t)
      <4>1. \E f : call'[t] = CallRec(Place(t), call[t].lock, call[t].after, call[t].pipe, call[t].awaits, f)
        BY <3>7 DEF Skips
      <4>2. Place(t)' = Place(t)
        BY <4>1
      <4>3. Place(t) # "connecting"
        BY <3>7 DEF Skips, Lookouts
      <4> QED
        BY <4>2, <4>3
    <3>8. CASE Enters(t)
      BY <3>8 DEF Enters
    <3> QED
      BY <1>4, <3>1, <3>2, <3>3, <3>4, <3>5, <3>6, <3>7, <3>8 DEF MovesOn
  <2>3. disturbed' = disturbed
    BY <1>4, CallMovesOn DEF Fails, Reports, Enters, Others
  <2>4. Known'
    <3>1. session'.process = 0 \/ session'.started \/ (session'.started = session.started /\ session'.process = session.process)
      BY <1>4 DEF MovesOn, Closes, Restarts, Connects, Writes, Skips, Proceeds, Kills, Fails, Reports,
                  Enters, SessionRec, Fresh
    <3>2. Place(t) = "connecting" => Connects(t)
      BY <1>4 DEF MovesOn, Closes, Restarts, Spawns, Writes, Skips, Proceeds, Kills, Fails, Reports, Enters, Lookouts
    <3>3. Connects(t) => session'.started
      BY DEF Connects, SessionRec
    <3> QED
      BY <1>1, <2>1, <2>3, <3>1, <3>2, <3>3 DEF Known
  <2> QED
    BY <2>1, <2>2, <2>4 DEF Unused
<1>5. ASSUME NEW t \in Commands, Joins(t) PROVE Known' /\ Unused'
  <2>1. \A u \in Commands : Place(u)' = "connecting" <=> Place(u) = "connecting"
    BY <1>5 DEF Joins, CallSet, CallRec, Place
  <2> QED
    BY <1>1, <1>5, <2>1 DEF Joins, Others, Known, Unused
<1>6. ASSUME NEW p \in 1..Len(bash), BashStep(p) PROVE Known' /\ Unused'
  <2>1. UNCHANGED <<session, call, disturbed>>
    BY <1>6 DEF BashStep
  <2>2. ASSUME NEW t \in Commands, Place(t) = "connecting"
        PROVE  bash'[session.process] = bash[session.process] /\ \A c \in Commands : home'[c] # session.process
    <3>1. bash[session.process].stdin = <<>> /\ \A c \in Commands : home[c] # session.process
      BY <1>1, <2>2 DEF Unused
    <3>2. p # session.process
      BY <1>6, <3>1 DEF BashStep
    <3>3. session.process \in 1..Len(bash)
      BY <1>2, <2>2 DEF Fielded
    <3>4. bash'[session.process] = bash[session.process]
      BY <1>2, <1>6, <3>2, <3>3, SteppedShell
    <3>5. \A c \in Commands : home'[c] \in {home[c], p}
      BY <1>2, <1>6 DEF BashStep, Set
    <3> QED
      BY <3>1, <3>2, <3>4, <3>5
  <2> QED
    BY <1>1, <2>1, <2>2 DEF Known, Unused, Place
<1>7. ASSUME NEW p \in 1..Len(bash), Dies(p) PROVE Known' /\ Unused'
  <2>1. UNCHANGED <<session, call, disturbed, home>>
    BY <1>7 DEF Dies
  <2>2. \A q \in 1..Len(bash) : /\ bash'[q].control = bash[q].control
                                /\ bash[q].stdin = <<>> => bash'[q].stdin = <<>>
    BY <1>2, <1>7, DeadParts
  <2>3. ASSUME NEW t \in Commands, Place(t) = "connecting"
        PROVE  bash'[session.process].stdin = <<>> /\ bash'[session.process].control = <<>>
    <3>1. session.process \in 1..Len(bash)
      BY <1>2, <2>3 DEF Fielded
    <3> QED
      BY <1>1, <2>2, <2>3, <3>1 DEF Unused
  <2> QED
    BY <1>1, <2>1, <2>3 DEF Known, Unused, Place
<1>8. ASSUME NEW S \in SUBSET Commands, Cancels(S) PROVE Known' /\ Unused'
  <2>1. UNCHANGED <<session, bash, home>>
    BY <1>8 DEF Cancels
  <2>2. \A u \in Commands : IF u \in S THEN call'[u].place = "done" ELSE call'[u] = call[u]
    BY <1>8 DEF Cancels, CallRec
  <2>3. \A u \in Commands : Place(u)' = "connecting" <=> Place(u) = "connecting" /\ u \notin S
    BY <2>2 DEF Place
  <2>4. disturbed' = disturbed \cup {call[t].pipe : t \in {u \in S : Place(u) \in Lookouts \cup {"connecting"}}}
    BY <1>8 DEF Cancels
  <2>5. ASSUME NEW u \in Commands, Place(u) = "connecting", u \notin S PROVE disturbed' = disturbed
    <3>1. \A v \in Commands : v # u => Place(v) \notin Past
      BY <2>5, OnePast, ShellPlaces
    <3>2. {v \in S : Place(v) \in Lookouts \cup {"connecting"}} = {}
      BY <2>5, <3>1, ShellPlaces
    <3> QED
      BY <2>4, <3>2
  <2>6. ASSUME NEW u \in Commands, Place(u) = "connecting", u \in S PROVE session.process \in disturbed'
    BY <2>4, <2>6 DEF Fielded
  <2>7. Known'
    BY <1>1, <2>1, <2>3, <2>4, <2>6 DEF Known
  <2>8. Unused'
    BY <1>1, <2>1, <2>3, <2>5 DEF Unused
  <2> QED
    BY <2>7, <2>8
<1>9. ASSUME ClosesUp PROVE Known' /\ Unused'
  <2>1. \A u \in Commands : Place(u)' # "connecting"
    BY <1>9, ShellPlaces DEF ClosesUp, Locking, Place
  <2>2. session'.process = 0
    BY <1>9 DEF ClosesUp, Fresh
  <2> QED
    BY <2>1, <2>2 DEF Known, Unused
<1> QED
  BY <1>3, <1>4, <1>5, <1>6, <1>7, <1>8, <1>9 DEF ShellMove, MovesOn

\* So what is known of the shells stays.
LEMMA KeptNext ==
  ASSUME ShellTypes, Locking, Fielded, Kept, ShellMove
  PROVE  Kept'
BY OwnedNext, KnownNext DEF Kept, Owned, Known, Unused

----------------------------------------------------------------------------
(***************************************************************************)
(* What the calls hear.                                                    *)
(***************************************************************************)

\* What each move makes of its call.
LEMMA MovedParts ==
  ASSUME NEW t \in Commands
  PROVE  /\ Closes(t) =>
              /\ call'[t].place = "closing" /\ call'[t].after \in Nexts(t) /\ call'[t].pipe = session.process
              /\ call'[t].awaits = call[t].awaits /\ call'[t].first = call[t].first
         /\ Restarts(t) =>
              /\ call'[t].place = "spawning" /\ call'[t].after \in Nexts(t) /\ call'[t].pipe = call[t].pipe
              /\ call'[t].awaits = call[t].awaits /\ call'[t].first = call[t].first
         /\ Spawns(t) =>
              /\ call'[t].place = "connecting" /\ call'[t].after = call[t].after /\ call'[t].pipe = Len(bash) + 1
              /\ call'[t].awaits = call[t].awaits /\ call'[t].first = call[t].first
         /\ Connects(t) =>
              /\ call'[t].place = "pinging" /\ call'[t].after = call[t].after /\ call'[t].pipe = call[t].pipe
              /\ call'[t].awaits = "start" /\ call'[t].first = call[t].first
         /\ Writes(t) =>
              /\ call'[t].place = "reading" /\ call'[t].after = call[t].after /\ call'[t].pipe = session.reader
              /\ call'[t].awaits = t /\ call'[t].first = call[t].first
         /\ Skips(t) =>
              /\ call'[t].place = Place(t) /\ call'[t].after = call[t].after /\ call'[t].pipe = call[t].pipe
              /\ call'[t].awaits = call[t].awaits
              /\ call'[t].first = IF Place(t) = "reading" /\ call[t].first = "none" THEN Head(Lines(t)).of
                                  ELSE call[t].first
         /\ Proceeds(t) =>
              /\ call'[t].place = "sending" /\ call'[t].after \in Nexts(t) /\ call'[t].pipe = call[t].pipe
              /\ call'[t].awaits = call[t].awaits /\ call'[t].first = call[t].first
         /\ Kills(t) =>
              /\ call'[t].place \in {"term", "kill"} /\ call'[t].after = call[t].after /\ call'[t].pipe = call[t].pipe
              /\ call'[t].awaits = call[t].awaits /\ call'[t].first = call[t].first
         /\ Fails(t) \/ Reports(t) =>
              /\ call'[t].place = "done" /\ call'[t].after = "none" /\ call'[t].pipe = call[t].pipe
              /\ call'[t].awaits = "none" /\ call'[t].first = "none"
         /\ Enters(t) =>
              /\ call'[t].place \in {"spawning", "sending"} /\ call'[t].after = "send" /\ call'[t].pipe = 0
              /\ call'[t].awaits = "none" /\ call'[t].first = "none"
         /\ Joins(t) =>
              /\ call'[t].place = "queued" /\ call'[t].after = "none" /\ call'[t].pipe = 0
              /\ call'[t].awaits = "none" /\ call'[t].first = "none"
<1>1. ASSUME NEW at, NEW lock, NEW next, NEW pipe, NEW wanted, NEW said,
             CallSet(t, CallRec(at, lock, next, pipe, wanted, said))
      PROVE  /\ call'[t].place = at /\ call'[t].after = next /\ call'[t].pipe = pipe
             /\ call'[t].awaits = wanted /\ call'[t].first = said
  BY <1>1 DEF CallSet, CallRec
<1>2. ASSUME Closes(t)
      PROVE  /\ call'[t].place = "closing" /\ call'[t].after \in Nexts(t) /\ call'[t].pipe = session.process
             /\ call'[t].awaits = call[t].awaits /\ call'[t].first = call[t].first
  BY <1>1, <1>2 DEF Closes
<1>3. ASSUME Restarts(t)
      PROVE  /\ call'[t].place = "spawning" /\ call'[t].after \in Nexts(t) /\ call'[t].pipe = call[t].pipe
             /\ call'[t].awaits = call[t].awaits /\ call'[t].first = call[t].first
  BY <1>1, <1>3 DEF Restarts, Gets
<1>4. ASSUME Spawns(t)
      PROVE  /\ call'[t].place = "connecting" /\ call'[t].after = call[t].after /\ call'[t].pipe = Len(bash) + 1
             /\ call'[t].awaits = call[t].awaits /\ call'[t].first = call[t].first
  BY <1>1, <1>4 DEF Spawns
<1>5. ASSUME Connects(t)
      PROVE  /\ call'[t].place = "pinging" /\ call'[t].after = call[t].after /\ call'[t].pipe = call[t].pipe
             /\ call'[t].awaits = "start" /\ call'[t].first = call[t].first
  BY <1>1, <1>5 DEF Connects
<1>6. ASSUME Writes(t)
      PROVE  /\ call'[t].place = "reading" /\ call'[t].after = call[t].after /\ call'[t].pipe = session.reader
             /\ call'[t].awaits = t /\ call'[t].first = call[t].first
  BY <1>1, <1>6 DEF Writes
<1>7. ASSUME Skips(t)
      PROVE  /\ call'[t].place = Place(t) /\ call'[t].after = call[t].after /\ call'[t].pipe = call[t].pipe
             /\ call'[t].awaits = call[t].awaits
             /\ call'[t].first = IF Place(t) = "reading" /\ call[t].first = "none" THEN Head(Lines(t)).of
                                 ELSE call[t].first
  <2> DEFINE f == IF Place(t) = "reading" /\ call[t].first = "none" THEN Head(Lines(t)).of ELSE call[t].first
  <2>1. CallSet(t, CallRec(Place(t), call[t].lock, call[t].after, call[t].pipe, call[t].awaits, f))
    BY <1>7 DEF Skips
  <2> HIDE DEF f
  <2>2. /\ call'[t].place = Place(t) /\ call'[t].after = call[t].after /\ call'[t].pipe = call[t].pipe
        /\ call'[t].awaits = call[t].awaits /\ call'[t].first = f
    BY <1>1, <2>1
  <2> QED
    BY <2>2 DEF f
<1>8. ASSUME Proceeds(t)
      PROVE  /\ call'[t].place = "sending" /\ call'[t].after \in Nexts(t) /\ call'[t].pipe = call[t].pipe
             /\ call'[t].awaits = call[t].awaits /\ call'[t].first = call[t].first
  BY <1>1, <1>8 DEF Proceeds, Gets
<1>9. ASSUME Kills(t)
      PROVE  /\ call'[t].place \in {"term", "kill"} /\ call'[t].after = call[t].after /\ call'[t].pipe = call[t].pipe
             /\ call'[t].awaits = call[t].awaits /\ call'[t].first = call[t].first
  BY <1>1, <1>9 DEF Kills
<1>10. ASSUME Fails(t) \/ Reports(t)
       PROVE  /\ call'[t].place = "done" /\ call'[t].after = "none" /\ call'[t].pipe = call[t].pipe
              /\ call'[t].awaits = "none" /\ call'[t].first = "none"
  BY <1>1, <1>10 DEF Fails, Reports
<1>11. ASSUME Enters(t)
       PROVE  /\ call'[t].place \in {"spawning", "sending"} /\ call'[t].after = "send" /\ call'[t].pipe = 0
              /\ call'[t].awaits = "none" /\ call'[t].first = "none"
  BY <1>1, <1>11 DEF Enters
<1>12. ASSUME Joins(t)
       PROVE  /\ call'[t].place = "queued" /\ call'[t].after = "none" /\ call'[t].pipe = 0
              /\ call'[t].awaits = "none" /\ call'[t].first = "none"
  BY <1>1, <1>12 DEF Joins
<1> QED
  BY <1>2, <1>3, <1>4, <1>5, <1>6, <1>7, <1>8, <1>9, <1>10, <1>11, <1>12

\* What a call has heard and returned.
HeardFor(t) ==
  /\ call[t].first # "none" => call[t].after = "return" \/ call[t].awaits = t
  /\ call[t].awaits = t => call[t].after = "return" \/ Place(t) \in {"reading", "term", "kill"}
  /\ Place(t) \in {"idle", "queued"} => call[t].after = "none" /\ call[t].awaits = "none"
  /\ Place(t) # "done" => returned[t] = "none"
  /\ Place(t) = "reading" /\ call[t].first # "none" => call[t].first = t \/ call[t].pipe \in disturbed
  /\ returned[t] \in Commands \cup {"start"} => returned[t] = t \/ call[t].pipe \in disturbed

\* The head of what an undisturbed shell has reported is for the call that reads.
LEMMA HeadAwaited ==
  ASSUME ShellTypes, Fielded, Streams, NEW t \in Commands, Place(t) \in Lookouts, Lines(t) # <<>>,
         call[t].pipe \notin disturbed
  PROVE  Head(Lines(t)).of = call[t].awaits
<1>1. /\ session.process \in 1..Len(bash) /\ call[t].pipe = session.process
      /\ session.reader = session.process /\ Lines(t) \in Seq(StdinItems)
  BY ReadFrom
<1>2. session.reader # 0
  BY <1>1
<1>3. Awaited(bash[session.process], call[t].awaits)
  BY <1>1, <1>2 DEF Streams
<1>4. Lines(t) = bash[session.process].control
  BY <1>1 DEF Lines
<1>5. 1 \in 1..Len(Lines(t)) /\ Head(Lines(t)) = Lines(t)[1]
  BY <1>1, EmptySeq, LenProperties, HeadTailProperties
<1> QED
  BY <1>3, <1>4, <1>5 DEF Awaited

\* A step of one call keeps what it has heard.
LEMMA HeardSteps ==
  ASSUME ShellTypes, Fielded, Streams, Heard, NEW t \in Commands,
         MovesOn(t) \/ Fails(t) \/ Reports(t) \/ Enters(t) \/ Joins(t)
  PROVE  HeardFor(t)'
<1>1. HeardFor(t)
  BY DEF Heard, HeardFor
<1>2. t # "none" /\ t # "start"
  BY ShellAssumption
<1>3. returned \in [Commands -> Commands \cup {"none", "start", "raised", "timed_out", "dead", "cancelled"}]
  BY DEF ShellTypes
<1>4. MovesOn(t) \/ Enters(t) \/ Joins(t) => returned'[t] = returned[t] /\ disturbed' = disturbed
  BY CallMovesOn, CallComesIn
<1>5. CASE Closes(t) \/ Restarts(t) \/ Proceeds(t)
  <2>1. /\ call'[t].place \in {"closing", "spawning", "sending"} /\ call'[t].after \in Nexts(t)
        /\ call'[t].awaits = call[t].awaits /\ call'[t].first = call[t].first
        /\ call'[t].pipe \in {call[t].pipe, session.process}
    BY <1>5, MovedParts
  <2>2. Place(t) # "done" /\ MovesOn(t)
    BY <1>5 DEF Closes, Restarts, Proceeds, MovesOn
  <2>3. returned[t] = "none"
    BY <1>1, <2>2 DEF HeardFor
  <2>4. "none" \notin Commands \cup {"start"}
    BY ShellAssumption
  <2> QED
    BY <1>1, <1>4, <2>1, <2>2, <2>3, <2>4 DEF HeardFor, Place, Nexts
<1>6. CASE Spawns(t)
  <2>1. Place(t) = "spawning" /\ MovesOn(t)
    BY <1>6 DEF Spawns, MovesOn
  <2>2. "none" \notin Commands \cup {"start"}
    BY ShellAssumption
  <2> QED
    BY <1>1, <1>4, <1>6, <2>1, <2>2, MovedParts DEF HeardFor, Place
<1>7. CASE Connects(t)
  <2>1. Place(t) = "connecting" /\ MovesOn(t)
    BY <1>7 DEF Connects, MovesOn
  <2>2. "none" \notin Commands \cup {"start"}
    BY ShellAssumption
  <2> QED
    BY <1>1, <1>2, <1>4, <1>7, <2>1, <2>2, MovedParts DEF HeardFor, Place
<1>8. CASE Writes(t)
  <2>1. Place(t) = "sending" /\ MovesOn(t) /\ call[t].after # "return"
    BY <1>8 DEF Writes, MovesOn
  <2>2. "none" \notin Commands \cup {"start"}
    BY ShellAssumption
  <2>3. call[t].first = "none"
    BY <1>1, <2>1 DEF HeardFor
  <2> QED
    BY <1>1, <1>4, <1>8, <2>1, <2>2, <2>3, MovedParts DEF HeardFor, Place
<1>9. CASE Skips(t)
  <2>1. Place(t) \in Lookouts /\ MovesOn(t) /\ Lines(t) # <<>>
    BY <1>9 DEF Skips, MovesOn
  <2>2. "none" \notin Commands \cup {"start"}
    BY ShellAssumption
  <2>3. call[t].pipe \in disturbed \/ Head(Lines(t)).of = call[t].awaits
    BY <2>1, HeadAwaited
  <2>4. Place(t) = "reading" => call[t].awaits = t
    BY DEF Fielded
  <2>5. /\ call'[t].place = Place(t) /\ call'[t].after = call[t].after /\ call'[t].pipe = call[t].pipe
        /\ call'[t].awaits = call[t].awaits
        /\ Place(t) = "reading" /\ call[t].first = "none" => call'[t].first = Head(Lines(t)).of
        /\ ~(Place(t) = "reading" /\ call[t].first = "none") => call'[t].first = call[t].first
    BY <1>9, MovedParts
  <2>6. Place(t) # "done" /\ Place(t) \notin {"idle", "queued"}
    BY <2>1 DEF Lookouts
  <2>7. returned[t] = "none"
    BY <1>1, <2>6 DEF HeardFor
  <2>8. CASE Place(t) = "reading" /\ call[t].first = "none"
    BY <1>4, <2>1, <2>2, <2>3, <2>4, <2>5, <2>7, <2>8 DEF HeardFor, Place
  <2>9. CASE ~(Place(t) = "reading" /\ call[t].first = "none")
    BY <1>1, <1>4, <2>1, <2>2, <2>5, <2>6, <2>7, <2>9 DEF HeardFor, Place
  <2> QED
    BY <2>8, <2>9
<1>10. CASE Kills(t)
  <2>1. Place(t) \in {"pinging", "reading", "term"} /\ MovesOn(t)
    BY <1>10 DEF Kills, MovesOn
  <2>2. "none" \notin Commands \cup {"start"}
    BY ShellAssumption
  <2> QED
    BY <1>1, <1>4, <1>10, <2>1, <2>2, MovedParts DEF HeardFor, Place
<1>11. CASE Fails(t)
  <2>1. returned'[t] \in {"raised", "timed_out"}
    BY <1>3, <1>11 DEF Fails
  <2>2. returned'[t] \notin Commands \cup {"start"}
    BY <2>1, ShellAssumption
  <2> QED
    BY <1>2, <1>11, <2>2, MovedParts DEF HeardFor, Place
<1>12. CASE Reports(t)
  <2>1. returned'[t] = (IF call[t].first = "none" THEN "dead" ELSE call[t].first) /\ disturbed' = disturbed
    BY <1>3, <1>12 DEF Reports, Others
  <2>2. Place(t) = "reading"
    BY <1>12 DEF Reports
  <2>3. "dead" \notin Commands \cup {"start"}
    BY ShellAssumption
  <2>4. returned'[t] \in Commands \cup {"start"} => returned'[t] = t \/ call[t].pipe \in disturbed
    BY <1>1, <2>1, <2>2, <2>3 DEF HeardFor
  <2> QED
    BY <1>2, <1>12, <2>1, <2>4, MovedParts DEF HeardFor, Place
<1>13. CASE Enters(t) \/ Joins(t)
  <2>1. Place(t) \in {"idle", "queued"}
    BY <1>13 DEF Enters, Joins
  <2>2. "none" \notin Commands \cup {"start"}
    BY ShellAssumption
  <2> QED
    BY <1>1, <1>2, <1>4, <1>13, <2>1, <2>2, MovedParts DEF HeardFor, Place
<1> QED
  BY <1>5, <1>6, <1>7, <1>8, <1>9, <1>10, <1>11, <1>12, <1>13 DEF MovesOn

\* So does every step.
LEMMA HeardNext ==
  ASSUME ShellTypes, Fielded, Streams, Heard, ShellMove
  PROVE  Heard'
<1>1. \A t \in Commands : HeardFor(t)
  BY DEF Heard, HeardFor
<1>2. ASSUME NEW t \in Commands, MovesOn(t) \/ Fails(t) \/ Reports(t) \/ Enters(t) \/ Joins(t)
      PROVE  \A u \in Commands : HeardFor(u)'
  <2>1. HeardFor(t)'
    BY <1>2, HeardSteps
  <2>2. \E c : CallSet(t, c)
    BY <1>2 DEF MovesOn, Closes, Restarts, Spawns, Connects, Writes, Skips, Proceeds, Kills, Fails, Reports,
                Enters, Joins, Gets
  <2>3. \A u \in Commands : u # t => call'[u] = call[u]
    BY <2>2 DEF CallSet
  <2>4. returned \in [Commands -> Commands \cup {"none", "start", "raised", "timed_out", "dead", "cancelled"}]
    BY DEF ShellTypes
  <2>5. \A u \in Commands : u # t => returned'[u] = returned[u]
    <3>1. CASE Fails(t)
      BY <2>4, <3>1 DEF Fails
    <3>2. CASE Reports(t)
      BY <2>4, <3>2 DEF Reports
    <3> QED
      BY <1>2, <3>1, <3>2, CallMovesOn, CallComesIn
  <2>6. disturbed' = disturbed
    BY <1>2, CallMovesOn, CallComesIn DEF Fails, Reports, Others
  <2>7. \A u \in Commands : u # t => HeardFor(u)'
    BY <1>1, <2>3, <2>5, <2>6 DEF HeardFor, Place
  <2> QED
    BY <2>1, <2>7
<1>3. ASSUME UNCHANGED <<call, returned, disturbed>> PROVE \A u \in Commands : HeardFor(u)'
  BY <1>1, <1>3 DEF HeardFor, Place
<1>4. ASSUME NEW S \in SUBSET Commands, Cancels(S) PROVE \A u \in Commands : HeardFor(u)'
  <2>1. \A u \in Commands :
          IF u \in S
          THEN /\ call'[u].place = "done" /\ call'[u].awaits = "none" /\ call'[u].first = "none"
               /\ returned'[u] = "cancelled"
          ELSE call'[u] = call[u] /\ returned'[u] = returned[u]
    BY <1>4 DEF Cancels, CallRec
  <2>2. disturbed \subseteq disturbed'
    BY <1>4 DEF Cancels
  <2>3. "cancelled" \notin Commands \cup {"start"} /\ \A u \in Commands : u # "none"
    BY ShellAssumption
  <2>4. \A u \in S : HeardFor(u)'
    BY <2>1, <2>3 DEF HeardFor, Place
  <2>5. \A u \in Commands \ S : HeardFor(u)'
    BY <1>1, <2>1, <2>2 DEF HeardFor, Place
  <2> QED
    BY <2>4, <2>5
<1>5. ASSUME NEW p \in 1..Len(bash), BashStep(p) \/ Dies(p) PROVE UNCHANGED <<call, returned, disturbed>>
  BY <1>5 DEF BashStep, Dies
<1>6. ASSUME ClosesUp PROVE UNCHANGED <<call, returned, disturbed>>
  BY <1>6 DEF ClosesUp, Others
<1>7. \A u \in Commands : HeardFor(u)'
  BY <1>2, <1>3, <1>4, <1>5, <1>6 DEF ShellMove
<1> QED
  BY <1>7 DEF Heard, HeardFor

----------------------------------------------------------------------------
(***************************************************************************)
(* What an undisturbed shell has still to read and to report.              *)
(***************************************************************************)

\* A shell that has nothing to read or to report has what anybody awaits.
LEMMA AwaitedNothing ==
  ASSUME NEW b, b.stdin = <<>>, b.control = <<>>, NEW x
  PROVE  Awaited(b, x)
<1>1. 1..Len(b.stdin) = {} /\ 1..Len(b.control) = {}
  BY EmptySeq
<1> QED
  BY <1>1 DEF Awaited

\* A script, or the question of start(), for a shell that has nothing else.
LEMMA AwaitedWritten ==
  ASSUME NEW b, NEW c, b.stdin = <<>>, b.control = <<>>, c.control = b.control, NEW x \in Commands \cup {"start"},
         NEW s \in Seq(StdinItems), c.stdin = b.stdin \o s,
         \A i \in 1..Len(s) : s[i].of = x /\ (s[i].do = "sentinel" => i = Len(s))
  PROVE  Awaited(c, x)
<1>1. <<>> \o s = s
  OBVIOUS
<1>2. c.stdin = s /\ c.control = <<>>
  BY <1>1
<1>3. 1..Len(c.control) = {}
  BY <1>2, EmptySeq
<1> QED
  BY <1>2, <1>3 DEF Awaited

\* A line is read.
LEMMA AwaitedRead ==
  ASSUME NEW b \in Shells, NEW c, NEW x, Awaited(b, x), c.stdin = b.stdin,
         c.control = IF b.control = <<>> THEN <<>> ELSE Tail(b.control)
  PROVE  /\ Awaited(c, x)
         /\ b.control # <<>> /\ Head(b.control).do = "sentinel" => c.stdin = <<>> /\ c.control = <<>>
<1>1. b.control \in Seq(StdinItems) /\ Len(b.control) \in Nat
  BY LenProperties DEF Shells
<1>2. CASE b.control = <<>>
  <2>1. c.control = b.control
    BY <1>2
  <2> QED
    BY <1>2, <2>1 DEF Awaited
<1>3. CASE b.control # <<>>
  <2>1. /\ c.control \in Seq(StdinItems) /\ Len(c.control) = Len(b.control) - 1
        /\ \A i \in 1..Len(c.control) : c.control[i] = b.control[i + 1]
        /\ Head(b.control) = b.control[1] /\ Len(b.control) # 0
    BY <1>1, <1>3, HeadTailProperties, EmptySeq
  <2>2. ASSUME NEW i \in 1..Len(c.control)
        PROVE  c.control[i].of = x /\ (c.control[i].do = "sentinel" => i = Len(c.control) /\ c.stdin = <<>>)
    <3>1. i + 1 \in 1..Len(b.control) /\ c.control[i] = b.control[i + 1]
      BY <1>1, <2>1
    <3>2. b.control[i + 1].of = x /\ (b.control[i + 1].do = "sentinel" => i + 1 = Len(b.control) /\ b.stdin = <<>>)
      BY <3>1 DEF Awaited
    <3>3. i + 1 = Len(b.control) => i = Len(c.control)
      BY <1>1, <2>1
    <3> QED
      BY <3>1, <3>2, <3>3
  <2>3. Awaited(c, x)
    BY <2>2 DEF Awaited
  <2>4. ASSUME Head(b.control).do = "sentinel" PROVE c.stdin = <<>> /\ c.control = <<>>
    <3>1. 1 \in 1..Len(b.control)
      BY <1>1, <2>1
    <3>2. 1 = Len(b.control) /\ b.stdin = <<>>
      BY <2>1, <2>4, <3>1 DEF Awaited
    <3>3. Len(c.control) = 0
      BY <2>1, <3>2
    <3> QED
      BY <2>1, <3>2, <3>3, EmptySeq
  <2> QED
    BY <2>3, <2>4
<1> QED
  BY <1>2, <1>3

\* Bash does the next thing.
LEMMA AwaitedStep ==
  ASSUME NEW b \in Shells, NEW c, NEW x, Awaited(b, x), b.stdin # <<>>, c.stdin = Tail(b.stdin),
         c.control = IF Head(b.stdin).do = "run" THEN b.control ELSE Append(b.control, Head(b.stdin))
  PROVE  Awaited(c, x)
<1>1. /\ b.control \in Seq(StdinItems) /\ Len(b.control) \in Nat
      /\ b.stdin \in Seq(StdinItems) /\ Len(b.stdin) \in Nat
  BY LenProperties DEF Shells
<1> DEFINE item == Head(b.stdin)
<1>2. /\ c.stdin \in Seq(StdinItems) /\ Len(c.stdin) = Len(b.stdin) - 1 /\ Len(b.stdin) # 0
      /\ \A i \in 1..Len(c.stdin) : c.stdin[i] = b.stdin[i + 1]
      /\ item = b.stdin[1] /\ item \in StdinItems
  BY <1>1, HeadTailProperties, EmptySeq
<1> HIDE DEF item
<1>3. item.of = x /\ (item.do = "sentinel" => Len(b.stdin) = 1)
  <2>1. 1 \in 1..Len(b.stdin)
    BY <1>1, <1>2
  <2> QED
    BY <1>2, <2>1 DEF Awaited
<1>4. \A i \in 1..Len(c.stdin) : c.stdin[i].of = x /\ (c.stdin[i].do = "sentinel" => i = Len(c.stdin))
  <2> TAKE i \in 1..Len(c.stdin)
  <2>1. i + 1 \in 1..Len(b.stdin) /\ c.stdin[i] = b.stdin[i + 1]
    BY <1>1, <1>2
  <2>2. b.stdin[i + 1].of = x /\ (b.stdin[i + 1].do = "sentinel" => i + 1 = Len(b.stdin))
    BY <2>1 DEF Awaited
  <2>3. i + 1 = Len(b.stdin) => i = Len(c.stdin)
    BY <1>1, <1>2
  <2> QED
    BY <2>1, <2>2, <2>3
<1>5. \A i \in 1..Len(b.control) : b.control[i].of = x /\ b.control[i].do # "sentinel"
  BY DEF Awaited
<1>6. c.control = IF item.do = "run" THEN b.control ELSE Append(b.control, item)
  BY DEF item
<1>7. \A i \in 1..Len(c.control) :
        c.control[i].of = x /\ (c.control[i].do = "sentinel" => i = Len(c.control) /\ c.stdin = <<>>)
  <2>1. CASE item.do = "run"
    BY <1>5, <1>6, <2>1
  <2>2. CASE item.do # "run"
    <3>1. /\ Len(c.control) = Len(b.control) + 1 /\ c.control[Len(b.control) + 1] = item
          /\ \A i \in 1..Len(b.control) : c.control[i] = b.control[i]
      BY <1>1, <1>2, <1>6, <2>2, AppendProperties
    <3>2. \A i \in 1..Len(c.control) : i \in 1..Len(b.control) \/ i = Len(b.control) + 1
      BY <1>1, <3>1
    <3>3. item.do = "sentinel" => c.stdin = <<>>
      <4>1. ASSUME item.do = "sentinel" PROVE Len(c.stdin) = 0
        BY <1>2, <1>3, <4>1
      <4> QED
        BY <1>2, <4>1, EmptySeq
    <3> QED
      BY <1>3, <1>5, <3>1, <3>2, <3>3
  <2> QED
    BY <2>1, <2>2
<1> QED
  BY <1>4, <1>7 DEF Awaited

\* A report that is over leaves an undisturbed shell with nothing more to say.
LEMMA OverLeaves ==
  ASSUME ShellTypes, Fielded, Kept, Streams, NEW t \in Commands, Place(t) \in Lookouts, Over(t),
         bash' = OneLess(t), session.process \notin disturbed
  PROVE  bash'[session.process].stdin = <<>> /\ bash'[session.process].control = <<>>
<1> DEFINE p == session.process
<1>1. /\ p \in 1..Len(bash) /\ call[t].pipe = p /\ session.reader = p /\ bash[p] \in Shells
  BY ReadFrom DEF ShellTypes
<1>2. Awaited(bash[p], call[t].awaits)
  <2>1. session.reader # 0
    BY <1>1
  <2> QED
    BY <2>1 DEF Streams
<1>3. /\ bash'[p].stdin = bash[p].stdin
      /\ bash'[p].control = IF bash[p].control = <<>> THEN <<>> ELSE Tail(bash[p].control)
  BY ReadParts
<1>4. CASE Lines(t) = <<>>
  <2>1. bash[p].control = <<>> /\ ~bash[p].alive
    BY <1>1, <1>4 DEF Over, Lines, Alive
  <2>2. bash[p].stdin = <<>>
    BY <1>1, <2>1 DEF Kept
  <2> QED
    BY <1>3, <2>1, <2>2
<1>5. CASE Lines(t) # <<>>
  <2>1. bash[p].control # <<>> /\ Head(bash[p].control) = Sentinel(call[t].awaits)
    BY <1>1, <1>5 DEF Over, Lines, IsLast
  <2>2. Head(bash[p].control).do = "sentinel"
    BY <2>1 DEF Sentinel
  <2> QED
    BY <1>1, <1>2, <1>3, <2>1, <2>2, AwaitedRead
<1> QED
  BY <1>4, <1>5

\* What follows for Streams when nobody looks out for a report any more, or t does.
LEMMA StreamsQuiet ==
  ASSUME ShellTypes, Locking, Fielded, NEW t \in Commands,
         MovesOn(t) \/ Fails(t) \/ Reports(t) \/ Enters(t)
  PROVE  /\ \A u \in Commands : u # t => Place(u)' \notin Lookouts /\ Place(u) \notin Lookouts
         /\ (session'.reader = 0) => Streams'
         /\ /\ call'[t].place \notin Lookouts
            /\ bash'[session'.process].stdin = <<>> /\ bash'[session'.process].control = <<>>
            => Streams'
         /\ /\ call'[t].place \in Lookouts
            /\ Awaited(bash'[session'.process], call'[t].awaits)
            => Streams'
<1>1. \A u \in Commands : u # t => Place(u)' \notin Lookouts /\ Place(u) \notin Lookouts
  BY OneMoves, ShellPlaces DEF Place
<1> QED
  BY <1>1 DEF Streams, Place

\* What an undisturbed shell has to say is awaited, after each step of a call.
LEMMA StreamsSteps ==
  ASSUME ShellTypes, Locking, Fielded, Kept, Streams, NEW t \in Commands,
         MovesOn(t) \/ Fails(t) \/ Reports(t) \/ Enters(t)
  PROVE  Streams'
<1> DEFINE p == session.process
<1>1. \A u \in Commands : u # t => Place(u)' \notin Lookouts /\ Place(u) \notin Lookouts
  BY StreamsQuiet
<1>2. ASSUME Place(t) \notin Lookouts, p \notin disturbed, session.reader # 0
      PROVE  bash[p].stdin = <<>> /\ bash[p].control = <<>>
  BY <1>1, <1>2 DEF Streams
<1>3. disturbed' = disturbed
  BY CallMovesOn DEF Fails, Reports, Enters, Others
<1>4. CASE Closes(t) \/ Restarts(t)
  BY <1>4, StreamsQuiet DEF Closes, Restarts, SessionRec, Fresh
<1>5. CASE Spawns(t)
  <2>1. session'.reader = 0
    BY <1>5 DEF Spawns, Fielded, SessionRec
  <2> QED
    BY <2>1, StreamsQuiet
<1>6. CASE p \in disturbed /\ session'.process = p
  BY <1>3, <1>6 DEF Streams
<1>7. CASE Connects(t) /\ p \notin disturbed
  <2>1. bash[p].stdin = <<>> /\ bash[p].control = <<>>
    BY <1>7 DEF Connects, Kept
  <2>2. session'.process = p /\ call'[t].place \in Lookouts /\ call'[t].awaits = "start"
    BY <1>7, MovedParts DEF Connects, SessionRec, Lookouts
  <2>3. Awaited(bash'[p], "start")
    <3>1. CASE bash' = bash
      BY <2>1, <3>1, AwaitedNothing
    <3>2. CASE Alive(p) /\ bash' = Written(p, <<Sentinel("start")>>)
      <4> DEFINE s == <<Sentinel("start")>>
      <4>0. s \in Seq(StdinItems) /\ Len(s) = 1 /\ s[1] = [of |-> "start", do |-> "sentinel"]
        BY ScriptType
      <4> HIDE DEF s
      <4>1. \A i \in 1..Len(s) : s[i].of = "start" /\ (s[i].do = "sentinel" => i = Len(s))
        <5>1. \A i \in 1..Len(s) : i = 1
          BY <4>0
        <5> QED
          BY <4>0, <5>1
      <4>2. bash'[p].stdin = bash[p].stdin \o s /\ bash'[p].control = bash[p].control
        BY <3>2, <4>0, WrittenParts DEF s
      <4> QED
        BY <2>1, <4>0, <4>1, <4>2, AwaitedWritten
    <3> QED
      BY <1>7, <3>1, <3>2 DEF Connects
  <2> QED
    BY <1>7, <2>2, <2>3, StreamsQuiet
<1>8. CASE Writes(t) /\ p \notin disturbed
  <2>1. bash[p].stdin = <<>> /\ bash[p].control = <<>>
    BY <1>2, <1>8 DEF Writes, Lookouts
  <2>2. session'.process = p /\ call'[t].place \in Lookouts /\ call'[t].awaits = t
    BY <1>8, MovedParts DEF Writes, Lookouts
  <2>3. Awaited(bash'[p], t)
    <3> DEFINE s == Script(t)
    <3>1. s \in Seq(StdinItems)
          /\ \A i \in 1..Len(s) : s[i].of = t /\ (s[i].do = "sentinel" => i = Len(s))
      <4>1. s \in Seq(StdinItems) /\ Len(s) = 3 /\ s[1] = [of |-> t, do |-> "run"]
            /\ s[2] = [of |-> t, do |-> "code"] /\ s[3] = [of |-> t, do |-> "sentinel"]
        BY ScriptType
      <4> HIDE DEF s
      <4>2. \A i \in 1..Len(s) : i = 1 \/ i = 2 \/ i = 3
        BY <4>1
      <4> QED
        BY <4>1, <4>2
    <3> HIDE DEF s
    <3>2. bash'[p].stdin = bash[p].stdin \o s /\ bash'[p].control = bash[p].control
      BY <1>8, <3>1, WrittenParts DEF s, Writes
    <3> QED
      BY <2>1, <3>1, <3>2, AwaitedWritten
  <2> QED
    BY <1>8, <2>2, <2>3, StreamsQuiet
<1>9. CASE Skips(t) /\ p \notin disturbed
  <2>1. Place(t) \in Lookouts /\ bash' = OneLess(t) /\ session' = session
    BY <1>9 DEF Skips
  <2>2. /\ bash[p] \in Shells /\ bash'[p].stdin = bash[p].stdin
        /\ bash'[p].control = IF bash[p].control = <<>> THEN <<>> ELSE Tail(bash[p].control)
    BY <2>1, ReadParts, ReadFrom DEF ShellTypes
  <2>3. Awaited(bash[p], call[t].awaits)
    <3>1. session.reader # 0
      BY <2>1, ReadFrom
    <3> QED
      BY <1>9, <2>1, <3>1 DEF Streams
  <2>4. Awaited(bash'[p], call[t].awaits)
    BY <2>2, <2>3, AwaitedRead
  <2>5. call'[t].place \in Lookouts /\ call'[t].awaits = call[t].awaits
    BY <1>9, <2>1, MovedParts
  <2> QED
    BY <1>9, <2>1, <2>4, <2>5, StreamsQuiet
<1>10. CASE (Proceeds(t) \/ Reports(t)) /\ p \notin disturbed
  <2>1. Place(t) \in Lookouts /\ bash' = OneLess(t) /\ Over(t) /\ session'.process = p
    BY <1>10 DEF Proceeds, Reports, Lookouts, SessionRec
  <2>2. bash'[p].stdin = <<>> /\ bash'[p].control = <<>>
    BY <1>10, <2>1, OverLeaves
  <2>3. call'[t].place \notin Lookouts
    BY <1>10, MovedParts DEF Lookouts
  <2> QED
    BY <1>10, <2>1, <2>2, <2>3, StreamsQuiet
<1>11. CASE Kills(t) /\ p \notin disturbed
  <2>1. Place(t) \in Lookouts /\ bash' = bash /\ session' = session
    BY <1>11 DEF Kills, Lookouts
  <2>2. Awaited(bash[p], call[t].awaits)
    <3>1. session.reader # 0
      BY <2>1, ReadFrom
    <3> QED
      BY <1>11, <2>1, <3>1 DEF Streams
  <2>3. call'[t].place \in Lookouts /\ call'[t].awaits = call[t].awaits
    BY <1>11, MovedParts DEF Lookouts
  <2> QED
    BY <1>11, <2>1, <2>2, <2>3, StreamsQuiet
<1>12. CASE (Fails(t) \/ (Enters(t) /\ session' = session)) /\ p \notin disturbed
  <2>1. Place(t) \notin Lookouts /\ call'[t].place \notin Lookouts /\ session' = session
    BY <1>12, MovedParts DEF Fails, Enters, Lookouts
  <2>2. CASE session.reader = 0
    BY <1>12, <2>1, <2>2, StreamsQuiet
  <2>3. CASE bash' = bash /\ session.reader # 0
    BY <1>2, <1>12, <2>1, <2>3, StreamsQuiet
  <2>4. CASE bash' # bash
    <3>1. session' = Fresh(session'.lock)
      BY <1>12, <2>4 DEF Fails, Enters, Fresh
    <3>2. session'.reader = 0
      BY <3>1 DEF Fresh
    <3> QED
      BY <1>12, <3>2, StreamsQuiet
  <2> QED
    BY <2>2, <2>3, <2>4
<1>13. CASE Enters(t) /\ session' # session
  <2>1. session'.reader = 0
    BY <1>13 DEF Enters, Fresh
  <2> QED
    BY <1>13, <2>1, StreamsQuiet
<1>14. MovesOn(t) \/ Fails(t) \/ Reports(t) =>
         session'.process = p \/ Restarts(t) \/ Spawns(t)
  BY DEF MovesOn, Closes, Connects, Writes, Skips, Proceeds, Kills, Fails, Reports, SessionRec
<1> QED
  BY <1>4, <1>5, <1>6, <1>7, <1>8, <1>9, <1>10, <1>11, <1>12, <1>13, <1>14 DEF MovesOn

\* And after every step.
LEMMA StreamsNext ==
  ASSUME ShellTypes, Locking, Fielded, Kept, Streams, ShellMove
  PROVE  Streams'
<1> DEFINE p == session.process
<1>1. CASE \E t \in Commands : MovesOn(t) \/ Fails(t) \/ Reports(t) \/ Enters(t)
  BY <1>1, StreamsSteps
<1>2. ASSUME NEW t \in Commands, Joins(t) PROVE Streams'
  <2>1. UNCHANGED <<session, bash, disturbed>> /\ \A u \in Commands : u # t => call'[u] = call[u]
    BY <1>2 DEF Joins, CallSet, Others
  <2>2. Place(t) = "idle" /\ call'[t].place = "queued"
    BY <1>2, MovedParts DEF Joins
  <2>3. \A u \in Commands : IF Place(u)' \in Lookouts THEN Place(u) \in Lookouts /\ call'[u] = call[u]
                            ELSE Place(u) \notin Lookouts
    BY <2>1, <2>2 DEF Place, Lookouts
  <2> QED
    BY <2>1, <2>3 DEF Streams
<1>3. ASSUME NEW q \in 1..Len(bash), BashStep(q) \/ Dies(q), session.reader # 0, p \notin disturbed
      PROVE  /\ (\A t \in Commands : Place(t) \notin Lookouts) =>
                  bash'[p].stdin = <<>> /\ bash'[p].control = <<>>
             /\ \A t \in Commands : Place(t) \in Lookouts => Awaited(bash'[p], call[t].awaits)
  <2>1. bash \in Seq(Shells) /\ Len(bash) \in Nat /\ p \in 0..Len(bash) /\ p # 0
    BY <1>3, LenProperties DEF ShellTypes, Fielded
  <2>2. p \in 1..Len(bash) /\ bash[p] \in Shells
    BY <2>1
  <2>3. CASE q # p
    <3>1. bash'[p] = bash[p]
      BY <1>3, <2>1, <2>2, <2>3, SteppedShell, DeadParts
    <3> QED
      BY <1>3, <3>1 DEF Streams
  <2>4. CASE q = p /\ Dies(q)
    <3>1. bash'[p].stdin = <<>> /\ bash'[p].control = bash[p].control
      BY <2>1, <2>2, <2>4, DeadParts
    <3>2. ASSUME NEW x, Awaited(bash[p], x) PROVE Awaited(bash'[p], x)
      <4>1. 1..Len(bash'[p].stdin) = {}
        BY <3>1, EmptySeq
      <4> QED
        BY <3>1, <3>2, <4>1 DEF Awaited
    <3> QED
      BY <1>3, <3>1, <3>2 DEF Streams
  <2>5. CASE q = p /\ BashStep(q)
    <3>1. bash[p].stdin # <<>>
      BY <2>5 DEF BashStep
    <3>2. /\ bash'[p].stdin = Tail(bash[p].stdin)
          /\ bash'[p].control = IF Head(bash[p].stdin).do = "run" THEN bash[p].control
                                ELSE Append(bash[p].control, Head(bash[p].stdin))
      <4>1. bash'[p] = [stdin |-> Tail(bash[p].stdin),
                        control |-> IF Head(bash[p].stdin).do = "run" THEN bash[p].control
                                    ELSE Append(bash[p].control, Head(bash[p].stdin)),
                        alive |-> bash[p].alive]
        BY <2>1, <2>2, <2>5, SteppedShell
      <4> QED
        BY <4>1
    <3>3. ASSUME NEW x, Awaited(bash[p], x) PROVE Awaited(bash'[p], x)
      BY <2>2, <3>1, <3>2, <3>3, AwaitedStep
    <3> QED
      BY <1>3, <3>1, <3>3 DEF Streams
  <2> QED
    BY <1>3, <2>3, <2>4, <2>5
<1>4. ASSUME NEW q \in 1..Len(bash), BashStep(q) \/ Dies(q) PROVE Streams'
  <2>1. UNCHANGED <<session, call, disturbed>>
    BY <1>4 DEF BashStep, Dies
  <2> QED
    BY <1>3, <1>4, <2>1 DEF Streams, Place
<1>5. ASSUME NEW S \in SUBSET Commands, Cancels(S) PROVE Streams'
  <2>1. UNCHANGED <<session, bash>>
    BY <1>5 DEF Cancels
  <2>2. \A u \in Commands : IF u \in S THEN call'[u].place = "done" ELSE call'[u] = call[u]
    BY <1>5 DEF Cancels, CallRec
  <2>3. disturbed \subseteq disturbed' /\ \A u \in S : Place(u) \in Lookouts => call[u].pipe \in disturbed'
    BY <1>5 DEF Cancels
  <2>4. ASSUME p \notin disturbed'
        PROVE  \A u \in Commands : Place(u)' \in Lookouts <=> Place(u) \in Lookouts
    <3>1. \A u \in S : Place(u) \notin Lookouts
      BY <2>3, <2>4 DEF Fielded
    <3> QED
      BY <2>2, <3>1 DEF Place, Lookouts
  <2>5. \A u \in Commands : Place(u)' \in Lookouts => call'[u] = call[u]
    BY <2>2 DEF Place, Lookouts
  <2> QED
    BY <2>1, <2>3, <2>4, <2>5 DEF Streams
<1>6. ASSUME ClosesUp PROVE Streams'
  BY <1>6 DEF ClosesUp, Fresh, Streams
<1> QED
  BY <1>1, <1>2, <1>4, <1>5, <1>6 DEF ShellMove

----------------------------------------------------------------------------
(***************************************************************************)
(* The script of a call in the shells.                                     *)
(***************************************************************************)

\* Shells lose something, or are as they were; new ones are empty.
Shrinks(b, b2) ==
  \A p \in 1..Len(b2) :
    \/ b2[p].stdin = <<>> /\ b2[p].control = <<>>
    \/ /\ p \in 1..Len(b) /\ b2[p].stdin \in {b[p].stdin, <<>>}
       /\ Members(b2[p].control) \subseteq Members(b[p].control)

\* Then nothing appears in them, and the command still comes first.
LEMMA ShrinksKeep ==
  ASSUME NEW b, NEW b2, Shrinks(b, b2), NEW c
  PROVE  /\ Silent(b, c) => Silent(b2, c)
         /\ RunFirst(b, c) => RunFirst(b2, c)
         /\ HasRun(b2, c) => HasRun(b, c)
<1>1. \A p \in 1..Len(b2) : \A i \in 1..Len(b2[p].stdin) : p \in 1..Len(b) /\ b2[p].stdin = b[p].stdin
  <2> TAKE p \in 1..Len(b2)
  <2> TAKE i \in 1..Len(b2[p].stdin)
  <2>1. b2[p].stdin # <<>>
    BY EmptySeq
  <2> QED
    BY <2>1 DEF Shrinks
<1>2. \A p \in 1..Len(b2) : \A j \in 1..Len(b2[p].control) :
        p \in 1..Len(b) /\ \E k \in 1..Len(b[p].control) : b[p].control[k] = b2[p].control[j]
  <2> TAKE p \in 1..Len(b2)
  <2> TAKE j \in 1..Len(b2[p].control)
  <2>1. b2[p].control # <<>>
    BY EmptySeq
  <2>2. b2[p].control[j] \in Members(b2[p].control)
    BY DEF Members
  <2>3. p \in 1..Len(b) /\ b2[p].control[j] \in Members(b[p].control)
    BY <2>1, <2>2 DEF Shrinks
  <2> QED
    BY <2>3 DEF Members
<1>3. ASSUME Silent(b, c) PROVE Silent(b2, c)
  <2>1. \A p \in 1..Len(b2) : \A i \in 1..Len(b2[p].stdin) : b2[p].stdin[i].of # c
    BY <1>1, <1>3 DEF Silent
  <2>2. ASSUME NEW p \in 1..Len(b2), NEW j \in 1..Len(b2[p].control) PROVE b2[p].control[j].of # c
    <3>1. p \in 1..Len(b)
      BY <1>2
    <3>2. PICK k \in 1..Len(b[p].control) : b[p].control[k] = b2[p].control[j]
      BY <1>2
    <3> QED
      BY <1>3, <3>1, <3>2 DEF Silent
  <2> QED
    BY <2>1, <2>2 DEF Silent
<1>4. ASSUME RunFirst(b, c) PROVE RunFirst(b2, c)
  <2> SUFFICES ASSUME NEW p \in 1..Len(b2), NEW i \in 1..Len(b2[p].stdin),
                      b2[p].stdin[i] = [of |-> c, do |-> "run"], NEW q \in 1..Len(b2)
               PROVE  /\ \A j \in 1..Len(b2[q].control) : b2[q].control[j].of # c
                      /\ \A j \in 1..Len(b2[q].stdin) : b2[q].stdin[j].of = c => q = p /\ i <= j
    BY DEF RunFirst
  <2>1. p \in 1..Len(b) /\ i \in 1..Len(b[p].stdin) /\ b[p].stdin[i] = [of |-> c, do |-> "run"]
    BY <1>1
  <2>2. \A r \in 1..Len(b) : /\ \A j \in 1..Len(b[r].control) : b[r].control[j].of # c
                             /\ \A j \in 1..Len(b[r].stdin) : b[r].stdin[j].of = c => r = p /\ i <= j
    BY <1>4, <2>1 DEF RunFirst
  <2>3. \A j \in 1..Len(b2[q].control) : b2[q].control[j].of # c
    BY <1>2, <2>2
  <2>4. \A j \in 1..Len(b2[q].stdin) : b2[q].stdin[j].of = c => q = p /\ i <= j
    BY <1>1, <2>2
  <2> QED
    BY <2>3, <2>4
<1>5. HasRun(b2, c) => HasRun(b, c)
  BY <1>1 DEF HasRun
<1> QED
  BY <1>3, <1>4, <1>5

\* From b to b2, bash does the next thing in the shell p.
Stepped(b, b2, p) ==
  /\ Len(b2) = Len(b) /\ \A q \in 1..Len(b) : q # p => b2[q] = b[q]
  /\ b[p].stdin # <<>> /\ b2[p].stdin = Tail(b[p].stdin)
  /\ b2[p].control = IF Head(b[p].stdin).do = "run" THEN b[p].control
                     ELSE Append(b[p].control, Head(b[p].stdin))

\* What bash reports is no longer to be done.
LEMMA StepKeeps ==
  ASSUME NEW b \in Seq(Shells), NEW b2, NEW p \in 1..Len(b), Stepped(b, b2, p), NEW c
  PROVE  /\ Silent(b, c) => Silent(b2, c) /\ Head(b[p].stdin).of # c
         /\ RunFirst(b, c) => RunFirst(b2, c)
         /\ HasRun(b2, c) => HasRun(b, c)
<1> USE DEF Stepped
<1> DEFINE item == Head(b[p].stdin)
<1>1. b[p] \in Shells
  OBVIOUS
<1>2. /\ b[p].control \in Seq(StdinItems) /\ Len(b[p].control) \in Nat
      /\ b[p].stdin \in Seq(StdinItems) /\ Len(b[p].stdin) \in Nat
  BY <1>1, LenProperties DEF Shells
<1>3. /\ Len(b2[p].stdin) = Len(b[p].stdin) - 1 /\ Len(b[p].stdin) # 0
      /\ \A i \in 1..Len(b2[p].stdin) : b2[p].stdin[i] = b[p].stdin[i + 1]
      /\ item = b[p].stdin[1] /\ item \in StdinItems
  BY <1>2, HeadTailProperties, EmptySeq
<1>4. b2[p].control = IF item.do = "run" THEN b[p].control ELSE Append(b[p].control, item)
  OBVIOUS
<1> HIDE DEF item
<1>5. 1 \in 1..Len(b[p].stdin) /\ \A i \in 1..Len(b2[p].stdin) : i + 1 \in 1..Len(b[p].stdin) /\ i + 1 # 1
  BY <1>2, <1>3
<1>6. \A j \in 1..Len(b2[p].control) :
        \/ j \in 1..Len(b[p].control) /\ b2[p].control[j] = b[p].control[j]
        \/ b2[p].control[j] = item /\ item.do # "run"
  <2>1. CASE item.do = "run"
    BY <1>4, <2>1
  <2>2. CASE item.do # "run"
    <3>1. /\ Len(b2[p].control) = Len(b[p].control) + 1 /\ b2[p].control[Len(b[p].control) + 1] = item
          /\ \A i \in 1..Len(b[p].control) : b2[p].control[i] = b[p].control[i]
      BY <1>2, <1>3, <1>4, <2>2, AppendProperties
    <3>2. \A i \in 1..Len(b2[p].control) : i \in 1..Len(b[p].control) \/ i = Len(b[p].control) + 1
      BY <1>2, <3>1
    <3> QED
      BY <2>2, <3>1, <3>2
  <2> QED
    BY <2>1, <2>2
<1>7. ASSUME Silent(b, c) PROVE Silent(b2, c) /\ item.of # c
  <2>1. item.of # c
    BY <1>3, <1>5, <1>7 DEF Silent
  <2>2. \A i \in 1..Len(b2[p].stdin) : b2[p].stdin[i].of # c
    BY <1>3, <1>5, <1>7 DEF Silent
  <2>3. \A j \in 1..Len(b2[p].control) : b2[p].control[j].of # c
    BY <1>6, <1>7, <2>1 DEF Silent
  <2> QED
    BY <1>7, <2>1, <2>2, <2>3 DEF Silent
<1>8. ASSUME RunFirst(b, c) PROVE RunFirst(b2, c)
  <2> SUFFICES ASSUME NEW r \in 1..Len(b), NEW i \in 1..Len(b2[r].stdin),
                      b2[r].stdin[i] = [of |-> c, do |-> "run"], NEW q \in 1..Len(b)
               PROVE  /\ \A j \in 1..Len(b2[q].control) : b2[q].control[j].of # c
                      /\ \A j \in 1..Len(b2[q].stdin) : b2[q].stdin[j].of = c => q = r /\ i <= j
    BY DEF RunFirst
  <2> DEFINE at == IF r = p THEN i + 1 ELSE i
  <2>1. at \in 1..Len(b[r].stdin) /\ b[r].stdin[at] = [of |-> c, do |-> "run"]
    BY <1>3, <1>5
  <2>2. \A s \in 1..Len(b) : /\ \A j \in 1..Len(b[s].control) : b[s].control[j].of # c
                             /\ \A j \in 1..Len(b[s].stdin) : b[s].stdin[j].of = c => s = r /\ at <= j
    <3> HIDE DEF at
    <3> QED
      BY <1>8, <2>1 DEF RunFirst
  <2>3. item.of # c
    <3>1. ASSUME item.of = c PROVE FALSE
      <4>1. p = r /\ at <= 1
        <5> HIDE DEF at
        <5> QED
          BY <1>3, <1>5, <2>2, <3>1
      <4>2. at = i + 1 /\ i \in Nat \ {0}
        BY <4>1, <1>2, <1>3
      <4> QED
        BY <4>1, <4>2
    <3> QED
      BY <3>1
  <2>4. \A j \in 1..Len(b2[q].control) : b2[q].control[j].of # c
    <3>1. CASE q = p
      BY <1>6, <2>2, <2>3, <3>1
    <3>2. CASE q # p
      BY <2>2, <3>2
    <3> QED
      BY <3>1, <3>2
  <2>5. ASSUME NEW j \in 1..Len(b2[q].stdin), b2[q].stdin[j].of = c PROVE q = r /\ i <= j
    <3>1. CASE q = p
      <4>1. j + 1 \in 1..Len(b[p].stdin) /\ b[p].stdin[j + 1].of = c
        BY <1>3, <1>5, <2>5, <3>1
      <4>2. p = r /\ at <= j + 1
        <5> HIDE DEF at
        <5> QED
          BY <2>2, <4>1
      <4>3. at = i + 1 /\ i \in Nat /\ j \in Nat
        BY <1>2, <1>3, <3>1, <4>2
      <4> QED
        BY <3>1, <4>2, <4>3
    <3>2. CASE q # p
      <4>1. q = r /\ at <= j
        <5> HIDE DEF at
        <5> QED
          BY <2>2, <2>5, <3>2
      <4> QED
        BY <3>2, <4>1
    <3> QED
      BY <3>1, <3>2
  <2> QED
    BY <2>4, <2>5
<1>9. ASSUME HasRun(b2, c) PROVE HasRun(b, c)
  <2>1. PICK r \in 1..Len(b) : \E i \in 1..Len(b2[r].stdin) : b2[r].stdin[i] = [of |-> c, do |-> "run"]
    BY <1>9 DEF HasRun
  <2>2. PICK i \in 1..Len(b2[r].stdin) : b2[r].stdin[i] = [of |-> c, do |-> "run"]
    BY <2>1
  <2>3. CASE r = p
    BY <1>3, <1>5, <2>2, <2>3 DEF HasRun
  <2>4. CASE r # p
    BY <2>2, <2>4 DEF HasRun
  <2> QED
    BY <2>3, <2>4
<1> QED
  BY <1>7, <1>8, <1>9 DEF item

\* What is known of c stays when each item of c is where it was.
LEMMA SameItems ==
  ASSUME NEW b, NEW b2, Len(b2) = Len(b), NEW c,
         \A r \in 1..Len(b) :
           /\ b2[r].control = b[r].control
           /\ \A i \in 1..Len(b2[r].stdin) : b2[r].stdin[i].of = c =>
                i \in 1..Len(b[r].stdin) /\ b2[r].stdin[i] = b[r].stdin[i]
  PROVE  /\ Silent(b, c) => Silent(b2, c)
         /\ RunFirst(b, c) => RunFirst(b2, c)
         /\ HasRun(b2, c) => HasRun(b, c)
<1>1. \A i \in Nat, r \in 1..Len(b) : b2[r].stdin[i] = [of |-> c, do |-> "run"] => b2[r].stdin[i].of = c
  OBVIOUS
<1>2. ASSUME Silent(b, c) PROVE Silent(b2, c)
  BY <1>2 DEF Silent
<1>3. ASSUME RunFirst(b, c) PROVE RunFirst(b2, c)
  <2>1. ASSUME NEW r \in 1..Len(b2), NEW i \in 1..Len(b2[r].stdin),
               b2[r].stdin[i] = [of |-> c, do |-> "run"], NEW q \in 1..Len(b2)
        PROVE  /\ \A j \in 1..Len(b2[q].control) : b2[q].control[j].of # c
               /\ \A j \in 1..Len(b2[q].stdin) : b2[q].stdin[j].of = c => q = r /\ i <= j
    <3>1. b2[r].stdin[i].of = c
      BY <2>1
    <3>2. i \in 1..Len(b[r].stdin) /\ b[r].stdin[i] = [of |-> c, do |-> "run"]
      BY <2>1, <3>1
    <3>3. \A t \in 1..Len(b) : /\ \A j \in 1..Len(b[t].control) : b[t].control[j].of # c
                               /\ \A j \in 1..Len(b[t].stdin) : b[t].stdin[j].of = c => t = r /\ i <= j
      BY <1>3, <3>2 DEF RunFirst
    <3>4. \A j \in 1..Len(b2[q].control) : b2[q].control[j].of # c
      BY <3>3
    <3>5. ASSUME NEW j \in 1..Len(b2[q].stdin), b2[q].stdin[j].of = c PROVE q = r /\ i <= j
      <4>1. j \in 1..Len(b[q].stdin) /\ b[q].stdin[j].of = c
        BY <3>5
      <4> QED
        BY <3>3, <4>1
    <3> QED
      BY <3>4, <3>5
  <2> QED
    BY <2>1 DEF RunFirst
<1>4. ASSUME HasRun(b2, c) PROVE HasRun(b, c)
  <2>1. PICK r \in 1..Len(b) : \E i \in 1..Len(b2[r].stdin) : b2[r].stdin[i] = [of |-> c, do |-> "run"]
    BY <1>4 DEF HasRun
  <2>2. PICK i \in 1..Len(b2[r].stdin) : b2[r].stdin[i] = [of |-> c, do |-> "run"]
    BY <2>1
  <2>3. b2[r].stdin[i].of = c
    BY <2>2
  <2>4. i \in 1..Len(b[r].stdin) /\ b[r].stdin[i] = [of |-> c, do |-> "run"]
    BY <2>2, <2>3
  <2> QED
    BY <2>4 DEF HasRun
<1> QED
  BY <1>2, <1>3, <1>4

\* What there is of c follows the nth item of p, the command next.
AllAfter(b, c, p, n) ==
  \A r \in 1..Len(b) :
    /\ \A j \in 1..Len(b[r].control) : b[r].control[j].of # c
    /\ \A j \in 1..Len(b[r].stdin) : b[r].stdin[j].of = c =>
         r = p /\ j > n /\ (b[r].stdin[j].do = "run" => j = n + 1)

\* Then the command comes first.
LEMMA FirstItem ==
  ASSUME NEW b, NEW c, NEW p, NEW n \in Int, AllAfter(b, c, p, n)
  PROVE  RunFirst(b, c)
<1>1. ASSUME NEW r \in 1..Len(b), NEW i \in 1..Len(b[r].stdin),
             b[r].stdin[i] = [of |-> c, do |-> "run"], NEW q \in 1..Len(b)
      PROVE  /\ \A j \in 1..Len(b[q].control) : b[q].control[j].of # c
             /\ \A j \in 1..Len(b[q].stdin) : b[q].stdin[j].of = c => q = r /\ i <= j
  <2>1. b[r].stdin[i].of = c /\ b[r].stdin[i].do = "run"
    BY <1>1
  <2>2. r = p /\ i = n + 1
    BY <2>1 DEF AllAfter
  <2>3. ASSUME NEW j \in 1..Len(b[q].stdin), b[q].stdin[j].of = c PROVE q = r /\ i <= j
    <3>1. q = p /\ j > n
      BY <2>3 DEF AllAfter
    <3> QED
      BY <2>2, <3>1
  <2> QED
    BY <2>3 DEF AllAfter
<1> QED
  BY <1>1 DEF RunFirst

\* From b to b2, something is written of x to the shell p.
Wrote(b, b2, p, s, x) ==
  /\ Len(b2) = Len(b) /\ \A q \in 1..Len(b) : q # p => b2[q] = b[q]
  /\ b2[p].stdin = b[p].stdin \o s /\ b2[p].control = b[p].control
  /\ \A i \in 1..Len(s) : s[i].of = x

\* Then the others have what they had, and when x had nothing its command comes first.
LEMMA WriteKeeps ==
  ASSUME NEW b \in Seq(Shells), NEW b2, NEW p \in 1..Len(b), NEW s \in Seq(StdinItems), NEW x,
         Wrote(b, b2, p, s, x), NEW c
  PROVE  /\ c # x => /\ Silent(b, c) => Silent(b2, c)
                     /\ RunFirst(b, c) => RunFirst(b2, c)
                     /\ HasRun(b2, c) => HasRun(b, c)
         /\ c = x /\ Silent(b, c) /\ (\A i \in 1..Len(s) : s[i].do = "run" => i = 1) => RunFirst(b2, c)
<1> USE DEF Wrote
<1> DEFINE n == Len(b[p].stdin)
<1>1. b[p] \in Shells
  OBVIOUS
<1>2. b[p].stdin \in Seq(StdinItems) /\ n \in Nat /\ Len(s) \in Nat
  BY <1>1, LenProperties DEF Shells
<1>3. /\ Len(b2[p].stdin) = n + Len(s)
      /\ \A i \in 1..Len(b2[p].stdin) : b2[p].stdin[i] = IF i <= n THEN b[p].stdin[i] ELSE s[i - n]
  BY <1>2, ConcatProperties
<1>4. n = Len(b[p].stdin)
  OBVIOUS
<1> HIDE DEF n
<1>5. \A i \in 1..Len(b2[p].stdin) :
        \/ i \in 1..n /\ b2[p].stdin[i] = b[p].stdin[i]
        \/ i > n /\ i - n \in 1..Len(s) /\ b2[p].stdin[i] = s[i - n]
  BY <1>2, <1>3
<1>6. \A r \in 1..Len(b) : b2[r].control = b[r].control
  OBVIOUS
<1>7. ASSUME c # x
      PROVE  /\ Silent(b, c) => Silent(b2, c)
             /\ RunFirst(b, c) => RunFirst(b2, c)
             /\ HasRun(b2, c) => HasRun(b, c)
  <2>1. ASSUME NEW r \in 1..Len(b), NEW i \in 1..Len(b2[r].stdin), b2[r].stdin[i].of = c
        PROVE  i \in 1..Len(b[r].stdin) /\ b2[r].stdin[i] = b[r].stdin[i]
    <3>1. CASE r = p
      BY <1>4, <1>5, <1>7, <2>1, <3>1
    <3>2. CASE r # p
      BY <3>2
    <3> QED
      BY <3>1, <3>2
  <2>2. \A r \in 1..Len(b) :
           /\ b2[r].control = b[r].control
           /\ \A i \in 1..Len(b2[r].stdin) : b2[r].stdin[i].of = c =>
                i \in 1..Len(b[r].stdin) /\ b2[r].stdin[i] = b[r].stdin[i]
    BY <1>6, <2>1
  <2> QED
    BY <2>2, SameItems
<1>8. ASSUME c = x, Silent(b, c), \A i \in 1..Len(s) : s[i].do = "run" => i = 1 PROVE RunFirst(b2, c)
  <2>1. ASSUME NEW r \in 1..Len(b), NEW i \in 1..Len(b2[r].stdin), b2[r].stdin[i].of = c
        PROVE  r = p /\ i > n /\ (b2[r].stdin[i].do = "run" => i = n + 1)
    <3>1. r = p
      <4>1. ASSUME r # p PROVE FALSE
        BY <1>8, <2>1, <4>1 DEF Silent
      <4> QED
        BY <4>1
    <3>2. i > n /\ i - n \in 1..Len(s) /\ b2[p].stdin[i] = s[i - n]
      <4>1. ASSUME i \in 1..n, b2[p].stdin[i] = b[p].stdin[i] PROVE FALSE
        BY <1>4, <1>8, <2>1, <3>1, <4>1 DEF Silent
      <4> QED
        BY <1>5, <2>1, <3>1, <4>1
    <3>3. b2[r].stdin[i].do = "run" => i - n = 1
      BY <1>8, <3>1, <3>2
    <3>4. i - n = 1 => i = n + 1
      BY <1>2, <1>3, <3>1
    <3> QED
      BY <3>1, <3>2, <3>3, <3>4
  <2>2. \A r \in 1..Len(b) : \A j \in 1..Len(b2[r].control) : b2[r].control[j].of # c
    BY <1>6, <1>8 DEF Silent
  <2>3. n \in Int
    BY <1>2
  <2>4. AllAfter(b2, c, p, n)
    BY <2>1, <2>2 DEF AllAfter
  <2> QED
    BY <2>3, <2>4, FirstItem
<1> QED
  BY <1>7, <1>8

\* What is known of the script of c, of its command and of who heard of it.
ScriptsFor(c) ==
  /\ Unwritten(c) => Silent(bash, c) /\ home[c] = 0 /\ \A u \in Commands : call[u].first # c
  /\ RunFirst(bash, c)
  /\ HasRun(bash, c) => returned[c] # c /\ \A u \in Commands : call[u].first # c

\* Whose shells only lose something.
LEMMA ShellsShrink ==
  ASSUME ShellTypes, Fielded
  PROVE  /\ bash' = bash => Shrinks(bash, bash')
         /\ bash' = Ended(session.process) => Shrinks(bash, bash')
         /\ \A t \in Commands : Spawns(t) => Shrinks(bash, bash')
         /\ \A t \in Commands : Place(t) \in Lookouts /\ bash' = OneLess(t) => Shrinks(bash, bash')
         /\ \A p \in 1..Len(bash) : Dies(p) => Shrinks(bash, bash')
<1>1. bash \in Seq(Shells) /\ session.process \in 0..Len(bash) /\ Len(bash) \in Nat
  BY LenProperties DEF ShellTypes
<1>2. bash' = bash => Shrinks(bash, bash')
  BY DEF Shrinks
<1>3. ASSUME bash' = Ended(session.process) PROVE Shrinks(bash, bash')
  <2>1. /\ Len(bash') = Len(bash) /\ session.process # 0 => bash'[session.process] = Gone
        /\ \A q \in 1..Len(bash) : q # session.process => bash'[q] = bash[q]
    BY <1>1, <1>3, EndedShell
  <2>2. Gone.stdin = <<>> /\ Gone.control = <<>>
    BY DEF Gone
  <2>3. Len(bash') = Len(bash) /\ 0 \notin 1..Len(bash)
    BY <1>1, <1>3, EndedShell
  <2> QED
    BY <2>1, <2>2, <2>3 DEF Shrinks
<1>4. ASSUME NEW t \in Commands, Spawns(t) PROVE Shrinks(bash, bash')
  <2>1. /\ Len(bash') = Len(bash) + 1 /\ bash'[Len(bash) + 1].stdin = <<>> /\ bash'[Len(bash) + 1].control = <<>>
        /\ \A q \in 1..Len(bash) : bash'[q] = bash[q]
    BY <1>1, <1>4, SpawnedShell DEF Spawns
  <2>2. \A q \in 1..Len(bash') : q = Len(bash) + 1 \/ q \in 1..Len(bash)
    BY <1>1, <2>1
  <2> QED
    BY <2>1, <2>2 DEF Shrinks
<1>5. ASSUME NEW t \in Commands, Place(t) \in Lookouts, bash' = OneLess(t) PROVE Shrinks(bash, bash')
  <2> DEFINE p == session.process
  <2>1. /\ Len(bash') = Len(bash) /\ p \in 1..Len(bash)
        /\ \A q \in 1..Len(bash) : q # p => bash'[q] = bash[q]
    BY <1>5, ReadShells
  <2>2. /\ bash'[p].stdin = bash[p].stdin
        /\ bash'[p].control = IF bash[p].control = <<>> THEN <<>> ELSE Tail(bash[p].control)
    BY <1>5, ReadParts
  <2>3. bash[p] \in Shells
    BY <1>1, <2>1
  <2>4. bash[p].control \in Seq(StdinItems)
    BY <2>3 DEF Shells
  <2>5. Members(bash'[p].control) \subseteq Members(bash[p].control)
    <3>1. CASE bash[p].control = <<>>
      BY <2>2, <3>1
    <3>2. CASE bash[p].control # <<>>
      <4> DEFINE r == Tail(bash[p].control)
      <4>1. Len(r) = Len(bash[p].control) - 1 /\ \A i \in 1..Len(r) : r[i] = bash[p].control[i + 1]
        BY <2>4, <3>2, HeadTailProperties
      <4>2. Len(bash[p].control) \in Nat
        BY <2>4, LenProperties
      <4>3. bash'[p].control = r
        BY <2>2, <3>2
      <4> HIDE DEF r
      <4>4. \A i \in 1..Len(r) : i + 1 \in 1..Len(bash[p].control)
        BY <4>1, <4>2
      <4> QED
        BY <4>1, <4>3, <4>4 DEF Members
    <3> QED
      BY <3>1, <3>2
  <2> QED
    BY <2>1, <2>2, <2>5 DEF Shrinks
<1>6. ASSUME NEW p \in 1..Len(bash), Dies(p) PROVE Shrinks(bash, bash')
  BY <1>1, <1>6, DeadParts DEF Shrinks
<1> QED
  BY <1>2, <1>3, <1>4, <1>5, <1>6

\* What the shells have of c, unless it writes its script.
LEMMA ShellsKeep ==
  ASSUME ShellTypes, Fielded, ShellMove, NEW c \in Commands, ~Writes(c)
  PROVE  /\ Silent(bash, c) => Silent(bash', c)
         /\ RunFirst(bash, c) => RunFirst(bash', c)
         /\ HasRun(bash', c) => HasRun(bash, c)
<1> DEFINE Good == /\ Silent(bash, c) => Silent(bash', c)
                   /\ RunFirst(bash, c) => RunFirst(bash', c)
                   /\ HasRun(bash', c) => HasRun(bash, c)
<1>1. bash \in Seq(Shells) /\ c # "start"
  BY ShellAssumption DEF ShellTypes
<1>2. ASSUME Shrinks(bash, bash') PROVE Good
  BY <1>2, ShrinksKeep
<1>3. ASSUME NEW p \in 1..Len(bash), BashStep(p) PROVE Good
  <2>1. bash[p].stdin # <<>>
    BY <1>3 DEF BashStep
  <2>2. /\ Len(bash') = Len(bash) /\ \A q \in 1..Len(bash) : q # p => bash'[q] = bash[q]
        /\ bash'[p].stdin = Tail(bash[p].stdin)
        /\ bash'[p].control = IF Head(bash[p].stdin).do = "run" THEN bash[p].control
                              ELSE Append(bash[p].control, Head(bash[p].stdin))
    <3>1. /\ Len(bash') = Len(bash) /\ \A q \in 1..Len(bash) : q # p => bash'[q] = bash[q]
          /\ bash'[p] = [stdin |-> Tail(bash[p].stdin),
                         control |-> IF Head(bash[p].stdin).do = "run" THEN bash[p].control
                                     ELSE Append(bash[p].control, Head(bash[p].stdin)),
                         alive |-> bash[p].alive]
      BY <1>1, <1>3, SteppedShell
    <3> QED
      BY <3>1
  <2>3. Stepped(bash, bash', p)
    BY <2>1, <2>2 DEF Stepped
  <2> QED
    BY <1>1, <2>3, StepKeeps
<1>4. ASSUME NEW x \in Commands \cup {"start"}, x # c, NEW s \in Seq(StdinItems), \A i \in 1..Len(s) : s[i].of = x,
             Alive(session.process), bash' = Written(session.process, s)
      PROVE  Good
  <2> DEFINE p == session.process
  <2>1. /\ Len(bash') = Len(bash) /\ p \in 1..Len(bash)
        /\ \A q \in 1..Len(bash) : q # p => bash'[q] = bash[q]
    BY <1>4, WrittenShells
  <2>2. bash'[p].stdin = bash[p].stdin \o s /\ bash'[p].control = bash[p].control
    BY <1>4, WrittenParts
  <2> HIDE DEF p
  <2>3. Wrote(bash, bash', p, s, x)
    BY <1>4, <2>1, <2>2 DEF Wrote
  <2>4. c # x /\ p \in 1..Len(bash)
    BY <1>4, <2>1
  <2> QED
    BY <1>1, <2>3, <2>4, WriteKeeps
<1> HIDE DEF Good
<1>5. ASSUME NEW t \in Commands, Connects(t) PROVE Good
  <2>1. CASE bash' = bash
    BY <1>2, <2>1, ShellsShrink
  <2>2. CASE Alive(session.process) /\ bash' = Written(session.process, <<Sentinel("start")>>)
    <3> DEFINE s == <<Sentinel("start")>>
    <3>1. s \in Seq(StdinItems) /\ Len(s) = 1 /\ s[1] = [of |-> "start", do |-> "sentinel"]
      BY ScriptType
    <3> HIDE DEF s
    <3>2. \A i \in 1..Len(s) : s[i].of = "start"
      <4>1. \A i \in 1..Len(s) : i = 1
        BY <3>1
      <4> QED
        BY <3>1, <4>1
    <3>3. bash' = Written(session.process, s) /\ "start" \in Commands \cup {"start"}
      BY <2>2 DEF s
    <3> QED
      BY <1>1, <1>4, <2>2, <3>1, <3>2, <3>3
  <2> QED
    BY <1>5, <2>1, <2>2 DEF Connects
<1>6. ASSUME NEW t \in Commands, t # c, Writes(t) PROVE Good
  <2> DEFINE s == Script(t)
  <2>1. s \in Seq(StdinItems) /\ Len(s) = 3 /\ s[1] = [of |-> t, do |-> "run"]
        /\ s[2] = [of |-> t, do |-> "code"] /\ s[3] = [of |-> t, do |-> "sentinel"]
    BY ScriptType
  <2>2. Alive(session.process) /\ bash' = Written(session.process, s)
    BY <1>6 DEF Writes
  <2> HIDE DEF s
  <2>3. \A i \in 1..Len(s) : s[i].of = t
    <3>1. \A i \in 1..Len(s) : i = 1 \/ i = 2 \/ i = 3
      BY <2>1
    <3> QED
      BY <2>1, <3>1
  <2> QED
    BY <1>4, <1>6, <2>1, <2>2, <2>3
<1>7. ASSUME NEW t \in Commands, MovesOn(t) PROVE Good
  <2>1. CASE Closes(t) \/ Kills(t)
    BY <1>2, <2>1, ShellsShrink DEF Closes, Kills
  <2>2. CASE Restarts(t)
    BY <1>2, <2>2, ShellsShrink DEF Restarts
  <2>3. CASE Spawns(t)
    BY <1>2, <2>3, ShellsShrink
  <2>4. CASE Skips(t) \/ Proceeds(t)
    BY <1>2, <2>4, ShellsShrink DEF Skips, Proceeds, Lookouts
  <2> QED
    BY <1>5, <1>6, <1>7, <2>1, <2>2, <2>3, <2>4 DEF MovesOn
<1>8. ASSUME NEW t \in Commands, Fails(t) \/ Reports(t) \/ Enters(t) \/ Joins(t) PROVE Good
  <2>1. bash' = bash \/ bash' = Ended(session.process) \/ (Place(t) \in Lookouts /\ bash' = OneLess(t))
    BY <1>8 DEF Fails, Reports, Enters, Joins, Lookouts
  <2> QED
    BY <1>2, <2>1, ShellsShrink
<1>9. ASSUME NEW p \in 1..Len(bash), Dies(p) PROVE Good
  BY <1>2, <1>9, ShellsShrink
<1>10. ASSUME NEW S \in SUBSET Commands, Cancels(S) PROVE Good
  BY <1>2, <1>10, ShellsShrink DEF Cancels
<1>11. ASSUME ClosesUp PROVE Good
  BY <1>2, <1>11, ShellsShrink DEF ClosesUp
<1>12. Good
  BY <1>3, <1>7, <1>8, <1>9, <1>10, <1>11 DEF ShellMove
<1> QED
  BY <1>12 DEF Good

\* Whose script is unwritten after a step had not written it before.
LEMMA UnwrittenBack ==
  ASSUME ShellTypes, Fielded, Heard, ShellMove, NEW c \in Commands, Unwritten(c)'
  PROVE  Unwritten(c) /\ ~Writes(c)
<1>1. call'[c].place # "done" /\ call'[c].after # "return" /\ call'[c].awaits # c
  BY DEF Unwritten, Place
<1>2. ASSUME call'[c] = call[c] PROVE Unwritten(c)
  BY <1>1, <1>2 DEF Unwritten, Place
<1>3. c # "start" /\ c # "none"
  BY ShellAssumption
<1>4. ~Writes(c) /\ ~Fails(c) /\ ~Reports(c)
  BY <1>1, MovedParts
<1>5. CASE MovesOn(c)
  <2>1. Place(c) # "done"
    BY <1>5 DEF MovesOn, Closes, Restarts, Spawns, Connects, Writes, Skips, Proceeds, Kills, Lookouts
  <2>2. CASE Closes(c) \/ Restarts(c) \/ Proceeds(c)
    <3>1. call'[c].after \in Nexts(c)
      BY <2>2, MovedParts
    <3> QED
      BY <1>1, <1>4, <2>1, <3>1 DEF Nexts, Unwritten
  <2>3. CASE Spawns(c) \/ Skips(c) \/ Kills(c)
    BY <1>1, <1>4, <2>1, <2>3, MovedParts DEF Unwritten
  <2>4. CASE Connects(c)
    <3>1. call[c].after # "return" /\ Place(c) = "connecting"
      BY <1>1, <2>4, MovedParts DEF Connects
    <3>2. call[c].awaits # c
      BY <3>1 DEF Heard
    <3> QED
      BY <1>4, <2>1, <3>1, <3>2 DEF Unwritten
  <2> QED
    BY <1>4, <1>5, <2>2, <2>3, <2>4 DEF MovesOn
<1>6. CASE Enters(c) \/ Joins(c)
  <2>1. Place(c) \in {"idle", "queued"}
    BY <1>6 DEF Enters, Joins
  <2>2. call[c].after = "none" /\ call[c].awaits = "none"
    BY <2>1 DEF Heard
  <2> QED
    BY <1>3, <1>4, <2>1, <2>2 DEF Unwritten
<1>7. ASSUME NEW t \in Commands, MovesOn(t) \/ Fails(t) \/ Reports(t) \/ Enters(t) \/ Joins(t), t # c
      PROVE  call'[c] = call[c]
  <2>1. \E d : CallSet(t, d)
    BY <1>7 DEF MovesOn, Closes, Restarts, Spawns, Connects, Writes, Skips, Proceeds, Kills, Fails, Reports,
                Enters, Joins, Gets
  <2> QED
    BY <1>7, <2>1 DEF CallSet
<1>8. ASSUME NEW S \in SUBSET Commands, Cancels(S) PROVE call'[c] = call[c]
  BY <1>1, <1>8 DEF Cancels, CallRec
<1>9. ASSUME NEW p \in 1..Len(bash), BashStep(p) \/ Dies(p) PROVE call'[c] = call[c]
  BY <1>9 DEF BashStep, Dies
<1>10. ASSUME ClosesUp PROVE call'[c] = call[c]
  BY <1>10 DEF ClosesUp
<1>11. Unwritten(c)
  BY <1>2, <1>4, <1>5, <1>6, <1>7, <1>8, <1>9, <1>10 DEF ShellMove
<1> QED
  BY <1>4, <1>11

\* Where what a call has heard, and what it returns, comes from.
LEMMA HeardBack ==
  ASSUME ShellTypes, ShellMove, NEW c \in Commands
  PROVE  /\ \A u \in Commands : call'[u].first = c =>
              call[u].first = c \/ (Skips(u) /\ Head(Lines(u)).of = c)
         /\ returned'[c] = c => returned[c] = c \/ call[c].first = c
<1>1. c \notin {"none", "start", "raised", "timed_out", "dead", "cancelled"}
  BY ShellAssumption
<1>2. returned \in [Commands -> Commands \cup {"none", "start", "raised", "timed_out", "dead", "cancelled"}]
  BY DEF ShellTypes
<1>3. ASSUME NEW t \in Commands, MovesOn(t) \/ Fails(t) \/ Reports(t) \/ Enters(t) \/ Joins(t)
      PROVE  \A u \in Commands : call'[u].first = c =>
               call[u].first = c \/ (Skips(u) /\ Head(Lines(u)).of = c)
  <2>1. \E d : CallSet(t, d)
    BY <1>3 DEF MovesOn, Closes, Restarts, Spawns, Connects, Writes, Skips, Proceeds, Kills, Fails, Reports,
                Enters, Joins, Gets
  <2>2. \A u \in Commands : u # t => call'[u] = call[u]
    BY <2>1 DEF CallSet
  <2>3. ~Skips(t) => call'[t].first \in {call[t].first, "none"}
    BY <1>3, MovedParts DEF MovesOn
  <2>4. Skips(t) => call'[t].first \in {call[t].first, Head(Lines(t)).of}
    BY MovedParts
  <2> QED
    BY <1>1, <2>2, <2>3, <2>4
<1>4. ASSUME NEW t \in Commands, MovesOn(t) \/ Fails(t) \/ Reports(t) \/ Enters(t) \/ Joins(t)
      PROVE  returned'[c] = c => returned[c] = c \/ call[c].first = c
  <2>1. CASE Fails(t)
    BY <1>1, <1>2, <2>1 DEF Fails
  <2>2. CASE Reports(t)
    <3> DEFINE answer == IF call[t].first = "none" THEN "dead" ELSE call[t].first
    <3>1. returned' = [returned EXCEPT ![t] = answer]
      BY <2>2 DEF Reports
    <3>2. answer \in {"dead", call[t].first}
      OBVIOUS
    <3> HIDE DEF answer
    <3>3. returned'[c] = IF c = t THEN answer ELSE returned[c]
      BY <1>2, <3>1
    <3> QED
      BY <1>1, <3>2, <3>3
  <2>3. CASE MovesOn(t) \/ Enters(t) \/ Joins(t)
    BY <2>3 DEF MovesOn, Closes, Restarts, Spawns, Connects, Writes, Skips, Proceeds, Kills, Enters, Joins
  <2> QED
    BY <1>4, <2>1, <2>2, <2>3
<1>5. ASSUME NEW S \in SUBSET Commands, Cancels(S)
      PROVE  /\ \A u \in Commands : call'[u].first = c => call[u].first = c
             /\ returned'[c] = c => returned[c] = c
  <2>1. \A u \in Commands : call'[u] = call[u] \/ call'[u].first = "none"
    BY <1>5 DEF Cancels, CallRec
  <2>2. returned'[c] \in {returned[c], "cancelled"}
    BY <1>5 DEF Cancels
  <2> QED
    BY <1>1, <2>1, <2>2
<1>6. ASSUME NEW p \in 1..Len(bash), BashStep(p) \/ Dies(p) PROVE UNCHANGED <<call, returned>>
  BY <1>6 DEF BashStep, Dies
<1>7. ASSUME ClosesUp PROVE UNCHANGED <<call, returned>>
  BY <1>7 DEF ClosesUp
<1>8. CASE \E t \in Commands : MovesOn(t) \/ Fails(t) \/ Reports(t) \/ Enters(t) \/ Joins(t)
  BY <1>3, <1>4, <1>8
<1>9. CASE \E S \in SUBSET Commands : Cancels(S)
  BY <1>5, <1>9
<1>10. CASE (\E p \in 1..Len(bash) : BashStep(p) \/ Dies(p)) \/ ClosesUp
  BY <1>6, <1>7, <1>10
<1> QED
  BY <1>8, <1>9, <1>10 DEF ShellMove

\* A job that a silent command has not left is not left by a step.
LEMMA HomeBack ==
  ASSUME ShellTypes, Fielded, ShellMove, NEW c \in Commands, home'[c] # home[c]
  PROVE  \E p \in 1..Len(bash) : BashStep(p) /\ Head(bash[p].stdin) = [of |-> c, do |-> "run"] /\ home'[c] = p
                                 /\ c \in jobs'
<1>1. ASSUME NEW t \in Commands, MovesOn(t) \/ Fails(t) \/ Reports(t) \/ Enters(t) \/ Joins(t) PROVE home' = home
  BY <1>1, CallMovesOn, CallComesIn DEF Fails, Reports, Others
<1>2. PICK p \in 1..Len(bash) : BashStep(p)
  BY <1>1 DEF ShellMove, Dies, Cancels, ClosesUp, Others
<1>3. bash \in Seq(Shells) /\ bash[p] \in Shells /\ home \in [Commands -> 0..Len(bash)]
  BY DEF ShellTypes
<1> DEFINE item == Head(bash[p].stdin)
<1>4. item \in StdinItems
  BY <1>2, <1>3, SteppedShell
<1>5. item.do = "run" /\ home' = [home EXCEPT ![item.of] = p] /\ jobs' = jobs \cup {item.of}
  BY <1>2 DEF BashStep, Set
<1> HIDE DEF item
<1>6. item.of = c /\ home'[c] = p
  BY <1>3, <1>5
<1>7. item = [of |-> c, do |-> "run"]
  BY <1>4, <1>5, <1>6 DEF StdinItems
<1> QED
  BY <1>2, <1>5, <1>6, <1>7 DEF item

\* The script of a call is known in every step.
LEMMA ScriptsNext ==
  ASSUME ShellTypes, Locking, Fielded, Heard, Scripts, ShellMove
  PROVE  Scripts'
<1> SUFFICES ASSUME NEW c \in Commands PROVE ScriptsFor(c)'
  BY DEF Scripts, ScriptsFor
<1>1. ScriptsFor(c)
  BY DEF Scripts, ScriptsFor
<1>2. Unwritten(c)' => Unwritten(c) /\ ~Writes(c)
  BY UnwrittenBack
<1>3. returned'[c] = c => returned[c] = c \/ call[c].first = c
  BY HeardBack
<1>4. \A u \in Commands : call'[u].first = c =>
        call[u].first = c \/ (Skips(u) /\ Head(Lines(u)).of = c)
  BY HeardBack
<1>5. CASE Writes(c)
  <2>1. Place(c) = "sending" /\ call[c].after # "return" /\ Alive(session.process)
        /\ bash' = Written(session.process, Script(c))
    BY <1>5 DEF Writes
  <2>2. Unwritten(c) /\ returned[c] = "none"
    <3>1. call[c].awaits # c
      BY <2>1 DEF Heard
    <3> QED
      BY <2>1, <3>1 DEF Unwritten, Heard
  <2>3. Silent(bash, c) /\ \A u \in Commands : call[u].first # c
    BY <1>1, <2>2 DEF ScriptsFor
  <2>4. \A u \in Commands : ~Skips(u)
    <3>1. Place(c) \in Past /\ Place(c) \notin Lookouts
      BY <2>1 DEF Past, Lookouts
    <3> QED
      BY <3>1, OnePast, ShellPlaces DEF Skips
  <2>5. RunFirst(bash', c)
    <3> DEFINE s == Script(c)
               p == session.process
    <3>1. s \in Seq(StdinItems) /\ Len(s) = 3 /\ s[1] = [of |-> c, do |-> "run"]
          /\ s[2] = [of |-> c, do |-> "code"] /\ s[3] = [of |-> c, do |-> "sentinel"]
      BY ScriptType
    <3>2. bash' = Written(p, s)
      BY <2>1
    <3> HIDE DEF s
    <3>3. \A i \in 1..Len(s) : s[i].of = c /\ (s[i].do = "run" => i = 1)
      <4>1. \A i \in 1..Len(s) : i = 1 \/ i = 2 \/ i = 3
        BY <3>1
      <4> QED
        BY <3>1, <4>1
    <3>4. /\ Len(bash') = Len(bash) /\ p \in 1..Len(bash)
          /\ \A q \in 1..Len(bash) : q # p => bash'[q] = bash[q]
      BY <2>1, <3>1, <3>2, WrittenShells
    <3>5. bash'[p].stdin = bash[p].stdin \o s /\ bash'[p].control = bash[p].control
      BY <2>1, <3>1, <3>2, WrittenParts
    <3>6. bash \in Seq(Shells)
      BY DEF ShellTypes
    <3> HIDE DEF p
    <3>7. Wrote(bash, bash', p, s, c) /\ \A i \in 1..Len(s) : s[i].do = "run" => i = 1
      BY <3>3, <3>4, <3>5 DEF Wrote
    <3> QED
      BY <2>3, <3>1, <3>4, <3>6, <3>7, WriteKeeps
  <2>6. c # "none"
    BY ShellAssumption
  <2> QED
    BY <1>2, <1>3, <1>4, <1>5, <2>2, <2>3, <2>4, <2>5, <2>6 DEF ScriptsFor
<1>6. CASE ~Writes(c)
  <2>1. /\ Silent(bash, c) => Silent(bash', c)
        /\ RunFirst(bash', c)
        /\ HasRun(bash', c) => HasRun(bash, c)
    BY <1>1, <1>6, ShellsKeep DEF ScriptsFor
  <2>2. CASE \E u \in Commands : Skips(u) /\ Head(Lines(u)).of = c
    <3>1. PICK u \in Commands : Skips(u) /\ Head(Lines(u)).of = c
      BY <2>2
    <3> DEFINE p == session.process
    <3>2. p \in 1..Len(bash) /\ Lines(u) = bash[p].control /\ Lines(u) \in Seq(StdinItems) /\ Lines(u) # <<>>
      BY <3>1, ReadFrom DEF Skips, Lines
    <3>3. 1 \in 1..Len(bash[p].control) /\ bash[p].control[1].of = c
      <4>1. 1 \in 1..Len(Lines(u)) /\ Head(Lines(u)) = Lines(u)[1]
        BY <3>2, EmptySeq, LenProperties, HeadTailProperties
      <4> QED
        BY <3>1, <3>2, <4>1
    <3>4. ~Silent(bash, c)
      BY <3>2, <3>3 DEF Silent
    <3>5. ~HasRun(bash, c)
      BY <1>1, <3>2, <3>3 DEF ScriptsFor, RunFirst, HasRun
    <3> QED
      BY <1>1, <1>2, <2>1, <3>4, <3>5 DEF ScriptsFor
  <2>3. CASE ~ \E u \in Commands : Skips(u) /\ Head(Lines(u)).of = c
    <3>1. \A u \in Commands : call'[u].first = c => call[u].first = c
      BY <1>4, <2>3
    <3>2. HasRun(bash', c) => returned'[c] # c /\ \A u \in Commands : call'[u].first # c
      BY <1>1, <1>3, <2>1, <3>1 DEF ScriptsFor
    <3>3. ASSUME Unwritten(c)' PROVE home'[c] = 0
      <4>1. Silent(bash, c) /\ home[c] = 0
        BY <1>1, <1>2, <3>3 DEF ScriptsFor
      <4>2. ASSUME home'[c] # home[c] PROVE FALSE
        <5>1. PICK p \in 1..Len(bash) : BashStep(p) /\ Head(bash[p].stdin) = [of |-> c, do |-> "run"]
          BY <4>2, HomeBack
        <5>2. bash \in Seq(Shells) /\ bash[p] \in Shells /\ bash[p].stdin # <<>>
          BY <5>1 DEF ShellTypes, BashStep
        <5>3. bash[p].stdin \in Seq(StdinItems)
          BY <5>2 DEF Shells
        <5>4. 1 \in 1..Len(bash[p].stdin) /\ Head(bash[p].stdin) = bash[p].stdin[1]
          BY <5>2, <5>3, EmptySeq, LenProperties, HeadTailProperties
        <5>5. bash[p].stdin[1].of = c
          BY <5>1, <5>4
        <5> QED
          BY <4>1, <5>4, <5>5 DEF Silent
      <4> QED
        BY <4>1, <4>2
    <3>4. ASSUME Unwritten(c)' PROVE Silent(bash', c) /\ \A u \in Commands : call'[u].first # c
      BY <1>1, <1>2, <2>1, <3>1, <3>4 DEF ScriptsFor
    <3> QED
      BY <2>1, <3>2, <3>3, <3>4 DEF ScriptsFor
  <2> QED
    BY <2>2, <2>3
<1> QED
  BY <1>5, <1>6

----------------------------------------------------------------------------
(***************************************************************************)
(* The jobs of those that have their answer are noted.                     *)
(***************************************************************************)

\* What is noted of the job of a call that has its answer.
Accounted(c) ==
  /\ home[c] = session.process /\ c \in jobs => c \in session.pids
  /\ keep => c \in jobs
  /\ home[c] = session.process /\ Alive(session.process) /\ session.reader # 0 => c \in jobs

\* No step of a shell, and none of a call that reads its lines, brings it back.
LEMMA NotRevived ==
  ASSUME ShellTypes, Fielded, session.process # 0,
         \/ bash' = bash
         \/ \E t \in Commands : Place(t) \in Lookouts /\ bash' = OneLess(t)
         \/ \E p \in 1..Len(bash) : BashStep(p) \/ Dies(p)
  PROVE  bash'[session.process].alive => Alive(session.process)
<1>1. bash \in Seq(Shells) /\ session.process \in 1..Len(bash)
  BY LenProperties DEF ShellTypes
<1>2. ASSUME NEW t \in Commands, Place(t) \in Lookouts, bash' = OneLess(t)
      PROVE  bash'[session.process].alive => bash[session.process].alive
  <2>1. /\ Len(bash') = Len(bash) /\ \A q \in 1..Len(bash) : q # session.process => bash'[q] = bash[q]
        /\ bash'[session.process].stdin = bash[session.process].stdin
        /\ bash'[session.process].alive = bash[session.process].alive
    BY <1>2, ReadShells
  <2> QED
    BY <2>1
<1>3. ASSUME NEW p \in 1..Len(bash), BashStep(p)
      PROVE  bash'[session.process].alive => bash[session.process].alive
  <2>1. \A q \in 1..Len(bash) : q # p => bash'[q] = bash[q]
    BY <1>1, <1>3, SteppedShell
  <2>2. bash[p].alive
    BY <1>3 DEF BashStep, Alive
  <2>3. CASE p = session.process
    BY <2>2, <2>3
  <2>4. CASE p # session.process
    BY <1>1, <2>1, <2>4
  <2> QED
    BY <2>3, <2>4
<1>4. ASSUME NEW p \in 1..Len(bash), Dies(p)
      PROVE  bash'[session.process].alive => bash[session.process].alive
  <2>1. ~bash'[p].alive /\ \A q \in 1..Len(bash) : q # p => bash'[q] = bash[q]
    BY <1>1, <1>4, DeadParts
  <2> QED
    BY <1>1, <2>1
<1> QED
  BY <1>2, <1>3, <1>4 DEF Alive

\* What is noted of an answered call stays so, whatever the others do.
LEMMA AccountedNext ==
  ASSUME ShellTypes, Locking, Fielded, Kept, ShellMove,
         NEW c \in Commands, home[c] # 0, home'[c] = home[c], ~HasRun(bash, c), Accounted(c)
  PROVE  Accounted(c)'
<1> USE DEF SessionRec
<1>1. ASSUME keep' = keep, c \in jobs' <=> c \in jobs, session'.process = session.process,
             home[c] = session.process /\ c \in jobs => c \in session'.pids,
             session'.reader # 0 => session.reader # 0,
             session.process # 0 /\ bash'[session.process].alive => Alive(session.process)
      PROVE  Accounted(c)'
  BY <1>1 DEF Accounted, Alive
<1>2. ASSUME keep' = keep, session'.process = 0, keep => (c \in jobs => c \in jobs') PROVE Accounted(c)'
  BY <1>2 DEF Accounted
<1>3. ASSUME NEW l, session' = Fresh(l) PROVE session'.process = 0
  BY <1>3 DEF Fresh
<1>4. keep => Surviving = jobs
  BY DEF Surviving
<1>5. c \in jobs <=> c \in Spared
  BY DEF Spared, Accounted
<1>6. ASSUME NEW t \in Commands, MovesOn(t) \/ Fails(t) \/ Reports(t) \/ Enters(t) \/ Joins(t) PROVE keep' = keep
  BY <1>6, CallMovesOn, CallComesIn DEF Fails, Reports, Others
<1>7. ASSUME NEW t \in Commands, Closes(t) PROVE Accounted(c)'
  <2>1. /\ session'.process = session.process /\ session'.reader = 0 /\ session'.pids = session.pids
        /\ jobs' = Surviving /\ keep' = keep
    BY <1>6, <1>7 DEF Closes, MovesOn
  <2>2. c \in Surviving => c \in jobs
    BY DEF Surviving
  <2> QED
    BY <1>4, <2>1, <2>2 DEF Accounted
<1>8. ASSUME NEW t \in Commands, Restarts(t) PROVE Accounted(c)'
  BY <1>2, <1>3, <1>6, <1>8 DEF Restarts, MovesOn
<1>9. ASSUME NEW t \in Commands, Spawns(t) PROVE Accounted(c)'
  <2>1. session'.process = Len(bash) + 1 /\ jobs' = jobs /\ keep' = keep
    BY <1>6, <1>9 DEF Spawns, MovesOn
  <2>2. home[c] # Len(bash) + 1
    <3>1. home[c] \in 0..Len(bash) /\ Len(bash) \in Nat
      BY LenProperties DEF ShellTypes
    <3> QED
      BY <3>1
  <2> QED
    BY <2>1, <2>2 DEF Accounted
<1>10. ASSUME NEW t \in Commands, Connects(t) PROVE Accounted(c)'
  <2>1. session'.process = session.process /\ jobs' = jobs /\ keep' = keep
    BY <1>6, <1>10 DEF Connects, MovesOn
  <2>2. home[c] # session.process
    BY <1>10 DEF Connects, Kept
  <2> QED
    BY <2>1, <2>2 DEF Accounted
<1>11. ASSUME NEW t \in Commands, Writes(t) PROVE Accounted(c)'
  <2>1. session' = session /\ jobs' = jobs /\ Alive(session.process) /\ keep' = keep
    BY <1>6, <1>11 DEF Writes, MovesOn
  <2> QED
    BY <1>1, <2>1 DEF Accounted
<1>12. ASSUME NEW t \in Commands, Skips(t) \/ Proceeds(t) PROVE Accounted(c)'
  <2>1. session' = session /\ jobs' \in {jobs, Spared} /\ keep' = keep
    BY <1>6, <1>12 DEF Skips, Proceeds, MovesOn
  <2>2. Place(t) \in Lookouts /\ bash' = OneLess(t)
    BY <1>12 DEF Skips, Proceeds, Lookouts
  <2>3. session.process # 0 /\ bash'[session.process].alive => Alive(session.process)
    BY <2>2, NotRevived
  <2> QED
    BY <1>1, <1>5, <2>1, <2>3 DEF Accounted
<1>13. ASSUME NEW t \in Commands, Kills(t) \/ Fails(t) \/ Joins(t) PROVE Accounted(c)'
  <2>1. session' = session /\ jobs' \in {jobs, Spared} /\ keep' = keep /\ bash' = bash
    BY <1>6, <1>13 DEF Kills, Fails, Joins, MovesOn
  <2> QED
    BY <1>1, <1>5, <2>1 DEF Accounted, Alive
<1>14. ASSUME NEW t \in Commands, Reports(t) PROVE Accounted(c)'
  <2>1. Place(t) \in Lookouts /\ bash' = OneLess(t) /\ jobs' = jobs /\ keep' = keep
    BY <1>6, <1>14 DEF Reports, Lookouts
  <2>2. session.process # 0 /\ bash'[session.process].alive => Alive(session.process)
    BY <2>1, NotRevived
  <2>3. /\ session'.process = session.process /\ session'.reader = session.reader
        /\ session'.pids \in {session.pids, {d \in jobs : home[d] = call[t].pipe}}
    BY <1>14 DEF Reports
  <2>4. call[t].pipe = session.process
    BY <2>1, ReadFrom
  <2> QED
    BY <1>1, <2>1, <2>2, <2>3, <2>4 DEF Accounted
<1>15. ASSUME NEW t \in Commands, Enters(t) PROVE Accounted(c)'
  <2>1. CASE UNCHANGED <<session, bash, jobs>>
    BY <1>1, <1>6, <1>15, <2>1 DEF Accounted, Alive
  <2>2. CASE (\E l \in Nat : session' = Fresh(l + 1)) /\ jobs' \in Leftover
    <3>1. keep => jobs' = jobs
      BY <1>4, <2>2 DEF Leftover
    <3> QED
      BY <1>2, <1>3, <1>6, <1>15, <2>2, <3>1
  <2> QED
    BY <1>15, <2>1, <2>2 DEF Enters
<1>16. ASSUME NEW p \in 1..Len(bash), BashStep(p) PROVE Accounted(c)'
  <2>1. session' = session /\ keep' = keep
    BY <1>16 DEF BashStep
  <2>2. session.process # 0 /\ bash'[session.process].alive => Alive(session.process)
    BY <1>16, NotRevived
  <2>3. c \in jobs' <=> c \in jobs
    <3> DEFINE item == Head(bash[p].stdin)
    <3>1. jobs' = jobs \/ (item.do = "run" /\ jobs' = jobs \cup {item.of})
      BY <1>16 DEF BashStep
    <3>2. bash[p] \in Shells /\ bash[p].stdin # <<>>
      BY <1>16 DEF BashStep, ShellTypes
    <3>3. bash[p].stdin \in Seq(StdinItems)
      BY <3>2 DEF Shells
    <3>4. 1 \in 1..Len(bash[p].stdin) /\ item = bash[p].stdin[1] /\ item \in StdinItems
      BY <3>2, <3>3, EmptySeq, LenProperties, HeadTailProperties
    <3> HIDE DEF item
    <3>5. ~(item.do = "run" /\ item.of = c)
      <4>1. ASSUME item.do = "run", item.of = c PROVE FALSE
        <5>1. item = [of |-> c, do |-> "run"]
          BY <3>4, <4>1 DEF StdinItems
        <5> QED
          BY <3>4, <5>1 DEF HasRun
      <4> QED
        BY <4>1
    <3> QED
      BY <3>1, <3>5
  <2> QED
    BY <1>1, <2>1, <2>2, <2>3 DEF Accounted
<1>17. ASSUME NEW p \in 1..Len(bash), Dies(p) PROVE Accounted(c)'
  <2>1. session' = session /\ jobs' = jobs /\ keep' = keep
    BY <1>17 DEF Dies
  <2>2. session.process # 0 /\ bash'[session.process].alive => Alive(session.process)
    BY <1>17, NotRevived
  <2> QED
    BY <1>1, <2>1, <2>2 DEF Accounted
<1>18. ASSUME NEW S \in SUBSET Commands, Cancels(S) PROVE Accounted(c)'
  <2>1. UNCHANGED <<session, jobs, keep, bash>>
    BY <1>18 DEF Cancels
  <2> QED
    BY <1>1, <2>1 DEF Accounted, Alive
<1>19. ASSUME ClosesUp PROVE Accounted(c)'
  <2>1. keep => jobs' = jobs
    BY <1>4, <1>19 DEF ClosesUp, Leftover
  <2> QED
    BY <1>2, <1>3, <1>19, <2>1 DEF ClosesUp, Others
<1> QED
  BY <1>7, <1>8, <1>9, <1>10, <1>11, <1>12, <1>13, <1>14, <1>15, <1>16, <1>17, <1>18, <1>19 DEF ShellMove, MovesOn

\* The job of a call that reads its report still runs, and what is noted of an
\* answered call stays so, in every step.
LEMMA NotedNext ==
  ASSUME ShellTypes, Locking, Fielded, Kept, Heard, Scripts, Noted, ShellMove
  PROVE  Noted'
<1> SUFFICES ASSUME NEW c \in Commands
             PROVE  /\ Place(c)' = "reading" /\ home'[c] # 0 => c \in jobs'
                    /\ returned'[c] = c /\ home'[c] # 0 => Accounted(c)'
  BY DEF Noted, Accounted
<1>1. /\ Place(c) = "reading" /\ home[c] # 0 => c \in jobs
      /\ returned[c] = c /\ home[c] # 0 => Accounted(c)
  BY DEF Noted, Accounted
<1>2. ScriptsFor(c) /\ c \notin {"none", "start", "raised", "timed_out", "dead", "cancelled"}
  BY ShellAssumption DEF Scripts, ScriptsFor
<1>3. home'[c] # home[c] => c \in jobs' /\ HasRun(bash, c)
  <2>1. ASSUME home'[c] # home[c]
        PROVE  \E p \in 1..Len(bash) : BashStep(p) /\ Head(bash[p].stdin) = [of |-> c, do |-> "run"] /\ c \in jobs'
    BY <2>1, HomeBack
  <2>2. ASSUME NEW p \in 1..Len(bash), BashStep(p), Head(bash[p].stdin) = [of |-> c, do |-> "run"]
        PROVE  HasRun(bash, c)
    <3>1. bash[p] \in Shells /\ bash[p].stdin # <<>>
      BY <2>2 DEF ShellTypes, BashStep
    <3>2. bash[p].stdin \in Seq(StdinItems)
      BY <3>1 DEF Shells
    <3>3. 1 \in 1..Len(bash[p].stdin) /\ Head(bash[p].stdin) = bash[p].stdin[1]
      BY <3>1, <3>2, EmptySeq, LenProperties, HeadTailProperties
    <3> QED
      BY <2>2, <3>3 DEF HasRun
  <2> QED
    BY <2>1, <2>2
<1>4. ASSUME Place(c)' = "reading", home'[c] # 0, home'[c] = home[c] PROVE c \in jobs'
  <2>1. call'[c].place = "reading"
    BY <1>4 DEF Place
  <2>2. ~Writes(c)
    <3>1. Writes(c) => Unwritten(c)
      <4>1. Writes(c) => Place(c) = "sending" /\ call[c].after # "return"
        BY DEF Writes
      <4> QED
        BY <4>1 DEF Unwritten, Heard
    <3> QED
      BY <1>2, <1>4, <3>1 DEF ScriptsFor
  <2>3. Place(c) = "reading"
    <3>1. ASSUME call'[c] = call[c] PROVE Place(c) = "reading"
      BY <2>1, <3>1 DEF Place
    <3>2. CASE \E t \in Commands : t # c /\ (MovesOn(t) \/ Fails(t) \/ Reports(t) \/ Enters(t) \/ Joins(t))
      <4>1. PICK t \in Commands : t # c /\ (MovesOn(t) \/ Fails(t) \/ Reports(t) \/ Enters(t) \/ Joins(t))
        BY <3>2
      <4>2. \E d : CallSet(t, d)
        BY <4>1 DEF MovesOn, Closes, Restarts, Spawns, Connects, Writes, Skips, Proceeds, Kills, Fails, Reports,
                    Enters, Joins, Gets
      <4>3. call'[c] = call[c]
        BY <4>1, <4>2 DEF CallSet
      <4> QED
        BY <3>1, <4>3
    <3>3. CASE MovesOn(c) \/ Fails(c) \/ Reports(c) \/ Enters(c) \/ Joins(c)
      <4>1. Skips(c)
        BY <2>1, <2>2, <3>3, MovedParts DEF MovesOn
      <4> QED
        BY <2>1, <4>1, MovedParts
    <3>4. CASE (\E p \in 1..Len(bash) : BashStep(p) \/ Dies(p)) \/ ClosesUp
      BY <3>1, <3>4 DEF BashStep, Dies, ClosesUp
    <3>5. CASE \E S \in SUBSET Commands : Cancels(S)
      <4>1. call'[c] = call[c] \/ call'[c].place = "done"
        BY <3>5 DEF Cancels, CallRec
      <4> QED
        BY <2>1, <3>1, <4>1
    <3> QED
      BY <3>2, <3>3, <3>4, <3>5 DEF ShellMove
  <2>4. c \in jobs
    BY <1>1, <1>4, <2>3
  <2>5. Place(c) \in Past
    BY <2>3, ShellPlaces
  <2>6. ASSUME NEW t \in Commands, MovesOn(t) \/ Fails(t) \/ Reports(t) \/ Enters(t) PROVE jobs' = jobs
    <3>1. t = c
      BY <2>5, <2>6, OneMoves
    <3>2. Skips(c)
      <4>1. MovesOn(c) \/ Fails(c) \/ Reports(c) \/ Enters(c)
        BY <2>6, <3>1
      <4> QED
        BY <2>1, <2>2, <4>1, MovedParts DEF MovesOn
    <3> QED
      BY <3>2 DEF Skips
  <2>7. ASSUME NEW t \in Commands, Joins(t) PROVE jobs' = jobs
    BY <2>7 DEF Joins
  <2>8. ~ClosesUp
    BY <2>5 DEF ClosesUp, Locking
  <2>9. ASSUME NEW p \in 1..Len(bash), BashStep(p) \/ Dies(p) PROVE jobs \subseteq jobs'
    BY <2>9 DEF BashStep, Dies
  <2>10. ASSUME NEW S \in SUBSET Commands, Cancels(S) PROVE jobs' = jobs
    BY <2>10 DEF Cancels
  <2> QED
    BY <2>4, <2>6, <2>7, <2>8, <2>9, <2>10 DEF ShellMove
<1>5. ASSUME returned'[c] = c, home'[c] # 0 PROVE Accounted(c)'
  <2>1. returned[c] = c \/ call[c].first = c
    BY <1>5, HeardBack
  <2>2. ~HasRun(bash, c) /\ home'[c] = home[c]
    BY <1>2, <1>3, <2>1 DEF ScriptsFor
  <2>3. CASE returned[c] = c
    BY <1>1, <1>5, <2>2, <2>3, AccountedNext
  <2>4. CASE returned[c] # c
    <3>1. Reports(c)
      <4>1. \A t \in Commands : MovesOn(t) \/ Enters(t) \/ Joins(t) => returned' = returned
        BY DEF MovesOn, Closes, Restarts, Spawns, Connects, Writes, Skips, Proceeds, Kills, Enters, Joins
      <4>2. returned \in [Commands -> Commands \cup {"none", "start", "raised", "timed_out", "dead", "cancelled"}]
        BY DEF ShellTypes
      <4>3. \A t \in Commands : Fails(t) => returned'[c] \in {returned[c], "raised", "timed_out"}
        BY <4>2 DEF Fails
      <4>4. \A t \in Commands : Reports(t) /\ t # c => returned'[c] = returned[c]
        BY <4>2 DEF Reports
      <4>5. \A S \in SUBSET Commands : Cancels(S) => returned'[c] \in {returned[c], "cancelled"}
        BY DEF Cancels
      <4>6. (\E p \in 1..Len(bash) : BashStep(p) \/ Dies(p)) \/ ClosesUp => returned' = returned
        BY DEF BashStep, Dies, ClosesUp
      <4> QED
        BY <1>2, <1>5, <2>4, <4>1, <4>3, <4>4, <4>5, <4>6 DEF ShellMove
    <3>2. Place(c) = "reading" /\ call[c].first = c /\ jobs' = jobs /\ c \in jobs
      BY <1>1, <1>5, <2>1, <2>2, <2>4, <3>1 DEF Reports
    <3>3. call[c].pipe = session.process
      BY <3>2, ReadFrom DEF Lookouts
    <3>4. session'.process = session.process /\ session'.pids = {d \in jobs : home[d] = session.process}
      BY <1>2, <3>1, <3>2, <3>3 DEF Reports, SessionRec
    <3> QED
      BY <2>2, <3>2, <3>4 DEF Accounted
  <2> QED
    BY <2>3, <2>4
<1> QED
  BY <1>3, <1>4, <1>5

----------------------------------------------------------------------------
\* What the calls, the session and its shells are like from the first state on.
LEMMA ShellStarts ==
  ASSUME ShellInit
  PROVE  ShellInv
<1>1. /\ session = [started |-> FALSE, loop |-> 0, process |-> 0, reader |-> 0, pids |-> {}, lock |-> 1]
      /\ this_loop = 1 /\ line = <<>> /\ bash = <<>> /\ jobs = {} /\ home = [t \in Commands |-> 0]
      /\ returned = [t \in Commands |-> "none"] /\ keep \in BOOLEAN /\ disturbed = {}
  BY DEF ShellInit, Fresh, None
<1>2. call = [t \in Commands |-> CallRec("idle", 0, "none", 0, "none", "none")]
  BY DEF ShellInit, Idle, CallRec, None
<1>3. \A t \in Commands : /\ Place(t) = "idle" /\ call[t].after = "none" /\ call[t].awaits = "none"
                          /\ call[t].first = "none" /\ returned[t] = "none" /\ home[t] = 0
  BY <1>1, <1>2 DEF Place, CallRec
<1>4. Len(bash) = 0 /\ Len(line) = 0 /\ bash \in Seq(Shells) /\ line \in Seq(Commands)
  BY <1>1, EmptySeq
<1>5. /\ session.process = 0 /\ session.reader = 0 /\ session.loop = 0 /\ ~session.started
  BY <1>1
<1>6. \A t \in Commands : t \notin {"none", "start"}
  BY ShellAssumption
<1>7. ShellTypes
  <2>1. session \in Fields
    BY <1>1 DEF Fields
  <2>2. CallRec("idle", 0, "none", 0, "none", "none") \in CallRecords
    BY RecordTypes DEF Past
  <2>3. call \in [Commands -> CallRecords]
    BY <1>2, <2>2
  <2> QED
    BY <1>1, <1>4, <1>5, <2>1, <2>3 DEF ShellTypes
<1>8. Locking
  <2>1. Members(line) = {}
    BY <1>4 DEF Members
  <2> QED
    BY <1>1, <1>3, <2>1, ShellPlaces DEF Locking, InUse, Suspended, Reading
<1>9. Fielded
  BY <1>3, <1>5 DEF Fielded, Lookouts
<1>10. Kept
  BY <1>3, <1>4, <1>5 DEF Kept
<1>11. Streams /\ Heard
  BY <1>3, <1>5, <1>6 DEF Streams, Heard
<1>12. Scripts
  BY <1>3, <1>4, <1>6 DEF Scripts, Silent, RunFirst, HasRun
<1>13. Noted
  BY <1>3 DEF Noted
<1> QED
  BY <1>7, <1>8, <1>9, <1>10, <1>11, <1>12, <1>13 DEF ShellInv

\* Every step keeps it, when nobody calls while others are on a lock that was
\* replaced.
LEMMA ShellSteps ==
  ASSUME Joined, ShellInv, [ShellNext]_shellVars
  PROVE  ShellInv'
<1>1. CASE ShellNext
  <2>1. ShellMove
    BY <1>1, ShellMoves DEF ShellInv
  <2> QED
    BY <2>1, TypesNext, LockingNext, FieldedNext, KeptNext, StreamsNext, HeardNext, ScriptsNext, NotedNext DEF ShellInv
<1>2. CASE UNCHANGED shellVars
  <2> USE <1>2 DEF shellVars
  <2>1. ShellTypes' /\ Locking' /\ Fielded'
    BY DEF ShellInv, ShellTypes, Locking, Fielded, Place, InUse, Members
  <2>2. Kept' /\ Streams' /\ Heard'
    BY DEF ShellInv, Kept, Streams, Heard, Place
  <2>3. Scripts' /\ Noted'
    BY DEF ShellInv, Scripts, Noted, Unwritten, Place, Alive
  <2> QED
    BY <2>1, <2>2, <2>3 DEF ShellInv
<1> QED
  BY <1>1, <1>2

\* The exit code a call returns is the one bash reported for its command, whatever
\* timed out, died or was replaced before, unless a call was abandoned half way in
\* the same shell (_send_and_wait, _read_control_until, _recover_after_timeout).
THEOREM ShellAnswersBelong == ASSUME Joined PROVE ShellSpec => []AnswerBelongs
<1>1. ShellInv => AnswerBelongs
  BY DEF ShellInv, Heard, AnswerBelongs, Start, None
<1>2. ShellInit => ShellInv
  BY ShellStarts
<1>3. ShellInv /\ [ShellNext]_shellVars => ShellInv'
  BY ShellSteps
<1> QED
  BY <1>1, <1>2, <1>3, PTL DEF ShellSpec

\* Every shell that runs is the session's, and the background jobs of earlier
\* commands are spared when a later one times out, and outlive the shell when
\* they are kept (_kill_child_processes, _background_pids, close).
THEOREM ShellProcessesKept == ASSUME Joined PROVE ShellSpec => []ProcessesKept
<1>1. ShellInv => ProcessesKept
  <2> SUFFICES ASSUME ShellInv PROVE ProcessesKept
    OBVIOUS
  <2>1. \A p \in 1..Len(bash) : bash[p].alive => p = session.process \/ p \in disturbed
    BY DEF ShellInv, Kept
  <2>2. ASSUME NEW c \in Commands, returned[c] = c, home[c] # 0,
               keep \/ (home[c] = session.process /\ Alive(session.process) /\ session.reader # 0)
        PROVE  c \in jobs
    BY <2>2 DEF ShellInv, Noted
  <2> QED
    BY <2>1, <2>2 DEF ProcessesKept
<1>2. ShellInit => ShellInv
  BY ShellStarts
<1>3. ShellInv /\ [ShellNext]_shellVars => ShellInv'
  BY ShellSteps
<1> QED
  BY <1>1, <1>2, <1>3, PTL DEF ShellSpec

\* "Concurrent run() / run_stream() calls from the same event loop will queue
\* and execute one at a time": past the lock there is one call.
THEOREM ShellCommandsOneByOne == ASSUME Joined PROVE ShellSpec => []OneCommand
<1>1. ShellInv => OneCommand
  <2> SUFFICES ASSUME ShellInv, NEW t \in Commands, NEW u \in Commands, Place(t) \in Past, Place(u) \in Past
               PROVE  t = u
    BY DEF OneCommand, Past
  <2> QED
    BY DEF ShellInv, Locking
<1>2. ShellInit => ShellInv
  BY ShellStarts
<1>3. ShellInv /\ [ShellNext]_shellVars => ShellInv'
  BY ShellSteps
<1> QED
  BY <1>1, <1>2, <1>3, PTL DEF ShellSpec
=============================================================================
