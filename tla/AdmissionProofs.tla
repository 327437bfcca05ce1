-------------------------- MODULE AdmissionProofs --------------------------
(***************************************************************************)
(* Proofs about the process-local admission group, for any number of       *)
(* tasks, loops and slots and any pacing and cooldown.                     *)
(***************************************************************************)
EXTENDS Admission, QueueTheorems, FiniteSetTheorems

WaiterStates == {"none", "queued", "granted", "acquired", "cancelled"}

\* The queue q with its counter holds the tasks that ws says are queued, each
\* one once.
LineOK(q, cnt, ws) ==
  /\ q \in Seq(Tasks) /\ cnt = Len(q)
  /\ \A i, j \in 1..Len(q) : q[i] = q[j] => i = j
  /\ \A u \in Tasks : u \in Members(q) <=> ws[u] = "queued"

\* Where a task can be: it runs only on an open loop, it has a waiter in the
\* queue or with a grant exactly while it is acquiring, unless its loop was
\* closed in its wait.
Standing(t) ==
  /\ wstate[t] \in {"queued", "granted"} => pc[t] \in {"pumping", "waiting"}
  /\ pc[t] = "pumping" => Open(t) /\ wstate[t] \in {"queued", "granted"}
  /\ pc[t] = "waiting" /\ Open(t) => wstate[t] \in {"queued", "granted"}
  /\ wstate[t] = "granted" => Open(t)

Books ==
  /\ TypeOK
  /\ active = Cardinality(Admitted) /\ active <= MaxInFlight
  /\ LineOK(waiters, queued, wstate)
  /\ \A t \in Tasks : Standing(t)

----------------------------------------------------------------------------
(***************************************************************************)
(* The queue when its first n waiters are taken.                           *)
(***************************************************************************)

\* What is left of a queue when its first n waiters are taken.
LEMMA DropShape ==
  ASSUME NEW S, NEW q \in Seq(S), NEW n \in 0..Len(q)
  PROVE  /\ Drop(q, n) \in Seq(S) /\ Len(Drop(q, n)) = Len(q) - n
         /\ \A i \in 1..(Len(q) - n) : Drop(q, n)[i] = q[n + i]
<1> DEFINE r == Drop(q, n)
<1>1. Len(q) \in Nat /\ n \in Nat
  BY LenProperties
<1>2. \A i \in (n + 1)..Len(q) : q[i] \in S
  BY <1>1, ElementOfSeq
<1>3. /\ SubSeq(q, n + 1, Len(q)) \in Seq(S)
      /\ Len(SubSeq(q, n + 1, Len(q))) = IF n + 1 <= Len(q) THEN Len(q) - (n + 1) + 1 ELSE 0
      /\ \A i \in 1..(Len(q) - (n + 1) + 1) : SubSeq(q, n + 1, Len(q))[i] = q[n + 1 + i - 1]
  BY <1>1, <1>2, SubSeqProperties
<1>4. /\ r \in Seq(S)
      /\ Len(r) = IF n + 1 <= Len(q) THEN Len(q) - (n + 1) + 1 ELSE 0
      /\ \A i \in 1..(Len(q) - (n + 1) + 1) : r[i] = q[n + 1 + i - 1]
  BY <1>3 DEF Drop
<1> HIDE DEF r
<1>5. Len(r) = Len(q) - n /\ \A i \in 1..(Len(q) - n) : r[i] = q[n + i]
  BY <1>1, <1>4
<1> QED
  BY <1>4, <1>5 DEF r

\* The waiters that are left are the others, in the order they stood in.
LEMMA DropMembers ==
  ASSUME NEW S, NEW q \in Seq(S), \A i, j \in 1..Len(q) : q[i] = q[j] => i = j,
         NEW n \in 0..Len(q)
  PROVE  /\ Members(Drop(q, n)) = Members(q) \ Prefix(q, n)
         /\ \A i, j \in 1..Len(Drop(q, n)) : Drop(q, n)[i] = Drop(q, n)[j] => i = j
         /\ Prefix(q, n) \subseteq Members(q)
<1> DEFINE r == Drop(q, n)
<1>1. Len(q) \in Nat /\ n \in Nat
  BY LenProperties
<1>2. r \in Seq(S) /\ Len(r) = Len(q) - n /\ \A i \in 1..(Len(q) - n) : r[i] = q[n + i]
  BY DropShape
<1> HIDE DEF r
<1>3. \A i \in 1..Len(r) : n + i \in 1..Len(q) /\ n + i \notin 1..n /\ r[i] = q[n + i]
  BY <1>1, <1>2
<1>4. \A i, j \in 1..Len(r) : r[i] = r[j] => i = j
  <2> SUFFICES ASSUME NEW i \in 1..Len(r), NEW j \in 1..Len(r), r[i] = r[j] PROVE i = j
    OBVIOUS
  <2>1. n + i = n + j
    BY <1>3
  <2> QED
    BY <2>1, <1>1, <1>2
<1>5. \A i \in 1..n : i \in 1..Len(q)
  BY <1>1
<1>6. Prefix(q, n) \subseteq Members(q)
  BY <1>5 DEF Prefix, Members
<1>7. Members(r) \subseteq Members(q) \ Prefix(q, n)
  <2> SUFFICES ASSUME NEW i \in 1..Len(r) PROVE r[i] \in Members(q) /\ r[i] \notin Prefix(q, n)
    BY DEF Members
  <2>1. r[i] \in Members(q)
    BY <1>3 DEF Members
  <2>2. ASSUME NEW j \in 1..n PROVE q[j] # r[i]
    BY <1>3, <1>5
  <2> QED
    BY <2>1, <2>2 DEF Prefix
<1>8. Members(q) \ Prefix(q, n) \subseteq Members(r)
  <2> SUFFICES ASSUME NEW i \in 1..Len(q), q[i] \notin Prefix(q, n) PROVE q[i] \in Members(r)
    BY DEF Members
  <2>1. i \notin 1..n
    BY DEF Prefix
  <2>2. i - n \in 1..Len(r) /\ n + (i - n) = i
    BY <1>1, <1>2, <2>1
  <2>3. r[i - n] = q[i]
    BY <1>3, <2>2
  <2> QED
    BY <2>2, <2>3 DEF Members
<1> QED
  BY <1>4, <1>6, <1>7, <1>8 DEF r

\* The head of what is left.
LEMMA DropHead ==
  ASSUME NEW S, NEW q \in Seq(S), NEW n \in 0..Len(q)
  PROVE  /\ Drop(q, n) # <<>> <=> n < Len(q)
         /\ n < Len(q) => Head(Drop(q, n)) = q[n + 1] /\ q[n + 1] \in S
<1> DEFINE r == Drop(q, n)
<1>1. Len(q) \in Nat /\ n \in Nat
  BY LenProperties
<1>2. r \in Seq(S) /\ Len(r) = Len(q) - n /\ \A i \in 1..(Len(q) - n) : r[i] = q[n + i]
  BY DropShape
<1> HIDE DEF r
<1>3. r # <<>> <=> n < Len(q)
  <2>1. r = <<>> <=> Len(r) = 0
    BY <1>2, EmptySeq
  <2> QED
    BY <1>1, <1>2, <2>1
<1>4. ASSUME n < Len(q) PROVE Head(r) = q[n + 1] /\ q[n + 1] \in S
  <2>1. 1 \in 1..(Len(q) - n) /\ n + 1 \in 1..Len(q)
    BY <1>1, <1>4
  <2>2. Head(r) = r[1]
    BY <1>2, <1>3, <1>4, HeadTailProperties
  <2> QED
    BY <1>2, <2>1, <2>2, ElementOfSeq
<1> QED
  BY <1>3, <1>4 DEF r

\* The line stays in order when its first n waiters get another state.
LEMMA LineServed ==
  ASSUME NEW q, NEW cnt, NEW ws, LineOK(q, cnt, ws), NEW n \in 0..Len(q), NEW w2,
         \A u \in Tasks : w2[u] = "queued" <=> ws[u] = "queued" /\ u \notin Prefix(q, n)
  PROVE  LineOK(Drop(q, n), cnt - n, w2)
<1>1. /\ q \in Seq(Tasks) /\ cnt = Len(q)
      /\ \A i, j \in 1..Len(q) : q[i] = q[j] => i = j
      /\ \A u \in Tasks : u \in Members(q) <=> ws[u] = "queued"
  BY DEF LineOK
<1>2. Drop(q, n) \in Seq(Tasks) /\ Len(Drop(q, n)) = Len(q) - n
  BY <1>1, DropShape
<1>3. /\ Members(Drop(q, n)) = Members(q) \ Prefix(q, n)
      /\ \A i, j \in 1..Len(Drop(q, n)) : Drop(q, n)[i] = Drop(q, n)[j] => i = j
  BY <1>1, DropMembers
<1>4. \A u \in Tasks : u \in Members(Drop(q, n)) <=> w2[u] = "queued"
  BY <1>1, <1>3
<1> QED
  BY <1>1, <1>2, <1>3, <1>4 DEF LineOK

----------------------------------------------------------------------------
(***************************************************************************)
(* What the sections under the lock do to the line.                        *)
(***************************************************************************)

\* _wake_head_locked drops waiters of closed loops only, and the head that is
\* left is going to be woken.
LEMMA WakeDone ==
  ASSUME Books, NEW q, NEW cnt, NEW ws \in [Tasks -> WaiterStates], LineOK(q, cnt, ws),
         WakeHead(q, cnt, ws)
  PROVE  /\ \E n \in 0..Len(q) : waiters' = Drop(q, n)
         /\ LineOK(waiters', queued', wstate')
         /\ wstate' \in [Tasks -> WaiterStates] /\ sets' \in [Tasks -> Nat]
         /\ \A u \in Tasks : \/ wstate'[u] = ws[u]
                             \/ ws[u] = "queued" /\ wstate'[u] = "cancelled" /\ ~Open(u)
         /\ waiters' # <<>> => sets'[Head(waiters')] > 0
<1>1. /\ q \in Seq(Tasks) /\ \A i, j \in 1..Len(q) : q[i] = q[j] => i = j
      /\ \A u \in Tasks : u \in Members(q) <=> ws[u] = "queued"
  BY DEF LineOK
<1>2. sets \in [Tasks -> Nat]
  BY DEF Books, TypeOK
<1>3. PICK n \in 0..Len(q) :
        /\ HeadAfter(q, n)
        /\ waiters' = Drop(q, n)
        /\ queued' = cnt - n
        /\ wstate' = [u \in Tasks |-> IF u \in Prefix(q, n) THEN "cancelled" ELSE ws[u]]
        /\ sets' = [u \in Tasks |-> sets[u] + IF n < Len(q) /\ u = q[n + 1] THEN 1 ELSE 0]
  BY DEF WakeHead
<1>4. \A u \in Prefix(q, n) : ~Open(u)
  BY <1>3 DEF HeadAfter, Prefix
<1>5. Prefix(q, n) \subseteq Members(q)
  BY <1>1, DropMembers
<1>6. wstate' \in [Tasks -> WaiterStates] /\ sets' \in [Tasks -> Nat]
  BY <1>2, <1>3 DEF WaiterStates
<1>7. \A u \in Tasks : \/ wstate'[u] = ws[u]
                       \/ ws[u] = "queued" /\ wstate'[u] = "cancelled" /\ ~Open(u)
  BY <1>1, <1>3, <1>4, <1>5
<1>8. \A u \in Tasks : wstate'[u] = "queued" <=> ws[u] = "queued" /\ u \notin Prefix(q, n)
  BY <1>3
<1>9. LineOK(Drop(q, n), cnt - n, wstate')
  BY <1>8, LineServed
<1>10. waiters' # <<>> => sets'[Head(waiters')] > 0
  BY <1>1, <1>2, <1>3, DropHead
<1> QED
  BY <1>3, <1>6, <1>7, <1>9, <1>10

\* What _pump_locked does to a line with act slots taken when it takes the
\* first n waiters: it gives a slot to waiters of open loops only, to no more
\* than there are slots and, paced, to one; it drops waiters of closed loops
\* only; and while a slot is left, the head that is left is going to be woken.
Pumped(n, act, ws, claim) ==
  /\ waiters' = Drop(waiters, n)
  /\ LineOK(waiters', queued', wstate')
  /\ wstate' \in [Tasks -> WaiterStates] /\ sets' \in [Tasks -> Nat]
  /\ Granted(n) \subseteq Prefix(waiters, n) /\ Prefix(waiters, n) \subseteq Tasks
  /\ \A u \in Prefix(waiters, n) : wstate[u] = "queued" /\ (u \in Granted(n) <=> Open(u))
  /\ \A u \in Tasks : wstate'[u] = IF u \in Granted(n)
                                   THEN IF u \in claim THEN "acquired" ELSE "granted"
                                   ELSE IF u \in Prefix(waiters, n) THEN "cancelled" ELSE ws[u]
  /\ IsFiniteSet(Granted(n)) /\ Cardinality(Granted(n)) \in Nat
  /\ active' = act + Cardinality(Granted(n)) /\ act + Cardinality(Granted(n)) <= MaxInFlight
  /\ Interval > 0 => Cardinality(Granted(n)) <= 1
  /\ deliveries' = deliveries \cup Granted(n)
  /\ next_admission' = IF Granted(n) # {} THEN Interval ELSE next_admission
  /\ since_admission' = IF Granted(n) # {} THEN 0 ELSE since_admission
  /\ waiters' # <<>> /\ act + Cardinality(Granted(n)) < MaxInFlight => sets'[Head(waiters')] > 0

\* Every pump that is not blocked does that.
LEMMA PumpDone ==
  ASSUME Books, NEW act \in Nat, NEW ws \in [Tasks -> WaiterStates], NEW claim,
         \A u \in Tasks : ws[u] = "queued" <=> wstate[u] = "queued",
         ~PumpBlocked(act), PumpGrants(act, ws, claim, TRUE) \/ PumpGrants(act, ws, claim, FALSE)
  PROVE  \E n \in 0..Len(waiters) : Pumped(n, act, ws, claim)
<1>1. /\ LineOK(waiters, queued, wstate) /\ sets \in [Tasks -> Nat]
      /\ waiters \in Seq(Tasks) /\ \A i, j \in 1..Len(waiters) : waiters[i] = waiters[j] => i = j
      /\ \A u \in Tasks : u \in Members(waiters) <=> wstate[u] = "queued"
      /\ Len(waiters) \in Nat
  BY LenProperties DEF Books, LineOK, TypeOK
<1>2. MaxInFlight \in Nat /\ Interval \in Nat /\ IsFiniteSet(Tasks)
  BY AdmissionAssumption
<1>3. PICK n \in 0..Len(waiters) :
    /\ PumpTakes(act, n)
    /\ waiters' = Drop(waiters, n)
    /\ queued' = queued - n
    /\ wstate' = [u \in Tasks |->
         CASE u \in Granted(n) \cap claim    -> "acquired"
           [] u \in Granted(n) \ claim       -> "granted"
           [] u \in Prefix(waiters, n) \ Granted(n) -> "cancelled"
           [] OTHER                          -> ws[u]]
    /\ \/ sets' = [u \in Tasks |->
              sets[u] + (IF u \in WokenByPump(n) THEN 1 ELSE 0)
                      + (IF TRUE /\ n < Len(waiters) /\ u = waiters[n + 1] THEN 1 ELSE 0)]
       \/ sets' = [u \in Tasks |->
              sets[u] + (IF u \in WokenByPump(n) THEN 1 ELSE 0)
                      + (IF FALSE /\ n < Len(waiters) /\ u = waiters[n + 1] THEN 1 ELSE 0)]
    /\ active' = act + Cardinality(Granted(n))
    /\ deliveries' = deliveries \cup Granted(n)
    /\ next_admission' = IF Granted(n) # {} THEN Interval ELSE next_admission
    /\ since_admission' = IF Granted(n) # {} THEN 0 ELSE since_admission
  BY DEF PumpGrants
<1> DEFINE G == Granted(n)
           P == Prefix(waiters, n)
<1>4. G \subseteq P /\ P \subseteq Members(waiters) /\ \A u \in P : u \in G <=> Open(u)
  BY <1>1, DropMembers DEF Granted
<1>5. P \subseteq Tasks /\ \A u \in P : wstate[u] = "queued"
  BY <1>1, <1>4, ElementOfSeq DEF Members
<1>6. IsFiniteSet(G) /\ Cardinality(G) \in Nat
  BY <1>2, <1>4, <1>5, FS_Subset, FS_CardinalityType
<1> HIDE DEF G, P
<1>7. \A u \in Tasks : wstate'[u] = IF u \in G THEN IF u \in claim THEN "acquired" ELSE "granted"
                                    ELSE IF u \in P THEN "cancelled" ELSE ws[u]
  BY <1>3, <1>4 DEF G, P
<1>8. wstate' \in [Tasks -> WaiterStates]
  <2>1. wstate' = [u \in Tasks |-> wstate'[u]]
    BY <1>3
  <2>2. \A u \in Tasks : wstate'[u] \in WaiterStates
    BY <1>7 DEF WaiterStates
  <2> QED
    BY <2>1, <2>2
<1> DEFINE Plain == sets' = [u \in Tasks |-> sets[u] + (IF u \in WokenByPump(n) THEN 1 ELSE 0)]
           Again == sets' = [u \in Tasks |-> sets[u] + (IF u \in WokenByPump(n) THEN 1 ELSE 0)
                                + (IF n < Len(waiters) /\ u = waiters[n + 1] THEN 1 ELSE 0)]
<1>8a. Plain \/ Again
  <2>1. \A u \in Tasks : sets[u] \in Nat /\ sets[u] + (IF u \in WokenByPump(n) THEN 1 ELSE 0) + 0
                                           = sets[u] + (IF u \in WokenByPump(n) THEN 1 ELSE 0)
    BY <1>1
  <2> QED
    BY <1>3, <2>1
<1>9. sets' \in [Tasks -> Nat]
  <2>1. CASE Plain
    BY <1>1, <2>1
  <2>2. CASE Again
    BY <1>1, <2>2
  <2> QED
    BY <1>8a, <2>1, <2>2
<1>10. LineOK(Drop(waiters, n), queued - n, wstate')
  <2>1. \A u \in Tasks : wstate'[u] = "queued" <=> wstate[u] = "queued" /\ u \notin Prefix(waiters, n)
    BY <1>4, <1>7 DEF P
  <2> QED
    BY <1>1, <2>1, LineServed
<1>11. act < MaxInFlight
  BY <1>2 DEF PumpBlocked
<1>12. /\ act + Cardinality(G) <= MaxInFlight
       /\ Interval > 0 => Cardinality(G) <= 1
  BY <1>2, <1>3, <1>6, <1>11 DEF PumpTakes, PumpLimit, G
<1>13. ASSUME waiters' # <<>>, act + Cardinality(G) < MaxInFlight
       PROVE  sets'[Head(waiters')] > 0
  <2>1. n < Len(waiters) /\ Head(waiters') = waiters[n + 1] /\ waiters[n + 1] \in Tasks
    BY <1>1, <1>3, <1>13, DropHead
  <2>2. Open(waiters[n + 1]) /\ Cardinality(G) = PumpLimit(act)
    BY <1>3, <2>1 DEF PumpTakes, G
  <2>3. Cardinality(G) = 1
    BY <1>2, <1>6, <1>11, <1>13, <2>2 DEF PumpLimit
  <2>4. PICK g \in G : TRUE
    BY <1>6, <2>3, FS_EmptySet
  <2>5. PICK h \in 1..n : waiters[h] = g /\ Open(waiters[h])
    BY <1>4, <2>4 DEF P, Prefix
  <2>6. n + 1 \in 1..Least(n + 1, Len(waiters)) /\ h \in 1..(n + 1 - 1)
    BY <1>1, <2>1, <2>5 DEF Least
  <2>7. waiters[n + 1] \in WokenByPump(n)
    BY <2>2, <2>5, <2>6 DEF WokenByPump
  <2>8. \/ sets'[waiters[n + 1]] = sets[waiters[n + 1]] + 1
        \/ sets'[waiters[n + 1]] = sets[waiters[n + 1]] + 1 + 1
    <3>1. CASE Plain
      BY <2>1, <2>7, <3>1
    <3>2. CASE Again
      BY <2>1, <2>7, <3>2
    <3> QED
      BY <1>8a, <3>1, <3>2
  <2> QED
    BY <1>1, <2>1, <2>8
<1> QED
  BY <1>3, <1>4, <1>5, <1>6, <1>7, <1>8, <1>9, <1>10, <1>12, <1>13 DEF G, P, Pumped

----------------------------------------------------------------------------
(***************************************************************************)
(* Arrivals and departures.                                                *)
(***************************************************************************)

\* The types of a line and of its counter.
LEMMA LineTypes ==
  ASSUME NEW q, NEW cnt, NEW ws, LineOK(q, cnt, ws)
  PROVE  q \in Seq(Tasks) /\ cnt \in Int
BY LenProperties DEF LineOK

\* States of others do not concern the line.
LEMMA LineSame ==
  ASSUME NEW q, NEW cnt, NEW ws, LineOK(q, cnt, ws), NEW w2,
         \A u \in Tasks : w2[u] = "queued" <=> ws[u] = "queued"
  PROVE  LineOK(q, cnt, w2)
BY DEF LineOK

\* A task that is not queued joins the line at its end.
LEMMA LineJoined ==
  ASSUME NEW q, NEW cnt, NEW ws, LineOK(q, cnt, ws), NEW t \in Tasks, ws[t] # "queued", NEW w2,
         \A u \in Tasks : w2[u] = IF u = t THEN "queued" ELSE ws[u]
  PROVE  LineOK(Append(q, t), cnt + 1, w2)
<1> DEFINE r == Append(q, t)
<1>1. /\ q \in Seq(Tasks) /\ cnt = Len(q) /\ Len(q) \in Nat
      /\ \A i, j \in 1..Len(q) : q[i] = q[j] => i = j
      /\ \A u \in Tasks : u \in Members(q) <=> ws[u] = "queued"
  BY LenProperties DEF LineOK
<1>2. /\ r \in Seq(Tasks) /\ Len(r) = Len(q) + 1
      /\ \A i \in 1..Len(q) : r[i] = q[i]
      /\ r[Len(q) + 1] = t
  BY <1>1, AppendProperties
<1> HIDE DEF r
<1>3. \A i \in 1..Len(r) : i \in 1..Len(q) \/ i = Len(q) + 1
  BY <1>1, <1>2
<1>4. 1..Len(q) \subseteq 1..Len(r) /\ Len(q) + 1 \in 1..Len(r)
  BY <1>1, <1>2
<1>5. Members(r) = Members(q) \cup {t}
  <2>1. Members(r) \subseteq Members(q) \cup {t}
    BY <1>2, <1>3 DEF Members
  <2>2. Members(q) \cup {t} \subseteq Members(r)
    BY <1>2, <1>4 DEF Members
  <2> QED
    BY <2>1, <2>2
<1>6. \A i \in 1..Len(q) : q[i] # t
  BY <1>1 DEF Members
<1>7. \A i, j \in 1..Len(r) : r[i] = r[j] => i = j
  BY <1>1, <1>2, <1>3, <1>6
<1>8. \A u \in Tasks : u \in Members(r) <=> w2[u] = "queued"
  BY <1>1, <1>5
<1> QED
  BY <1>1, <1>2, <1>7, <1>8 DEF LineOK, r

\* A queued waiter leaves the line from wherever it stands.
LEMMA LineLeft ==
  ASSUME NEW q, NEW cnt, NEW ws, LineOK(q, cnt, ws), NEW t \in Tasks, ws[t] = "queued", NEW w2,
         \A u \in Tasks : w2[u] = IF u = t THEN "cancelled" ELSE ws[u]
  PROVE  LineOK(Without(q, t), cnt - 1, w2)
<1> DEFINE r == Without(q, t)
<1>1. /\ q \in Seq(Tasks) /\ cnt = Len(q) /\ Len(q) \in Nat
      /\ \A i, j \in 1..Len(q) : q[i] = q[j] => i = j
      /\ \A u \in Tasks : u \in Members(q) <=> ws[u] = "queued"
      /\ t \in Members(q)
  BY LenProperties DEF LineOK
<1>2. r \in Seq(Tasks)
  BY <1>1, WithoutType
<1>3. Members(r) = Members(q) \ {t} /\ \A i, j \in 1..Len(r) : r[i] = r[j] => i = j
  BY <1>1, WithoutMembers
<1>4. Len(r) = Len(q) - 1
  BY <1>1, WithoutShape
<1> HIDE DEF r
<1>5. \A u \in Tasks : u \in Members(r) <=> w2[u] = "queued"
  BY <1>1, <1>3
<1> QED
  BY <1>1, <1>2, <1>3, <1>4, <1>5 DEF LineOK, r

----------------------------------------------------------------------------
(***************************************************************************)
(* The books are kept.                                                     *)
(***************************************************************************)

\* What the steps start from.
LEMMA BooksOpened ==
  ASSUME Books
  PROVE  /\ LineOK(waiters, queued, wstate)
         /\ waiters \in Seq(Tasks) /\ active \in Nat /\ active <= MaxInFlight
         /\ active = Cardinality(Admitted) /\ IsFiniteSet(Admitted) /\ Admitted \subseteq Tasks
         /\ next_admission \in Nat /\ cooldown_until \in Nat
         /\ wstate \in [Tasks -> WaiterStates]
         /\ wakeup \in [Tasks -> BOOLEAN]
         /\ sets \in [Tasks -> Nat] /\ deliveries \subseteq Tasks
         /\ closed_loops \subseteq Loops
         /\ pc \in [Tasks -> {"idle", "pumping", "waiting", "calling", "cooled", "returning"}]
         /\ timer \in [Tasks -> Nat \cup {NoTimer}]
         /\ acquires \in Nat /\ since_admission \in 0..Interval
         /\ \A t \in Tasks : Standing(t)
         /\ \A t \in Tasks : t \in Admitted <=> pc[t] \in {"calling", "cooled", "returning"} \/ wstate[t] = "granted"
<1>1. IsFiniteSet(Tasks) /\ Admitted \in SUBSET Tasks
  BY AdmissionAssumption DEF Admitted
<1>2. IsFiniteSet(Admitted) /\ Cardinality(Admitted) \in Nat
  BY <1>1, FS_Subset, FS_CardinalityType
<1>3. active = Cardinality(Admitted)
  BY DEF Books
<1>4. active \in Nat
  BY <1>2, <1>3
<1>5. \A t \in Tasks : t \in Admitted <=> pc[t] \in {"calling", "cooled", "returning"} \/ wstate[t] = "granted"
  BY DEF Admitted, HoldsSlot, HasPermit
<1> QED
  BY <1>1, <1>2, <1>3, <1>4, <1>5 DEF Books, TypeOK, WaiterStates

\* What they have to end with.
LEMMA BooksClosed ==
  ASSUME LineOK(waiters', queued', wstate'),
         active' \in Int, active' = Cardinality(Admitted'), active' <= MaxInFlight,
         next_admission' \in Nat, cooldown_until' \in Nat,
         wstate' \in [Tasks -> WaiterStates],
         wakeup' \in [Tasks -> BOOLEAN],
         sets' \in [Tasks -> Nat], deliveries' \subseteq Tasks,
         closed_loops' \subseteq Loops,
         pc' \in [Tasks -> {"idle", "pumping", "waiting", "calling", "cooled", "returning"}],
         timer' \in [Tasks -> Nat \cup {NoTimer}],
         acquires' \in Nat, since_admission' \in 0..Interval,
         \A t \in Tasks : Standing(t)'
  PROVE  Books'
<1>1. waiters' \in Seq(Tasks) /\ queued' \in Int
  BY LineTypes
<1> QED
  BY <1>1 DEF Books, TypeOK, WaiterStates

\* Who holds a slot next.
LEMMA AdmittedNext ==
  /\ Admitted' \subseteq Tasks
  /\ \A t \in Tasks : t \in Admitted' <=> pc'[t] \in {"calling", "cooled", "returning"} \/ wstate'[t] = "granted"
BY DEF Admitted, HoldsSlot, HasPermit

\* Tasks that get a slot did not have one.
LEMMA SlotsAdded ==
  ASSUME Books, NEW G, IsFiniteSet(G), G \cap Admitted = {}
  PROVE  Cardinality(Admitted \cup G) = active + Cardinality(G)
<1>1. IsFiniteSet(Admitted) /\ active = Cardinality(Admitted) /\ active \in Nat
  BY BooksOpened
<1>2. Cardinality({}) = 0 /\ Cardinality(G) \in Nat
  BY FS_EmptySet, FS_CardinalityType
<1> QED
  BY <1>1, <1>2, FS_Union

\* An immediate admission: one more slot is held, by a task that held none.
LEMMA AcquireNowKeeps ==
  ASSUME Books, NEW t \in Tasks, AcquireNow(t)
  PROVE  Books' /\ Admitted' = Admitted \cup {t} /\ t \notin Admitted
<1>0. MaxInFlight \in Nat /\ Interval \in Nat
  BY AdmissionAssumption
<1>1. /\ pc[t] = "idle" /\ active < MaxInFlight
      /\ active' = active + 1 /\ next_admission' = Interval /\ since_admission' = 0
      /\ pc' = [pc EXCEPT ![t] = "calling"] /\ wstate' = [wstate EXCEPT ![t] = "none"]
      /\ acquires' = acquires + 1
      /\ UNCHANGED <<queued, waiters, cooldown_until, wakeup, sets, deliveries, closed_loops, timer>>
  BY DEF AcquireNow, MayEnter, cbs
<1>2. Standing(t) /\ wstate[t] \notin {"queued", "granted"}
  BY <1>1, BooksOpened DEF Standing
<1>3. \A u \in Tasks : /\ wstate'[u] = IF u = t THEN "none" ELSE wstate[u]
                       /\ pc'[u] = IF u = t THEN "calling" ELSE pc[u]
  BY <1>1, BooksOpened
<1>4. t \notin Admitted /\ Admitted' = Admitted \cup {t}
  <2>1. t \notin Admitted /\ \A u \in Tasks : u \in Admitted' <=> u \in Admitted \/ u = t
    BY <1>1, <1>2, <1>3, BooksOpened, AdmittedNext
  <2> QED
    BY <2>1, BooksOpened, AdmittedNext
<1>5. LineOK(waiters', queued', wstate')
  BY <1>1, <1>2, <1>3, BooksOpened, LineSame
<1>6. \A u \in Tasks : Standing(u)'
  BY <1>1, <1>2, <1>3, BooksOpened DEF Standing, Open
<1>7. Cardinality(Admitted \cup {t}) = active + 1
  BY <1>4, BooksOpened, FS_AddElement
<1>8. active + 1 \in Int /\ active + 1 <= MaxInFlight
  BY <1>0, <1>1, BooksOpened
<1>9. /\ wstate' \in [Tasks -> WaiterStates] /\ acquires' \in Nat /\ next_admission' \in Nat
      /\ pc' \in [Tasks -> {"idle", "pumping", "waiting", "calling", "cooled", "returning"}]
      /\ since_admission' \in 0..Interval
  BY <1>0, <1>1, BooksOpened DEF WaiterStates
<1>10. Books'
  BY <1>1, <1>4, <1>5, <1>6, <1>7, <1>8, <1>9, BooksOpened, BooksClosed
<1> QED
  BY <1>4, <1>10

\* A task joins the line; it neither waited nor held a slot.
LEMMA AcquireQueuesKeeps ==
  ASSUME Books, NEW t \in Tasks, AcquireQueues(t)
  PROVE  Books' /\ Admitted' = Admitted /\ t \notin Admitted /\ wstate[t] # "queued"
<1>1. /\ pc[t] = "idle" /\ Open(t)
      /\ waiters' = Append(waiters, t) /\ queued' = queued + 1
      /\ wstate' = [wstate EXCEPT ![t] = "queued"] /\ wakeup' = [wakeup EXCEPT ![t] = FALSE]
      /\ sets' = [sets EXCEPT ![t] = 0] /\ deliveries' = deliveries \ {t}
      /\ pc' = [pc EXCEPT ![t] = "pumping"] /\ acquires' = acquires + 1
      /\ UNCHANGED <<active, next_admission, cooldown_until, closed_loops, timer, since_admission>>
  BY DEF AcquireQueues, gate
<1>2. Standing(t) /\ wstate[t] \notin {"queued", "granted"}
  BY <1>1, BooksOpened DEF Standing
<1>3. \A u \in Tasks : /\ wstate'[u] = IF u = t THEN "queued" ELSE wstate[u]
                       /\ pc'[u] = IF u = t THEN "pumping" ELSE pc[u]
  BY <1>1, BooksOpened
<1>4. t \notin Admitted /\ Admitted' = Admitted
  <2>1. t \notin Admitted /\ \A u \in Tasks : u \in Admitted' <=> u \in Admitted
    BY <1>1, <1>2, <1>3, BooksOpened, AdmittedNext
  <2> QED
    BY <2>1, BooksOpened, AdmittedNext
<1>5. LineOK(waiters', queued', wstate')
  BY <1>1, <1>2, <1>3, BooksOpened, LineJoined
<1>6. \A u \in Tasks : Standing(u)'
  BY <1>1, <1>2, <1>3, BooksOpened DEF Standing, Open
<1>7. /\ wstate' \in [Tasks -> WaiterStates] /\ acquires' \in Nat
      /\ pc' \in [Tasks -> {"idle", "pumping", "waiting", "calling", "cooled", "returning"}]
      /\ sets' \in [Tasks -> Nat] /\ deliveries' \subseteq Tasks
  BY <1>1, BooksOpened DEF WaiterStates
<1>8. wakeup' \in [Tasks -> BOOLEAN]
  BY <1>1, BooksOpened
<1>9. Books'
  BY <1>1, <1>4, <1>5, <1>6, <1>7, <1>8, BooksOpened, BooksClosed
<1> QED
  BY <1>2, <1>4, <1>9

\* A round of _wait_for_grant: the task takes its grant or waits, and the pump
\* serves the front of the line.
LEMMA WaitRoundKeeps ==
  ASSUME Books, NEW t \in Tasks, WaitRound(t)
  PROVE  /\ Books'
         /\ \A u \in Tasks : wstate'[u] = "granted" => wstate[u] = "granted" \/ u \in deliveries'
         /\ deliveries \subseteq deliveries'
         /\ \/ /\ PumpBlocked(active) /\ Admitted' = Admitted
               /\ UNCHANGED <<waiters, active, next_admission, since_admission, sets, deliveries>>
            \/ /\ ~PumpBlocked(active)
               /\ \E n \in 0..Len(waiters) :
                    /\ waiters' = Drop(waiters, n) /\ Admitted' = Admitted \cup Granted(n)
                    /\ Granted(n) \subseteq Prefix(waiters, n) /\ Granted(n) \cap Admitted = {}
                    /\ IsFiniteSet(Granted(n))
                    /\ Interval > 0 => Cardinality(Granted(n)) <= 1
                    /\ next_admission' = IF Granted(n) # {} THEN Interval ELSE next_admission
                    /\ since_admission' = IF Granted(n) # {} THEN 0 ELSE since_admission
                    /\ deliveries' = deliveries \cup Granted(n)
               /\ waiters' # <<>> /\ active' < MaxInFlight => sets'[Head(waiters')] > 0
<1> DEFINE ws == [wstate EXCEPT ![t] = IF @ = "granted" THEN "acquired" ELSE @]
<1>0. MaxInFlight \in Nat /\ Interval \in Nat /\ IsFiniteSet(Tasks)
  BY AdmissionAssumption
<1>1. /\ pc[t] = "pumping" /\ Open(t)
      /\ UNCHANGED <<cooldown_until, closed_loops, acquires>>
  BY DEF WaitRound
<1>2. wstate[t] \in {"queued", "granted"}
  BY <1>1, BooksOpened DEF Standing
<1>3. /\ ws \in [Tasks -> WaiterStates]
      /\ \A u \in Tasks : ws[u] = IF u = t /\ wstate[t] = "granted" THEN "acquired" ELSE wstate[u]
  BY BooksOpened DEF WaiterStates
<1>4. \/ /\ PumpBlocked(active)
         /\ wstate' = ws
         /\ UNCHANGED <<active, queued, waiters, next_admission, sets, deliveries, since_admission>>
      \/ /\ ~PumpBlocked(active)
         /\ PumpGrants(active, ws, {t}, FALSE)
  BY DEF WaitRound, cbs
<1>5. \/ /\ wstate'[t] = "acquired"
         /\ pc' = [pc EXCEPT ![t] = "calling"]
         /\ UNCHANGED <<wakeup, timer>>
      \/ /\ wstate'[t] = "queued"
         /\ pc' = [pc EXCEPT ![t] = "waiting"]
         /\ wakeup' = [wakeup EXCEPT ![t] = FALSE]
         /\ timer' = [timer EXCEPT ![t] =
              IF Head(waiters') = t /\ active' < MaxInFlight
              THEN Greatest(next_admission', cooldown_until) ELSE NoTimer]
  BY DEF WaitRound
<1> HIDE DEF ws
<1>6. /\ pc' \in [Tasks -> {"idle", "pumping", "waiting", "calling", "cooled", "returning"}]
      /\ \A u \in Tasks : u # t => pc'[u] = pc[u]
      /\ \/ wstate'[t] = "acquired" /\ pc'[t] = "calling"
         \/ wstate'[t] = "queued" /\ pc'[t] = "waiting"
  <2>1. pc \in [Tasks -> {"idle", "pumping", "waiting", "calling", "cooled", "returning"}]
    BY BooksOpened
  <2> QED
    BY <1>5, <2>1
<1>7. wakeup' \in [Tasks -> BOOLEAN]
  BY <1>5, BooksOpened
<1>8. next_admission' \in Nat => timer' \in [Tasks -> Nat \cup {NoTimer}]
  <2>1. timer \in [Tasks -> Nat \cup {NoTimer}] /\ cooldown_until \in Nat
    BY BooksOpened
  <2>2. next_admission' \in Nat => Greatest(next_admission', cooldown_until) \in Nat
    BY <2>1 DEF Greatest
  <2> QED
    BY <1>5, <2>1, <2>2
<1>9. \A u \in Tasks : wstate[u] = "granted" => u \in Admitted
  BY BooksOpened
<1>10. CASE PumpBlocked(active)
  <2>1. /\ wstate' = ws
        /\ UNCHANGED <<active, queued, waiters, next_admission, sets, deliveries, since_admission>>
    BY <1>4, <1>10
  <2>2. \A u \in Tasks : Standing(u)'
    BY <1>1, <1>2, <1>3, <1>6, <2>1, BooksOpened DEF Standing, Open
  <2>3. Admitted' = Admitted
    <3>1. \A u \in Tasks : u \in Admitted' <=> u \in Admitted
      BY <1>1, <1>2, <1>3, <1>6, <2>1, BooksOpened, AdmittedNext
    <3> QED
      BY <3>1, BooksOpened, AdmittedNext
  <2>4. LineOK(waiters', queued', wstate')
    <3>1. \A u \in Tasks : ws[u] = "queued" <=> wstate[u] = "queued"
      BY <1>3
    <3> QED
      BY <2>1, <3>1, BooksOpened, LineSame
  <2>5. active \in Int
    BY BooksOpened
  <2>6. Books'
    BY <1>1, <1>3, <1>6, <1>7, <1>8, <2>1, <2>2, <2>3, <2>4, <2>5, BooksOpened, BooksClosed
  <2>7. \A u \in Tasks : wstate'[u] = "granted" => wstate[u] = "granted"
    BY <1>3, <2>1
  <2> QED
    BY <1>10, <2>1, <2>3, <2>6, <2>7
<1>11. CASE ~PumpBlocked(active)
  <2>1. PumpGrants(active, ws, {t}, FALSE) /\ active \in Nat
    BY <1>4, <1>11, BooksOpened
  <2>2. \A u \in Tasks : ws[u] = "queued" <=> wstate[u] = "queued"
    BY <1>3
  <2>3. PICK n \in 0..Len(waiters) : Pumped(n, active, ws, {t})
    BY <1>3, <1>11, <2>1, <2>2, PumpDone
  <2> DEFINE G == Granted(n)
             P == Prefix(waiters, n)
  <2> HIDE DEF G, P
  <2>4. /\ G \subseteq P /\ P \subseteq Tasks
        /\ \A u \in P : wstate[u] = "queued" /\ (u \in G <=> Open(u))
        /\ \A u \in Tasks : wstate'[u] = IF u \in G THEN IF u = t THEN "acquired" ELSE "granted"
                                         ELSE IF u \in P THEN "cancelled" ELSE ws[u]
    BY <2>3 DEF G, P, Pumped
  <2>5. \A u \in Tasks : Standing(u)'
    BY <1>1, <1>2, <1>3, <1>6, <2>4, BooksOpened DEF Standing, Open
  <2>6. G \cap Admitted = {}
    BY <2>4, BooksOpened DEF Standing
  <2>7. Admitted' = Admitted \cup G
    <3>1. ASSUME NEW u \in Tasks PROVE u \in Admitted' <=> u \in Admitted \/ u \in G
      <4>1. CASE u = t
        BY <1>1, <1>2, <1>3, <1>6, <2>4, <4>1, BooksOpened, AdmittedNext
      <4>2. CASE u # t
        BY <1>3, <1>6, <2>4, <4>2, BooksOpened, AdmittedNext
      <4> QED
        BY <4>1, <4>2
    <3> QED
      BY <2>4, <3>1, BooksOpened, AdmittedNext
  <2>8. Cardinality(Admitted \cup G) = active + Cardinality(G)
    BY <2>3, <2>6, SlotsAdded DEF G, Pumped
  <2>9. active + Cardinality(G) \in Int
    BY <2>1, <2>3 DEF G, Pumped
  <2>10. deliveries' \subseteq Tasks
    BY <2>3, <2>4, BooksOpened DEF G, Pumped
  <2>11. next_admission' \in Nat /\ since_admission' \in 0..Interval
    BY <1>0, <2>3, BooksOpened DEF Pumped
  <2>12. Books'
    BY <1>1, <1>6, <1>7, <1>8, <2>3, <2>5, <2>7, <2>8, <2>9, <2>10, <2>11, BooksOpened, BooksClosed
       DEF G, Pumped
  <2>13. deliveries' = deliveries \cup G
    BY <2>3 DEF G, Pumped
  <2>14. \A u \in Tasks : wstate'[u] = "granted" => wstate[u] = "granted" \/ u \in deliveries'
    BY <1>3, <2>4, <2>13
  <2>15. deliveries \subseteq deliveries'
    BY <2>13
  <2> QED
    BY <1>11, <2>3, <2>6, <2>7, <2>12, <2>14, <2>15 DEF G, Pumped
<1> QED
  BY <1>10, <1>11

\* What a release of t leaves: the first n waiters are gone from the line, and
\* those in G hold a slot in its place.
Refilled(t, n, G) ==
  /\ waiters' = Drop(waiters, n) /\ Admitted' = (Admitted \ {t}) \cup G
  /\ G \cap Admitted = {} /\ IsFiniteSet(G)
  /\ Interval > 0 => Cardinality(G) <= 1
  /\ G # {} => ~PumpBlocked(active - 1)
  /\ G \subseteq deliveries' /\ deliveries \subseteq deliveries'
  /\ \A u \in Tasks : wstate'[u] = "granted" => wstate[u] = "granted" \/ u \in G
  /\ next_admission' = IF G # {} THEN Interval ELSE next_admission
  /\ since_admission' = IF G # {} THEN 0 ELSE since_admission

\* A release: one slot comes back and the front of the line is served.
LEMMA ReleaseKeeps ==
  ASSUME Books, NEW t \in Tasks, ReleasePermit(t)
  PROVE  /\ Books' /\ t \in Admitted
         /\ \E n \in 0..Len(waiters) : \E G \in SUBSET Prefix(waiters, n) : Refilled(t, n, G)
         /\ waiters' # <<>> /\ active' < MaxInFlight => sets'[Head(waiters')] > 0
<1>0. MaxInFlight \in Nat /\ Interval \in Nat /\ IsFiniteSet(Tasks)
  BY AdmissionAssumption
<1>1. /\ pc[t] \in {"calling", "cooled", "returning"}
      /\ pc' = [pc EXCEPT ![t] = "idle"]
      /\ UNCHANGED <<cooldown_until, wakeup, closed_loops, timer, acquires>>
  BY DEF ReleasePermit
<1>2. t \in Admitted /\ wstate[t] \notin {"queued", "granted"}
  BY <1>1, BooksOpened DEF Standing
<1>3. \A u \in Tasks : pc'[u] = IF u = t THEN "idle" ELSE pc[u]
  BY <1>1, BooksOpened
<1>4. pc' \in [Tasks -> {"idle", "pumping", "waiting", "calling", "cooled", "returning"}]
  BY <1>1, BooksOpened
<1>5. /\ Cardinality(Admitted \ {t}) = active - 1 /\ IsFiniteSet(Admitted \ {t})
      /\ active - 1 \in Nat /\ active - 1 <= MaxInFlight
  <2>1. /\ Cardinality(Admitted \ {t}) = active - 1 /\ IsFiniteSet(Admitted \ {t})
    BY <1>2, BooksOpened, FS_RemoveElement
  <2>2. Cardinality(Admitted \ {t}) \in Nat
    BY <2>1, FS_CardinalityType
  <2> QED
    BY <1>0, <2>1, <2>2, BooksOpened
<1>6. CASE /\ PumpBlocked(active - 1) /\ WakeHead(waiters, queued, wstate)
           /\ active' = active - 1
           /\ UNCHANGED <<deliveries, next_admission, since_admission>>
  <2>1. /\ \E n \in 0..Len(waiters) : waiters' = Drop(waiters, n)
        /\ LineOK(waiters', queued', wstate')
        /\ wstate' \in [Tasks -> WaiterStates] /\ sets' \in [Tasks -> Nat]
        /\ \A u \in Tasks : \/ wstate'[u] = wstate[u]
                            \/ wstate[u] = "queued" /\ wstate'[u] = "cancelled" /\ ~Open(u)
        /\ waiters' # <<>> => sets'[Head(waiters')] > 0
    BY <1>6, BooksOpened, WakeDone
  <2>2. \A u \in Tasks : Standing(u)'
    BY <1>1, <1>2, <1>3, <2>1, BooksOpened DEF Standing, Open
  <2>3. Admitted' = Admitted \ {t}
    <3>1. \A u \in Tasks : u \in Admitted' <=> u \in Admitted /\ u # t
      BY <1>2, <1>3, <2>1, BooksOpened, AdmittedNext
    <3> QED
      BY <3>1, BooksOpened, AdmittedNext
  <2>4. active' \in Int /\ active' <= MaxInFlight /\ active' = Cardinality(Admitted')
    BY <1>5, <1>6, <2>3
  <2>5. Books'
    BY <1>1, <1>4, <1>6, <2>1, <2>2, <2>4, BooksOpened, BooksClosed
  <2>6. PICK n \in 0..Len(waiters) : waiters' = Drop(waiters, n)
    BY <2>1
  <2>7. /\ {} \in SUBSET Prefix(waiters, n) /\ Admitted' = (Admitted \ {t}) \cup {}
        /\ IsFiniteSet({}) /\ Cardinality({}) <= 1
    BY <2>3, FS_EmptySet
  <2>8. \A u \in Tasks : wstate'[u] = "granted" => wstate[u] = "granted"
    BY <2>1
  <2>9. Refilled(t, n, {})
    BY <1>6, <2>6, <2>7, <2>8 DEF Refilled
  <2> QED
    BY <1>2, <2>1, <2>5, <2>7, <2>9
<1>7. CASE ~PumpBlocked(active - 1) /\ PumpGrants(active - 1, wstate, {}, TRUE)
  <2>1. PICK n \in 0..Len(waiters) : Pumped(n, active - 1, wstate, {})
    BY <1>5, <1>7, BooksOpened, PumpDone
  <2> DEFINE G == Granted(n)
             P == Prefix(waiters, n)
  <2> HIDE DEF G, P
  <2>2. /\ G \subseteq P /\ P \subseteq Tasks
        /\ \A u \in P : wstate[u] = "queued" /\ (u \in G <=> Open(u))
        /\ \A u \in Tasks : wstate'[u] = IF u \in G THEN "granted"
                                         ELSE IF u \in P THEN "cancelled" ELSE wstate[u]
    BY <2>1 DEF G, P, Pumped
  <2>3. \A u \in Tasks : Standing(u)'
    BY <1>1, <1>2, <1>3, <2>2, BooksOpened DEF Standing, Open
  <2>4. G \cap Admitted = {}
    BY <2>2, BooksOpened DEF Standing
  <2>5. Admitted' = (Admitted \ {t}) \cup G
    <3>1. ASSUME NEW u \in Tasks PROVE u \in Admitted' <=> (u \in Admitted /\ u # t) \/ u \in G
      BY <1>2, <1>3, <2>2, BooksOpened, AdmittedNext
    <3> QED
      BY <2>2, <3>1, BooksOpened, AdmittedNext
  <2>6. IsFiniteSet(G) /\ Cardinality(G) \in Nat
    BY <2>1 DEF G, Pumped
  <2>7. Cardinality((Admitted \ {t}) \cup G) = active - 1 + Cardinality(G)
    <3> DEFINE A == Admitted \ {t}
    <3>1. Cardinality(A \cap G) = 0
      <4>1. A \cap G = {}
        BY <2>4
      <4> QED
        BY <4>1, FS_EmptySet
    <3>2. IsFiniteSet(A) /\ Cardinality(A) = active - 1 /\ active \in Nat
      BY <1>5, BooksOpened
    <3> HIDE DEF A
    <3>3. Cardinality(A \cup G) = Cardinality(A) + Cardinality(G) - Cardinality(A \cap G)
      BY <2>6, <3>2, FS_Union
    <3>4. Cardinality(A \cup G) = active - 1 + Cardinality(G)
      BY <2>6, <3>1, <3>2, <3>3
    <3> QED
      BY <3>4 DEF A
  <2>8. /\ active' = active - 1 + Cardinality(G) /\ active - 1 + Cardinality(G) \in Int
        /\ active - 1 + Cardinality(G) <= MaxInFlight
    BY <1>5, <2>1, <2>6 DEF G, Pumped
  <2>9. active' \in Int /\ active' <= MaxInFlight /\ active' = Cardinality(Admitted')
    BY <2>5, <2>7, <2>8
  <2>10. deliveries' \subseteq Tasks /\ next_admission' \in Nat /\ since_admission' \in 0..Interval
    BY <1>0, <2>1, <2>2, BooksOpened DEF G, Pumped
  <2>11. Books'
    BY <1>1, <1>4, <2>1, <2>3, <2>9, <2>10, BooksOpened, BooksClosed DEF Pumped
  <2>12. waiters' # <<>> /\ active' < MaxInFlight => sets'[Head(waiters')] > 0
    BY <2>1, <2>8 DEF G, Pumped
  <2>13. \A u \in Tasks : wstate'[u] = "granted" => wstate[u] = "granted" \/ u \in G
    BY <2>2
  <2>14. /\ waiters' = Drop(waiters, n)
         /\ Interval > 0 => Cardinality(G) <= 1
         /\ deliveries' = deliveries \cup G
         /\ next_admission' = IF G # {} THEN Interval ELSE next_admission
         /\ since_admission' = IF G # {} THEN 0 ELSE since_admission
    BY <2>1 DEF G, Pumped
  <2>15. G \in SUBSET Prefix(waiters, n) /\ G \subseteq deliveries' /\ deliveries \subseteq deliveries'
    BY <2>2, <2>14 DEF P
  <2>16. Refilled(t, n, G)
    BY <1>7, <2>4, <2>5, <2>6, <2>13, <2>14, <2>15 DEF Refilled
  <2> QED
    BY <1>2, <2>11, <2>12, <2>15, <2>16
<1> QED
  BY <1>6, <1>7 DEF ReleasePermit, Release

\* A queued waiter gives up; the head that is left is woken.
LEMMA GiveUpQueuedKeeps ==
  ASSUME Books, NEW t \in Tasks, GiveUpQueued(t)
  PROVE  /\ Books' /\ Admitted' = Admitted /\ t \in Members(waiters)
         /\ \E n \in 0..Len(Without(waiters, t)) : waiters' = Drop(Without(waiters, t), n)
         /\ \A u \in Tasks : wstate'[u] = "granted" => wstate[u] = "granted"
         /\ waiters' # <<>> => sets'[Head(waiters')] > 0
<1> DEFINE ws == [wstate EXCEPT ![t] = "cancelled"]
           q == Without(waiters, t)
<1>1. /\ pc[t] = "waiting" /\ Open(t) /\ wstate[t] = "queued"
      /\ WakeHead(q, queued - 1, ws)
      /\ pc' = [pc EXCEPT ![t] = "idle"]
      /\ timer' = [timer EXCEPT ![t] = NoTimer]
      /\ UNCHANGED <<active, next_admission, cooldown_until, wakeup, deliveries, closed_loops, acquires, since_admission>>
  BY DEF GiveUpQueued, gate
<1>2. ws \in [Tasks -> WaiterStates] /\ \A u \in Tasks : ws[u] = IF u = t THEN "cancelled" ELSE wstate[u]
  BY BooksOpened DEF WaiterStates
<1> HIDE DEF ws
<1>3. LineOK(q, queued - 1, ws)
  BY <1>1, <1>2, BooksOpened, LineLeft
<1>4. t \in Members(waiters)
  BY <1>1, BooksOpened DEF LineOK
<1> HIDE DEF q
<1>5. /\ \E n \in 0..Len(q) : waiters' = Drop(q, n)
      /\ LineOK(waiters', queued', wstate')
      /\ wstate' \in [Tasks -> WaiterStates] /\ sets' \in [Tasks -> Nat]
      /\ \A u \in Tasks : \/ wstate'[u] = ws[u]
                          \/ ws[u] = "queued" /\ wstate'[u] = "cancelled" /\ ~Open(u)
      /\ waiters' # <<>> => sets'[Head(waiters')] > 0
  BY <1>1, <1>2, <1>3, WakeDone
<1>6. \A u \in Tasks : pc'[u] = IF u = t THEN "idle" ELSE pc[u]
  BY <1>1, BooksOpened
<1>7. /\ pc' \in [Tasks -> {"idle", "pumping", "waiting", "calling", "cooled", "returning"}]
      /\ timer' \in [Tasks -> Nat \cup {NoTimer}]
  BY <1>1, BooksOpened
<1>8. \A u \in Tasks : Standing(u)'
  BY <1>1, <1>2, <1>5, <1>6, BooksOpened DEF Standing, Open
<1>9. Admitted' = Admitted
  <2>1. ASSUME NEW u \in Tasks PROVE wstate'[u] = "granted" <=> wstate[u] = "granted"
    <3>1. ws[u] = "granted" <=> wstate[u] = "granted"
      BY <1>1, <1>2
    <3>2. wstate'[u] = ws[u] \/ (ws[u] = "queued" /\ wstate'[u] = "cancelled")
      BY <1>5
    <3> QED
      BY <3>1, <3>2
  <2>2. ASSUME NEW u \in Tasks
        PROVE  pc'[u] \in {"calling", "cooled", "returning"} <=> pc[u] \in {"calling", "cooled", "returning"}
    BY <1>1, <1>6
  <2>3. \A u \in Tasks : u \in Admitted <=> pc[u] \in {"calling", "cooled", "returning"} \/ wstate[u] = "granted"
    BY BooksOpened
  <2>4. \A u \in Tasks : u \in Admitted' <=> u \in Admitted
    BY <2>1, <2>2, <2>3, AdmittedNext
  <2> QED
    BY <2>4, BooksOpened, AdmittedNext
<1>10. active' \in Int /\ active' <= MaxInFlight /\ active' = Cardinality(Admitted')
  <2>1. active \in Int /\ active <= MaxInFlight /\ active = Cardinality(Admitted)
    BY BooksOpened
  <2> QED
    BY <1>1, <1>9, <2>1
<1>11. Books'
  BY <1>1, <1>5, <1>7, <1>8, <1>10, BooksOpened, BooksClosed
<1>12. \A u \in Tasks : wstate'[u] = "granted" => wstate[u] = "granted"
  BY <1>2, <1>5
<1> QED
  BY <1>4, <1>5, <1>9, <1>11, <1>12 DEF q

\* A cooldown is published; the head is woken.
LEMMA PublishKeeps ==
  ASSUME Books, NEW t \in Tasks, PublishCooldown(t)
  PROVE  /\ Books' /\ Admitted' = Admitted
         /\ \E n \in 0..Len(waiters) : waiters' = Drop(waiters, n)
         /\ \A u \in Tasks : wstate'[u] = "granted" => wstate[u] = "granted"
         /\ waiters' # <<>> => sets'[Head(waiters')] > 0
<1>1. /\ pc[t] = "calling"
      /\ \E d \in 1..MaxCooldown : cooldown_until' = Greatest(cooldown_until, d)
      /\ WakeHead(waiters, queued, wstate)
      /\ pc' = [pc EXCEPT ![t] = "cooled"]
      /\ UNCHANGED <<active, next_admission, wakeup, deliveries, closed_loops, timer, acquires, since_admission>>
  BY DEF PublishCooldown
<1>2. cooldown_until' \in Nat
  BY <1>1, BooksOpened, AdmissionAssumption DEF Greatest
<1>3. /\ \E n \in 0..Len(waiters) : waiters' = Drop(waiters, n)
      /\ LineOK(waiters', queued', wstate')
      /\ wstate' \in [Tasks -> WaiterStates] /\ sets' \in [Tasks -> Nat]
      /\ \A u \in Tasks : \/ wstate'[u] = wstate[u]
                          \/ wstate[u] = "queued" /\ wstate'[u] = "cancelled" /\ ~Open(u)
      /\ waiters' # <<>> => sets'[Head(waiters')] > 0
  BY <1>1, BooksOpened, WakeDone
<1>4. \A u \in Tasks : pc'[u] = IF u = t THEN "cooled" ELSE pc[u]
  BY <1>1, BooksOpened
<1>5. pc' \in [Tasks -> {"idle", "pumping", "waiting", "calling", "cooled", "returning"}]
  BY <1>1, BooksOpened
<1>6. \A u \in Tasks : Standing(u)'
  BY <1>1, <1>3, <1>4, BooksOpened DEF Standing, Open
<1>7. Admitted' = Admitted
  <2>1. \A u \in Tasks : u \in Admitted' <=> u \in Admitted
    BY <1>1, <1>3, <1>4, BooksOpened, AdmittedNext
  <2> QED
    BY <2>1, BooksOpened, AdmittedNext
<1>8. active' \in Int /\ active' <= MaxInFlight /\ active' = Cardinality(Admitted')
  <2>1. active \in Int /\ active <= MaxInFlight /\ active = Cardinality(Admitted)
    BY BooksOpened
  <2> QED
    BY <1>1, <1>7, <2>1
<1>9. Books'
  BY <1>1, <1>2, <1>3, <1>5, <1>6, <1>8, BooksOpened, BooksClosed
<1>10. \A u \in Tasks : wstate'[u] = "granted" => wstate[u] = "granted"
  BY <1>3
<1> QED
  BY <1>3, <1>7, <1>9, <1>10

\* The steps that leave the line and the slots alone.
LEMMA QuietKeeps ==
  ASSUME Books,
         \/ \E t \in Tasks : Resume(t) \/ GiveUpGranted(t) \/ RunSet(t) \/ DeliverGrant(t)
         \/ \E l \in Loops : CloseLoop(l)
         \/ Tick
         \/ UNCHANGED vars
  PROVE  Books' /\ Admitted' = Admitted /\ UNCHANGED <<waiters, active>>
<1>0. Interval \in Nat
  BY AdmissionAssumption
<1>1. active \in Int /\ active <= MaxInFlight /\ active = Cardinality(Admitted)
  BY BooksOpened
<1>a. ASSUME NEW t \in Tasks, Resume(t) PROVE Books' /\ Admitted' = Admitted /\ UNCHANGED <<waiters, active>>
  <2>1. /\ pc[t] = "waiting" /\ Open(t)
        /\ pc' = [pc EXCEPT ![t] = "pumping"]
        /\ timer' = [timer EXCEPT ![t] = NoTimer]
        /\ UNCHANGED <<active, queued, waiters, wstate, next_admission, cooldown_until, wakeup, sets,
                       deliveries, closed_loops, acquires, since_admission>>
    BY <1>a DEF Resume, queue, gate, cbs
  <2>2. \A u \in Tasks : pc'[u] = IF u = t THEN "pumping" ELSE pc[u]
    BY <2>1, BooksOpened
  <2>3. /\ pc' \in [Tasks -> {"idle", "pumping", "waiting", "calling", "cooled", "returning"}]
        /\ timer' \in [Tasks -> Nat \cup {NoTimer}]
    BY <2>1, BooksOpened
  <2>4. \A u \in Tasks : Standing(u)'
    BY <2>1, <2>2, BooksOpened DEF Standing, Open
  <2>5. \A u \in Tasks : u \in Admitted' <=> u \in Admitted
    BY <2>1, <2>2, BooksOpened, AdmittedNext
  <2>6. Admitted' = Admitted
    BY <2>5, BooksOpened, AdmittedNext
  <2>7. LineOK(waiters', queued', wstate')
    BY <2>1, BooksOpened
  <2>8. active' \in Int /\ active' <= MaxInFlight /\ active' = Cardinality(Admitted')
    BY <1>1, <2>1, <2>6
  <2> QED
    BY <2>1, <2>3, <2>4, <2>6, <2>7, <2>8, BooksOpened, BooksClosed
<1>b. ASSUME NEW t \in Tasks, GiveUpGranted(t) PROVE Books' /\ Admitted' = Admitted /\ UNCHANGED <<waiters, active>>
  <2>1. /\ pc[t] = "waiting" /\ Open(t) /\ wstate[t] = "granted"
        /\ wstate' = [wstate EXCEPT ![t] = "cancelled"]
        /\ pc' = [pc EXCEPT ![t] = "returning"]
        /\ timer' = [timer EXCEPT ![t] = NoTimer]
        /\ UNCHANGED <<active, queued, waiters, next_admission, cooldown_until, wakeup, sets,
                       deliveries, closed_loops, acquires, since_admission>>
    BY <1>b DEF GiveUpGranted, gate, cbs
  <2>2. \A u \in Tasks : /\ pc'[u] = IF u = t THEN "returning" ELSE pc[u]
                         /\ wstate'[u] = IF u = t THEN "cancelled" ELSE wstate[u]
    BY <2>1, BooksOpened
  <2>3. /\ pc' \in [Tasks -> {"idle", "pumping", "waiting", "calling", "cooled", "returning"}]
        /\ timer' \in [Tasks -> Nat \cup {NoTimer}] /\ wstate' \in [Tasks -> WaiterStates]
    BY <2>1, BooksOpened DEF WaiterStates
  <2>4. \A u \in Tasks : Standing(u)'
    BY <2>1, <2>2, BooksOpened DEF Standing, Open
  <2>5. \A u \in Tasks : u \in Admitted' <=> u \in Admitted
    BY <2>1, <2>2, BooksOpened, AdmittedNext
  <2>6. Admitted' = Admitted
    BY <2>5, BooksOpened, AdmittedNext
  <2>7. LineOK(waiters', queued', wstate')
    BY <2>1, <2>2, BooksOpened, LineSame
  <2>8. active' \in Int /\ active' <= MaxInFlight /\ active' = Cardinality(Admitted')
    BY <1>1, <2>1, <2>6
  <2> QED
    BY <2>1, <2>3, <2>4, <2>6, <2>7, <2>8, BooksOpened, BooksClosed
\* The rest changes neither pc nor wstate.
<1>c. ASSUME UNCHANGED <<active, queued, waiters, wstate, pc, acquires>>,
             next_admission' \in Nat, cooldown_until' \in Nat, wakeup' \in [Tasks -> BOOLEAN],
             sets' \in [Tasks -> Nat], deliveries' \subseteq Tasks, closed_loops' \subseteq Loops,
             timer' \in [Tasks -> Nat \cup {NoTimer}], since_admission' \in 0..Interval,
             \A u \in Tasks : pc[u] = "pumping" \/ wstate[u] = "granted" => Open(u)',
             \A u \in Tasks : Open(u)' => Open(u)
      PROVE  Books' /\ Admitted' = Admitted /\ UNCHANGED <<waiters, active>>
  <2>1. \A u \in Tasks : Standing(u)'
    BY <1>c, BooksOpened DEF Standing
  <2>2. Admitted' = Admitted
    BY <1>c DEF Admitted, HoldsSlot, HasPermit
  <2>3. LineOK(waiters', queued', wstate')
    BY <1>c, BooksOpened
  <2>4. active' \in Int /\ active' <= MaxInFlight /\ active' = Cardinality(Admitted')
    BY <1>1, <1>c, <2>2
  <2> QED
    BY <1>c, <2>1, <2>2, <2>3, <2>4, BooksOpened, BooksClosed
<1>2. \A u \in Tasks : pc[u] = "pumping" \/ wstate[u] = "granted" => Open(u)
  BY BooksOpened DEF Standing
<1>d. ASSUME NEW t \in Tasks, RunSet(t) PROVE Books' /\ Admitted' = Admitted /\ UNCHANGED <<waiters, active>>
  <2>1. /\ sets[t] > 0
        /\ sets' = [sets EXCEPT ![t] = @ - 1] /\ wakeup' = [wakeup EXCEPT ![t] = TRUE]
        /\ UNCHANGED <<active, queued, waiters, wstate, next_admission, cooldown_until,
                       deliveries, closed_loops, pc, timer, acquires, since_admission>>
    BY <1>d DEF RunSet, queue, gate
  <2>2. sets' \in [Tasks -> Nat]
    BY <2>1, BooksOpened
  <2>3. wakeup' \in [Tasks -> BOOLEAN]
    BY <2>1, BooksOpened
  <2> QED
    BY <1>2, <1>c, <2>1, <2>2, <2>3, BooksOpened DEF Open
<1>e. ASSUME NEW t \in Tasks, DeliverGrant(t) PROVE Books' /\ Admitted' = Admitted /\ UNCHANGED <<waiters, active>>
  <2>1. /\ deliveries' = deliveries \ {t}
        /\ wakeup' = IF wstate[t] = "granted" THEN [wakeup EXCEPT ![t] = TRUE] ELSE wakeup
        /\ UNCHANGED <<active, queued, waiters, wstate, next_admission, cooldown_until,
                       sets, closed_loops, pc, timer, acquires, since_admission>>
    BY <1>e DEF DeliverGrant, queue, gate
  <2>2. deliveries' \subseteq Tasks
    BY <2>1, BooksOpened
  <2>3. wakeup' \in [Tasks -> BOOLEAN]
    BY <2>1, BooksOpened
  <2> QED
    BY <1>2, <1>c, <2>1, <2>2, <2>3, BooksOpened DEF Open
<1>f. ASSUME NEW l \in Loops, CloseLoop(l) PROVE Books' /\ Admitted' = Admitted /\ UNCHANGED <<waiters, active>>
  <2>1. /\ \A t \in Tasks : LoopOf[t] = l => pc[t] # "pumping" /\ wstate[t] # "granted"
        /\ closed_loops' = closed_loops \cup {l}
        /\ UNCHANGED <<active, queued, waiters, wstate, next_admission, cooldown_until,
                       wakeup, sets, deliveries, pc, timer, acquires, since_admission>>
    BY <1>f DEF CloseLoop, queue, gate, cbs
  <2>2. closed_loops' \subseteq Loops
    BY <2>1, BooksOpened
  <2>3. /\ \A u \in Tasks : pc[u] = "pumping" \/ wstate[u] = "granted" => Open(u)'
        /\ \A u \in Tasks : Open(u)' => Open(u)
    BY <1>2, <2>1 DEF Open
  <2> QED
    BY <1>c, <2>1, <2>2, <2>3, BooksOpened
<1>g. ASSUME Tick PROVE Books' /\ Admitted' = Admitted /\ UNCHANGED <<waiters, active>>
  <2>1. /\ next_admission' = Greatest(next_admission - 1, 0)
        /\ cooldown_until' = Greatest(cooldown_until - 1, 0)
        /\ timer' = [t \in Tasks |-> IF timer[t] > 0 THEN timer[t] - 1 ELSE timer[t]]
        /\ since_admission' = Least(since_admission + 1, Interval)
        /\ UNCHANGED <<active, queued, waiters, wstate, wakeup, sets, deliveries, closed_loops, pc, acquires>>
    BY <1>g DEF Tick, queue, cbs
  <2>2. next_admission' \in Nat /\ cooldown_until' \in Nat
    BY <2>1, BooksOpened DEF Greatest
  <2>3. since_admission' \in 0..Interval
    BY <1>0, <2>1, BooksOpened DEF Least
  <2>4. timer' \in [Tasks -> Nat \cup {NoTimer}]
    BY <2>1, BooksOpened DEF NoTimer
  <2> QED
    BY <1>2, <1>c, <2>1, <2>2, <2>3, <2>4, BooksOpened DEF Open
<1>h. ASSUME UNCHANGED vars PROVE Books' /\ Admitted' = Admitted /\ UNCHANGED <<waiters, active>>
  <2>1. UNCHANGED <<active, queued, waiters, wstate, next_admission, cooldown_until,
                    wakeup, sets, deliveries, closed_loops, pc, timer, acquires, since_admission>>
    BY <1>h DEF vars, queue, gate, cbs
  <2> QED
    BY <1>2, <1>c, <2>1, BooksOpened DEF Open
<1> QED
  BY <1>a, <1>b, <1>d, <1>e, <1>f, <1>g, <1>h

\* The books are kept by every step.
LEMMA BooksStep ==
  ASSUME Books, [Next]_vars
  PROVE  Books'
BY AcquireNowKeeps, AcquireQueuesKeeps, WaitRoundKeeps, ReleaseKeeps, GiveUpQueuedKeeps, PublishKeeps,
   QuietKeeps DEF Next, Task

\* The books are right at the start.
LEMMA BooksInit == Init => Books
<1> SUFFICES ASSUME Init PROVE Books
  OBVIOUS
<1>1. Interval \in Nat /\ MaxInFlight \in Nat
  BY AdmissionAssumption
<1>2. <<>> \in Seq(Tasks) /\ Len(<<>>) = 0 /\ Members(<<>>) = {} /\ 1..0 = {}
  <2>1. <<>> \in Seq(Tasks) /\ Len(<<>>) = 0 /\ 1..0 = {}
    OBVIOUS
  <2>2. Members(<<>>) = {}
    BY ShortMembers
  <2> QED
    BY <2>1, <2>2
<1>3. Admitted = {}
  BY DEF Init, Admitted, HoldsSlot, HasPermit
<1>4. active = Cardinality(Admitted) /\ active <= MaxInFlight
  BY <1>1, <1>3, FS_EmptySet DEF Init
<1>5. LineOK(waiters, queued, wstate)
  BY <1>2 DEF Init, LineOK
<1>6. \A t \in Tasks : Standing(t)
  BY DEF Init, Standing
<1>7. wakeup \in [Tasks -> BOOLEAN]
  BY DEF Init
<1>8. TypeOK
  BY <1>1, <1>2, <1>7 DEF Init, TypeOK, NoTimer
<1> QED
  BY <1>4, <1>5, <1>6, <1>8 DEF Books

\* For any number of tasks, loops and slots: the counter of the group is the
\* number of slots that are held, through grants that race deadlines and
\* cancellations and through loops that are closed, and the queue holds each
\* queued waiter once.
THEOREM SlotsAccounted == Spec => []SlotAccounting
<1>1. Books => SlotAccounting
  <2> SUFFICES ASSUME Books PROVE SlotAccounting
    OBVIOUS
  <2>1. /\ waiters \in Seq(Tasks) /\ queued = Len(waiters)
        /\ \A i, j \in 1..Len(waiters) : waiters[i] = waiters[j] => i = j
        /\ \A u \in Tasks : u \in Members(waiters) <=> wstate[u] = "queued"
    BY BooksOpened DEF LineOK
  <2>2. Members(waiters) \subseteq Tasks
    BY <2>1, ElementOfSeq DEF Members
  <2>3. Members(waiters) = {t \in Tasks : wstate[t] = "queued"}
    BY <2>1, <2>2
  <2>4. Len(waiters) = Cardinality(Members(waiters))
    BY <2>1, DistinctLength
  <2> QED
    BY <2>1, <2>3, <2>4 DEF Books, SlotAccounting
<1> QED
  BY <1>1, BooksInit, BooksStep, PTL DEF Spec

----------------------------------------------------------------------------
(***************************************************************************)
(* No wakeup is lost.                                                      *)
(***************************************************************************)

\* Nothing changes for the head.
LEMMA HeadSame ==
  ASSUME Books, HeadWillLook, UNCHANGED <<waiters, active, next_admission, cooldown_until>>,
         \A u \in Tasks : Open(u)' => Open(u),
         waiters # <<>> => LET h == Head(waiters)
                           IN  pc'[h] = pc[h] /\ wakeup'[h] = wakeup[h] /\ sets'[h] = sets[h]
                               /\ timer'[h] = timer[h]
  PROVE  HeadWillLook'
<1>1. waiters # <<>> => Head(waiters) \in Tasks
  BY BooksOpened, HeadTailProperties
<1> QED
  BY <1>1 DEF HeadWillLook, NotBefore

\* The head is queued.
LEMMA HeadQueued ==
  ASSUME Books, waiters # <<>>
  PROVE  Head(waiters) \in Tasks /\ wstate[Head(waiters)] = "queued"
<1>1. waiters \in Seq(Tasks) /\ \A u \in Tasks : u \in Members(waiters) <=> wstate[u] = "queued"
  BY BooksOpened DEF LineOK
<1>2. Head(waiters) \in Tasks /\ Head(waiters) = waiters[1] /\ Len(waiters) \in Nat /\ Len(waiters) # 0
  BY <1>1, HeadTailProperties, LenProperties, EmptySeq
<1>3. 1 \in 1..Len(waiters)
  BY <1>2
<1> QED
  BY <1>1, <1>2, <1>3 DEF Members

\* Every step leaves the head able to look in time.
LEMMA HeadStep ==
  ASSUME Books, HeadWillLook, [Next]_vars
  PROVE  HeadWillLook'
<1>a. ASSUME NEW t \in Tasks, AcquireNow(t) PROVE HeadWillLook'
  BY <1>a DEF AcquireNow, MayEnter, HeadWillLook
<1>b. ASSUME NEW t \in Tasks, AcquireQueues(t) PROVE HeadWillLook'
  <2>1. /\ pc[t] = "idle" /\ waiters' = Append(waiters, t)
        /\ wakeup' = [wakeup EXCEPT ![t] = FALSE] /\ sets' = [sets EXCEPT ![t] = 0]
        /\ pc' = [pc EXCEPT ![t] = "pumping"]
        /\ UNCHANGED <<active, next_admission, cooldown_until, closed_loops, timer>>
    BY <1>b DEF AcquireQueues, gate
  <2>2. CASE waiters = <<>>
    <3>1. Head(waiters') = t
      BY <2>1, <2>2
    <3>2. pc'[t] = "pumping"
      BY <2>1, BooksOpened
    <3> QED
      BY <3>1, <3>2 DEF HeadWillLook
  <2>3. CASE waiters # <<>>
    <3>1. Head(waiters') = Head(waiters) /\ Head(waiters) \in Tasks /\ wstate[Head(waiters)] = "queued"
      <4>1. waiters \in Seq(Tasks)
        BY BooksOpened
      <4>2. Head(Append(waiters, t)) = Head(waiters)
        BY <2>3, <4>1
      <4> QED
        BY <2>1, <2>3, <4>2, HeadQueued
    <3>2. Head(waiters) # t
      BY <2>1, <3>1, BooksOpened DEF Standing
    <3>3. /\ pc'[Head(waiters)] = pc[Head(waiters)] /\ wakeup'[Head(waiters)] = wakeup[Head(waiters)]
          /\ sets'[Head(waiters)] = sets[Head(waiters)] /\ timer'[Head(waiters)] = timer[Head(waiters)]
      BY <2>1, <3>1, <3>2, BooksOpened
    <3>4. Open(Head(waiters))' => Open(Head(waiters))
      BY <2>1, <3>1 DEF Open
    <3> QED
      BY <2>1, <2>3, <3>1, <3>3, <3>4 DEF HeadWillLook, NotBefore, Open
  <2> QED
    BY <2>2, <2>3
<1>c. ASSUME NEW t \in Tasks, WaitRound(t) PROVE HeadWillLook'
  <2>1. CASE /\ PumpBlocked(active)
             /\ UNCHANGED <<waiters, active, next_admission, since_admission, sets, deliveries>>
    <3>0. UNCHANGED <<cooldown_until, closed_loops>> /\ pc[t] = "pumping"
      BY <1>c DEF WaitRound
    <3>1. CASE waiters = <<>>
      BY <2>1, <3>1 DEF HeadWillLook
    <3>2. CASE waiters # <<>> /\ Head(waiters) # t
      <4>1. Head(waiters) \in Tasks
        BY <3>2, HeadQueued
      <4>2. /\ pc'[Head(waiters)] = pc[Head(waiters)] /\ wakeup'[Head(waiters)] = wakeup[Head(waiters)]
            /\ timer'[Head(waiters)] = timer[Head(waiters)]
        BY <1>c, <3>2, <4>1, BooksOpened DEF WaitRound
      <4>3. \A u \in Tasks : Open(u)' => Open(u)
        BY <3>0 DEF Open
      <4> QED
        BY <2>1, <3>0, <4>2, <4>3, HeadSame
    <3>3. CASE waiters # <<>> /\ Head(waiters) = t
      <4>1. wstate[t] = "queued"
        BY <3>3, HeadQueued
      <4>2. wstate'[t] = "queued"
        BY <1>c, <2>1, <4>1, BooksOpened DEF WaitRound
      <4>3. timer' = [timer EXCEPT ![t] = IF Head(waiters') = t /\ active' < MaxInFlight
                                          THEN Greatest(next_admission', cooldown_until) ELSE NoTimer]
        BY <1>c, <4>2 DEF WaitRound
      <4>4. active < MaxInFlight => timer'[t] = NotBefore
        BY <2>1, <3>3, <4>3, BooksOpened DEF NotBefore
      <4>5. NotBefore \in Nat /\ NotBefore' = NotBefore
        BY <2>1, <3>0, BooksOpened DEF NotBefore, Greatest
      <4>6. active < MaxInFlight => timer'[t] # NoTimer /\ timer'[t] <= NotBefore
        BY <4>4, <4>5 DEF NoTimer
      <4>7. active' < MaxInFlight => timer'[t] # NoTimer /\ timer'[t] <= NotBefore'
        BY <2>1, <4>5, <4>6
      <4> QED
        BY <2>1, <3>3, <4>7 DEF HeadWillLook
    <3> QED
      BY <3>1, <3>2, <3>3
  <2>2. CASE waiters' # <<>> /\ active' < MaxInFlight => sets'[Head(waiters')] > 0
    BY <2>2 DEF HeadWillLook
  <2> QED
    BY <1>c, <2>1, <2>2, WaitRoundKeeps
<1>d. ASSUME NEW t \in Tasks, Resume(t) PROVE HeadWillLook'
  <2>1. /\ pc' = [pc EXCEPT ![t] = "pumping"] /\ timer' = [timer EXCEPT ![t] = NoTimer]
        /\ UNCHANGED <<active, waiters, next_admission, cooldown_until, wakeup, sets, closed_loops>>
    BY <1>d DEF Resume, queue, gate, cbs
  <2>2. CASE waiters # <<>> /\ Head(waiters) = t
    <3>1. pc'[t] = "pumping"
      BY <2>1, BooksOpened
    <3> QED
      BY <2>1, <2>2, <3>1 DEF HeadWillLook
  <2>3. CASE waiters = <<>> \/ Head(waiters) # t
    BY <2>1, <2>3, HeadQueued, HeadSame, BooksOpened DEF Open
  <2> QED
    BY <2>2, <2>3
<1>e. ASSUME NEW t \in Tasks, GiveUpQueued(t) PROVE HeadWillLook'
  BY <1>e, GiveUpQueuedKeeps DEF HeadWillLook
<1>f. ASSUME NEW t \in Tasks, GiveUpGranted(t) PROVE HeadWillLook'
  <2>1. /\ wstate[t] = "granted"
        /\ pc' = [pc EXCEPT ![t] = "returning"] /\ timer' = [timer EXCEPT ![t] = NoTimer]
        /\ UNCHANGED <<active, waiters, next_admission, cooldown_until, wakeup, sets, closed_loops>>
    BY <1>f DEF GiveUpGranted, gate, cbs
  <2> QED
    BY <2>1, HeadQueued, HeadSame, BooksOpened DEF Open
<1>g. ASSUME NEW t \in Tasks, ReleasePermit(t) PROVE HeadWillLook'
  BY <1>g, ReleaseKeeps DEF HeadWillLook
<1>h. ASSUME NEW t \in Tasks, PublishCooldown(t) PROVE HeadWillLook'
  BY <1>h, PublishKeeps DEF HeadWillLook
<1>i. ASSUME NEW t \in Tasks, RunSet(t) PROVE HeadWillLook'
  <2>1. /\ sets' = [sets EXCEPT ![t] = @ - 1] /\ wakeup' = [wakeup EXCEPT ![t] = TRUE]
        /\ UNCHANGED <<active, waiters, next_admission, cooldown_until, closed_loops, pc, timer>>
    BY <1>i DEF RunSet, queue, gate
  <2>2. CASE waiters # <<>> /\ Head(waiters) = t
    <3>1. wakeup'[t]
      BY <2>1, BooksOpened
    <3> QED
      BY <2>1, <2>2, <3>1 DEF HeadWillLook
  <2>3. CASE waiters = <<>> \/ Head(waiters) # t
    BY <2>1, <2>3, HeadQueued, HeadSame, BooksOpened DEF Open
  <2> QED
    BY <2>2, <2>3
<1>j. ASSUME NEW t \in Tasks, DeliverGrant(t) PROVE HeadWillLook'
  <2>1. /\ wakeup' = IF wstate[t] = "granted" THEN [wakeup EXCEPT ![t] = TRUE] ELSE wakeup
        /\ UNCHANGED <<active, waiters, next_admission, cooldown_until, closed_loops, sets, pc, timer>>
    BY <1>j DEF DeliverGrant, queue, gate
  <2>2. waiters # <<>> => wakeup'[Head(waiters)] = wakeup[Head(waiters)]
    BY <2>1, HeadQueued, BooksOpened
  <2> QED
    BY <2>1, <2>2, HeadSame DEF Open
<1>k. ASSUME NEW l \in Loops, CloseLoop(l) PROVE HeadWillLook'
  <2>1. /\ closed_loops' = closed_loops \cup {l}
        /\ UNCHANGED <<active, waiters, next_admission, cooldown_until, wakeup, sets, pc, timer>>
    BY <1>k DEF CloseLoop, queue, gate, cbs
  <2> QED
    BY <2>1, HeadSame DEF Open
<1>l. ASSUME Tick PROVE HeadWillLook'
  <2>1. /\ next_admission' = Greatest(next_admission - 1, 0)
        /\ cooldown_until' = Greatest(cooldown_until - 1, 0)
        /\ timer' = [t \in Tasks |-> IF timer[t] > 0 THEN timer[t] - 1 ELSE timer[t]]
        /\ UNCHANGED <<active, waiters, wakeup, sets, closed_loops, pc>>
    BY <1>l DEF Tick, queue, cbs
  <2>2. ASSUME NEW h \in Tasks, timer[h] # NoTimer, timer[h] <= NotBefore
        PROVE  timer'[h] # NoTimer /\ timer'[h] <= NotBefore'
    <3>1. timer[h] \in Nat /\ next_admission \in Nat /\ cooldown_until \in Nat
      BY <2>2, BooksOpened
    <3>2. timer'[h] = IF timer[h] > 0 THEN timer[h] - 1 ELSE timer[h]
      BY <2>1
    <3>3. NotBefore' = Greatest(Greatest(next_admission - 1, 0), Greatest(cooldown_until - 1, 0))
      BY <2>1 DEF NotBefore
    <3> QED
      BY <2>2, <3>1, <3>2, <3>3 DEF NotBefore, Greatest, NoTimer
  <2>3. waiters # <<>> => Head(waiters) \in Tasks
    BY HeadQueued
  <2> QED
    BY <2>1, <2>2, <2>3 DEF HeadWillLook, Open
<1>m. ASSUME UNCHANGED vars PROVE HeadWillLook'
  BY <1>m DEF vars, queue, gate, cbs, HeadWillLook, NotBefore, Open
<1> QED
  BY <1>a, <1>b, <1>c, <1>d, <1>e, <1>f, <1>g, <1>h, <1>i, <1>j, <1>k, <1>l, <1>m DEF Next, Task

\* Every step leaves those who were granted a slot to be told.
LEMMA GrantStep ==
  ASSUME Books, GrantWillArrive, [Next]_vars
  PROVE  GrantWillArrive'
<1>0. \A u \in Tasks : wstate[u] = "granted" /\ pc[u] = "waiting" => wakeup[u] \/ u \in deliveries
  BY DEF GrantWillArrive
<1>a. ASSUME NEW t \in Tasks, AcquireNow(t) PROVE GrantWillArrive'
  BY <1>0, <1>a, BooksOpened DEF AcquireNow, cbs, GrantWillArrive
<1>b. ASSUME NEW t \in Tasks, AcquireQueues(t) PROVE GrantWillArrive'
  BY <1>0, <1>b, BooksOpened DEF AcquireQueues, GrantWillArrive
<1>c. ASSUME NEW t \in Tasks, WaitRound(t) PROVE GrantWillArrive'
  <2>1. /\ \A u \in Tasks : wstate'[u] = "granted" => wstate[u] = "granted" \/ u \in deliveries'
        /\ deliveries \subseteq deliveries'
    BY <1>c, WaitRoundKeeps
  <2>2. /\ wstate'[t] \in {"acquired", "queued"}
        /\ \A u \in Tasks : u # t => pc'[u] = pc[u] /\ wakeup'[u] = wakeup[u]
    BY <1>c, BooksOpened DEF WaitRound
  <2> QED
    BY <1>0, <2>1, <2>2 DEF GrantWillArrive
<1>d. ASSUME NEW t \in Tasks, Resume(t) PROVE GrantWillArrive'
  BY <1>0, <1>d, BooksOpened DEF Resume, queue, cbs, GrantWillArrive
<1>e. ASSUME NEW t \in Tasks, GiveUpQueued(t) PROVE GrantWillArrive'
  <2>1. /\ \A u \in Tasks : wstate'[u] = "granted" => wstate[u] = "granted"
        /\ pc' = [pc EXCEPT ![t] = "idle"] /\ UNCHANGED <<wakeup, deliveries>>
    BY <1>e, GiveUpQueuedKeeps DEF GiveUpQueued
  <2> QED
    BY <1>0, <2>1, BooksOpened DEF GrantWillArrive
<1>f. ASSUME NEW t \in Tasks, GiveUpGranted(t) PROVE GrantWillArrive'
  BY <1>0, <1>f, BooksOpened DEF GiveUpGranted, cbs, GrantWillArrive
<1>g. ASSUME NEW t \in Tasks, ReleasePermit(t) PROVE GrantWillArrive'
  <2>1. /\ \A u \in Tasks : wstate'[u] = "granted" => wstate[u] = "granted" \/ u \in deliveries'
        /\ deliveries \subseteq deliveries'
    BY <1>g, ReleaseKeeps DEF Refilled
  <2>2. pc' = [pc EXCEPT ![t] = "idle"] /\ UNCHANGED wakeup
    BY <1>g DEF ReleasePermit
  <2> QED
    BY <1>0, <2>1, <2>2, BooksOpened DEF GrantWillArrive
<1>h. ASSUME NEW t \in Tasks, PublishCooldown(t) PROVE GrantWillArrive'
  <2>1. /\ \A u \in Tasks : wstate'[u] = "granted" => wstate[u] = "granted"
        /\ pc' = [pc EXCEPT ![t] = "cooled"] /\ UNCHANGED <<wakeup, deliveries>>
    BY <1>h, PublishKeeps DEF PublishCooldown
  <2> QED
    BY <1>0, <2>1, BooksOpened DEF GrantWillArrive
<1>i. ASSUME NEW t \in Tasks, RunSet(t) PROVE GrantWillArrive'
  BY <1>0, <1>i, BooksOpened DEF RunSet, queue, GrantWillArrive
<1>j. ASSUME NEW t \in Tasks, DeliverGrant(t) PROVE GrantWillArrive'
  BY <1>0, <1>j, BooksOpened DEF DeliverGrant, queue, GrantWillArrive
<1>k. ASSUME (\E l \in Loops : CloseLoop(l)) \/ Tick \/ UNCHANGED vars PROVE GrantWillArrive'
  BY <1>0, <1>k DEF CloseLoop, Tick, vars, queue, cbs, GrantWillArrive
<1> QED
  BY <1>a, <1>b, <1>c, <1>d, <1>e, <1>f, <1>g, <1>h, <1>i, <1>j, <1>k DEF Next, Task

\* For any number of tasks, loops and slots, whichever thread releases, grants
\* or reports between a look at the gate and the wait, and whichever waiter
\* leaves: while a slot is free the head of the queue looks again in time, and
\* a waiter that was granted a slot in its sleep is told.
THEOREM WakeupsKept == Spec => []NoLostWakeup
<1>1. Init => Books /\ NoLostWakeup
  <2>1. Init => NoLostWakeup
    BY DEF Init, NoLostWakeup, HeadWillLook, GrantWillArrive
  <2> QED
    BY <2>1, BooksInit
<1>2. Books /\ NoLostWakeup /\ [Next]_vars => Books' /\ NoLostWakeup'
  BY BooksStep, HeadStep, GrantStep DEF NoLostWakeup
<1> QED
  BY <1>1, <1>2, PTL DEF Spec

----------------------------------------------------------------------------
(***************************************************************************)
(* Admissions are spaced.                                                  *)
(***************************************************************************)

\* The gate stays closed until an interval has passed since the admission
\* before.
Paced == next_admission + since_admission >= Interval

\* The tasks a step admits.
Newly == Admitted' \ Admitted

\* A section that admits found the gate open, admits one task when paced, and
\* closes the gate; a section that does not leaves the gate.
LEMMA Admits ==
  ASSUME Books, [Next]_vars
  PROVE  /\ IsFiniteSet(Newly)
         /\ Newly # {} => /\ NotBefore <= 0
                          /\ Interval > 0 => Cardinality(Newly) <= 1
                          /\ next_admission' = Interval /\ since_admission' = 0
         /\ Newly = {} => \/ UNCHANGED <<next_admission, since_admission>>
                          \/ next_admission' = Interval /\ since_admission' = 0
                          \/ /\ next_admission' = Greatest(next_admission - 1, 0)
                             /\ since_admission' = Least(since_admission + 1, Interval)
<1> DEFINE Goal ==
      /\ IsFiniteSet(Newly)
      /\ Newly # {} => /\ NotBefore <= 0
                       /\ Interval > 0 => Cardinality(Newly) <= 1
                       /\ next_admission' = Interval /\ since_admission' = 0
      /\ Newly = {} => \/ UNCHANGED <<next_admission, since_admission>>
                       \/ next_admission' = Interval /\ since_admission' = 0
                       \/ /\ next_admission' = Greatest(next_admission - 1, 0)
                          /\ since_admission' = Least(since_admission + 1, Interval)
<1>0. next_admission \in Nat /\ cooldown_until \in Nat /\ NotBefore \in Nat
  BY BooksOpened DEF NotBefore, Greatest
<1>1. IsFiniteSet({})
  BY FS_EmptySet
<1>a. ASSUME NEW t \in Tasks, AcquireNow(t) PROVE Goal
  <2>1. Newly = {t}
    BY <1>a, AcquireNowKeeps DEF Newly
  <2>2. IsFiniteSet({t}) /\ Cardinality({t}) <= 1
    <3>1. IsFiniteSet({t}) /\ Cardinality({t}) = 1
      BY FS_Singleton
    <3> QED
      BY <3>1
  <2>3. NotBefore <= 0 /\ next_admission' = Interval /\ since_admission' = 0
    BY <1>0, <1>a DEF AcquireNow, MayEnter
  <2> QED
    BY <2>1, <2>2, <2>3
<1>b. ASSUME NEW t \in Tasks, WaitRound(t) PROVE Goal
  <2>1. CASE PumpBlocked(active) /\ Admitted' = Admitted /\ UNCHANGED <<next_admission, since_admission>>
    BY <1>1, <2>1 DEF Newly
  <2>2. ASSUME ~PumpBlocked(active), NEW G, Admitted' = Admitted \cup G, G \cap Admitted = {},
               IsFiniteSet(G), Interval > 0 => Cardinality(G) <= 1,
               next_admission' = IF G # {} THEN Interval ELSE next_admission,
               since_admission' = IF G # {} THEN 0 ELSE since_admission
        PROVE  Goal
    <3>1. Newly = G
      BY <2>2 DEF Newly
    <3>2. NotBefore <= 0
      BY <1>0, <2>2 DEF PumpBlocked
    <3> QED
      BY <2>2, <3>1, <3>2
  <2> HIDE DEF Goal
  <2>3. \/ PumpBlocked(active) /\ Admitted' = Admitted /\ UNCHANGED <<next_admission, since_admission>>
        \/ /\ ~PumpBlocked(active)
           /\ \E n \in 0..Len(waiters) :
                /\ Admitted' = Admitted \cup Granted(n)
                /\ Granted(n) \cap Admitted = {}
                /\ IsFiniteSet(Granted(n))
                /\ Interval > 0 => Cardinality(Granted(n)) <= 1
                /\ next_admission' = IF Granted(n) # {} THEN Interval ELSE next_admission
                /\ since_admission' = IF Granted(n) # {} THEN 0 ELSE since_admission
    BY <1>b, WaitRoundKeeps
  <2> QED
    BY <2>1, <2>2, <2>3
<1>c. ASSUME NEW t \in Tasks, ReleasePermit(t) PROVE Goal
  <2>1. t \in Admitted /\ \E n \in 0..Len(waiters) : \E G \in SUBSET Prefix(waiters, n) : Refilled(t, n, G)
    BY <1>c, ReleaseKeeps
  <2>2. PICK n \in 0..Len(waiters) : \E G \in SUBSET Prefix(waiters, n) : Refilled(t, n, G)
    BY <2>1
  <2>3. PICK G \in SUBSET Prefix(waiters, n) : Refilled(t, n, G)
    BY <2>2
  <2>4. Newly = G
    BY <2>1, <2>3 DEF Newly, Refilled
  <2>5. G # {} => NotBefore <= 0
    BY <1>0, <2>3 DEF Refilled, PumpBlocked
  <2> QED
    BY <2>3, <2>4, <2>5 DEF Refilled
<1>d. ASSUME NEW t \in Tasks, AcquireQueues(t) \/ GiveUpQueued(t) \/ PublishCooldown(t) PROVE Goal
  <2>1. Admitted' = Admitted
    BY <1>d, AcquireQueuesKeeps, GiveUpQueuedKeeps, PublishKeeps
  <2>2. UNCHANGED <<next_admission, since_admission>>
    BY <1>d DEF AcquireQueues, GiveUpQueued, PublishCooldown, gate
  <2> QED
    BY <1>1, <2>1, <2>2 DEF Newly
<1>e. ASSUME \/ \E t \in Tasks : Resume(t) \/ GiveUpGranted(t) \/ RunSet(t) \/ DeliverGrant(t)
             \/ \E l \in Loops : CloseLoop(l)
             \/ UNCHANGED vars
      PROVE  Goal
  <2>1. Admitted' = Admitted
    BY <1>e, QuietKeeps
  <2>2. UNCHANGED <<next_admission, since_admission>>
    BY <1>e DEF Resume, GiveUpGranted, RunSet, DeliverGrant, CloseLoop, vars, gate
  <2> QED
    BY <1>1, <2>1, <2>2 DEF Newly
<1>f. ASSUME Tick PROVE Goal
  <2>1. Admitted' = Admitted
    BY <1>f, QuietKeeps
  <2>2. /\ next_admission' = Greatest(next_admission - 1, 0)
        /\ since_admission' = Least(since_admission + 1, Interval)
    BY <1>f DEF Tick
  <2> QED
    BY <1>1, <2>1, <2>2 DEF Newly
<1> QED
  BY <1>a, <1>b, <1>c, <1>d, <1>e, <1>f DEF Next, Task

\* The gate and the clock agree after every step.
LEMMA PacedStep ==
  ASSUME Books, Paced, [Next]_vars
  PROVE  Paced'
<1>1. next_admission \in Nat /\ since_admission \in 0..Interval /\ Interval \in Nat
  BY BooksOpened, AdmissionAssumption
<1>2. \/ UNCHANGED <<next_admission, since_admission>>
      \/ next_admission' = Interval /\ since_admission' = 0
      \/ /\ next_admission' = Greatest(next_admission - 1, 0)
         /\ since_admission' = Least(since_admission + 1, Interval)
  BY Admits
<1>3. CASE UNCHANGED <<next_admission, since_admission>>
  BY <1>3 DEF Paced
<1>4. CASE next_admission' = Interval /\ since_admission' = 0
  BY <1>1, <1>4 DEF Paced
<1>5. CASE /\ next_admission' = Greatest(next_admission - 1, 0)
           /\ since_admission' = Least(since_admission + 1, Interval)
  <2>1. Greatest(next_admission - 1, 0) + Least(since_admission + 1, Interval) >= Interval
    BY <1>1 DEF Paced, Greatest, Least
  <2> QED
    BY <1>5, <2>1 DEF Paced
<1> QED
  BY <1>2, <1>3, <1>4, <1>5

\* Whatever the number of tasks and loops: no task is admitted less than the
\* interval after the admission before, or while a reported cooldown lasts,
\* and a paced section admits one task only.
THEOREM AdmissionsPaced == Spec => PacedAdmissions
<1>1. Init => Books /\ Paced
  <2>1. Init => Paced
    BY AdmissionAssumption DEF Init, Paced
  <2> QED
    BY <2>1, BooksInit
<1>2. Books /\ Paced /\ [Next]_vars => Books' /\ Paced'
  BY BooksStep, PacedStep
<1>3. Books /\ Paced /\ [Next]_vars =>
        [Admitted' \ Admitted # {} =>
           /\ since_admission >= Interval
           /\ cooldown_until = 0
           /\ Interval > 0 => Cardinality(Admitted' \ Admitted) = 1]_vars
  <2> SUFFICES ASSUME Books, Paced, [Next]_vars, Newly # {}
               PROVE  /\ since_admission >= Interval
                      /\ cooldown_until = 0
                      /\ Interval > 0 => Cardinality(Newly) = 1
    BY DEF Newly
  <2>1. /\ next_admission \in Nat /\ cooldown_until \in Nat
        /\ since_admission \in 0..Interval /\ Interval \in Nat
    BY BooksOpened, AdmissionAssumption
  <2>2. NotBefore <= 0 /\ IsFiniteSet(Newly) /\ (Interval > 0 => Cardinality(Newly) <= 1)
    BY Admits
  <2>3. next_admission = 0 /\ cooldown_until = 0
    BY <2>1, <2>2 DEF NotBefore, Greatest
  <2>4. since_admission >= Interval
    BY <2>1, <2>3 DEF Paced
  <2>5. Cardinality(Newly) \in Nat /\ Cardinality(Newly) # 0
    BY <2>2, FS_CardinalityType, FS_EmptySet
  <2> QED
    BY <2>2, <2>3, <2>4, <2>5
<1> QED
  BY <1>1, <1>2, <1>3, PTL DEF Spec, PacedAdmissions

----------------------------------------------------------------------------
(***************************************************************************)
(* The group is a permit pool.                                             *)
(***************************************************************************)

\* The pool counts as the group does.
LEMMA SameCount == \A S : Permits!Cardinality(S) = Cardinality(S)
BY DEF Permits!Cardinality, Cardinality

\* A section that takes the first n waiters of q, and gives a slot to those in
\* G, serves the line of the pool.
LEMMA ServesLine ==
  ASSUME Books', NEW q, NEW hold, NEW n \in 0..Len(q), NEW G \in SUBSET Prefix(q, n),
         waiters' = Drop(q, n), Admitted' = hold \cup G
  PROVE  Permits!Serve(q, hold)
<1>1. Cardinality(Admitted') <= MaxInFlight
  BY DEF Books
<1> QED
  BY <1>1, SameCount DEF Permits!Serve, Prefix, Drop

\* A section that only drops waiters of q serves nobody.
LEMMA DropsLine ==
  ASSUME Books', NEW q, NEW hold, \E n \in 0..Len(q) : waiters' = Drop(q, n), Admitted' = hold
  PROVE  Permits!Serve(q, hold)
<1>1. PICK n \in 0..Len(q) : waiters' = Drop(q, n)
  OBVIOUS
<1>2. {} \in SUBSET Prefix(q, n) /\ Admitted' = hold \cup {}
  OBVIOUS
<1> QED
  BY <1>1, <1>2, ServesLine

\* Every section is one step of the pool, or leaves it alone.
LEMMA StepServes ==
  ASSUME Books, [Next]_vars
  PROVE  [Permits!Next]_(Permits!pool)
<1>0. Books' /\ waiters \in Seq(Tasks) /\ Len(waiters) \in Nat
  BY BooksStep, BooksOpened, LenProperties
<1>1. \A u \in Tasks : u \in Members(waiters) <=> wstate[u] = "queued"
  BY BooksOpened DEF LineOK
<1>2. Permits!InLine = Members(waiters)
  BY DEF Permits!InLine, Permits!Members, Members
<1>a. ASSUME NEW t \in Tasks, AcquireNow(t) PROVE Permits!Arrive(t)
  <2>1. Admitted' = Admitted \cup {t} /\ t \notin Admitted
    BY <1>a, AcquireNowKeeps
  <2>2. waiters = <<>> /\ waiters' = <<>> /\ pc[t] = "idle"
    BY <1>a DEF AcquireNow, MayEnter
  <2>3. t \notin Members(waiters)
    BY <2>2, ShortMembers
  <2>4. Append(waiters, t) = <<t>> /\ Len(<<t>>) = 1
    BY <2>2
  <2>5. Drop(<<t>>, 1) = <<>>
    <3>1. <<t>> \in Seq(Tasks) /\ 1 \in 0..Len(<<t>>)
      BY <2>4
    <3>2. Drop(<<t>>, 1) \in Seq(Tasks) /\ Len(Drop(<<t>>, 1)) = Len(<<t>>) - 1
      BY <3>1, DropShape
    <3> QED
      BY <2>4, <3>2, EmptySeq
  <2>6. Prefix(<<t>>, 1) = {t}
    BY DEF Prefix
  <2>7. Permits!Serve(<<t>>, Admitted)
    <3>1. 1 \in 0..Len(<<t>>) /\ {t} \in SUBSET Prefix(<<t>>, 1)
      BY <2>4, <2>6
    <3> QED
      BY <1>0, <2>1, <2>2, <2>5, <3>1, ServesLine
  <2> QED
    BY <1>2, <2>1, <2>3, <2>4, <2>7 DEF Permits!Arrive
<1>b. ASSUME NEW t \in Tasks, AcquireQueues(t) PROVE Permits!Arrive(t)
  <2>1. Admitted' = Admitted /\ t \notin Admitted /\ wstate[t] # "queued"
    BY <1>b, AcquireQueuesKeeps
  <2>2. waiters' = Append(waiters, t)
    BY <1>b DEF AcquireQueues
  <2>3. Append(waiters, t) \in Seq(Tasks) /\ Len(Append(waiters, t)) \in Nat
    BY <1>0, AppendProperties, LenProperties
  <2>4. Drop(Append(waiters, t), 0) = Append(waiters, t) /\ 0 \in 0..Len(Append(waiters, t))
    BY <2>3, SubSeqFull DEF Drop
  <2>5. Permits!Serve(Append(waiters, t), Admitted)
    BY <1>0, <2>1, <2>2, <2>4, DropsLine
  <2> QED
    BY <1>1, <1>2, <2>1, <2>5 DEF Permits!Arrive
<1>c. ASSUME NEW t \in Tasks, WaitRound(t) PROVE [Permits!Next]_(Permits!pool)
  <2>1. \/ Admitted' = Admitted /\ UNCHANGED waiters
        \/ \E n \in 0..Len(waiters) :
             /\ waiters' = Drop(waiters, n) /\ Admitted' = Admitted \cup Granted(n)
             /\ Granted(n) \subseteq Prefix(waiters, n)
    BY <1>c, WaitRoundKeeps
  <2>2. CASE Admitted' = Admitted /\ UNCHANGED waiters
    BY <2>2 DEF Permits!pool
  <2>3. CASE \E n \in 0..Len(waiters) :
               /\ waiters' = Drop(waiters, n) /\ Admitted' = Admitted \cup Granted(n)
               /\ Granted(n) \subseteq Prefix(waiters, n)
    <3>1. Permits!Serve(waiters, Admitted)
      BY <1>0, <2>3, ServesLine
    <3> QED
      BY <3>1 DEF Permits!Next
  <2> QED
    BY <2>1, <2>2, <2>3
<1>d. ASSUME NEW t \in Tasks, ReleasePermit(t) PROVE Permits!ComeOut(t)
  <2>1. t \in Admitted /\ \E n \in 0..Len(waiters) : \E G \in SUBSET Prefix(waiters, n) :
                             waiters' = Drop(waiters, n) /\ Admitted' = (Admitted \ {t}) \cup G
    BY <1>d, ReleaseKeeps DEF Refilled
  <2>2. Permits!Serve(waiters, Admitted \ {t})
    BY <1>0, <2>1, ServesLine
  <2> QED
    BY <2>1, <2>2 DEF Permits!ComeOut
<1>e. ASSUME NEW t \in Tasks, GiveUpQueued(t) PROVE Permits!Leave(t)
  <2>1. /\ Admitted' = Admitted /\ t \in Members(waiters)
        /\ \E n \in 0..Len(Without(waiters, t)) : waiters' = Drop(Without(waiters, t), n)
    BY <1>e, GiveUpQueuedKeeps
  <2>2. Permits!Serve(Without(waiters, t), Admitted)
    BY <1>0, <2>1, DropsLine
  <2>3. Permits!Without(waiters, t) = Without(waiters, t)
    BY DEF Permits!Without, Permits!Members, Without, Members
  <2> QED
    BY <1>2, <2>1, <2>2, <2>3 DEF Permits!Leave
<1>f. ASSUME NEW t \in Tasks, PublishCooldown(t) PROVE Permits!Serve(waiters, Admitted)
  BY <1>0, <1>f, PublishKeeps, DropsLine
<1>g. ASSUME \/ \E t \in Tasks : Resume(t) \/ GiveUpGranted(t) \/ RunSet(t) \/ DeliverGrant(t)
             \/ \E l \in Loops : CloseLoop(l)
             \/ Tick
             \/ UNCHANGED vars
      PROVE  UNCHANGED Permits!pool
  BY <1>g, QuietKeeps DEF Permits!pool
<1> QED
  BY <1>a, <1>b, <1>c, <1>d, <1>e, <1>f, <1>g DEF Next, Task, Permits!Next

\* For any number of tasks, loops and slots, the group is a permit pool: its
\* sections let waiters in from the front of the queue only, at most
\* max_in_flight tasks hold a slot, claimed or not, and each holds it until it
\* releases it or hands it back, whatever deadlines, cancellations and closed
\* loops come in between.
THEOREM PoolImplemented == Spec => ImplementsPool
<1>1. Init => Permits!Init
  BY DEF Init, Permits!Init, Admitted, HoldsSlot, HasPermit
<1>2. Books /\ [Next]_vars => [Permits!Next]_(Permits!pool)
  BY StepServes
<1> QED
  BY <1>1, <1>2, BooksInit, BooksStep, PTL DEF Spec, ImplementsPool, Permits!Spec
=============================================================================
