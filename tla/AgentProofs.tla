---------------------------- MODULE AgentProofs ----------------------------
(***************************************************************************)
(* Proofs about the parts of an agent that run on its event loop: the      *)
(* calls of its methods, the closing of its event manager, a generation    *)
(* session and the background jobs, for any number of agents, calls,       *)
(* owners, callbacks, turns, jobs and cancellers.                          *)
(***************************************************************************)
EXTENDS Generation, Drain, CodeAct, Jobs, QueueTheorems

----------------------------------------------------------------------------
(***************************************************************************)
(* Generations that take the lock.                                         *)
(***************************************************************************)

Call == [st : {"queued", "running", "over", "dead"}, on : Agents, by : Nat,
         kind : {"serial", "free", "awaited", "task"}]

\* A call from outside that is queued or runs with the lock stands at the
\* agent's lock, which belongs to the running loop, and when it runs it is the
\* first one there.
AtTheLock(c) ==
  /\ lock_loop[calls[c].on] = this_loop
  /\ c \in Members(lock[calls[c].on])
  /\ calls[c].st = "running" => Head(lock[calls[c].on]) = c

GenerationInv ==
  /\ GenerationTypeOK
  /\ this_loop > 0 /\ \A a \in Agents : lock_loop[a] <= this_loop
  /\ \A c \in Made : Active(c) /\ calls[c].kind = "serial" => AtTheLock(c)

\* The order of calls at a lock holds on to what follows a member that leaves.
LEMMA HeadMember ==
  ASSUME NEW S, NEW q \in Seq(S), NEW c \in Members(q)
  PROVE  /\ q # <<>> /\ Head(q) \in S /\ Tail(q) \in Seq(S)
         /\ Head(q) # c => c \in Members(Tail(q))
<1>1. PICK i \in 1..Len(q) : q[i] = c
  BY DEF Members
<1>2. Len(q) \in Nat /\ Len(q) # 0
  BY <1>1, LenProperties
<1>3. q # <<>>
  BY <1>2, EmptySeq
<1>4. /\ Head(q) \in S /\ Tail(q) \in Seq(S) /\ Head(q) = q[1]
      /\ Len(Tail(q)) = Len(q) - 1 /\ \A j \in 1..Len(Tail(q)) : Tail(q)[j] = q[j + 1]
  BY <1>3, HeadTailProperties
<1>5. ASSUME Head(q) # c PROVE c \in Members(Tail(q))
  <2>1. i - 1 \in 1..Len(Tail(q)) /\ Tail(q)[i - 1] = q[i]
    BY <1>1, <1>2, <1>4, <1>5
  <2> QED
    BY <1>1, <2>1 DEF Members
<1> QED
  BY <1>3, <1>4, <1>5

\* One more call.
LEMMA OneMoreCall ==
  ASSUME GenerationTypeOK, NEW r \in Call, calls' = Append(calls, r)
  PROVE  /\ calls' \in Seq(Call) /\ Len(calls) \in Nat
         /\ Made' = Made \cup {Len(calls) + 1} /\ Len(calls) + 1 \notin Made
         /\ \A c \in Made : calls'[c] = calls[c]
         /\ calls'[Len(calls) + 1] = r
<1>1. calls \in Seq(Call)
  BY DEF GenerationTypeOK, Call
<1>2. Len(calls) \in Nat
  BY <1>1, LenProperties
<1>3. /\ calls' \in Seq(Call) /\ Len(calls') = Len(calls) + 1
      /\ \A i \in 1..Len(calls) : calls'[i] = calls[i]
      /\ calls'[Len(calls) + 1] = r
  BY <1>1, AppendProperties
<1> QED
  BY <1>2, <1>3 DEF Made

\* One call changes its state.
LEMMA OneCallMoves ==
  ASSUME GenerationTypeOK, NEW c \in Made, NEW s \in {"queued", "running", "over", "dead"},
         calls' = [calls EXCEPT ![c].st = s]
  PROVE  /\ calls' \in Seq(Call) /\ Made' = Made
         /\ \A d \in Made : d # c => calls'[d] = calls[d]
         /\ calls'[c].st = s /\ calls'[c].on = calls[c].on /\ calls'[c].kind = calls[c].kind
<1>1. calls \in Seq(Call)
  BY DEF GenerationTypeOK, Call
<1>2. calls[c] \in Call
  BY <1>1, ElementOfSeq DEF Made
<1>3. [calls[c] EXCEPT !.st = s] \in Call
  BY <1>2 DEF Call
<1>4. calls' = [calls EXCEPT ![c] = [calls[c] EXCEPT !.st = s]]
  OBVIOUS
<1>5. /\ calls' \in Seq(Call) /\ Len(calls') = Len(calls)
      /\ \A i \in 1..Len(calls) : calls'[i] = IF i = c THEN [calls[c] EXCEPT !.st = s] ELSE calls[i]
  BY <1>1, <1>3, <1>4, ExceptSeq DEF Made
<1> QED
  BY <1>2, <1>5 DEF Made, Call

\* Every step keeps the calls and the locks in agreement.
LEMMA CallsNext ==
  ASSUME GenerationInv, GenerationNext
  PROVE  GenerationInv'
<1>0. /\ calls \in Seq(Call) /\ lock \in [Agents -> Seq(Nat)]
      /\ lock_loop \in [Agents -> Nat] /\ this_loop \in Nat /\ this_loop > 0
      /\ GenerationTypeOK
      /\ \A a \in Agents : lock_loop[a] <= this_loop
  BY DEF GenerationInv, GenerationTypeOK, Call
<1>1. \A c \in Made : c \in Nat /\ calls[c] \in Call /\ calls[c].on \in Agents
  <2>1. \A c \in Made : c \in 1..Len(calls) /\ Len(calls) \in Nat /\ calls[c] \in Call
    BY <1>0, ElementOfSeq, LenProperties DEF Made
  <2> QED
    BY <2>1 DEF Call
<1>2. \A c \in Made : Active(c) /\ calls[c].kind = "serial" => AtTheLock(c)
  BY DEF GenerationInv
<1>3. ASSUME calls' \in Seq(Call), lock' \in [Agents -> Seq(Nat)], lock_loop' \in [Agents -> Nat],
             this_loop' \in Nat, this_loop' > 0, \A a \in Agents : lock_loop'[a] <= this_loop',
             \A c \in Made' : Active(c)' /\ calls'[c].kind = "serial" => AtTheLock(c)'
      PROVE  GenerationInv'
  BY <1>3 DEF GenerationInv, GenerationTypeOK, Call
<1>a. ASSUME NEW a \in Agents, NEW k \in {"serial", "free"}, CallOutside(a, k) PROVE GenerationInv'
  <2> DEFINE n == Len(calls) + 1
  <2>1. CASE k = "serial"
    <3> DEFINE r == [st |-> "queued", on |-> a, by |-> 0, kind |-> k]
    <3>1. /\ calls' = Append(calls, r) /\ this_loop' = this_loop
          /\ lock' = [lock EXCEPT ![a] = Append(EnsuredLock(a), n)]
          /\ lock_loop' = [lock_loop EXCEPT ![a] = this_loop]
      BY <1>a, <2>1 DEF CallOutside, With
    <3>2. r \in Call
      BY DEF Call
    <3>3. /\ calls' \in Seq(Call) /\ Len(calls) \in Nat
          /\ Made' = Made \cup {n} /\ n \notin Made
          /\ \A c \in Made : calls'[c] = calls[c]
          /\ calls'[n] = r
      BY <1>0, <3>1, <3>2, OneMoreCall
    <3> HIDE DEF r
    <3>4. EnsuredLock(a) \in Seq(Nat) /\ n \in Nat
      <4>1. <<>> \in Seq(Nat)
        OBVIOUS
      <4> QED
        BY <1>0, <3>3, <4>1 DEF EnsuredLock
    <3> DEFINE q == EnsuredLock(a)
    <3>5. Append(q, n) \in Seq(Nat) /\ Members(Append(q, n)) = Members(q) \cup {n}
      <4>1. /\ Append(q, n) \in Seq(Nat) /\ Len(Append(q, n)) = Len(q) + 1
            /\ \A i \in 1..Len(q) : Append(q, n)[i] = q[i]
            /\ Append(q, n)[Len(q) + 1] = n /\ Len(q) \in Nat
        BY <3>4, AppendProperties, LenProperties
      <4>2. 1..(Len(q) + 1) = (1..Len(q)) \cup {Len(q) + 1}
        BY <4>1
      <4> HIDE DEF q
      <4> QED
        BY <4>1, <4>2 DEF Members
    <3>6. q # <<>> => Head(Append(q, n)) = Head(q)
      BY <3>4, HeadTailAppend
    <3> HIDE DEF q
    <3>7. ASSUME NEW c \in Made', Active(c)', calls'[c].kind = "serial" PROVE AtTheLock(c)'
      <4>1. CASE c = n
        <5>1. calls'[c].on = a /\ calls'[c].st = "queued"
          BY <4>1, <3>3 DEF r
        <5> QED
          BY <5>1, <4>1, <1>0, <3>1, <3>5 DEF AtTheLock, q
      <4>2. CASE c \in Made
        <5>1. calls'[c] = calls[c] /\ AtTheLock(c) /\ calls[c].on \in Agents
          BY <4>2, <3>3, <3>7, <1>1, <1>2 DEF Active
        <5>2. CASE calls[c].on # a
          BY <5>1, <5>2, <1>0, <3>1 DEF AtTheLock
        <5>3. CASE calls[c].on = a
          <6>1. q = lock[a]
            BY <5>1, <5>3, <1>0 DEF AtTheLock, q, EnsuredLock
          <6>2. lock[a] \in Seq(Nat) /\ c \in Members(lock[a])
            BY <5>1, <5>3, <1>0 DEF AtTheLock
          <6>3. q # <<>>
            BY <6>1, <6>2, HeadMember
          <6> QED
            BY <5>1, <5>3, <6>1, <6>2, <6>3, <1>0, <3>1, <3>5, <3>6 DEF AtTheLock, q
        <5> QED
          BY <5>2, <5>3
      <4> QED
        BY <3>3, <4>1, <4>2
    <3>8. lock' \in [Agents -> Seq(Nat)] /\ lock_loop' \in [Agents -> Nat]
          /\ \A b \in Agents : lock_loop'[b] <= this_loop'
      BY <1>0, <3>1, <3>5 DEF q
    <3> QED
      BY <1>0, <1>3, <3>1, <3>3, <3>7, <3>8
  <2>2. CASE k = "free"
    <3> DEFINE r == [st |-> "running", on |-> a, by |-> 0, kind |-> k]
    <3>1. calls' = Append(calls, r) /\ UNCHANGED <<lock, lock_loop, this_loop>>
      BY <1>a, <2>2 DEF CallOutside, With
    <3>2. r \in Call /\ r.kind # "serial"
      BY <2>2 DEF Call
    <3>3. /\ calls' \in Seq(Call) /\ Made' = Made \cup {n}
          /\ \A c \in Made : calls'[c] = calls[c]
          /\ calls'[n] = r
      BY <1>0, <3>1, <3>2, OneMoreCall
    <3> HIDE DEF r
    <3>4. ASSUME NEW c \in Made', Active(c)', calls'[c].kind = "serial" PROVE AtTheLock(c)'
      BY <3>1, <3>2, <3>3, <3>4, <1>2 DEF AtTheLock, Active
    <3> QED
      BY <1>0, <1>3, <3>1, <3>3, <3>4
  <2> QED
    BY <2>1, <2>2
<1>b. ASSUME NEW p \in Made, NEW a \in Agents, NEW k \in {"awaited", "task"}, CallInside(p, a, k)
      PROVE  GenerationInv'
  <2> DEFINE r == [st |-> "running", on |-> a, by |-> p, kind |-> k]
             n == Len(calls) + 1
  <2>1. calls' = Append(calls, r) /\ UNCHANGED <<lock, lock_loop, this_loop>>
    BY <1>b DEF CallInside, With
  <2>2. r \in Call /\ r.kind # "serial"
    BY <1>1 DEF Call
  <2>3. /\ calls' \in Seq(Call) /\ Made' = Made \cup {n}
        /\ \A c \in Made : calls'[c] = calls[c]
        /\ calls'[n] = r
    BY <1>0, <2>1, <2>2, OneMoreCall
  <2> HIDE DEF r
  <2>4. ASSUME NEW c \in Made', Active(c)', calls'[c].kind = "serial" PROVE AtTheLock(c)'
    BY <2>1, <2>2, <2>3, <2>4, <1>2 DEF AtTheLock, Active
  <2> QED
    BY <1>0, <1>3, <2>1, <2>3, <2>4
<1>c. ASSUME NEW c \in Made, LockGranted(c) PROVE GenerationInv'
  <2>1. /\ calls[c].st = "queued" /\ Head(lock[calls[c].on]) = c
        /\ calls' = [calls EXCEPT ![c].st = "running"]
        /\ UNCHANGED <<lock, lock_loop, this_loop>>
    BY <1>c DEF LockGranted
  <2>2. /\ calls' \in Seq(Call) /\ Made' = Made
        /\ \A d \in Made : d # c => calls'[d] = calls[d]
        /\ calls'[c].st = "running" /\ calls'[c].on = calls[c].on /\ calls'[c].kind = calls[c].kind
    BY <1>0, <2>1, OneCallMoves
  <2>3. ASSUME NEW d \in Made', Active(d)', calls'[d].kind = "serial" PROVE AtTheLock(d)'
    <3>1. CASE d = c
      BY <2>1, <2>2, <2>3, <3>1, <1>2 DEF AtTheLock, Active
    <3>2. CASE d # c
      BY <2>1, <2>2, <2>3, <3>2, <1>2 DEF AtTheLock, Active
    <3> QED
      BY <3>1, <3>2
  <2> QED
    BY <1>0, <1>3, <2>1, <2>2, <2>3
<1>d. ASSUME NEW c \in Made, CallEnds(c) PROVE GenerationInv'
  <2>1. /\ calls' = [calls EXCEPT ![c].st = "over"] /\ UNCHANGED <<lock_loop, this_loop>>
        /\ \A a \in Agents : lock'[a] = IF lock[a] # <<>> /\ Head(lock[a]) = c THEN Tail(lock[a]) ELSE lock[a]
        /\ DOMAIN lock' = Agents
        /\ lock' = [a \in Agents |-> lock'[a]]
    BY <1>d DEF CallEnds
  <2>2. /\ calls' \in Seq(Call) /\ Made' = Made
        /\ \A d \in Made : d # c => calls'[d] = calls[d]
        /\ calls'[c].st = "over"
    BY <1>0, <2>1, OneCallMoves
  <2>3. ASSUME NEW a \in Agents PROVE lock'[a] \in Seq(Nat)
    <3>1. lock[a] \in Seq(Nat)
      BY <1>0
    <3>2. lock[a] # <<>> => Tail(lock[a]) \in Seq(Nat)
      BY <3>1, HeadTailProperties
    <3> QED
      BY <2>1, <3>1, <3>2
  <2>4. lock' \in [Agents -> Seq(Nat)]
    BY <2>1, <2>3
  <2>5. ASSUME NEW d \in Made', Active(d)', calls'[d].kind = "serial" PROVE AtTheLock(d)'
    <3>1. d # c /\ d \in Made /\ calls'[d] = calls[d]
      BY <2>2, <2>5 DEF Active
    <3>2. AtTheLock(d) /\ calls[d].on \in Agents
      BY <3>1, <2>5, <1>1, <1>2 DEF Active
    <3> DEFINE q == lock[calls[d].on]
    <3>3. q \in Seq(Nat) /\ d \in Members(q)
      BY <3>2, <1>0 DEF AtTheLock
    <3>4. CASE Head(q) = c
      <4>1. calls[d].st # "running" /\ q # <<>> /\ d \in Members(Tail(q))
        BY <3>1, <3>2, <3>3, <3>4, HeadMember DEF AtTheLock
      <4>2. lock'[calls[d].on] = Tail(q)
        BY <2>1, <3>2, <3>4, <4>1
      <4> QED
        BY <2>1, <3>1, <3>2, <4>1, <4>2 DEF AtTheLock
    <3>5. CASE Head(q) # c
      BY <2>1, <3>1, <3>2, <3>5 DEF AtTheLock
    <3> QED
      BY <3>4, <3>5
  <2> QED
    BY <1>0, <1>3, <2>1, <2>2, <2>4, <2>5
<1>e. ASSUME NEW c \in Made, CancelQueued(c) PROVE GenerationInv'
  <2>1. /\ calls' = [calls EXCEPT ![c].st = "over"] /\ UNCHANGED <<lock_loop, this_loop>>
        /\ lock' = [a \in Agents |-> Without(lock[a], c)]
    BY <1>e DEF CancelQueued
  <2>2. /\ calls' \in Seq(Call) /\ Made' = Made
        /\ \A d \in Made : d # c => calls'[d] = calls[d]
        /\ calls'[c].st = "over"
    BY <1>0, <2>1, OneCallMoves
  <2>3. lock' \in [Agents -> Seq(Nat)]
    BY <1>0, <2>1, WithoutType
  <2>4. ASSUME NEW d \in Made', Active(d)', calls'[d].kind = "serial" PROVE AtTheLock(d)'
    <3>1. d # c /\ d \in Made /\ calls'[d] = calls[d]
      BY <2>2, <2>4 DEF Active
    <3>2. AtTheLock(d) /\ calls[d].on \in Agents
      BY <3>1, <2>4, <1>1, <1>2 DEF Active
    <3> DEFINE q == lock[calls[d].on]
    <3>3. q \in Seq(Nat) /\ d \in Members(q) /\ lock'[calls[d].on] = Without(q, c)
      BY <2>1, <3>2, <1>0 DEF AtTheLock
    <3>4. d \in Members(Without(q, c)) /\ (Head(q) = d => Head(Without(q, c)) = d)
      BY <3>1, <3>3, HeadMember, WithoutOthers
    <3> QED
      BY <2>1, <3>1, <3>2, <3>3, <3>4 DEF AtTheLock
  <2> QED
    BY <1>0, <1>3, <2>1, <2>2, <2>3, <2>4
<1>f. ASSUME LoopDies PROVE GenerationInv'
  <2>1. /\ this_loop' = this_loop + 1 /\ UNCHANGED <<lock, lock_loop>>
        /\ calls' = [c \in Made |-> IF Active(c) THEN [calls[c] EXCEPT !.st = "dead"] ELSE calls[c]]
    BY <1>f DEF LoopDies
  <2>2. \A c \in Made : /\ calls'[c] \in Call
                        /\ calls'[c].st \notin {"queued", "running"}
    BY <1>1, <2>1 DEF Call, Active
  <2>3. calls' \in [1..Len(calls) -> Call] /\ Len(calls) \in Nat
    BY <1>0, <2>1, <2>2, LenProperties DEF Made
  <2>4. calls' \in Seq(Call)
    BY <2>3, SeqDef
  <2>5. Made' = Made
    <3>1. Len(calls') \in Nat /\ DOMAIN calls' = 1..Len(calls')
      BY <2>4, LenProperties
    <3>2. DOMAIN calls' = 1..Len(calls)
      BY <2>3
    <3> QED
      BY <3>1, <3>2 DEF Made
  <2>6. \A c \in Made' : ~Active(c)'
    BY <2>2, <2>5 DEF Active
  <2>7. this_loop' \in Nat /\ this_loop' > 0 /\ \A a \in Agents : lock_loop'[a] <= this_loop'
    BY <1>0, <2>1
  <2> QED
    BY <1>0, <1>3, <2>1, <2>4, <2>6, <2>7
<1> QED
  BY <1>a, <1>b, <1>c, <1>d, <1>e, <1>f DEF GenerationNext

\* However outside calls, nested calls, cancellations and dying event loops
\* interleave, on any number of agents: of the generations that outside callers
\* asked for on one agent with a strategy that needs the lock, one runs at a
\* time.
THEOREM GenerationsTakeTurns == GenerationSpec => []OneAtATime
<1>1. GenerationInit => GenerationInv
  <2> SUFFICES ASSUME GenerationInit PROVE GenerationInv
    OBVIOUS
  <2>1. <<>> \in Seq(Nat) /\ <<>> \in Seq(Call)
    OBVIOUS
  <2>2. Made = {}
    BY DEF GenerationInit, Made
  <2> QED
    BY <2>1, <2>2 DEF GenerationInit, GenerationInv, GenerationTypeOK, Call
<1>2. GenerationInv /\ [GenerationNext]_generationVars => GenerationInv'
  <2> SUFFICES ASSUME GenerationInv, UNCHANGED generationVars PROVE GenerationInv'
    BY CallsNext
  <2> QED
    BY DEF generationVars, GenerationInv, GenerationTypeOK, AtTheLock, Made, Active
<1>3. GenerationInv => OneAtATime
  BY DEF GenerationInv, OneAtATime, AtTheLock, Serialized, Active
<1> QED
  BY <1>1, <1>2, <1>3, PTL DEF GenerationSpec

----------------------------------------------------------------------------
(***************************************************************************)
(* The drain of an event manager.                                          *)
(***************************************************************************)

DrainState == {"new", "running", "done", "aborted"}

\* What an owner's drain has to run is registered before the drain starts, and
\* then it is in the drain's list, under way or over.
Owing(k) ==
  /\ Is(joined[k], "new") => owed[k] \subseteq Members(close_callbacks)
  /\ Is(joined[k], "running") => owed[k] \subseteq ended \cup Members(draining) \cup {current}
  /\ Is(joined[k], "done") => owed[k] \subseteq ended
  /\ owner[k] \in {"returned", "raised"} => Is(joined[k], "done")

\* All drains but the one that owners join are over, and only that one works
\* on the list.
OneDrain ==
  /\ \A t \in 1..Len(drains) : t # close_task => drains[t] \in {"done", "aborted"}
  /\ current # Nobody \/ draining # <<>> => Is(close_task, "running")

DrainInv ==
  /\ DrainTypeOK
  /\ OneDrain
  /\ \A k \in Owners : Owing(k)

\* What the last element of a queue leaves behind.
LEMMA LastMember ==
  ASSUME NEW S, NEW q \in Seq(S), q # <<>>
  PROVE  /\ q[Len(q)] \in S
         /\ SubSeq(q, 1, Len(q) - 1) \in Seq(S)
         /\ Members(q) \subseteq Members(SubSeq(q, 1, Len(q) - 1)) \cup {q[Len(q)]}
<1> DEFINE r == SubSeq(q, 1, Len(q) - 1)
<1>1. Len(q) \in Nat /\ Len(q) # 0
  BY LenProperties, EmptySeq
<1>2. \A i \in 1..Len(q) : q[i] \in S
  BY ElementOfSeq
<1>3. /\ r \in Seq(S) /\ Len(r) = Len(q) - 1
      /\ \A i \in 1..(Len(q) - 1) : r[i] = q[i]
  <2>1. CASE Len(q) = 1
    <3>1. r = <<>>
      BY <2>1, SubSeqEmpty
    <3> QED
      BY <2>1, <3>1
  <2>2. CASE Len(q) # 1
    <3>1. Len(q) - 1 \in Nat /\ 1 <= Len(q) - 1 /\ \A i \in 1..(Len(q) - 1) : i \in 1..Len(q)
      <4>1. \A n \in Nat : n # 0 /\ n # 1 =>
              n - 1 \in Nat /\ 1 <= n - 1 /\ \A i \in 1..(n - 1) : i \in 1..n
        OBVIOUS
      <4> QED
        BY <1>1, <2>2, <4>1
    <3>2. \A i \in 1..(Len(q) - 1) : q[i] \in S
      BY <1>2, <3>1
    <3>3. 1 \in Int /\ Len(q) - 1 \in Int
      BY <3>1
    <3>4. /\ r \in Seq(S)
          /\ Len(r) = IF 1 <= Len(q) - 1 THEN Len(q) - 1 - 1 + 1 ELSE 0
          /\ \A i \in 1..(Len(q) - 1 - 1 + 1) : r[i] = q[1 + i - 1]
      BY <3>2, <3>3, SubSeqProperties
    <3> HIDE DEF r
    <3>5. Len(q) - 1 - 1 + 1 = Len(q) - 1 /\ \A i \in 1..(Len(q) - 1) : 1 + i - 1 = i
      BY <1>1
    <3>6. Len(r) = Len(q) - 1
      BY <3>1, <3>4, <3>5
    <3>7. \A i \in 1..(Len(q) - 1) : r[i] = q[i]
      BY <3>4, <3>5
    <3> QED
      BY <3>4, <3>6, <3>7
  <2> QED
    BY <2>1, <2>2
<1> HIDE DEF r
<1>4. ASSUME NEW x \in Members(q), x # q[Len(q)] PROVE x \in Members(r)
  <2>1. PICK i \in 1..Len(q) : x = q[i]
    BY DEF Members
  <2>2. i \in 1..Len(r) /\ r[i] = x
    BY <1>1, <1>3, <1>4, <2>1
  <2> QED
    BY <2>2 DEF Members
<1> QED
  BY <1>1, <1>2, <1>3, <1>4 DEF r

\* A queue that grows by one holds what it held and the new one.
LEMMA OneMoreMember ==
  ASSUME NEW S, NEW q \in Seq(S), NEW c \in S
  PROVE  /\ Append(q, c) \in Seq(S) /\ Len(Append(q, c)) = Len(q) + 1 /\ Len(q) \in Nat
         /\ Members(Append(q, c)) = Members(q) \cup {c}
<1> DEFINE r == Append(q, c)
<1>1. /\ r \in Seq(S) /\ Len(r) = Len(q) + 1 /\ Len(q) \in Nat
      /\ \A i \in 1..Len(q) : r[i] = q[i]
      /\ r[Len(q) + 1] = c
  BY AppendProperties, LenProperties
<1> HIDE DEF r
<1>2. \A i \in 1..Len(r) : i \in 1..Len(q) \/ i = Len(q) + 1
  BY <1>1
<1>3. 1..Len(q) \subseteq 1..Len(r) /\ Len(q) + 1 \in 1..Len(r)
  BY <1>1
<1>4. Members(r) \subseteq Members(q) \cup {c}
  BY <1>1, <1>2 DEF Members
<1>5. Members(q) \cup {c} \subseteq Members(r)
  BY <1>1, <1>3 DEF Members
<1> QED
  BY <1>1, <1>4, <1>5 DEF r

\* A drain moves on: only its own state changes.
LEMMA OneDrainMoves ==
  ASSUME DrainTypeOK, NEW st \in DrainState, close_task # 0, Step(close_task, st)
  PROVE  /\ close_task \in 1..Len(drains)
         /\ drains' \in Seq(DrainState) /\ Len(drains') = Len(drains)
         /\ \A t \in 1..Len(drains) : drains'[t] = IF t = close_task THEN st ELSE drains[t]
<1>1. drains \in Seq(DrainState) /\ Len(drains) \in Nat
  BY LenProperties DEF DrainTypeOK, DrainState
<1>2. close_task \in 1..Len(drains)
  BY <1>1 DEF DrainTypeOK
<1>3. drains' = [drains EXCEPT ![close_task] = st]
  BY DEF Step
<1> QED
  BY <1>1, <1>2, <1>3, ExceptSeq

\* Every step of the callbacks, the drain and its owners keeps the invariant.
LEMMA DrainStep ==
  ASSUME DrainInv, DrainNext
  PROVE  DrainInv'
<1>0. /\ close_callbacks \in Seq(Callbacks) /\ unused \subseteq Callbacks
      /\ drains \in Seq(DrainState) /\ Len(drains) \in Nat /\ close_task \in 0..Len(drains)
      /\ draining \in Seq(Callbacks) /\ current \in Callbacks \cup {Nobody}
      /\ owner \in [Owners -> {"idle", "waiting", "nested", "returned", "raised", "aborted"}]
      /\ joined \in [Owners -> 0..Len(drains)] /\ cancelled \subseteq Owners
      /\ ended \subseteq Callbacks /\ owed \in [Owners -> SUBSET Callbacks]
      /\ DrainTypeOK
  BY LenProperties DEF DrainInv, DrainTypeOK, DrainState
<1>1. OneDrain /\ \A k \in Owners : Owing(k)
  BY DEF DrainInv
<1>2. (/\ close_callbacks' \in Seq(Callbacks) /\ unused' \subseteq Callbacks
       /\ drains' \in Seq(DrainState) /\ close_task' \in 0..Len(drains')
       /\ draining' \in Seq(Callbacks) /\ current' \in Callbacks \cup {Nobody}
       /\ owner' \in [Owners -> {"idle", "waiting", "nested", "returned", "raised", "aborted"}]
       /\ joined' \in [Owners -> 0..Len(drains')] /\ cancelled' \subseteq Owners
       /\ ended' \subseteq Callbacks /\ owed' \in [Owners -> SUBSET Callbacks]
       /\ OneDrain' /\ \A k \in Owners : Owing(k)') => DrainInv'
  BY DEF DrainInv, DrainTypeOK, DrainState
<1>3. \A k \in Owners : joined[k] # 0 => joined[k] \in 1..Len(drains)
  BY <1>0
<1>a. ASSUME NEW c \in Callbacks, OnClose(c) PROVE DrainInv'
  <2>1. /\ close_callbacks' = Append(close_callbacks, c) /\ unused' = unused \ {c}
        /\ owed' = [k \in Owners |-> IF Is(joined[k], "new") THEN owed[k] \cup {c} ELSE owed[k]]
        /\ UNCHANGED <<drains, close_task, draining, current, owner, joined, cancelled, ended>>
    BY <1>a DEF OnClose
  <2>2. /\ close_callbacks' \in Seq(Callbacks)
        /\ Members(close_callbacks') = Members(close_callbacks) \cup {c}
    BY <1>0, <2>1, OneMoreMember
  <2>3. owed' \in [Owners -> SUBSET Callbacks]
    BY <1>0, <2>1
  <2>4. OneDrain'
    BY <1>1, <2>1 DEF OneDrain, Is
  <2>5. ASSUME NEW k \in Owners PROVE Owing(k)'
    BY <1>1, <2>1, <2>2 DEF Owing, Is
  <2> QED
    BY <1>0, <1>2, <2>1, <2>2, <2>3, <2>4, <2>5
<1>b. ASSUME NEW c \in Callbacks, Unsubscribe(c) PROVE DrainInv'
  <2>1. /\ close_callbacks' = Without(close_callbacks, c)
        /\ owed' = [k \in Owners |-> owed[k] \ {c}]
        /\ UNCHANGED <<drains, close_task, draining, current, owner, joined, cancelled, unused, ended>>
    BY <1>b DEF Unsubscribe
  <2>2. /\ close_callbacks' \in Seq(Callbacks)
        /\ Members(close_callbacks) \ {c} \subseteq Members(close_callbacks')
    BY <1>0, <2>1, WithoutType, WithoutOthers
  <2>3. owed' \in [Owners -> SUBSET Callbacks]
    BY <1>0, <2>1
  <2>4. OneDrain'
    BY <1>1, <2>1 DEF OneDrain, Is
  <2>5. ASSUME NEW k \in Owners PROVE Owing(k)'
    BY <1>1, <2>1, <2>2 DEF Owing, Is
  <2> QED
    BY <1>0, <1>2, <2>1, <2>2, <2>3, <2>4, <2>5
<1>c. ASSUME NEW k \in Owners, Aclose(k) PROVE DrainInv'
  <2>1. /\ owner[k] = "idle" /\ owner' = [owner EXCEPT ![k] = "waiting"]
        /\ joined' = [joined EXCEPT ![k] = close_task']
        /\ owed' = [owed EXCEPT ![k] = UnderWay]
        /\ UNCHANGED <<close_callbacks, draining, current, cancelled, unused, ended>>
    BY <1>c DEF Aclose
  <2>2. /\ drains' \in Seq(DrainState) /\ Len(drains') \in Nat /\ Len(drains) <= Len(drains')
        /\ \A t \in 1..Len(drains) : drains'[t] = drains[t]
        /\ close_task' \in 1..Len(drains')
        /\ \/ close_task = 0 /\ drains'[close_task'] = "new" /\ Len(drains') = Len(drains) + 1
              /\ close_task' = Len(drains) + 1
           \/ close_task # 0 /\ UNCHANGED <<close_task, drains>>
    <3>1. CASE close_task = 0
      <4>1. drains' = Append(drains, "new") /\ close_task' = Len(drains) + 1
        BY <1>c, <3>1 DEF Aclose
      <4>2. "new" \in DrainState
        BY DEF DrainState
      <4>3. /\ drains' \in Seq(DrainState) /\ Len(drains') = Len(drains) + 1
            /\ \A t \in 1..Len(drains) : drains'[t] = drains[t]
            /\ drains'[Len(drains) + 1] = "new"
        BY <1>0, <4>1, <4>2, AppendProperties
      <4> QED
        BY <1>0, <3>1, <4>1, <4>3
    <3>2. CASE close_task # 0
      <4>1. UNCHANGED <<close_task, drains>>
        BY <1>c, <3>2 DEF Aclose
      <4> QED
        BY <1>0, <3>2, <4>1
    <3> QED
      BY <3>1, <3>2
  <2>3. UnderWay \subseteq Callbacks
    <3>1. Members(close_callbacks) \subseteq Callbacks /\ Members(draining) \subseteq Callbacks
      BY <1>0, ElementOfSeq DEF Members
    <3> QED
      BY <1>0, <3>1 DEF UnderWay
  <2>4. /\ owner' \in [Owners -> {"idle", "waiting", "nested", "returned", "raised", "aborted"}]
        /\ joined' \in [Owners -> 0..Len(drains')] /\ owed' \in [Owners -> SUBSET Callbacks]
        /\ close_task' \in 0..Len(drains')
    BY <1>0, <2>1, <2>2, <2>3
  <2>5. OneDrain'
    <3>1. \A t \in 1..Len(drains') : t # close_task' => drains'[t] \in {"done", "aborted"}
      <4>1. CASE close_task = 0
        <5>1. \A t \in 1..Len(drains') : t # close_task' => t \in 1..Len(drains) /\ t # close_task
          BY <1>0, <2>2, <4>1
        <5> QED
          BY <1>1, <2>2, <5>1 DEF OneDrain
      <4>2. CASE close_task # 0
        BY <1>1, <2>2, <4>2 DEF OneDrain
      <4> QED
        BY <4>1, <4>2
    <3>2. current' # Nobody \/ draining' # <<>> => Is(close_task, "running")'
      BY <1>1, <2>1, <2>2 DEF OneDrain, Is
    <3> QED
      BY <3>1, <3>2 DEF OneDrain
  <2>6. Owing(k)'
    <3>1. joined'[k] = close_task' /\ owed'[k] = UnderWay /\ owner'[k] = "waiting" /\ close_task' # 0
      BY <1>0, <2>1, <2>2
    <3>2. CASE close_task = 0
      BY <2>1, <2>2, <3>1, <3>2 DEF Owing, Is, UnderWay
    <3>3. CASE close_task # 0
      BY <2>1, <2>2, <3>1, <3>3 DEF Owing, Is, UnderWay
    <3> QED
      BY <3>2, <3>3
  <2>7. ASSUME NEW l \in Owners, l # k PROVE Owing(l)'
    <3>1. joined'[l] = joined[l] /\ owed'[l] = owed[l] /\ owner'[l] = owner[l]
      BY <1>0, <2>1, <2>7
    <3> QED
      BY <1>1, <1>3, <2>1, <2>2, <3>1 DEF Owing, Is
  <2> QED
    BY <1>0, <1>2, <2>1, <2>2, <2>4, <2>5, <2>6, <2>7
<1>d. ASSUME NEW k \in Owners, OwnerCancelled(k) PROVE DrainInv'
  BY <1>0, <1>1, <1>2, <1>d DEF OwnerCancelled, OneDrain, Owing, Is
<1>k. ASSUME NEW k \in Owners, AcloseWithin(k) PROVE DrainInv'
  BY <1>0, <1>1, <1>2, <1>k DEF AcloseWithin, OneDrain, Owing, Is
<1>e. ASSUME NEW k \in Owners, OwnerLeaves(k) PROVE DrainInv'
  <2>1. /\ close_task' = IF close_task = joined[k] THEN 0 ELSE close_task
        /\ DrainOver(joined[k])
        /\ owner' = [owner EXCEPT ![k] = IF Is(joined[k], "aborted") THEN "aborted"
                                         ELSE IF k \in cancelled THEN "raised" ELSE "returned"]
        /\ UNCHANGED <<close_callbacks, drains, draining, current, joined, cancelled, unused, ended, owed>>
    BY <1>e DEF OwnerLeaves
  <2>2. close_task' \in 0..Len(drains')
    BY <1>0, <2>1
  <2>3. owner' \in [Owners -> {"idle", "waiting", "nested", "returned", "raised", "aborted"}]
    BY <1>0, <2>1
  <2>4. OneDrain'
    BY <1>0, <1>1, <2>1 DEF OneDrain, Is, DrainOver
  <2>5. ASSUME NEW l \in Owners PROVE Owing(l)'
    BY <1>0, <1>1, <2>1 DEF Owing, Is, DrainOver
  <2> QED
    BY <1>0, <1>2, <2>1, <2>2, <2>3, <2>4, <2>5
<1>f. ASSUME DrainStarts PROVE DrainInv'
  <2>1. /\ close_task # 0 /\ drains[close_task] = "new" /\ Step(close_task, "running")
        /\ draining' = close_callbacks /\ close_callbacks' = <<>>
        /\ UNCHANGED <<close_task, current, owner, joined, cancelled, unused, ended, owed>>
    BY <1>f DEF DrainStarts, Is
  <2>2. "running" \in DrainState
    BY DEF DrainState
  <2>3. /\ close_task \in 1..Len(drains)
        /\ drains' \in Seq(DrainState) /\ Len(drains') = Len(drains)
        /\ \A t \in 1..Len(drains) : drains'[t] = IF t = close_task THEN "running" ELSE drains[t]
    BY <1>0, <2>1, <2>2, OneDrainMoves
  <2>4. OneDrain'
    BY <1>1, <2>1, <2>3 DEF OneDrain, Is
  <2>5. ASSUME NEW l \in Owners PROVE Owing(l)'
    BY <1>1, <1>3, <2>1, <2>3 DEF Owing, OneDrain, Is
  <2> QED
    BY <1>0, <1>2, <2>1, <2>3, <2>4, <2>5
<1>g. ASSUME DrainAborted PROVE DrainInv'
  <2>1. /\ close_task # 0 /\ drains[close_task] = "new" /\ Step(close_task, "aborted")
        /\ UNCHANGED <<close_callbacks, close_task, draining, current, owner, joined, cancelled, unused, ended, owed>>
    BY <1>g DEF DrainAborted, Is
  <2>2. "aborted" \in DrainState
    BY DEF DrainState
  <2>3. /\ close_task \in 1..Len(drains)
        /\ drains' \in Seq(DrainState) /\ Len(drains') = Len(drains)
        /\ \A t \in 1..Len(drains) : drains'[t] = IF t = close_task THEN "aborted" ELSE drains[t]
    BY <1>0, <2>1, <2>2, OneDrainMoves
  <2>4. OneDrain'
    BY <1>1, <2>1, <2>3 DEF OneDrain, Is
  <2>5. ASSUME NEW l \in Owners PROVE Owing(l)'
    BY <1>1, <1>3, <2>1, <2>3 DEF Owing, OneDrain, Is
  <2> QED
    BY <1>0, <1>2, <2>1, <2>3, <2>4, <2>5
<1>h. ASSUME CallbackStarts PROVE DrainInv'
  <2>1. /\ Is(close_task, "running") /\ current = Nobody /\ draining # <<>>
        /\ current' = draining[Len(draining)]
        /\ draining' = SubSeq(draining, 1, Len(draining) - 1)
        /\ UNCHANGED <<close_callbacks, drains, close_task, owner, joined, cancelled, unused, ended, owed>>
    BY <1>h DEF CallbackStarts
  <2>2. /\ current' \in Callbacks /\ draining' \in Seq(Callbacks)
        /\ Members(draining) \subseteq Members(draining') \cup {current'}
    BY <1>0, <2>1, LastMember
  <2>3. OneDrain'
    BY <1>1, <2>1 DEF OneDrain, Is
  <2>4. ASSUME NEW l \in Owners PROVE Owing(l)'
    <3>1. owed[l] \subseteq Callbacks /\ Nobody \notin Callbacks
      BY <1>0, DrainAssumption DEF Nobody
    <3> QED
      BY <1>1, <2>1, <2>2, <3>1 DEF Owing, Is
  <2> QED
    BY <1>0, <1>2, <2>1, <2>2, <2>3, <2>4
<1>i. ASSUME CallbackEnds PROVE DrainInv'
  <2>1. /\ current # Nobody /\ ended' = ended \cup {current} /\ current' = Nobody
        /\ UNCHANGED <<close_callbacks, drains, close_task, draining, owner, joined, cancelled, unused, owed>>
    BY <1>i DEF CallbackEnds
  <2>2. OneDrain'
    BY <1>1, <2>1 DEF OneDrain, Is
  <2>3. ASSUME NEW l \in Owners PROVE Owing(l)'
    BY <1>1, <2>1 DEF Owing, Is
  <2> QED
    BY <1>0, <1>2, <2>1, <2>2, <2>3
<1>j. ASSUME DrainEnds PROVE DrainInv'
  <2>1. /\ close_task # 0 /\ drains[close_task] = "running" /\ current = Nobody /\ draining = <<>>
        /\ Step(close_task, "done")
        /\ UNCHANGED <<close_callbacks, close_task, draining, current, owner, joined, cancelled, unused, ended, owed>>
    BY <1>j DEF DrainEnds, Is
  <2>2. "done" \in DrainState
    BY DEF DrainState
  <2>3. /\ close_task \in 1..Len(drains)
        /\ drains' \in Seq(DrainState) /\ Len(drains') = Len(drains)
        /\ \A t \in 1..Len(drains) : drains'[t] = IF t = close_task THEN "done" ELSE drains[t]
    BY <1>0, <2>1, <2>2, OneDrainMoves
  <2>4. OneDrain'
    BY <1>1, <2>1, <2>3 DEF OneDrain, Is
  <2>5. Members(draining) = {} /\ Nobody \notin Callbacks
    BY <2>1, ShortMembers, DrainAssumption DEF Nobody
  <2>6. ASSUME NEW l \in Owners PROVE Owing(l)'
    <3>1. owed[l] \subseteq Callbacks
      BY <1>0
    <3>2. Is(joined[l], "running") => owed[l] \subseteq ended
      BY <1>1, <2>1, <2>5, <3>1 DEF Owing
    <3> QED
      BY <1>1, <1>3, <2>1, <2>3, <3>2 DEF Owing, OneDrain, Is
  <2> QED
    BY <1>0, <1>2, <2>1, <2>3, <2>4, <2>6
<1> QED
  BY <1>a, <1>b, <1>c, <1>d, <1>e, <1>f, <1>g, <1>h, <1>i, <1>j, <1>k DEF DrainNext, DrainSteps

\* For any callbacks and owners, whoever creates or joins a drain, late or
\* early, cancelled or not: an aclose() that returns or raises its caller's
\* cancellation leaves no callback of its drain that has not ended.
THEOREM ClosingDrains == DrainSpec => []CloseDrains
<1>1. DrainInit => DrainInv
  <2> SUFFICES ASSUME DrainInit PROVE DrainInv
    OBVIOUS
  <2>1. <<>> \in Seq(Callbacks) /\ <<>> \in Seq(DrainState)
    OBVIOUS
  <2>2. 1..Len(drains) = {} /\ Len(drains) = 0
    BY DEF DrainInit
  <2>3. DrainTypeOK
    BY <2>1, <2>2 DEF DrainInit, DrainTypeOK, DrainState
  <2> QED
    BY <2>2, <2>3 DEF DrainInit, DrainInv, OneDrain, Owing, Is
<1>2. DrainInv /\ [DrainNext]_drainVars => DrainInv'
  <2> SUFFICES ASSUME DrainInv, UNCHANGED drainVars PROVE DrainInv'
    BY DrainStep
  <2> QED
    BY DEF drainVars, DrainInv, DrainTypeOK, OneDrain, Owing, Is
<1>3. DrainInv => CloseDrains
  BY DEF DrainInv, CloseDrains, Owing
<1> QED
  BY <1>1, <1>2, <1>3, PTL DEF DrainSpec

----------------------------------------------------------------------------
(***************************************************************************)
(* A generation session.                                                   *)
(***************************************************************************)

\* The requests that the turns and errors counted so far may have cost.
Share == (iteration + error_count) * MaxRetries

\* The counters are checked where a turn begins.  A turn counts itself or an
\* error before it is over, unless its request failed, and then the failures
\* in a row are what has been spent beyond the share.
Turns ==
  /\ phase \in {"start", "loop", "over"} => iteration <= MaxIterations /\ error_count <= MaxRetries
  /\ phase \in {"prompt", "request", "answer"} => iteration < MaxIterations /\ error_count < MaxRetries
  /\ phase \in {"tools", "cell", "validate"} => iteration <= MaxIterations /\ error_count < MaxRetries
  /\ api_errors <= MaxRetries /\ (phase # "over" => api_errors < MaxRetries)
  /\ phase \in {"start", "loop", "prompt"} => requests <= Share + api_errors
  /\ phase = "request" => requests <= Share + api_errors + 1
  /\ phase \in {"tools", "cell", "validate"} => requests <= Share
  /\ requests <= Share + MaxRetries

\* A request that was shortened starts its attempts anew, once.
Tries ==
  /\ attempt <= LLMRetries + ExtraRetries
  /\ ~recovered => attempts <= attempt + 1
  /\ recovered => attempts <= LLMRetries + ExtraRetries + 2 + attempt

\* Nothing is reported and nothing left open before the end.
Open == phase # "over" => finals = 0 /\ succeeded = 0 /\ outcome = "none" /\ unanswered = 0

SessionInv == SessionTypeOK /\ Turns /\ Tries /\ Open /\ WellRecorded

\* How the share grows with the two counters.
LEMMA Shares ==
  ASSUME SessionTypeOK
  PROVE  /\ Share \in Nat
         /\ (iteration + error_count + 1) * MaxRetries = Share + MaxRetries
         /\ (iteration + 1 + error_count) * MaxRetries = Share + MaxRetries
         /\ (iteration + (error_count + 1)) * MaxRetries = Share + MaxRetries
         /\ (iteration + 1 + (error_count + 1)) * MaxRetries = Share + 2 * MaxRetries
<1>1. MaxRetries \in Nat /\ iteration \in Nat /\ error_count \in Nat
  BY SessionAssumption DEF SessionTypeOK
<1>2. (iteration + error_count) * MaxRetries \in Nat
  BY <1>1
<1> QED
  BY <1>1, <1>2 DEF Share

\* Every step keeps the types.
LEMMA SessionTypes ==
  ASSUME SessionTypeOK, SessionNext
  PROVE  SessionTypeOK'
<1>0. /\ MaxIterations \in Nat /\ MaxRetries \in Nat \ {0} /\ MaxTools \in Nat \ {0}
  BY SessionAssumption
<1>a. ASSUME Begin PROVE SessionTypeOK'
  BY <1>0, <1>a DEF Begin, Raises, counters, request, answer, ending, SessionTypeOK
<1>b. ASSUME TurnBegins PROVE SessionTypeOK'
  BY <1>0, <1>b DEF TurnBegins, IsExhausted, counters, request, answer, ending, SessionTypeOK
<1>c. ASSUME LoopExhausted PROVE SessionTypeOK'
  BY <1>0, <1>c DEF LoopExhausted, Raises, IsExhausted, counters, request, answer, SessionTypeOK
<1>d. ASSUME BlockError PROVE SessionTypeOK'
  BY <1>0, <1>d DEF BlockError, Continues, request, answer, SessionTypeOK
<1>e. ASSUME Dispatch PROVE SessionTypeOK'
  <2>1. recovered' \in BOOLEAN
    BY <1>e DEF Dispatch
  <2> QED
    BY <1>0, <2>1, <1>e DEF Dispatch, counters, request, answer, ending, SessionTypeOK
<1>f. ASSUME NEW r \in BOOLEAN, Retry(r) PROVE SessionTypeOK'
  BY <1>0, <1>f DEF Retry, Allowed, counters, request, answer, ending, SessionTypeOK
<1>g. ASSUME Recover PROVE SessionTypeOK'
  BY <1>0, <1>g DEF Recover, counters, request, answer, ending, SessionTypeOK
<1>h. ASSUME RequestFails PROVE SessionTypeOK'
  BY <1>0, <1>h DEF RequestFails, Continues, Raises, request, answer, SessionTypeOK
<1>i. ASSUME ReplayFails PROVE SessionTypeOK'
  BY <1>0, <1>i DEF ReplayFails, Raises, counters, request, answer, SessionTypeOK
<1>j. ASSUME Responds PROVE SessionTypeOK'
  BY <1>0, <1>j DEF Responds, request, answer, ending, SessionTypeOK
<1>k. ASSUME Incomplete PROVE SessionTypeOK'
  BY <1>0, <1>k DEF Incomplete, Raises, request, answer, SessionTypeOK
<1>l. ASSUME EmptyResponse PROVE SessionTypeOK'
  BY <1>0, <1>l DEF EmptyResponse, Continues, request, answer, SessionTypeOK
<1>m. ASSUME ToolCalls PROVE SessionTypeOK'
  BY <1>0, <1>m DEF ToolCalls, request, answer, ending, SessionTypeOK
<1>n. ASSUME TextRetry PROVE SessionTypeOK'
  BY <1>0, <1>n DEF TextRetry, CountsText, Continues, Raises, request, answer, SessionTypeOK
<1>o. ASSUME TextRaises PROVE SessionTypeOK'
  BY <1>0, <1>o DEF TextRaises, Raises, counters, request, answer, SessionTypeOK
<1>p. ASSUME TextReturns PROVE SessionTypeOK'
  BY <1>0, <1>p DEF TextReturns, Completes, request, answer, SessionTypeOK
<1>q. ASSUME TextInvalid PROVE SessionTypeOK'
  BY <1>0, <1>q DEF TextInvalid, CountsRejection, Raises, CountsText, Continues, IsExhausted, request, answer,
     SessionTypeOK
<1>r. ASSUME GuardBlocks PROVE SessionTypeOK'
  BY <1>0, <1>r DEF GuardBlocks, CallFails, ToolsEnd, Continues, CountsText, Raises, GuardRaises,
     request, SessionTypeOK
<1>s. ASSUME BadCall PROVE SessionTypeOK'
  BY <1>0, <1>s DEF BadCall, CallFails, ToolsEnd, Continues, CountsText, Raises, GuardRaises,
     request, SessionTypeOK
<1>t. ASSUME ReturnCalled PROVE SessionTypeOK'
  BY <1>0, <1>t DEF ReturnCalled, counters, request, ending, SessionTypeOK
<1>u. ASSUME CellStarts PROVE SessionTypeOK'
  BY <1>0, <1>u DEF CellStarts, counters, request, ending, SessionTypeOK
<1>v. ASSUME CellEnds PROVE SessionTypeOK'
  BY <1>0, <1>v DEF CellEnds, GuardRaises, Raises, CallFails, ToolsEnd, Continues, CountsText,
     request, ending, SessionTypeOK
<1>w. ASSUME CellFails PROVE SessionTypeOK'
  BY <1>0, <1>w DEF CellFails, CallFails, ToolsEnd, Continues, CountsText, Raises, GuardRaises,
     request, SessionTypeOK
<1>x. ASSUME CellReturns PROVE SessionTypeOK'
  BY <1>0, <1>x DEF CellReturns, counters, request, answer, ending, SessionTypeOK
<1>y. ASSUME ResultAccepted PROVE SessionTypeOK'
  BY <1>0, <1>y DEF ResultAccepted, Completes, counters, request, SessionTypeOK
<1>z. ASSUME ResultRejected PROVE SessionTypeOK'
  BY <1>0, <1>z DEF ResultRejected, CountsRejection, Raises, CallFails, ToolsEnd, Continues, CountsText,
     GuardRaises, IsExhausted, request, SessionTypeOK
<1>aa. ASSUME PostconditionRaises PROVE SessionTypeOK'
  BY <1>0, <1>aa DEF PostconditionRaises, Raises, counters, request, SessionTypeOK
<1>ab. ASSUME CancelSession PROVE SessionTypeOK'
  BY <1>0, <1>ab DEF CancelSession, Raises, counters, request, answer, SessionTypeOK
<1> QED
  BY <1>a, <1>b, <1>c, <1>d, <1>e, <1>f, <1>g, <1>h, <1>i, <1>j, <1>k, <1>l, <1>m, <1>n, <1>o,
     <1>p, <1>q, <1>r, <1>s, <1>t, <1>u, <1>v, <1>w, <1>x, <1>y, <1>z, <1>aa, <1>ab DEF
     SessionNext, SessionSteps

\* Every step keeps the counters within what was spent.
LEMMA SessionTurns ==
  ASSUME SessionTypeOK, Turns, SessionNext
  PROVE  Turns'
<1>0. /\ MaxIterations \in Nat /\ MaxRetries \in Nat \ {0}
      /\ iteration \in Nat /\ error_count \in Nat /\ api_errors \in Nat /\ requests \in Nat
  BY SessionAssumption DEF SessionTypeOK
<1>1. /\ Share \in Nat
      /\ (iteration + 1 + error_count) * MaxRetries = Share + MaxRetries
      /\ (iteration + (error_count + 1)) * MaxRetries = Share + MaxRetries
      /\ (iteration + 1 + (error_count + 1)) * MaxRetries = Share + 2 * MaxRetries
  BY Shares
<1>2. UNCHANGED <<iteration, error_count>> => Share' = Share
  BY DEF Share
<1>3. Share \in Nat
  BY <1>1
<1>a. ASSUME Begin PROVE Turns'
  BY <1>0, <1>2, <1>3, <1>a DEF Begin, Raises, counters, request, answer, ending, Turns
<1>b. ASSUME TurnBegins PROVE Turns'
  BY <1>0, <1>2, <1>3, <1>b DEF TurnBegins, IsExhausted, counters, request, answer, ending, Turns
<1>c. ASSUME LoopExhausted PROVE Turns'
  BY <1>0, <1>2, <1>3, <1>c DEF LoopExhausted, Raises, IsExhausted, counters, request, answer, Turns
<1>d. ASSUME BlockError PROVE Turns'
  <2>1. Share' = Share + MaxRetries
    BY <1>1, <1>d DEF BlockError, Share
  <2> QED
    BY <1>0, <1>3, <2>1, <1>d DEF BlockError, Continues, request, answer, Turns
<1>e. ASSUME Dispatch PROVE Turns'
  BY <1>0, <1>2, <1>3, <1>e DEF Dispatch, counters, request, answer, ending, Turns
<1>f. ASSUME NEW r \in BOOLEAN, Retry(r) PROVE Turns'
  BY <1>0, <1>2, <1>3, <1>f DEF Retry, Allowed, counters, request, answer, ending, Turns
<1>g. ASSUME Recover PROVE Turns'
  BY <1>0, <1>2, <1>3, <1>g DEF Recover, counters, request, answer, ending, Turns
<1>h. ASSUME RequestFails PROVE Turns'
  BY <1>0, <1>2, <1>3, <1>h DEF RequestFails, Continues, Raises, request, answer, Turns
<1>i. ASSUME ReplayFails PROVE Turns'
  BY <1>0, <1>2, <1>3, <1>i DEF ReplayFails, Raises, counters, request, answer, Turns
<1>j. ASSUME Responds PROVE Turns'
  BY <1>0, <1>2, <1>3, <1>j DEF Responds, request, answer, ending, Turns
<1>k. ASSUME Incomplete PROVE Turns'
  <2>1. Share' = Share + MaxRetries
    BY <1>1, <1>k DEF Incomplete, Share
  <2> QED
    BY <1>0, <1>3, <2>1, <1>k DEF Incomplete, Raises, request, answer, Turns
<1>l. ASSUME EmptyResponse PROVE Turns'
  <2>1. Share' = Share + MaxRetries
    BY <1>1, <1>l DEF EmptyResponse, Share
  <2> QED
    BY <1>0, <1>3, <2>1, <1>l DEF EmptyResponse, Continues, request, answer, Turns
<1>m. ASSUME ToolCalls PROVE Turns'
  <2>1. Share' = Share + MaxRetries
    BY <1>1, <1>m DEF ToolCalls, Share
  <2> QED
    BY <1>0, <1>3, <2>1, <1>m DEF ToolCalls, request, answer, ending, Turns
<1>n. ASSUME TextRetry PROVE Turns'
  <2>1. Share' = Share + MaxRetries
    BY <1>1, <1>n DEF TextRetry, Share
  <2> QED
    BY <1>0, <1>3, <2>1, <1>n DEF TextRetry, CountsText, Continues, Raises, request, answer, Turns
<1>o. ASSUME TextRaises PROVE Turns'
  BY <1>0, <1>2, <1>3, <1>o DEF TextRaises, Raises, counters, request, answer, Turns
<1>p. ASSUME TextReturns PROVE Turns'
  <2>1. Share' = Share + MaxRetries
    BY <1>1, <1>p DEF TextReturns, Share
  <2> QED
    BY <1>0, <1>3, <2>1, <1>p DEF TextReturns, Completes, request, answer, Turns
<1>q. ASSUME TextInvalid PROVE Turns'
  <2>1. CASE error_count' = error_count
    <3>1. Share' = Share + MaxRetries
      BY <1>1, <2>1, <1>q DEF TextInvalid, Share
    <3> QED
      BY <1>0, <1>3, <3>1, <2>1, <1>q DEF TextInvalid, CountsRejection, Raises, CountsText, Continues, IsExhausted,
         request, answer, Turns
  <2>2. CASE error_count' = error_count + 1
    <3>1. Share' = Share + 2 * MaxRetries
      BY <1>1, <2>2, <1>q DEF TextInvalid, Share
    <3> QED
      BY <1>0, <1>3, <3>1, <2>2, <1>q DEF TextInvalid, CountsRejection, Raises, CountsText, Continues, IsExhausted,
         request, answer, Turns
  <2> QED
    BY <2>1, <2>2, <1>q DEF TextInvalid, CountsRejection
<1>r. ASSUME GuardBlocks PROVE Turns'
  BY <1>0, <1>2, <1>3, <1>r DEF GuardBlocks, CallFails, ToolsEnd, Continues, CountsText, Raises,
     GuardRaises, request, Turns
<1>s. ASSUME BadCall PROVE Turns'
  <2>1. Share' = Share + MaxRetries
    BY <1>1, <1>s DEF BadCall, Share
  <2> QED
    BY <1>0, <1>3, <2>1, <1>s DEF BadCall, CallFails, ToolsEnd, Continues, CountsText, Raises,
       GuardRaises, request, Turns
<1>t. ASSUME ReturnCalled PROVE Turns'
  BY <1>0, <1>2, <1>3, <1>t DEF ReturnCalled, counters, request, ending, Turns
<1>u. ASSUME CellStarts PROVE Turns'
  BY <1>0, <1>2, <1>3, <1>u DEF CellStarts, counters, request, ending, Turns
<1>v. ASSUME CellEnds PROVE Turns'
  BY <1>0, <1>2, <1>3, <1>v DEF CellEnds, GuardRaises, Raises, CallFails, ToolsEnd, Continues,
     CountsText, request, ending, Turns
<1>w. ASSUME CellFails PROVE Turns'
  BY <1>0, <1>2, <1>3, <1>w DEF CellFails, CallFails, ToolsEnd, Continues, CountsText, Raises,
     GuardRaises, request, Turns
<1>x. ASSUME CellReturns PROVE Turns'
  BY <1>0, <1>2, <1>3, <1>x DEF CellReturns, counters, request, answer, ending, Turns
<1>y. ASSUME ResultAccepted PROVE Turns'
  BY <1>0, <1>2, <1>3, <1>y DEF ResultAccepted, Completes, counters, request, Turns
<1>z. ASSUME ResultRejected PROVE Turns'
  <2>1. CASE error_count' = error_count
    <3>1. Share' = Share
      BY <1>1, <2>1, <1>z DEF ResultRejected, Share
    <3> QED
      BY <1>0, <1>3, <3>1, <2>1, <1>z DEF ResultRejected, CountsRejection, Raises, CallFails, ToolsEnd, Continues,
         CountsText, GuardRaises, IsExhausted, request, Turns
  <2>2. CASE error_count' = error_count + 1
    <3>1. Share' = Share + MaxRetries
      BY <1>1, <2>2, <1>z DEF ResultRejected, Share
    <3> QED
      BY <1>0, <1>3, <3>1, <2>2, <1>z DEF ResultRejected, CountsRejection, Raises, CallFails, ToolsEnd, Continues,
         CountsText, GuardRaises, IsExhausted, request, Turns
  <2> QED
    BY <2>1, <2>2, <1>z DEF ResultRejected, CountsRejection
<1>aa. ASSUME PostconditionRaises PROVE Turns'
  BY <1>0, <1>2, <1>3, <1>aa DEF PostconditionRaises, Raises, counters, request, Turns
<1>ab. ASSUME CancelSession PROVE Turns'
  BY <1>0, <1>2, <1>3, <1>ab DEF CancelSession, Raises, counters, request, answer, Turns
<1> QED
  BY <1>a, <1>b, <1>c, <1>d, <1>e, <1>f, <1>g, <1>h, <1>i, <1>j, <1>k, <1>l, <1>m, <1>n, <1>o,
     <1>p, <1>q, <1>r, <1>s, <1>t, <1>u, <1>v, <1>w, <1>x, <1>y, <1>z, <1>aa, <1>ab DEF
     SessionNext, SessionSteps

\* Every step keeps the attempts within the budgets of the client.
LEMMA SessionTries ==
  ASSUME SessionTypeOK, Tries, SessionNext
  PROVE  Tries'
<1>0. /\ LLMRetries \in Nat /\ ExtraRetries \in Nat
      /\ attempt \in Nat /\ attempts \in Nat /\ recovered \in BOOLEAN
  BY SessionAssumption DEF SessionTypeOK
<1>a. ASSUME Begin PROVE Tries'
  BY <1>0, <1>a DEF Begin, Raises, counters, request, answer, ending, Tries
<1>b. ASSUME TurnBegins PROVE Tries'
  BY <1>0, <1>b DEF TurnBegins, IsExhausted, counters, request, answer, ending, Tries
<1>c. ASSUME LoopExhausted PROVE Tries'
  BY <1>0, <1>c DEF LoopExhausted, Raises, IsExhausted, counters, request, answer, Tries
<1>d. ASSUME BlockError PROVE Tries'
  BY <1>0, <1>d DEF BlockError, Continues, request, answer, Tries
<1>e. ASSUME Dispatch PROVE Tries'
  BY <1>0, <1>e DEF Dispatch, counters, request, answer, ending, Tries
<1>f. ASSUME NEW r \in BOOLEAN, Retry(r) PROVE Tries'
  BY <1>0, <1>f DEF Retry, Allowed, counters, request, answer, ending, Tries
<1>g. ASSUME Recover PROVE Tries'
  BY <1>0, <1>g DEF Recover, counters, request, answer, ending, Tries
<1>h. ASSUME RequestFails PROVE Tries'
  BY <1>0, <1>h DEF RequestFails, Continues, Raises, request, answer, Tries
<1>i. ASSUME ReplayFails PROVE Tries'
  BY <1>0, <1>i DEF ReplayFails, Raises, counters, request, answer, Tries
<1>j. ASSUME Responds PROVE Tries'
  BY <1>0, <1>j DEF Responds, request, answer, ending, Tries
<1>k. ASSUME Incomplete PROVE Tries'
  BY <1>0, <1>k DEF Incomplete, Raises, request, answer, Tries
<1>l. ASSUME EmptyResponse PROVE Tries'
  BY <1>0, <1>l DEF EmptyResponse, Continues, request, answer, Tries
<1>m. ASSUME ToolCalls PROVE Tries'
  BY <1>0, <1>m DEF ToolCalls, request, answer, ending, Tries
<1>n. ASSUME TextRetry PROVE Tries'
  BY <1>0, <1>n DEF TextRetry, CountsText, Continues, Raises, request, answer, Tries
<1>o. ASSUME TextRaises PROVE Tries'
  BY <1>0, <1>o DEF TextRaises, Raises, counters, request, answer, Tries
<1>p. ASSUME TextReturns PROVE Tries'
  BY <1>0, <1>p DEF TextReturns, Completes, request, answer, Tries
<1>q. ASSUME TextInvalid PROVE Tries'
  BY <1>0, <1>q DEF TextInvalid, CountsRejection, Raises, CountsText, Continues, IsExhausted, request, answer, Tries
<1>r. ASSUME GuardBlocks PROVE Tries'
  BY <1>0, <1>r DEF GuardBlocks, CallFails, ToolsEnd, Continues, CountsText, Raises, GuardRaises,
     request, Tries
<1>s. ASSUME BadCall PROVE Tries'
  BY <1>0, <1>s DEF BadCall, CallFails, ToolsEnd, Continues, CountsText, Raises, GuardRaises,
     request, Tries
<1>t. ASSUME ReturnCalled PROVE Tries'
  BY <1>0, <1>t DEF ReturnCalled, counters, request, ending, Tries
<1>u. ASSUME CellStarts PROVE Tries'
  BY <1>0, <1>u DEF CellStarts, counters, request, ending, Tries
<1>v. ASSUME CellEnds PROVE Tries'
  BY <1>0, <1>v DEF CellEnds, GuardRaises, Raises, CallFails, ToolsEnd, Continues, CountsText,
     request, ending, Tries
<1>w. ASSUME CellFails PROVE Tries'
  BY <1>0, <1>w DEF CellFails, CallFails, ToolsEnd, Continues, CountsText, Raises, GuardRaises,
     request, Tries
<1>x. ASSUME CellReturns PROVE Tries'
  BY <1>0, <1>x DEF CellReturns, counters, request, answer, ending, Tries
<1>y. ASSUME ResultAccepted PROVE Tries'
  BY <1>0, <1>y DEF ResultAccepted, Completes, counters, request, Tries
<1>z. ASSUME ResultRejected PROVE Tries'
  BY <1>0, <1>z DEF ResultRejected, CountsRejection, Raises, CallFails, ToolsEnd, Continues, CountsText,
     GuardRaises, IsExhausted, request, Tries
<1>aa. ASSUME PostconditionRaises PROVE Tries'
  BY <1>0, <1>aa DEF PostconditionRaises, Raises, counters, request, Tries
<1>ab. ASSUME CancelSession PROVE Tries'
  BY <1>0, <1>ab DEF CancelSession, Raises, counters, request, answer, Tries
<1> QED
  BY <1>a, <1>b, <1>c, <1>d, <1>e, <1>f, <1>g, <1>h, <1>i, <1>j, <1>k, <1>l, <1>m, <1>n, <1>o,
     <1>p, <1>q, <1>r, <1>s, <1>t, <1>u, <1>v, <1>w, <1>x, <1>y, <1>z, <1>aa, <1>ab DEF
     SessionNext, SessionSteps

\* Every step reports the end once, and with it what has happened.
LEMMA SessionRecord ==
  ASSUME SessionTypeOK, Open, WellRecorded, SessionNext
  PROVE  Open' /\ WellRecorded'
<1>0. finals \in Nat /\ succeeded \in Nat /\ unanswered \in Nat
  BY DEF SessionTypeOK
<1>a. ASSUME Begin PROVE Open' /\ WellRecorded'
  BY <1>0, <1>a DEF Begin, Raises, counters, request, answer, ending, Open, WellRecorded
<1>b. ASSUME TurnBegins PROVE Open' /\ WellRecorded'
  BY <1>0, <1>b DEF TurnBegins, IsExhausted, counters, request, answer, ending, Open, WellRecorded
<1>c. ASSUME LoopExhausted PROVE Open' /\ WellRecorded'
  BY <1>0, <1>c DEF LoopExhausted, Raises, IsExhausted, counters, request, answer, Open,
     WellRecorded
<1>d. ASSUME BlockError PROVE Open' /\ WellRecorded'
  BY <1>0, <1>d DEF BlockError, Continues, request, answer, Open, WellRecorded
<1>e. ASSUME Dispatch PROVE Open' /\ WellRecorded'
  BY <1>0, <1>e DEF Dispatch, counters, request, answer, ending, Open, WellRecorded
<1>f. ASSUME NEW r \in BOOLEAN, Retry(r) PROVE Open' /\ WellRecorded'
  BY <1>0, <1>f DEF Retry, Allowed, counters, request, answer, ending, Open, WellRecorded
<1>g. ASSUME Recover PROVE Open' /\ WellRecorded'
  BY <1>0, <1>g DEF Recover, counters, request, answer, ending, Open, WellRecorded
<1>h. ASSUME RequestFails PROVE Open' /\ WellRecorded'
  BY <1>0, <1>h DEF RequestFails, Continues, Raises, request, answer, Open, WellRecorded
<1>i. ASSUME ReplayFails PROVE Open' /\ WellRecorded'
  BY <1>0, <1>i DEF ReplayFails, Raises, counters, request, answer, Open, WellRecorded
<1>j. ASSUME Responds PROVE Open' /\ WellRecorded'
  BY <1>0, <1>j DEF Responds, request, answer, ending, Open, WellRecorded
<1>k. ASSUME Incomplete PROVE Open' /\ WellRecorded'
  BY <1>0, <1>k DEF Incomplete, Raises, request, answer, Open, WellRecorded
<1>l. ASSUME EmptyResponse PROVE Open' /\ WellRecorded'
  BY <1>0, <1>l DEF EmptyResponse, Continues, request, answer, Open, WellRecorded
<1>m. ASSUME ToolCalls PROVE Open' /\ WellRecorded'
  BY <1>0, <1>m DEF ToolCalls, request, answer, ending, Open, WellRecorded
<1>n. ASSUME TextRetry PROVE Open' /\ WellRecorded'
  BY <1>0, <1>n DEF TextRetry, CountsText, Continues, Raises, request, answer, Open, WellRecorded
<1>o. ASSUME TextRaises PROVE Open' /\ WellRecorded'
  BY <1>0, <1>o DEF TextRaises, Raises, counters, request, answer, Open, WellRecorded
<1>p. ASSUME TextReturns PROVE Open' /\ WellRecorded'
  BY <1>0, <1>p DEF TextReturns, Completes, request, answer, Open, WellRecorded
<1>q. ASSUME TextInvalid PROVE Open' /\ WellRecorded'
  BY <1>0, <1>q DEF TextInvalid, CountsRejection, Raises, CountsText, Continues, IsExhausted, request, answer, Open,
     WellRecorded
<1>r. ASSUME GuardBlocks PROVE Open' /\ WellRecorded'
  BY <1>0, <1>r DEF GuardBlocks, CallFails, ToolsEnd, Continues, CountsText, Raises, GuardRaises,
     request, Open, WellRecorded
<1>s. ASSUME BadCall PROVE Open' /\ WellRecorded'
  BY <1>0, <1>s DEF BadCall, CallFails, ToolsEnd, Continues, CountsText, Raises, GuardRaises,
     request, Open, WellRecorded
<1>t. ASSUME ReturnCalled PROVE Open' /\ WellRecorded'
  BY <1>0, <1>t DEF ReturnCalled, counters, request, ending, Open, WellRecorded
<1>u. ASSUME CellStarts PROVE Open' /\ WellRecorded'
  BY <1>0, <1>u DEF CellStarts, counters, request, ending, Open, WellRecorded
<1>v. ASSUME CellEnds PROVE Open' /\ WellRecorded'
  BY <1>0, <1>v DEF CellEnds, GuardRaises, Raises, CallFails, ToolsEnd, Continues, CountsText,
     request, ending, Open, WellRecorded
<1>w. ASSUME CellFails PROVE Open' /\ WellRecorded'
  BY <1>0, <1>w DEF CellFails, CallFails, ToolsEnd, Continues, CountsText, Raises, GuardRaises,
     request, Open, WellRecorded
<1>x. ASSUME CellReturns PROVE Open' /\ WellRecorded'
  BY <1>0, <1>x DEF CellReturns, counters, request, answer, ending, Open, WellRecorded
<1>y. ASSUME ResultAccepted PROVE Open' /\ WellRecorded'
  BY <1>0, <1>y DEF ResultAccepted, Completes, counters, request, Open, WellRecorded
<1>z. ASSUME ResultRejected PROVE Open' /\ WellRecorded'
  BY <1>0, <1>z DEF ResultRejected, CountsRejection, Raises, CallFails, ToolsEnd, Continues, CountsText,
     GuardRaises, IsExhausted, request, Open, WellRecorded
<1>aa. ASSUME PostconditionRaises PROVE Open' /\ WellRecorded'
  BY <1>0, <1>aa DEF PostconditionRaises, Raises, counters, request, Open, WellRecorded
<1>ab. ASSUME CancelSession PROVE Open' /\ WellRecorded'
  BY <1>0, <1>ab DEF CancelSession, Raises, counters, request, answer, Open, WellRecorded
<1> QED
  BY <1>a, <1>b, <1>c, <1>d, <1>e, <1>f, <1>g, <1>h, <1>i, <1>j, <1>k, <1>l, <1>m, <1>n, <1>o,
     <1>p, <1>q, <1>r, <1>s, <1>t, <1>u, <1>v, <1>w, <1>x, <1>y, <1>z, <1>aa, <1>ab DEF
     SessionNext, SessionSteps

\* For any limits on turns, errors and retries, and for every way the model
\* answers and the endpoint fails: a session makes no more requests and
\* attempts than its counters allow, tells its observers of the end once, with
\* success exactly when a value is returned, and leaves no tool call open
\* unless a postcondition raised.
THEOREM SessionsSound == SessionSpec => []SessionSound
<1>0. /\ MaxIterations \in Nat /\ MaxRetries \in Nat \ {0} /\ MaxTools \in Nat \ {0}
      /\ LLMRetries \in Nat /\ ExtraRetries \in Nat
  BY SessionAssumption
<1>1. SessionInit => SessionInv
  <2> SUFFICES ASSUME SessionInit PROVE SessionInv
    OBVIOUS
  <2>1. recovered \in BOOLEAN /\ synthetic \in BOOLEAN /\ returns_none \in BOOLEAN
    BY DEF SessionInit
  <2>2. SessionTypeOK
    BY <1>0, <2>1 DEF SessionInit, SessionTypeOK
  <2>3. Tries /\ Open /\ WellRecorded
    BY <1>0, <2>2 DEF SessionInit, Tries, Open, WellRecorded
  <2>4. Share \in Nat
    BY <2>2, Shares
  <2>5. Turns
    BY <1>0, <2>4 DEF SessionInit, Turns
  <2> QED
    BY <2>2, <2>3, <2>5 DEF SessionInv
<1>2. SessionInv /\ [SessionNext]_sessionVars => SessionInv'
  <2>1. ASSUME SessionInv, SessionNext PROVE SessionInv'
    BY <2>1, SessionTypes, SessionTurns, SessionTries, SessionRecord DEF SessionInv
  <2>2. ASSUME SessionInv, UNCHANGED sessionVars PROVE SessionInv'
    BY <2>2 DEF sessionVars, counters, request, answer, ending, SessionInv, SessionTypeOK, Turns, Share,
                Tries, Open, WellRecorded
  <2> QED
    BY <2>1, <2>2
<1>3. SessionInv => SessionSound
  <2> SUFFICES ASSUME SessionInv PROVE SessionSound
    OBVIOUS
  <2>1. SessionTypeOK /\ WellRecorded
    BY DEF SessionInv
  <2>2. iteration <= MaxIterations /\ error_count <= MaxRetries /\ api_errors <= MaxRetries
    BY <1>0 DEF SessionInv, SessionTypeOK, Turns
  <2>3. (iteration + error_count + 1) * MaxRetries = Share + MaxRetries
    BY <2>1, Shares
  <2>4. requests <= (iteration + error_count + 1) * MaxRetries
    BY <2>3 DEF SessionInv, Turns
  <2>5. attempts <= PerRequest
    BY <1>0 DEF SessionInv, SessionTypeOK, Tries, PerRequest
  <2> QED
    BY <2>1, <2>2, <2>4, <2>5 DEF SessionSound, RequestsBounded
<1> QED
  BY <1>1, <1>2, <1>3, PTL DEF SessionSpec

----------------------------------------------------------------------------
(***************************************************************************)
(* Background jobs and those who cancel them.                              *)
(***************************************************************************)

Events == {"value", "error", "end"}

\* A canceller waits for the task of j.
Waited(j) == \E k \in Cancellers : list[k] # <<>> /\ Head(list[k]) = j

\* Until a job is over its end is not announced, and then it is the last thing.
Announces(j) ==
  /\ job[j] # "over" => \A i \in 1..Len(stream[j]) : stream[j][i] # "end"
  /\ job[j] = "over" => \A i \in 1..Len(stream[j]) : stream[j][i] = "end" => i = Len(stream[j])
  /\ job[j] = "over" /\ j \notin cut => stream[j] # <<>> /\ stream[j][Len(stream[j])] = "end"
  /\ j \in cut => job[j] = "over"

\* A handle that says "running" is not stale without someone who will correct
\* it: only a task that never enters its job leaves it so, and such a task was
\* told by a canceller that still waits for it.
Followed(j) ==
  /\ j \in told => job[j] # "none"
  /\ handle[j] = "running" => job[j] \notin {"over", "closing"}
  /\ handle[j] = "running" /\ (job[j] = "void" \/ (job[j] = "new" /\ j \in told)) => Waited(j)

JobsInv ==
  /\ JobsTypeOK
  /\ \A j \in JobSet : Announces(j) /\ Followed(j) /\ (j \in left => Unwound(j))

\* What a job announces after values: the end comes last when it is last in
\* what is added.
LEMMA AddedEnd ==
  ASSUME NEW s \in Seq(Events), \A i \in 1..Len(s) : s[i] # "end", NEW xs \in Seq(Events)
  PROVE  /\ s \o xs \in Seq(Events)
         /\ (\A i \in 1..Len(xs) : xs[i] # "end") => \A i \in 1..Len(s \o xs) : (s \o xs)[i] # "end"
         /\ (xs # <<>> /\ xs[Len(xs)] = "end" /\ \A i \in 1..(Len(xs) - 1) : xs[i] # "end") =>
              /\ s \o xs # <<>> /\ (s \o xs)[Len(s \o xs)] = "end"
              /\ \A i \in 1..Len(s \o xs) : (s \o xs)[i] = "end" => i = Len(s \o xs)
<1> DEFINE r == s \o xs
<1>1. Len(s) \in Nat /\ Len(xs) \in Nat
  BY LenProperties
<1>2. /\ r \in Seq(Events) /\ Len(r) = Len(s) + Len(xs)
      /\ \A i \in 1..Len(r) : r[i] = IF i <= Len(s) THEN s[i] ELSE xs[i - Len(s)]
  BY ConcatProperties
<1> HIDE DEF r
<1>3. \A i \in 1..Len(r) : r[i] # "end" \/ (i - Len(s) \in 1..Len(xs) /\ r[i] = xs[i - Len(s)])
  BY <1>1, <1>2
<1>4. ASSUME \A i \in 1..Len(xs) : xs[i] # "end" PROVE \A i \in 1..Len(r) : r[i] # "end"
  BY <1>3, <1>4
<1>5. ASSUME xs # <<>>, xs[Len(xs)] = "end", \A i \in 1..(Len(xs) - 1) : xs[i] # "end"
      PROVE  /\ r # <<>> /\ r[Len(r)] = "end"
             /\ \A i \in 1..Len(r) : r[i] = "end" => i = Len(r)
  <2>1. Len(xs) # 0
    BY <1>5, EmptySeq
  <2>2. Len(r) \in 1..Len(r) /\ ~(Len(r) <= Len(s)) /\ Len(r) - Len(s) = Len(xs)
    BY <1>1, <1>2, <2>1
  <2>3. r[Len(r)] = "end"
    BY <1>2, <1>5, <2>2
  <2>4. r # <<>>
    BY <2>2, EmptySeq
  <2>5. ASSUME NEW i \in 1..Len(r), r[i] = "end" PROVE i = Len(r)
    <3>1. i - Len(s) \in 1..Len(xs) /\ xs[i - Len(s)] = "end"
      BY <1>3, <2>5
    <3>2. ~(i - Len(s) \in 1..(Len(xs) - 1))
      BY <1>5, <3>1
    <3> QED
      BY <1>1, <1>2, <3>1, <3>2
  <2> QED
    BY <2>3, <2>4, <2>5
<1> QED
  BY <1>2, <1>4, <1>5 DEF r

\* The few things a job adds at once.
LEMMA AddedThings ==
  /\ <<"value">> \in Seq(Events) /\ <<"error">> \in Seq(Events) /\ <<"end">> \in Seq(Events)
  /\ <<"value", "end">> \in Seq(Events) /\ <<"error", "end">> \in Seq(Events)
BY DEF Events

\* The end is the last of the things a job adds when it ends.
LEMMA AddedLast ==
  \A xs \in {<<"end">>, <<"value", "end">>, <<"error", "end">>} :
    xs # <<>> /\ xs[Len(xs)] = "end" /\ \A n \in 1..(Len(xs) - 1) : xs[n] # "end"
<1>1. ASSUME NEW xs, xs = <<"end">>
      PROVE  xs # <<>> /\ xs[Len(xs)] = "end" /\ \A n \in 1..(Len(xs) - 1) : xs[n] # "end"
  BY <1>1
<1>2. ASSUME NEW x, x # "end", NEW xs, xs = <<x, "end">>
      PROVE  xs # <<>> /\ xs[Len(xs)] = "end" /\ \A n \in 1..(Len(xs) - 1) : xs[n] # "end"
  <2>1. Len(xs) = 2 /\ xs[1] = x /\ xs[2] = "end"
    BY <1>2
  <2>2. xs # <<>>
    BY <1>2
  <2> QED
    BY <1>2, <2>1, <2>2
<1> QED
  BY <1>1, <1>2

\* Where a canceller stands after it went on: the tasks it passed are done, and
\* it waits for the one it told.
LEMMA ProceedSteps ==
  ASSUME JobsTypeOK, NEW k \in Cancellers, NEW q \in Seq(JobSet), Proceed(k, q)
  PROVE  /\ list' \in [Cancellers -> Seq(JobSet)] /\ told' \subseteq JobSet /\ left' \subseteq JobSet
         /\ told \subseteq told'
         /\ \A j \in JobSet : j \in told' => j \in told \/ (job[j] # "none" /\ Waited(j)')
         /\ \A j \in JobSet : j \in left' => j \in left \/ Unwound(j)
         /\ \A m \in Cancellers : m # k => list'[m] = list[m]
<1> DEFINE open == {i \in 1..Len(q) : ~Unwound(q[i])}
           next == IF open = {} THEN Len(q) + 1 ELSE CHOOSE i \in open : \A n \in open : i <= n
<1>1. Len(q) \in Nat /\ \A i \in 1..Len(q) : q[i] \in JobSet
  BY LenProperties
<1>2. /\ list' = [list EXCEPT ![k] = SubSeq(q, next, Len(q))]
      /\ told' = told \cup {j \in {q[i] : i \in {next} \cap open} : job[j] # "none" /\ ~Unwound(j)}
      /\ left' = left \cup {q[i] : i \in 1..(next - 1)}
  BY DEF Proceed, Tell
<1>3. /\ next \in 1..(Len(q) + 1)
      /\ \A i \in 1..(next - 1) : i \in 1..Len(q) /\ Unwound(q[i])
      /\ next \in open => next \in 1..Len(q)
  <2>1. CASE open = {}
    BY <1>1, <2>1
  <2>2. CASE open # {}
    <3>1. open \in SUBSET Nat
      BY <1>1
    <3> HIDE DEF open
    <3>2. next \in open /\ \A n \in open : next <= n
      BY <2>2, <3>1, LeastNumber
    <3> HIDE DEF next
    <3>3. next \in 1..Len(q)
      BY <3>2 DEF open
    <3>4. \A i \in 1..(next - 1) : i \in 1..Len(q) /\ i \notin open
      BY <1>1, <3>2, <3>3
    <3> QED
      BY <1>1, <3>3, <3>4 DEF open
  <2> QED
    BY <2>1, <2>2
<1> HIDE DEF next
<1>4. SubSeq(q, next, Len(q)) \in Seq(JobSet)
  BY <1>1, <1>3, SubSeqProperties
<1>5. next \in open => SubSeq(q, next, Len(q)) # <<>> /\ Head(SubSeq(q, next, Len(q))) = q[next]
  <2> DEFINE r == SubSeq(q, next, Len(q))
  <2> HAVE next \in open
  <2>1. next \in 1..Len(q)
    BY <1>3
  <2>2. Len(r) = Len(q) - next + 1 /\ \A i \in 1..(Len(q) - next + 1) : r[i] = q[next + i - 1]
    BY <1>1, <1>3, <2>1, SubSeqProperties
  <2>3. 1 \in 1..(Len(q) - next + 1) /\ next + 1 - 1 = next /\ Len(r) # 0
    BY <1>1, <2>1, <2>2
  <2>4. r # <<>> /\ r[1] = q[next]
    BY <2>2, <2>3, EmptySeq
  <2>5. Head(r) = r[1]
    BY <1>4, <2>4, HeadTailProperties
  <2> QED
    BY <2>4, <2>5
<1>6. list \in [Cancellers -> Seq(JobSet)] /\ told \subseteq JobSet /\ left \subseteq JobSet
  BY DEF JobsTypeOK
<1>7. list'[k] = SubSeq(q, next, Len(q)) /\ \A m \in Cancellers : m # k => list'[m] = list[m]
  BY <1>2, <1>6
<1>8. list' \in [Cancellers -> Seq(JobSet)]
  BY <1>2, <1>4, <1>6
<1>9. \A j : j \in told' => j \in told \/ (next \in open /\ j = q[next] /\ job[j] # "none")
  BY <1>2
<1>10. \A j : j \in left' => j \in left \/ (j \in JobSet /\ Unwound(j))
  BY <1>1, <1>2, <1>3
<1>11. ASSUME NEW j \in JobSet, next \in open, j = q[next] PROVE Waited(j)'
  <2>1. list'[k] # <<>> /\ Head(list'[k]) = j
    BY <1>5, <1>7, <1>11
  <2> QED
    BY <2>1 DEF Waited
<1>12. \A j \in JobSet : j \in told' => j \in told \/ (job[j] # "none" /\ Waited(j)')
  BY <1>9, <1>11
<1>13. told' \subseteq JobSet /\ left' \subseteq JobSet /\ told \subseteq told'
  BY <1>1, <1>2, <1>3, <1>6
<1> QED
  BY <1>7, <1>8, <1>10, <1>12, <1>13

\* What one job adds to its stream.
LEMMA OnePuts ==
  ASSUME JobsTypeOK, NEW j \in JobSet, NEW xs \in Seq(Events), Puts(j, xs)
  PROVE  /\ stream' \in [JobSet -> Seq(Events)]
         /\ stream[j] \in Seq(Events) /\ stream'[j] = stream[j] \o xs
         /\ \A i \in JobSet : i # j => stream'[i] = stream[i]
<1>1. stream \in [JobSet -> Seq(Events)] /\ stream' = [stream EXCEPT ![j] = @ \o xs]
  BY DEF JobsTypeOK, Events, Puts
<1>2. stream[j] \in Seq(Events)
  BY <1>1
<1>3. stream[j] \o xs \in Seq(Events)
  BY <1>2, ConcatProperties
<1> QED
  BY <1>1, <1>2, <1>3

\* Every step keeps the types.
LEMMA JobTypes ==
  ASSUME JobsTypeOK, JobsNext
  PROVE  JobsTypeOK'
<1> DEFINE S == {"none", "new", "running", "unwinding", "closing", "over", "void"}
           H == {"none", "running", "done", "failed", "cancelled"}
<1>0. /\ feeds \subseteq FeedSet /\ handles \in Seq(JobSet)
      /\ job \in [JobSet -> S] /\ handle \in [JobSet -> H]
      /\ told \subseteq JobSet /\ list \in [Cancellers -> Seq(JobSet)]
      /\ stream \in [JobSet -> Seq(Events)] /\ cut \subseteq JobSet /\ left \subseteq JobSet
  BY DEF JobsTypeOK, Events
<1> SUFFICES
      /\ feeds' \subseteq FeedSet /\ handles' \in Seq(JobSet)
      /\ job' \in [JobSet -> S] /\ handle' \in [JobSet -> H]
      /\ told' \subseteq JobSet /\ list' \in [Cancellers -> Seq(JobSet)]
      /\ stream' \in [JobSet -> Seq(Events)] /\ cut' \subseteq JobSet /\ left' \subseteq JobSet
  BY DEF JobsTypeOK, FeedSet, Events
<1>1. ASSUME NEW j \in JobSet, Spawn(j) PROVE handles' \in Seq(JobSet)
  BY <1>0, <1>1, AppendProperties DEF Spawn
<1>2. ASSUME NEW j \in JobSet, Spawn(j)
      PROVE  job' \in [JobSet -> S] /\ handle' \in [JobSet -> H]
  BY <1>0, <1>2 DEF Spawn
<1>3. ASSUME NEW j \in JobSet,
             JobStarts(j) \/ NeverStarts(j) \/ Delivered(j) \/ Ignores(j)
      PROVE  /\ UNCHANGED <<feeds, handles, handle, list, stream, cut, left>>
             /\ job' \in [JobSet -> S] /\ told' \subseteq JobSet
  BY <1>0, <1>3 DEF JobStarts, NeverStarts, Delivered, Ignores
<1>4. ASSUME NEW j \in JobSet, NEW xs \in Seq(Events), Puts(j, xs)
      PROVE  stream' \in [JobSet -> Seq(Events)]
  BY <1>4, OnePuts
<1>5. ASSUME NEW j \in JobSet, Yields(j) \/ JobDone(j) \/ JobFails(j) \/ JobCancelled(j) \/ PutFails(j) \/ Closed(j)
      PROVE  /\ UNCHANGED <<feeds, handles, told, list, cut, left>>
             /\ job' \in [JobSet -> S] /\ handle' \in [JobSet -> H]
             /\ \E xs \in Seq(Events) : Puts(j, xs)
  <2>1. CASE Yields(j) \/ JobFails(j) \/ JobCancelled(j) \/ PutFails(j) \/ Closed(j)
    BY <1>0, <2>1, AddedThings DEF Yields, JobFails, JobCancelled, PutFails, Closed
  <2>2. CASE JobDone(j)
    <3>1. (IF j \in Generators THEN <<"end">> ELSE <<"value", "end">>) \in Seq(Events)
      BY AddedThings
    <3> QED
      BY <1>0, <2>2, <3>1 DEF JobDone
  <2> QED
    BY <1>5, <2>1, <2>2
<1>6. ASSUME NEW j \in JobSet, CloseFails(j)
      PROVE  /\ UNCHANGED <<feeds, handles, handle, list, stream, left>>
             /\ job' \in [JobSet -> S] /\ told' \subseteq JobSet /\ cut' \subseteq JobSet
  BY <1>0, <1>6 DEF CloseFails
<1>7. ASSUME NEW k \in Cancellers, NEW q \in Seq(JobSet), Proceed(k, q)
      PROVE  list' \in [Cancellers -> Seq(JobSet)] /\ told' \subseteq JobSet /\ left' \subseteq JobSet
  BY <1>7, ProceedSteps
<1>8. ASSUME NEW k \in Cancellers, NEW j \in JobSet, CancelCall(k, j)
      PROVE  /\ list' \in [Cancellers -> Seq(JobSet)] /\ told' \subseteq JobSet /\ left' \subseteq JobSet
             /\ UNCHANGED <<feeds, handles, job, handle, stream, cut>>
  <2>1. <<j>> \in Seq(JobSet)
    OBVIOUS
  <2> QED
    BY <1>7, <1>8, <2>1 DEF CancelCall
<1>9. ASSUME NEW k \in Cancellers, Shutdown(k)
      PROVE  /\ list' \in [Cancellers -> Seq(JobSet)] /\ told' \subseteq JobSet /\ left' \subseteq JobSet
             /\ handles' \in Seq(JobSet) /\ UNCHANGED <<feeds, job, handle, stream, cut>>
  <2>1. Proceed(k, handles) /\ handles' = <<>> /\ UNCHANGED <<feeds, job, handle, stream, cut>>
    BY <1>9 DEF Shutdown
  <2>2. <<>> \in Seq(JobSet)
    OBVIOUS
  <2> QED
    BY <1>0, <1>7, <2>1, <2>2
<1>10. ASSUME NEW k \in Cancellers, NextCancel(k)
       PROVE  /\ list' \in [Cancellers -> Seq(JobSet)] /\ told' \subseteq JobSet /\ left' \subseteq JobSet
              /\ handle' \in [JobSet -> H] /\ UNCHANGED <<feeds, handles, job, stream, cut>>
  <2>1. Proceed(k, list[k]) /\ list[k] \in Seq(JobSet)
    BY <1>0, <1>10 DEF NextCancel
  <2>2. handle' \in [JobSet -> H] /\ UNCHANGED <<feeds, handles, job, stream, cut>>
    BY <1>0, <1>10 DEF NextCancel
  <2> QED
    BY <1>7, <2>1, <2>2
<1>11. ASSUME NEW k \in Cancellers, CancellerCancelled(k)
       PROVE  told' \subseteq JobSet /\ UNCHANGED <<feeds, handles, job, handle, list, stream, cut, left>>
  <2>1. list[k] \in Seq(JobSet) /\ list[k] # <<>>
    BY <1>0, <1>11 DEF CancellerCancelled
  <2>2. Head(list[k]) \in JobSet
    BY <2>1, HeadTailProperties
  <2> QED
    BY <1>0, <1>11, <2>2 DEF CancellerCancelled, Tell
<1>12. ASSUME NEW c \in FeedSet, RemoveChannel(c)
       PROVE  /\ feeds' \subseteq FeedSet /\ handles' \in Seq(JobSet) /\ told' \subseteq JobSet
              /\ handle' \in [JobSet -> H] /\ UNCHANGED <<job, list, stream, cut, left>>
  <2>1. handles' \in Seq(JobSet)
    BY <1>0, <1>12, OnlyShape DEF RemoveChannel
  <2>2. feeds' \subseteq FeedSet /\ told' \subseteq JobSet /\ UNCHANGED <<job, list, stream, cut, left>>
    BY <1>0, <1>12 DEF RemoveChannel, Tell
  <2>3. handle' \in [JobSet -> H]
    BY <1>0, <1>12 DEF RemoveChannel
  <2> QED
    BY <2>1, <2>2, <2>3
<1>13. ASSUME NEW j \in JobSet, Spawn(j) PROVE UNCHANGED <<feeds, told, list, stream, cut, left>>
  BY <1>13 DEF Spawn
<1> HIDE DEF S, H
<1>14. CASE \E j \in JobSet :
              \/ Spawn(j) \/ JobStarts(j) \/ Yields(j) \/ JobDone(j) \/ Ignores(j) \/ PutFails(j)
              \/ Unwinds(j)
  <2> PICK j \in JobSet : \/ Spawn(j) \/ JobStarts(j) \/ Yields(j) \/ JobDone(j) \/ Ignores(j) \/ PutFails(j)
                          \/ Unwinds(j)
    BY <1>14
  <2>1. CASE Spawn(j)
    BY <1>0, <2>1, <1>1, <1>2, <1>13
  <2>2. CASE JobStarts(j) \/ NeverStarts(j) \/ Delivered(j) \/ Ignores(j)
    BY <1>0, <2>2, <1>3
  <2>3. CASE Yields(j) \/ JobDone(j) \/ JobFails(j) \/ JobCancelled(j) \/ PutFails(j) \/ Closed(j)
    <3>1. /\ UNCHANGED <<feeds, handles, told, list, cut, left>>
          /\ job' \in [JobSet -> S] /\ handle' \in [JobSet -> H]
          /\ \E xs \in Seq(Events) : Puts(j, xs)
      BY <2>3, <1>5
    <3>2. stream' \in [JobSet -> Seq(Events)]
      BY <3>1, <1>4
    <3> QED
      BY <1>0, <3>1, <3>2
  <2>4. CASE CloseFails(j)
    BY <1>0, <2>4, <1>6
  <2> QED
    BY <2>1, <2>2, <2>3, <2>4 DEF Unwinds
<1>15. CASE \E k \in Cancellers :
              \/ \E j \in JobSet : CancelCall(k, j)
              \/ Shutdown(k) \/ NextCancel(k) \/ CancellerCancelled(k)
  BY <1>0, <1>15, <1>8, <1>9, <1>10, <1>11
<1>16. CASE \E c \in FeedSet : RemoveChannel(c)
  BY <1>0, <1>16, <1>12
<1> QED
  BY <1>14, <1>15, <1>16 DEF JobsNext

\* What the task of one job does by itself.
TaskMoves(j) ==
  Spawn(j) \/ JobStarts(j) \/ Yields(j) \/ JobDone(j) \/ Ignores(j) \/ PutFails(j) \/ Unwinds(j)

\* A step of one task leaves the other jobs alone, and everyone's list.
LEMMA OtherJobs ==
  ASSUME JobsTypeOK, NEW i \in JobSet, TaskMoves(i)
  PROVE  /\ \A j \in JobSet : j # i =>
              /\ job'[j] = job[j] /\ handle'[j] = handle[j] /\ stream'[j] = stream[j]
              /\ (j \in told' <=> j \in told) /\ (j \in cut' <=> j \in cut)
         /\ UNCHANGED <<list, left>>
<1>0. /\ job \in [JobSet -> {"none", "new", "running", "unwinding", "closing", "over", "void"}]
      /\ handle \in [JobSet -> {"none", "running", "done", "failed", "cancelled"}]
      /\ stream \in [JobSet -> Seq({"value", "error", "end"})]
  BY DEF JobsTypeOK
<1>1. CASE Spawn(i) \/ JobStarts(i) \/ NeverStarts(i) \/ Delivered(i) \/ Ignores(i) \/ CloseFails(i)
  BY <1>0, <1>1 DEF Spawn, JobStarts, NeverStarts, Delivered, Ignores, CloseFails
<1>2. CASE Yields(i) \/ JobFails(i) \/ JobCancelled(i)
  BY <1>0, <1>2 DEF Yields, JobFails, JobCancelled, Puts
<1>3. CASE PutFails(i) \/ Closed(i) \/ JobDone(i)
  BY <1>0, <1>3 DEF PutFails, Closed, JobDone, Puts
<1> QED
  BY <1>1, <1>2, <1>3 DEF TaskMoves, Unwinds

\* A canceller, and the removal of a channel, leave the tasks and what they
\* announced alone.
LEMMA NoJobMoves ==
  ASSUME \/ \E k \in Cancellers : \/ \E j \in JobSet : CancelCall(k, j)
                                  \/ Shutdown(k) \/ NextCancel(k) \/ CancellerCancelled(k)
         \/ \E c \in FeedSet : RemoveChannel(c)
  PROVE  UNCHANGED <<job, stream, cut>>
BY DEF CancelCall, Shutdown, NextCancel, CancellerCancelled, RemoveChannel

\* The end of a job is announced when it is over, as the last thing.
LEMMA JobStreams ==
  ASSUME JobsTypeOK, JobsNext, NEW j \in JobSet, Announces(j)
  PROVE  Announces(j)'
<1>0. /\ job \in [JobSet -> {"none", "new", "running", "unwinding", "closing", "over", "void"}]
      /\ stream[j] \in Seq(Events)
  BY DEF JobsTypeOK, Events
<1>1. CASE \E i \in JobSet : TaskMoves(i)
  <2> PICK i \in JobSet : TaskMoves(i)
    BY <1>1
  <2>1. CASE i # j
    <3>1. job'[j] = job[j] /\ stream'[j] = stream[j] /\ (j \in cut' <=> j \in cut)
      BY <2>1, OtherJobs
    <3> QED
      BY <3>1 DEF Announces
  <2>2. CASE i = j
    <3>1. CASE Spawn(j) \/ JobStarts(j) \/ NeverStarts(j) \/ Delivered(j) \/ Ignores(j)
      <4>1. stream'[j] = stream[j] /\ cut' = cut /\ job[j] # "over" /\ job'[j] # "over"
        BY <1>0, <3>1 DEF Spawn, JobStarts, NeverStarts, Delivered, Ignores
      <4> QED
        BY <4>1 DEF Announces
    <3>2. ASSUME NEW xs \in Seq(Events), Puts(j, xs), cut' = cut, job[j] # "over", job'[j] = "over",
                 xs # <<>> /\ xs[Len(xs)] = "end" /\ \A n \in 1..(Len(xs) - 1) : xs[n] # "end"
          PROVE  Announces(j)'
      <4>1. stream'[j] = stream[j] \o xs
        BY <3>2, OnePuts
      <4>2. \A n \in 1..Len(stream[j]) : stream[j][n] # "end"
        BY <3>2 DEF Announces
      <4>3. /\ stream'[j] # <<>> /\ stream'[j][Len(stream'[j])] = "end"
            /\ \A n \in 1..Len(stream'[j]) : stream'[j][n] = "end" => n = Len(stream'[j])
        <5>1. /\ stream[j] \o xs # <<>> /\ (stream[j] \o xs)[Len(stream[j] \o xs)] = "end"
              /\ \A n \in 1..Len(stream[j] \o xs) : (stream[j] \o xs)[n] = "end" => n = Len(stream[j] \o xs)
          BY <1>0, <3>2, <4>2, AddedEnd
        <5> QED
          BY <4>1, <5>1
      <4> QED
        BY <3>2, <4>3 DEF Announces
    <3>3. ASSUME NEW xs \in Seq(Events), Puts(j, xs), cut' = cut, job[j] # "over", job'[j] # "over",
                 \A n \in 1..Len(xs) : xs[n] # "end"
          PROVE  Announces(j)'
      <4>1. stream'[j] = stream[j] \o xs
        BY <3>3, OnePuts
      <4>2. \A n \in 1..Len(stream[j]) : stream[j][n] # "end"
        BY <3>3 DEF Announces
      <4>3. \A n \in 1..Len(stream'[j]) : stream'[j][n] # "end"
        BY <1>0, <3>3, <4>1, <4>2, AddedEnd
      <4> QED
        BY <3>3, <4>3 DEF Announces
    <3>4. CASE Yields(j) \/ PutFails(j)
      <4>1. PICK xs \in {<<"value">>, <<"error">>} : Puts(j, xs)
        BY <3>4 DEF Yields, PutFails
      <4>2. cut' = cut /\ job[j] # "over" /\ job'[j] # "over"
        BY <1>0, <3>4 DEF Yields, PutFails
      <4>3. \A n \in 1..Len(xs) : xs[n] # "end"
        BY <4>1
      <4> QED
        BY <4>1, <4>2, <4>3, <3>3, AddedThings
    <3>5. CASE JobDone(j) \/ JobFails(j) \/ JobCancelled(j) \/ Closed(j)
      <4>1. \E xs \in {<<"end">>, <<"value", "end">>, <<"error", "end">>} : Puts(j, xs)
        <5>1. CASE JobDone(j)
          BY <5>1 DEF JobDone
        <5>2. CASE JobFails(j) \/ JobCancelled(j) \/ Closed(j)
          BY <5>2 DEF JobFails, JobCancelled, Closed
        <5> QED
          BY <3>5, <5>1, <5>2
      <4>2. cut' = cut /\ job[j] # "over" /\ job'[j] = "over"
        BY <1>0, <3>5 DEF JobDone, JobFails, JobCancelled, Closed
      <4>3. \A xs \in {<<"end">>, <<"value", "end">>, <<"error", "end">>} :
              xs # <<>> /\ xs[Len(xs)] = "end" /\ \A n \in 1..(Len(xs) - 1) : xs[n] # "end"
        BY AddedLast
      <4> QED
        BY <4>1, <4>2, <4>3, <3>2, AddedThings
    <3>6. CASE CloseFails(j)
      <4>1. stream' = stream /\ j \in cut' /\ job[j] # "over" /\ job'[j] = "over"
        BY <1>0, <3>6 DEF CloseFails
      <4> QED
        BY <4>1 DEF Announces
    <3> QED
      BY <2>2, <3>1, <3>4, <3>5, <3>6 DEF TaskMoves, Unwinds
  <2> QED
    BY <2>1, <2>2
<1>2. ASSUME UNCHANGED <<job, stream, cut>> PROVE Announces(j)'
  BY <1>2 DEF Announces
<1> QED
  BY <1>1, <1>2, NoJobMoves DEF JobsNext, TaskMoves

\* A job that has ended stays so, and only such jobs are left behind.
LEMMA JobsBehind ==
  ASSUME JobsTypeOK, JobsNext, NEW j \in JobSet, j \in left => Unwound(j)
  PROVE  j \in left' => Unwound(j)'
<1>0. /\ job \in [JobSet -> {"none", "new", "running", "unwinding", "closing", "over", "void"}]
      /\ list \in [Cancellers -> Seq(JobSet)] /\ handles \in Seq(JobSet)
  BY DEF JobsTypeOK
<1>1. CASE \E i \in JobSet : TaskMoves(i)
  <2> PICK i \in JobSet : TaskMoves(i)
    BY <1>1
  <2>1. CASE i # j
    BY <2>1, OtherJobs DEF Unwound
  <2>2. CASE i = j
    <3>1. ~Unwound(j)
      BY <2>2 DEF TaskMoves, Unwinds, Spawn, JobStarts, Yields, JobDone, Ignores, PutFails, NeverStarts, Delivered,
                  JobCancelled, JobFails, Closed, CloseFails, Unwound
    <3>2. left' = left
      BY OtherJobs
    <3> QED
      BY <3>1, <3>2
  <2> QED
    BY <2>1, <2>2
<1>2. ASSUME NEW k \in Cancellers, NEW q \in Seq(JobSet), Proceed(k, q), job' = job
      PROVE  j \in left' => Unwound(j)'
  <2>1. j \in left' => j \in left \/ Unwound(j)
    BY <1>2, ProceedSteps
  <2> QED
    BY <1>2, <2>1 DEF Unwound
<1>3. ASSUME NEW k \in Cancellers, NEW i \in JobSet, CancelCall(k, i) PROVE j \in left' => Unwound(j)'
  <2>1. Proceed(k, <<i>>) /\ job' = job /\ <<i>> \in Seq(JobSet)
    BY <1>3 DEF CancelCall
  <2> QED
    BY <2>1, <1>2
<1>4. ASSUME NEW k \in Cancellers, Shutdown(k) PROVE j \in left' => Unwound(j)'
  <2>1. Proceed(k, handles) /\ job' = job
    BY <1>4 DEF Shutdown
  <2> QED
    BY <1>0, <2>1, <1>2
<1>5. ASSUME NEW k \in Cancellers, NextCancel(k) PROVE j \in left' => Unwound(j)'
  <2>1. Proceed(k, list[k]) /\ job' = job /\ list[k] \in Seq(JobSet)
    BY <1>0, <1>5 DEF NextCancel
  <2> QED
    BY <2>1, <1>2
<1>6. ASSUME UNCHANGED <<job, left>> PROVE j \in left' => Unwound(j)'
  BY <1>6 DEF Unwound
<1>7. ASSUME \/ \E k \in Cancellers : CancellerCancelled(k)
             \/ \E c \in FeedSet : RemoveChannel(c)
      PROVE  UNCHANGED <<job, left>>
  BY <1>7 DEF CancellerCancelled, RemoveChannel
<1> QED
  BY <1>1, <1>3, <1>4, <1>5, <1>6, <1>7 DEF JobsNext, TaskMoves

\* A handle that says "running" is corrected by whoever waits for the task.
LEMMA JobsFollowed ==
  ASSUME JobsTypeOK, JobsNext, NEW j \in JobSet, Followed(j)
  PROVE  Followed(j)'
<1>0. /\ job \in [JobSet -> {"none", "new", "running", "unwinding", "closing", "over", "void"}]
      /\ handle \in [JobSet -> {"none", "running", "done", "failed", "cancelled"}]
      /\ list \in [Cancellers -> Seq(JobSet)] /\ handles \in Seq(JobSet)
  BY DEF JobsTypeOK
<1>1. CASE \E i \in JobSet : TaskMoves(i)
  <2> PICK i \in JobSet : TaskMoves(i)
    BY <1>1
  <2>0. list' = list
    BY OtherJobs
  <2>1. Waited(j)' <=> Waited(j)
    BY <2>0 DEF Waited
  <2>2. CASE i # j
    <3>1. job'[j] = job[j] /\ handle'[j] = handle[j] /\ (j \in told' <=> j \in told)
      BY <2>2, OtherJobs
    <3> QED
      BY <2>1, <3>1 DEF Followed
  <2>3. CASE i = j
    <3>1. CASE Spawn(j)
      <4>1. job[j] = "none" /\ job'[j] = "new" /\ told' = told
        BY <1>0, <3>1 DEF Spawn
      <4> QED
        BY <4>1 DEF Followed
    <3>2. CASE JobStarts(j) \/ NeverStarts(j)
      <4>1. /\ job[j] = "new" /\ handle' = handle /\ told' \subseteq told /\ job'[j] \in {"running", "void"}
            /\ job'[j] = "void" => j \in told
        BY <1>0, <3>2 DEF JobStarts, NeverStarts
      <4> QED
        BY <2>1, <4>1 DEF Followed
    <3>3. CASE Delivered(j) \/ Ignores(j) \/ Yields(j)
      <4>1. job'[j] \in {"running", "unwinding"}
        BY <1>0, <3>3 DEF Delivered, Ignores, Yields
      <4> QED
        BY <4>1 DEF Followed
    <3>4. CASE JobDone(j) \/ JobFails(j) \/ JobCancelled(j) \/ PutFails(j)
      <4>1. job'[j] \in {"over", "closing"} /\ handle'[j] # "running"
        BY <1>0, <3>4 DEF JobDone, JobFails, JobCancelled, PutFails
      <4> QED
        BY <4>1 DEF Followed
    <3>5. CASE Closed(j) \/ CloseFails(j)
      <4>1. job[j] = "closing" /\ job'[j] = "over" /\ handle'[j] = handle[j]
        BY <1>0, <3>5 DEF Closed, CloseFails
      <4> QED
        BY <4>1 DEF Followed
    <3> QED
      BY <2>3, <3>1, <3>2, <3>3, <3>4, <3>5 DEF TaskMoves, Unwinds
  <2> QED
    BY <2>2, <2>3
<1>2. ASSUME NEW k \in Cancellers, NEW q \in Seq(JobSet), Proceed(k, q), job' = job,
             handle'[j] = "running" => handle[j] = "running",
             handle'[j] = "running" => list[k] = <<>> \/ Head(list[k]) # j
      PROVE  Followed(j)'
  <2>1. /\ j \in told' => j \in told \/ (job[j] # "none" /\ Waited(j)')
        /\ \A m \in Cancellers : m # k => list'[m] = list[m]
    BY <1>2, ProceedSteps
  <2>2. handle'[j] = "running" /\ Waited(j) => Waited(j)'
    BY <1>2, <2>1 DEF Waited
  <2> QED
    BY <1>2, <2>1, <2>2 DEF Followed
<1>3. ASSUME NEW k \in Cancellers, NEW i \in JobSet, CancelCall(k, i) PROVE Followed(j)'
  <2>1. Proceed(k, <<i>>) /\ job' = job /\ handle' = handle /\ <<i>> \in Seq(JobSet) /\ list[k] = <<>>
    BY <1>3 DEF CancelCall
  <2> QED
    BY <2>1, <1>2
<1>4. ASSUME NEW k \in Cancellers, Shutdown(k) PROVE Followed(j)'
  <2>1. Proceed(k, handles) /\ job' = job /\ handle' = handle /\ list[k] = <<>>
    BY <1>4 DEF Shutdown
  <2> QED
    BY <1>0, <2>1, <1>2
<1>5. ASSUME NEW k \in Cancellers, NextCancel(k) PROVE Followed(j)'
  <2>1. Proceed(k, list[k]) /\ job' = job /\ list[k] \in Seq(JobSet)
    BY <1>0, <1>5 DEF NextCancel
  <2>2. /\ handle'[j] = "running" => handle[j] = "running"
        /\ handle'[j] = "running" => Head(list[k]) # j
    BY <1>0, <1>5 DEF NextCancel
  <2> QED
    BY <2>1, <2>2, <1>2
<1>6. ASSUME NEW k \in Cancellers, CancellerCancelled(k) PROVE Followed(j)'
  <2>1. /\ UNCHANGED <<job, handle, list>> /\ list[k] # <<>>
        /\ j \in told' => j \in told \/ (job[j] # "none" /\ j = Head(list[k]))
    BY <1>6 DEF CancellerCancelled, Tell
  <2>2. Waited(j)' <=> Waited(j)
    BY <2>1 DEF Waited
  <2>3. j = Head(list[k]) => Waited(j)
    BY <2>1 DEF Waited
  <2> QED
    BY <2>1, <2>2, <2>3 DEF Followed
<1>7. ASSUME NEW c \in FeedSet, RemoveChannel(c) PROVE Followed(j)'
  <2>1. /\ UNCHANGED <<job, list>>
        /\ handle'[j] = "running" => handle[j] = "running"
        /\ j \in told' => j \in told \/ (job[j] # "none" /\ handle'[j] # "running")
    BY <1>0, <1>7 DEF RemoveChannel, Tell
  <2>2. Waited(j)' <=> Waited(j)
    BY <2>1 DEF Waited
  <2> QED
    BY <2>1, <2>2 DEF Followed
<1> QED
  BY <1>1, <1>3, <1>4, <1>5, <1>6, <1>7 DEF JobsNext, TaskMoves

\* For any number of jobs, channels and cancellers, and whatever the jobs do
\* with a cancellation: the end of a job is announced once and last, and
\* cancel() and shutdown() leave behind only jobs that have ended, whose
\* handles say how or are about to.
THEOREM JobsAreCleanedUp == JobsSpec => []JobsEndCleanly
<1>1. JobsInit => JobsInv
  <2> SUFFICES ASSUME JobsInit PROVE JobsInv
    OBVIOUS
  <2>1. /\ <<>> \in Seq(JobSet) /\ <<>> \in Seq({"value", "error", "end"})
        /\ Len(<<>>) = 0 /\ 1..0 = {}
    OBVIOUS
  <2>2. JobsTypeOK
    BY <2>1 DEF JobsInit, JobsTypeOK
  <2>3. ASSUME NEW j \in JobSet PROVE Announces(j) /\ Followed(j) /\ (j \in left => Unwound(j))
    <3>1. job[j] = "none" /\ handle[j] = "none" /\ stream[j] = <<>> /\ told = {} /\ cut = {} /\ left = {}
      BY DEF JobsInit
    <3> QED
      BY <2>1, <3>1 DEF Announces, Followed
  <2> QED
    BY <2>2, <2>3 DEF JobsInv
<1>2. JobsInv /\ [JobsNext]_jobVars => JobsInv'
  <2>1. ASSUME JobsInv, JobsNext PROVE JobsInv'
    <3>1. JobsTypeOK'
      BY <2>1, JobTypes DEF JobsInv
    <3>2. ASSUME NEW j \in JobSet PROVE (Announces(j) /\ Followed(j) /\ (j \in left => Unwound(j)))'
      BY <2>1, JobStreams, JobsFollowed, JobsBehind DEF JobsInv
    <3> QED
      BY <3>1, <3>2 DEF JobsInv
  <2>2. ASSUME JobsInv, UNCHANGED jobVars PROVE JobsInv'
    BY <2>2 DEF jobVars, JobsInv, JobsTypeOK, Announces, Followed, Waited, Unwound
  <2> QED
    BY <2>1, <2>2
<1>3. JobsInv => JobsEndCleanly
  <2> SUFFICES ASSUME JobsInv PROVE JobsEndCleanly
    OBVIOUS
  <2>1. StreamEndsOnce
    BY DEF JobsInv, StreamEndsOnce, Announces
  <2>2. ASSUME NEW j \in left
        PROVE  /\ Unwound(j)
               /\ handle[j] = "running" => \E k \in Cancellers : list[k] # <<>> /\ Head(list[k]) = j
    <3>1. j \in JobSet
      BY DEF JobsInv, JobsTypeOK
    <3>2. Unwound(j) /\ Followed(j)
      BY <3>1 DEF JobsInv
    <3> QED
      BY <3>2 DEF Unwound, Followed, Waited
  <2> QED
    BY <2>1, <2>2 DEF JobsEndCleanly, CleanedUp
<1> QED
  BY <1>1, <1>2, <1>3, PTL DEF JobsSpec
=============================================================================
