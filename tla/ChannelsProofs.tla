--------------------------- MODULE ChannelsProofs ---------------------------
(***************************************************************************)
(* Proofs about the channels of an agent, for any number of channels,      *)
(* items, tasks in get() and races, with and without another thread.       *)
(***************************************************************************)
EXTENDS Channels, QueueTheorems

----------------------------------------------------------------------------
(***************************************************************************)
(* The invariants.                                                         *)
(***************************************************************************)

Once(q)      == \A j, k \in 1..Len(q) : q[j] = q[k] => j = k
Ascending(q) == \A j, k \in 1..Len(q) : j < k => q[j] < q[k]

\* The channels that agent code reads beside the dispatcher.
Shared == {GetOf[g] : g \in Getters}

\* For a channel c that holds q, a drain task with h in its hands ({} if none),
\* and items of the origin o and the fate f: what was put on the channel and is
\* not gone is in the channel or in those hands, once.
Owed(c, f, o) == {i \in 1..Len(o) : o[i] = c /\ f[i] = "none"}

Conserved(c, q, h, f, o) ==
  /\ Once(q)
  /\ h \cap Members(q) = {}
  /\ Members(q) \cup h = Owed(c, f, o)

\* The order on a channel that only the dispatcher reads: what was consumed,
\* what a drain task holds, what is in the channel.
InOrder(c, q, h, f, o) ==
  /\ Ascending(q)
  /\ \A i \in h, k \in Members(q) : i < k
  /\ \A i \in 1..Len(o) : f[i] = "consumed" /\ o[i] = c =>
       /\ \A k \in Members(q) : i < k
       /\ \A k \in h : i < k

Kept(c, q, h, f, o) == Conserved(c, q, h, f, o) /\ (c \notin Shared => InOrder(c, q, h, f, o))

Hands(c) == IF tst[c] = "result" THEN {result[c]} ELSE {}

ItemsKept ==
  /\ \A c \in Chans : Kept(c, items[c], Hands(c), fate, origin)
  /\ \A i \in 1..MaxPuts : i > Len(origin) => fate[i] = "none"

\* Outside race() its tasks are gone; one that race() has cancelled will not
\* take an item any more; and the notify event belongs to the loop of race().
RegisteringRuns == \A t \in Tasks : tst[t] = "registering" <=> running = t
NobodyDrains    == dst = "idle" => \A c \in Chans : tst[c] = "off"
NoLateItem      == dst = "reaping" => \A c \in Drains \ won :
                     tst[c] = "cancelled" \/ (c \in cancelling /\ tst[c] \in {"start", "waiting"})
PairIsHere      == dst # "idle" => pair = "current"

RaceKept == RegisteringRuns /\ NobodyDrains /\ NoLateItem /\ PairIsHere

\* A task has a future while it waits for one, and it waits in one queue.
HasFuture == \A t \in Tasks : tst[t] = "waiting" <=> fut[t] # "none"
OwnQueue  == \A c \in Chans : \A t \in Members(waiters[c]) : ChanOf(t) = c

Waiting == HasFuture /\ OwnQueue

Asleep(c) == {t \in Tasks : ChanOf(t) = c /\ fut[t] = "pending"}
Awake(c)  == {t \in Tasks : ChanOf(t) = c /\ fut[t] \in {"done", "cancelled"}}

\* While all puts are on the loop: who sleeps stands in the queue, and when
\* somebody sleeps on a channel, at least as many are awake as there are items.
NoThread      == tpc = "idle" /\ wakes = {}
PendingQueued == \A t \in Tasks : fut[t] = "pending" => t \in Members(waiters[ChanOf(t)])
RunningEmpty  == running \in Tasks => items[ChanOf(running)] = <<>>
EnoughAwake   == \A c \in Chans : Asleep(c) # {} => Cardinality(Awake(c)) >= Len(items[c])

Served == NoThread /\ PendingQueued /\ RunningEmpty /\ EnoughAwake

\* race() sleeps: whatever arrived since it began is announced, or the other
\* thread is about to.
Announced ==
  dst = "racing" /\ ntask \in {"start", "waiting"} =>
    \/ ~fresh /\ \A c \in Drains : items[c] = <<>>
    \/ nsets > 0 \/ tpc # "idle" \/ (ntask = "start" /\ notify)

----------------------------------------------------------------------------
(***************************************************************************)
(* Queues of numbers.                                                      *)
(***************************************************************************)

\* Without a queue that ascends still ascends, and so does its tail.
LEMMA AscendingLess ==
  ASSUME NEW q \in Seq(1..MaxPuts), Ascending(q)
  PROVE  /\ \A i \in Members(q) : Ascending(Without(q, i))
         /\ q # <<>> => Ascending(Tail(q)) /\ \A k \in Members(Tail(q)) : Head(q) < k
<1>0. Len(q) \in Nat /\ MaxPuts \in Nat /\ \A j \in 1..Len(q) : q[j] \in 1..MaxPuts
  BY LenProperties, ElementOfSeq, ChannelsAssumption
<1>1. ASSUME NEW i \in Members(q) PROVE Ascending(Without(q, i))
  <2> DEFINE r == Without(q, i)
  <2>1. PICK n \in 1..Len(q) :
          /\ Len(r) = Len(q) - 1
          /\ \A j \in 1..(Len(q) - 1) : r[j] = IF j < n THEN q[j] ELSE q[j + 1]
    BY WithoutShape
  <2> HIDE DEF r
  <2> SUFFICES ASSUME NEW j \in 1..Len(r), NEW k \in 1..Len(r), j < k PROVE r[j] < r[k]
    BY DEF Ascending, r
  <2>2. /\ j \in Nat /\ k \in Nat /\ j + 1 \in 1..Len(q) /\ k + 1 \in 1..Len(q)
        /\ j \in 1..Len(q) /\ k \in 1..Len(q)
    BY <1>0, <2>1
  <2>3. q[j] < q[k] /\ q[j] < q[k + 1] /\ q[j + 1] < q[k + 1]
    BY <2>2 DEF Ascending
  <2>4. r[j] = (IF j < n THEN q[j] ELSE q[j + 1]) /\ r[k] = (IF k < n THEN q[k] ELSE q[k + 1])
    BY <2>1
  <2>5. CASE j < n
    BY <2>3, <2>4, <2>5
  <2>6. CASE ~(j < n)
    <3>1. ~(k < n)
      BY <2>2, <2>6
    <3> QED
      BY <2>3, <2>4, <2>6, <3>1
  <2> QED
    BY <2>5, <2>6
<1>2. ASSUME q # <<>> PROVE Ascending(Tail(q)) /\ \A k \in Members(Tail(q)) : Head(q) < k
  <2> DEFINE r == Tail(q)
  <2>1. Len(q) # 0 /\ Len(r) = Len(q) - 1 /\ Head(q) = q[1] /\ \A j \in 1..Len(r) : r[j] = q[j + 1]
    BY <1>2, EmptySeq, HeadTailProperties
  <2> HIDE DEF r
  <2>2. ASSUME NEW j \in 1..Len(r), NEW k \in 1..Len(r), j < k PROVE r[j] < r[k]
    <3>1. j + 1 \in 1..Len(q) /\ k + 1 \in 1..Len(q) /\ j + 1 < k + 1
      BY <1>0, <2>1, <2>2
    <3> QED
      BY <2>1, <3>1 DEF Ascending
  <2>3. ASSUME NEW k \in 1..Len(r) PROVE Head(q) < r[k]
    <3>1. k + 1 \in 1..Len(q) /\ 1 \in 1..Len(q) /\ 1 < k + 1
      BY <1>0, <2>1
    <3> QED
      BY <2>1, <3>1 DEF Ascending
  <2> QED
    BY <2>2, <2>3 DEF Ascending, Members, r
<1> QED
  BY <1>1, <1>2

\* Somebody joins a queue.
LEMMA AppendMembers ==
  ASSUME NEW S, NEW q \in Seq(S), NEW t \in S
  PROVE  Members(Append(q, t)) = Members(q) \cup {t}
<1> DEFINE r == Append(q, t)
<1>1. /\ Len(q) \in Nat /\ Len(r) = Len(q) + 1
      /\ \A i \in 1..Len(q) : r[i] = q[i]
      /\ r[Len(q) + 1] = t
  BY LenProperties, AppendProperties
<1> HIDE DEF r
<1>2. 1..Len(r) = 1..Len(q) \cup {Len(q) + 1}
  BY <1>1
<1>3. Members(r) = Members(q) \cup {t}
  BY <1>1, <1>2 DEF Members
<1> QED
  BY <1>3 DEF r

\* A number above all others joins at the end.
LEMMA AscendingMore ==
  ASSUME NEW q \in Seq(1..MaxPuts), NEW n \in 1..MaxPuts, n \notin Members(q)
  PROVE  /\ Append(q, n) \in Seq(1..MaxPuts) /\ Members(Append(q, n)) = Members(q) \cup {n}
         /\ Once(q) => Once(Append(q, n))
         /\ Ascending(q) /\ (\A i \in Members(q) : i < n) => Ascending(Append(q, n))
<1> DEFINE r == Append(q, n)
<1>1. /\ Len(q) \in Nat /\ r \in Seq(1..MaxPuts) /\ Len(r) = Len(q) + 1
      /\ \A i \in 1..Len(q) : r[i] = q[i]
      /\ r[Len(q) + 1] = n
  BY LenProperties, AppendProperties
<1> HIDE DEF r
<1>2. 1..Len(r) = 1..Len(q) \cup {Len(q) + 1}
  BY <1>1
<1>3. Members(r) = Members(q) \cup {n}
  BY <1>1, <1>2 DEF Members
<1>4. ASSUME Once(q) PROVE Once(r)
  <2> SUFFICES ASSUME NEW j \in 1..Len(r), NEW k \in 1..Len(r), r[j] = r[k] PROVE j = k
    BY DEF Once
  <2>1. \A i \in 1..Len(q) : r[i] # n
    BY <1>1 DEF Members
  <2> QED
    BY <1>1, <1>2, <1>4, <2>1 DEF Once
<1>5. ASSUME Ascending(q), \A i \in Members(q) : i < n PROVE Ascending(r)
  <2> SUFFICES ASSUME NEW j \in 1..Len(r), NEW k \in 1..Len(r), j < k PROVE r[j] < r[k]
    BY DEF Ascending
  <2>1. j \in 1..Len(q)
    BY <1>1
  <2>2. CASE k \in 1..Len(q)
    BY <1>1, <1>5, <2>1, <2>2 DEF Ascending
  <2>3. CASE k = Len(q) + 1
    BY <1>1, <1>5, <2>1, <2>3 DEF Members
  <2> QED
    BY <1>2, <2>2, <2>3
<1> QED
  BY <1>1, <1>3, <1>4, <1>5 DEF r

\* A number below all others is put back in front.
LEMMA AscendingBack ==
  ASSUME NEW q \in Seq(1..MaxPuts), NEW n \in 1..MaxPuts, n \notin Members(q)
  PROVE  /\ <<n>> \o q \in Seq(1..MaxPuts) /\ Len(<<n>> \o q) = Len(q) + 1
         /\ Members(<<n>> \o q) = Members(q) \cup {n}
         /\ Once(q) => Once(<<n>> \o q)
         /\ Ascending(q) /\ (\A i \in Members(q) : n < i) => Ascending(<<n>> \o q)
<1> DEFINE r == <<n>> \o q
<1>0. <<n>> \in Seq(1..MaxPuts) /\ Len(<<n>>) = 1 /\ <<n>>[1] = n
  OBVIOUS
<1>1. Len(q) \in Nat /\ r \in Seq(1..MaxPuts) /\ Len(r) = Len(q) + 1
  BY <1>0, LenProperties, ConcatProperties
<1>2. \A i \in 1..(1 + Len(q)) : r[i] = IF i <= 1 THEN <<n>>[i] ELSE q[i - 1]
  BY <1>0, ConcatProperties
<1>3. r[1] = n /\ \A i \in 1..Len(q) : r[i + 1] = q[i]
  <2>1. r[1] = n
    BY <1>0, <1>1, <1>2
  <2>2. ASSUME NEW i \in 1..Len(q) PROVE r[i + 1] = q[i]
    <3>1. i + 1 \in 1..(1 + Len(q)) /\ ~(i + 1 <= 1) /\ (i + 1) - 1 = i
      BY <1>1
    <3> QED
      BY <1>2, <3>1
  <2> QED
    BY <2>1, <2>2
<1> HIDE DEF r
<1>4. \A j \in 1..Len(r) : j = 1 \/ (j - 1 \in 1..Len(q) /\ r[j] = q[j - 1])
  <2> SUFFICES ASSUME NEW j \in 1..Len(r), j # 1 PROVE j - 1 \in 1..Len(q) /\ r[j] = q[j - 1]
    OBVIOUS
  <2>1. j - 1 \in 1..Len(q) /\ (j - 1) + 1 = j
    BY <1>1
  <2> QED
    BY <1>3, <2>1
<1>5. Members(r) = Members(q) \cup {n}
  <2>1. \A j \in 1..Len(r) : r[j] \in Members(q) \cup {n}
    BY <1>3, <1>4 DEF Members
  <2>2. 1 \in 1..Len(r) /\ \A j \in 1..Len(q) : j + 1 \in 1..Len(r)
    BY <1>1
  <2>3. n \in Members(r)
    BY <1>3, <2>2 DEF Members
  <2>4. \A j \in 1..Len(q) : q[j] \in Members(r)
    BY <1>3, <2>2 DEF Members
  <2> QED
    BY <2>1, <2>3, <2>4 DEF Members
<1>6. ASSUME Once(q) PROVE Once(r)
  <2> SUFFICES ASSUME NEW j \in 1..Len(r), NEW k \in 1..Len(r), r[j] = r[k] PROVE j = k
    BY DEF Once
  <2>1. \A i \in 1..Len(q) : q[i] # n
    BY DEF Members
  <2>2. CASE j = 1 \/ k = 1
    BY <1>3, <1>4, <2>1, <2>2
  <2>3. CASE j # 1 /\ k # 1
    <3>1. j - 1 \in 1..Len(q) /\ k - 1 \in 1..Len(q) /\ q[j - 1] = q[k - 1]
      BY <1>4, <2>3
    <3>2. j - 1 = k - 1
      BY <1>6, <3>1 DEF Once
    <3> QED
      BY <1>1, <3>2
  <2> QED
    BY <2>2, <2>3
<1>7. ASSUME Ascending(q), \A i \in Members(q) : n < i PROVE Ascending(r)
  <2> SUFFICES ASSUME NEW j \in 1..Len(r), NEW k \in 1..Len(r), j < k PROVE r[j] < r[k]
    BY DEF Ascending
  <2>1. k # 1
    BY <1>1
  <2>2. k - 1 \in 1..Len(q) /\ r[k] = q[k - 1]
    BY <1>4, <2>1
  <2>3. CASE j = 1
    BY <1>3, <1>7, <2>2, <2>3 DEF Members
  <2>4. CASE j # 1
    <3>1. j - 1 \in 1..Len(q) /\ r[j] = q[j - 1] /\ j - 1 < k - 1
      BY <1>1, <1>4, <2>4
    <3> QED
      BY <1>7, <2>2, <3>1 DEF Ascending
  <2> QED
    BY <2>3, <2>4
<1> QED
  BY <1>1, <1>5, <1>6, <1>7 DEF r

----------------------------------------------------------------------------
(***************************************************************************)
(* What the operations do to one channel.                                  *)
(***************************************************************************)

\* An item is put on the channel, or on another one.
LEMMA KeptPut ==
  ASSUME NEW c \in Chans, NEW d \in Chans, NEW q \in Seq(1..MaxPuts), NEW h, NEW f,
         NEW o \in Seq(Chans), Len(o) + 1 \in 1..MaxPuts, f[Len(o) + 1] = "none",
         Kept(d, q, h, f, o)
  PROVE  Kept(d, IF d = c THEN Append(q, Len(o) + 1) ELSE q, h, f, Append(o, c))
<1> DEFINE n == Len(o) + 1
           p == Append(o, c)
           r == Append(q, n)
<1>1. /\ Len(o) \in Nat /\ p \in Seq(Chans) /\ Len(p) = n /\ p[n] = c
      /\ \A i \in 1..Len(o) : p[i] = o[i]
  BY LenProperties, AppendProperties
<1>2. \A i \in Members(q) \cup h : i \in 1..Len(o) /\ i < n
  BY <1>1 DEF Kept, Conserved, Owed
<1>3. n \notin Members(q) /\ n \notin h
  BY <1>1, <1>2
<1> HIDE DEF p
<1>4. 1..Len(p) = 1..Len(o) \cup {n}
  BY <1>1
<1>5. Owed(d, f, p) = IF d = c THEN Owed(d, f, o) \cup {n} ELSE Owed(d, f, o)
  <2> HIDE DEF n
  <2>0. f[n] = "none"
    BY DEF n
  <2> QED
    BY <1>1, <1>4, <2>0 DEF Owed
<1>6. CASE d = c
  <2>1. /\ Members(r) = Members(q) \cup {n} /\ (Once(q) => Once(r))
        /\ Ascending(q) => Ascending(r)
    BY <1>2, <1>3, AscendingMore
  <2> HIDE DEF r
  <2>2. Conserved(d, r, h, f, p)
    BY <1>3, <1>5, <1>6, <2>1 DEF Kept, Conserved
  <2>3. ASSUME d \notin Shared PROVE InOrder(d, r, h, f, p)
    <3>1. InOrder(d, q, h, f, o)
      BY <2>3 DEF Kept
    <3>2. \A i \in 1..Len(p) : f[i] = "consumed" => i \in 1..Len(o)
      <4> HIDE DEF n
      <4>0. f[n] = "none"
        BY DEF n
      <4> QED
        BY <1>4, <4>0
    <3>3. \A i \in 1..Len(o) : i < n
      BY <1>1
    <3> HIDE DEF n
    <3>4. Ascending(r) /\ \A i \in h, k \in Members(r) : i < k
      BY <1>2, <2>1, <3>1 DEF InOrder
    <3>5. ASSUME NEW i \in 1..Len(p), f[i] = "consumed", p[i] = d
          PROVE  (\A k \in Members(r) : i < k) /\ (\A k \in h : i < k)
      BY <1>1, <2>1, <3>1, <3>2, <3>3, <3>5 DEF InOrder
    <3> QED
      BY <3>4, <3>5 DEF InOrder
  <2> QED
    BY <1>6, <2>2, <2>3 DEF Kept, p, r
<1>7. CASE d # c
  <2>1. Conserved(d, q, h, f, p)
    BY <1>5, <1>7 DEF Kept, Conserved
  <2>2. ASSUME d \notin Shared PROVE InOrder(d, q, h, f, p)
    <3>1. InOrder(d, q, h, f, o)
      BY <2>2 DEF Kept
    <3> HIDE DEF n
    <3>2. \A i \in 1..Len(p) : p[i] = d => i \in 1..Len(o) /\ o[i] = d
      BY <1>1, <1>4, <1>7
    <3> QED
      BY <3>1, <3>2 DEF InOrder
  <2> QED
    BY <1>7, <2>1, <2>2 DEF Kept, p
<1> QED
  BY <1>6, <1>7

\* Nothing happens to the items of this channel.
LEMMA KeptElsewhere ==
  ASSUME NEW d, NEW q, NEW h, NEW f, NEW g, NEW o,
         \A i \in 1..Len(o) : o[i] = d => g[i] = f[i],
         Kept(d, q, h, f, o)
  PROVE  Kept(d, q, h, g, o)
<1>1. Owed(d, g, o) = Owed(d, f, o)
  BY DEF Owed
<1>2. Conserved(d, q, h, g, o)
  BY <1>1 DEF Kept, Conserved
<1>3. d \notin Shared => InOrder(d, q, h, g, o)
  BY DEF Kept, InOrder
<1> QED
  BY <1>2, <1>3 DEF Kept

\* A drain task takes the first item.
LEMMA KeptHeld ==
  ASSUME NEW c, NEW q \in Seq(1..MaxPuts), NEW f, NEW o, q # <<>>,
         Kept(c, q, {}, f, o)
  PROVE  Kept(c, Tail(q), {Head(q)}, f, o)
<1>1. /\ Head(q) \in Members(q) /\ Members(Tail(q)) = Members(q) \ {Head(q)}
      /\ Once(Tail(q))
  BY ServedMembers DEF Kept, Conserved, Once
<1>2. Conserved(c, Tail(q), {Head(q)}, f, o)
  BY <1>1 DEF Kept, Conserved
<1>3. ASSUME c \notin Shared PROVE InOrder(c, Tail(q), {Head(q)}, f, o)
  <2>1. InOrder(c, q, {}, f, o)
    BY <1>3 DEF Kept
  <2>2. Ascending(Tail(q)) /\ \A k \in Members(Tail(q)) : Head(q) < k
    BY <2>1, AscendingLess DEF InOrder
  <2> QED
    BY <1>1, <2>1, <2>2 DEF InOrder
<1> QED
  BY <1>2, <1>3 DEF Kept

\* The first item is consumed, by agent code or by a dispatcher that has no
\* drain task.
LEMMA KeptTaken ==
  ASSUME NEW c, NEW q \in Seq(1..MaxPuts), NEW h, NEW f, NEW g, NEW o \in Seq(Chans), q # <<>>,
         g[Head(q)] = "consumed", \A i \in 1..Len(o) : i # Head(q) => g[i] = f[i],
         c \in Shared \/ h = {},
         Kept(c, q, h, f, o)
  PROVE  Kept(c, Tail(q), h, g, o)
<1>1. /\ Head(q) \in Members(q) /\ Members(Tail(q)) = Members(q) \ {Head(q)}
      /\ Once(Tail(q))
  BY ServedMembers DEF Kept, Conserved, Once
<1>2. \A i \in Members(q) \cup h : i \in 1..Len(o) /\ o[i] = c /\ f[i] = "none"
  BY DEF Kept, Conserved, Owed
<1>3. Owed(c, g, o) = Owed(c, f, o) \ {Head(q)}
  BY <1>1, <1>2 DEF Owed
<1>4. Conserved(c, Tail(q), h, g, o)
  BY <1>1, <1>3 DEF Kept, Conserved
<1>5. ASSUME c \notin Shared PROVE InOrder(c, Tail(q), h, g, o)
  <2>1. InOrder(c, q, h, f, o) /\ h = {}
    BY <1>5 DEF Kept
  <2>2. Ascending(Tail(q)) /\ \A k \in Members(Tail(q)) : Head(q) < k
    BY <2>1, AscendingLess DEF InOrder
  <2> QED
    BY <1>1, <1>2, <2>1, <2>2 DEF InOrder
<1> QED
  BY <1>4, <1>5 DEF Kept

\* Everything in the channel is consumed by a dispatcher that has no drain
\* task, or is discarded.
LEMMA KeptEmptied ==
  ASSUME NEW c, NEW q \in Seq(1..MaxPuts), NEW h, NEW f, NEW g, NEW o \in Seq(Chans),
         NEW v \in {"consumed", "discarded"},
         \A i \in 1..Len(o) : g[i] = IF i \in Members(q) THEN v ELSE f[i],
         v = "discarded" \/ h = {},
         Kept(c, q, h, f, o)
  PROVE  Kept(c, <<>>, h, g, o)
<1>1. Members(<<>>) = {} /\ Once(<<>>) /\ Ascending(<<>>)
  BY EmptySeq DEF Members, Once, Ascending
<1>2. \A i \in Members(q) \cup h : i \in 1..Len(o) /\ o[i] = c /\ f[i] = "none"
  BY DEF Kept, Conserved, Owed
<1>3. Owed(c, g, o) = Owed(c, f, o) \ Members(q)
  BY <1>2 DEF Owed
<1>4. Conserved(c, <<>>, h, g, o)
  BY <1>1, <1>3 DEF Kept, Conserved
<1>5. ASSUME c \notin Shared PROVE InOrder(c, <<>>, h, g, o)
  <2>1. InOrder(c, q, h, f, o)
    BY <1>5 DEF Kept
  <2>2. \A i \in 1..Len(o) : g[i] = "consumed" => f[i] = "consumed" \/ h = {}
    OBVIOUS
  <2> QED
    BY <1>1, <2>1, <2>2 DEF InOrder
<1> QED
  BY <1>4, <1>5 DEF Kept

\* An item is withdrawn.
LEMMA KeptWithout ==
  ASSUME NEW c, NEW q \in Seq(1..MaxPuts), NEW h, NEW f, NEW g, NEW o \in Seq(Chans),
         NEW i \in Members(q),
         \A j \in 1..Len(o) : g[j] = IF j = i THEN "withdrawn" ELSE f[j],
         Kept(c, q, h, f, o)
  PROVE  Kept(c, Without(q, i), h, g, o)
<1>1. Members(Without(q, i)) = Members(q) \ {i} /\ Once(Without(q, i))
  BY WithoutMembers DEF Kept, Conserved, Once
<1>2. \A j \in Members(q) \cup h : j \in 1..Len(o) /\ o[j] = c /\ f[j] = "none"
  BY DEF Kept, Conserved, Owed
<1>3. Owed(c, g, o) = Owed(c, f, o) \ {i}
  BY <1>2 DEF Owed
<1>4. Conserved(c, Without(q, i), h, g, o)
  BY <1>1, <1>3 DEF Kept, Conserved
<1>5. ASSUME c \notin Shared PROVE InOrder(c, Without(q, i), h, g, o)
  <2>1. InOrder(c, q, h, f, o)
    BY <1>5 DEF Kept
  <2>2. Ascending(Without(q, i))
    BY <2>1, AscendingLess DEF InOrder
  <2> QED
    BY <1>1, <2>1, <2>2 DEF InOrder
<1> QED
  BY <1>4, <1>5 DEF Kept

\* What a drain task holds goes back to where it was.
LEMMA KeptBack ==
  ASSUME NEW c, NEW q \in Seq(1..MaxPuts), NEW n \in 1..MaxPuts, NEW f, NEW o,
         Kept(c, q, {n}, f, o)
  PROVE  Kept(c, <<n>> \o q, {}, f, o)
<1>1. n \notin Members(q)
  BY DEF Kept, Conserved
<1>2. /\ Members(<<n>> \o q) = Members(q) \cup {n} /\ Once(<<n>> \o q)
      /\ Ascending(q) /\ (\A i \in Members(q) : n < i) => Ascending(<<n>> \o q)
  BY <1>1, AscendingBack DEF Kept, Conserved
<1>3. Conserved(c, <<n>> \o q, {}, f, o)
  BY <1>2 DEF Kept, Conserved
<1>4. ASSUME c \notin Shared PROVE InOrder(c, <<n>> \o q, {}, f, o)
  BY <1>2, <1>4 DEF Kept, InOrder
<1> QED
  BY <1>3, <1>4 DEF Kept

\* What a drain task holds is consumed by the dispatcher.
LEMMA KeptWon ==
  ASSUME NEW c, NEW q \in Seq(1..MaxPuts), NEW n, NEW f, NEW g, NEW o \in Seq(Chans),
         g[n] = "consumed", \A i \in 1..Len(o) : i # n /\ o[i] = c => g[i] = f[i],
         Kept(c, q, {n}, f, o)
  PROVE  Kept(c, q, {}, g, o)
<1>1. \A i \in Members(q) \cup {n} : i \in 1..Len(o) /\ o[i] = c /\ f[i] = "none"
  BY DEF Kept, Conserved, Owed
<1>2. Owed(c, g, o) = Owed(c, f, o) \ {n}
  BY <1>1 DEF Owed
<1>3. Conserved(c, q, {}, g, o)
  BY <1>2 DEF Kept, Conserved
<1>4. ASSUME c \notin Shared PROVE InOrder(c, q, {}, g, o)
  BY <1>4 DEF Kept, InOrder
<1> QED
  BY <1>3, <1>4 DEF Kept

----------------------------------------------------------------------------
(***************************************************************************)
(* Types.                                                                  *)
(***************************************************************************)

ChanType == items \in [Chans -> Seq(1..MaxPuts)] /\ waiters \in [Chans -> Seq(Tasks)]
MgrType  == /\ registered \subseteq Chans /\ pair \in {"none", "current", "stale"}
            /\ notify \in BOOLEAN /\ notify_pending \in BOOLEAN
TaskType ==
  /\ tst \in [Tasks -> {"off", "start", "registering", "waiting", "result", "cancelled"}]
  /\ fut \in [Tasks -> {"none", "pending", "done", "cancelled"}]
  /\ result \in [Chans -> 0..MaxPuts] /\ cancelling \subseteq Tasks
RaceType ==
  /\ ntask \in {"off", "start", "waiting", "woken", "cancelling", "done"}
  /\ dst \in {"idle", "racing", "reaping", "unwinding"}
  /\ won \subseteq Chans /\ asked \in BOOLEAN
LoopType == wakes \subseteq Tasks /\ nsets \in Nat /\ running \in Tasks \cup {NoTask, Dispatcher}
ThrdType == tpc \in {"idle", "wake", "notify"} /\ tch \in Chans
HistType ==
  /\ origin \in Seq(Chans) /\ Len(origin) <= MaxPuts
  /\ fate \in [1..MaxPuts -> {"none", "consumed", "discarded", "withdrawn"}]
  /\ events \in 0..MaxEvents /\ fresh \in BOOLEAN

\* The type invariant, in parts.
LEMMA TypeGroups ==
  TypeOK <=> ChanType /\ MgrType /\ TaskType /\ RaceType /\ LoopType /\ ThrdType /\ HistType
BY DEF TypeOK, ChanType, MgrType, TaskType, RaceType, LoopType, ThrdType, HistType

\* What the assumptions say of names.
LEMMA Names ==
  /\ MaxPuts \in Nat /\ MaxEvents \in Nat
  /\ NoTask \notin Tasks /\ Dispatcher \notin Tasks /\ NoTask # Dispatcher
  /\ \A t \in Tasks : ChanOf(t) \in Chans
  /\ \A t \in Tasks : t \in Chans \/ t \in Getters
  /\ \A c \in Chans : c \in Tasks /\ ChanOf(c) = c
  /\ \A g \in Getters : g \in Tasks /\ g \notin Chans /\ ChanOf(g) = GetOf[g] /\ GetOf[g] \in Shared
BY ChannelsAssumption DEF NoTask, Dispatcher, Tasks, ChanOf, Shared

\* The channels have an order.
LEMMA RankType ==
  ASSUME NEW c \in Chans
  PROVE  Rank(c) \in Nat
<1> DEFINE I == {i \in 1..Len(Order) : Order[i] = c}
<1>1. Order \in Seq(Chans) /\ Len(Order) \in Nat
  BY ChannelsAssumption, LenProperties
<1>2. \E i \in 1..Len(Order) : Order[i] = c
  BY ChannelsAssumption
<1>3. I \in SUBSET Nat /\ I # {}
  BY <1>1, <1>2
<1>4. PICK i \in I : \A j \in I : i <= j
  BY <1>3, LeastNumber
<1>5. \A j \in 1..(i - 1) : Order[j] # c
  BY <1>1, <1>4
<1>6. \E k \in 1..Len(Order) : Order[k] = c /\ \A j \in 1..(k - 1) : Order[j] # c
  BY <1>4, <1>5
<1>7. Rank(c) \in 1..Len(Order)
  BY <1>6 DEF Rank
<1> QED
  BY <1>1, <1>7

\* Of several channels one is the first.
LEMMA FirstChannel ==
  ASSUME NEW S \in SUBSET Chans, S # {}
  PROVE  First(S) \in S
<1> DEFINE ranks == {Rank(c) : c \in S}
<1>1. ranks \in SUBSET Nat /\ ranks # {}
  BY RankType
<1>2. PICK x \in ranks : \A y \in ranks : x <= y
  <2> HIDE DEF ranks
  <2> QED
    BY <1>1, LeastNumber
<1>3. PICK c \in S : x = Rank(c)
  BY <1>2
<1>4. \A d \in S : Rank(c) <= Rank(d)
  BY <1>2, <1>3
<1> QED
  BY <1>4 DEF First

\* _wake_next_waiter wakes one sleeper if there is one, and those behind it
\* stay in the queue.
LEMMA PopShape ==
  ASSUME NEW q \in Seq(Tasks)
  PROVE  /\ Popped(q) \in Seq(Tasks) /\ Members(Popped(q)) \subseteq Members(q)
         /\ \A t \in Woken(q) : t \in Members(q) /\ fut[t] = "pending"
         /\ \A t \in Members(q) : fut[t] = "pending" => t \in Woken(q) \/ t \in Members(Popped(q))
         /\ \A t \in Members(q) : fut[t] = "pending" => \E u : Woken(q) = {u}
<1>1. Len(q) \in Nat /\ \A i \in 1..Len(q) : q[i] \in Tasks
  BY LenProperties, ElementOfSeq
<1>2. Live(q) \in SUBSET Nat /\ \A i \in Live(q) : i \in 1..Len(q) /\ fut[q[i]] = "pending"
  BY <1>1 DEF Live
<1>3. \A t \in Members(q) : fut[t] = "pending" => \E i \in Live(q) : q[i] = t
  BY DEF Live, Members
<1>4. \A t \in Woken(q) : t \in Members(q) /\ fut[t] = "pending"
  BY <1>2 DEF Woken, Members
<1>5. CASE Live(q) = {}
  <2>1. Popped(q) = <<>> /\ Members(<<>>) = {} /\ <<>> \in Seq(Tasks)
    BY <1>5, EmptySeq DEF Popped, Members
  <2> QED
    BY <1>3, <1>4, <1>5, <2>1
<1>6. CASE Live(q) # {}
  <2> DEFINE i == CHOOSE j \in Live(q) : \A k \in Live(q) : j <= k
             r == SubSeq(q, 1 + i, Len(q))
  <2>1. i \in Live(q) /\ \A k \in Live(q) : i <= k
    BY <1>2, <1>6, LeastNumber
  <2>2. Popped(q) = r
    BY <1>6 DEF Popped
  <2>3. i \in 1..Len(q) /\ \A k \in Live(q) : k = i \/ i < k
    BY <1>2, <2>1
  <2> HIDE DEF i
  <2>4. Woken(q) = {q[i]}
    <3>1. {j \in Live(q) : \A k \in Live(q) : j <= k} = {i}
      BY <1>1, <1>2, <2>1, <2>3
    <3> QED
      BY <3>1 DEF Woken
  <2>5. /\ r \in Seq(Tasks) /\ Len(r) = (IF 1 + i <= Len(q) THEN Len(q) - (1 + i) + 1 ELSE 0)
        /\ \A k \in 1..(Len(q) - (1 + i) + 1) : r[k] = q[(1 + i) + k - 1]
    <3>1. 1 + i \in Int /\ Len(q) \in Int /\ \A k \in (1 + i)..Len(q) : q[k] \in Tasks
      BY <1>1, <2>3
    <3> QED
      BY <3>1, SubSeqProperties
  <2> HIDE DEF r
  <2>6. /\ Len(r) = Len(q) - i
        /\ \A k \in 1..(Len(q) - i) : r[k] = q[i + k]
    <3>1. Len(q) - (1 + i) + 1 = Len(q) - i
      BY <1>1, <2>3
    <3>2. Len(r) = Len(q) - i
      BY <1>1, <2>3, <2>5
    <3>3. \A k \in 1..(Len(q) - i) : (1 + i) + k - 1 = i + k
      BY <1>1, <2>3
    <3> QED
      BY <2>5, <3>1, <3>2, <3>3
  <2>7. \A k \in 1..Len(r) : r[k] \in Members(q)
    <3> TAKE k \in 1..Len(r)
    <3>1. i + k \in 1..Len(q) /\ r[k] = q[i + k]
      BY <1>1, <2>3, <2>6
    <3> QED
      BY <3>1 DEF Members
  <2>8. \A k \in Live(q) : k = i \/ q[k] \in Members(r)
    <3> SUFFICES ASSUME NEW k \in Live(q), i < k PROVE q[k] \in Members(r)
      BY <2>3
    <3>1. k - i \in 1..(Len(q) - i) /\ i + (k - i) = k
      BY <1>1, <1>2, <2>3
    <3> QED
      BY <2>6, <3>1 DEF Members
  <2>9. Members(r) \subseteq Members(q)
    BY <2>7 DEF Members
  <2>10. \A t \in Members(q) : fut[t] = "pending" => t \in Woken(q) \/ t \in Members(r)
    BY <1>3, <2>4, <2>8
  <2> QED
    BY <1>4, <2>2, <2>4, <2>5, <2>9, <2>10
<1> QED
  BY <1>5, <1>6

\* What a drain task holds is an item that is not in the channel.
LEMMA HandsHold ==
  ASSUME TypeOK, ItemsKept, NEW c \in Chans, tst[c] = "result"
  PROVE  /\ result[c] \in 1..MaxPuts /\ result[c] \in 1..Len(origin)
         /\ origin[result[c]] = c /\ result[c] \notin Members(items[c])
         /\ Hands(c) = {result[c]}
<1>1. Conserved(c, items[c], Hands(c), fate, origin) /\ Hands(c) = {result[c]}
  BY DEF ItemsKept, Kept, Hands
<1>2. Len(origin) \in Nat /\ Len(origin) <= MaxPuts /\ MaxPuts \in Nat
  BY Names, LenProperties DEF TypeOK
<1> QED
  BY <1>1, <1>2 DEF Conserved, Owed

\* _restore_front leaves well typed channels behind.
LEMMA RestoreTypes ==
  ASSUME TypeOK, ItemsKept, NEW R \in SUBSET Chans, \A c \in R : tst[c] = "result", Restore(R)
  PROVE  ChanType' /\ fut' \in [Tasks -> {"none", "pending", "done", "cancelled"}]
<1>1. ASSUME NEW c \in Chans
      PROVE  (IF c \in R THEN <<result[c]>> \o items[c] ELSE items[c]) \in Seq(1..MaxPuts)
  <2>1. items[c] \in Seq(1..MaxPuts)
    BY DEF TypeOK
  <2>2. CASE c \in R
    BY <2>1, <2>2, HandsHold, AscendingBack
  <2> QED
    BY <2>1, <2>2
<1>2. ASSUME NEW c \in Chans
      PROVE  (IF c \in R THEN Popped(waiters[c]) ELSE waiters[c]) \in Seq(Tasks)
  BY PopShape DEF TypeOK
<1>3. fut' \in [Tasks -> {"none", "pending", "done", "cancelled"}]
  BY DEF Restore, TypeOK
<1> QED
  BY <1>1, <1>2, <1>3 DEF Restore, ChanType

\* A race is over for some drain tasks: those of R give back what they hold,
\* what those of S hold is consumed, the others hold what they held.
Settles(R, S) ==
  /\ R \cap S = {} /\ \A c \in R \cup S : tst[c] = "result"
  /\ Restore(R)
  /\ \A i \in 1..MaxPuts : fate'[i] = IF \E c \in S : result[c] = i THEN "consumed" ELSE fate[i]
  /\ fate' \in [1..MaxPuts -> {"none", "consumed", "discarded", "withdrawn"}]
  /\ \A c \in Chans : Hands(c)' = IF c \in R \cup S THEN {} ELSE Hands(c)
  /\ origin' = origin

\* race() returns when nobody holds an item that it does not look at.
LEMMA EndSettles ==
  ASSUME TypeOK, ItemsKept, NEW w \in SUBSET Chans,
         \A c \in Chans : tst[c] = "result" => c \in w /\ c \in Drains,
         RaceEnds(w)
  PROVE  \E R, S \in SUBSET Chans : Settles(R, S)
<1>1. \A c \in Chans : Hands(c)' = {}
  BY Names DEF RaceEnds, Hands
<1>2. \A c \in Chans : tst[c] # "result" => Hands(c) = {}
  BY DEF Hands
<1>3. fate \in [1..MaxPuts -> {"none", "consumed", "discarded", "withdrawn"}] /\ origin' = origin
  BY DEF TypeOK, RaceEnds, hist
<1>4. CASE w = {} /\ UNCHANGED <<chan, fut, fate>>
  <2>1. Restore({})
    BY <1>4 DEF Restore, chan, TypeOK
  <2>2. \A c \in Chans : Hands(c) = {}
    BY <1>2, <1>4
  <2>3. Settles({}, {})
    BY <1>1, <1>3, <1>4, <2>1, <2>2 DEF Settles
  <2> QED
    BY <2>3
<1>5. CASE /\ w # {} /\ tst[First(w)] = "result"
           /\ Restore({c \in w \ {First(w)} : tst[c] = "result"})
           /\ fate' = [fate EXCEPT ![result[First(w)]] = "consumed"]
  <2> DEFINE R == {c \in w \ {First(w)} : tst[c] = "result"}
             S == {First(w)}
  <2>1. First(w) \in w
    BY <1>5, FirstChannel
  <2>2. result[First(w)] \in 1..MaxPuts
    BY <1>5, <2>1, HandsHold
  <2>3. \A c \in Chans : tst[c] = "result" => c \in R \cup S
    OBVIOUS
  <2>4. R \cap S = {} /\ \A c \in R \cup S : tst[c] = "result"
    BY <1>5
  <2>5. \A i \in 1..MaxPuts : fate'[i] = IF \E c \in S : result[c] = i THEN "consumed" ELSE fate[i]
    BY <1>3, <1>5, <2>2
  <2>6. fate' \in [1..MaxPuts -> {"none", "consumed", "discarded", "withdrawn"}]
    BY <1>3, <1>5
  <2>7. \A c \in Chans : Hands(c)' = IF c \in R \cup S THEN {} ELSE Hands(c)
    BY <1>1, <1>2, <2>3
  <2>8. R \in SUBSET Chans /\ S \in SUBSET Chans /\ Restore(R)
    BY <1>5, <2>1
  <2> HIDE DEF R, S
  <2>9. Settles(R, S)
    BY <1>3, <2>4, <2>5, <2>6, <2>7, <2>8 DEF Settles
  <2> QED
    BY <2>8, <2>9
<1>6. CASE Restore({c \in Drains : tst[c] = "result"}) /\ UNCHANGED fate
  <2> DEFINE R == {c \in Drains : tst[c] = "result"}
  <2>1. R \in SUBSET Chans /\ \A c \in R \cup {} : tst[c] = "result"
    BY DEF Drains
  <2>2. \A c \in Chans : Hands(c)' = IF c \in R \cup {} THEN {} ELSE Hands(c)
    BY <1>1, <1>2
  <2>3. Restore(R)
    BY <1>6
  <2> HIDE DEF R
  <2>4. Settles(R, {})
    BY <1>3, <1>6, <2>1, <2>2, <2>3 DEF Settles
  <2> QED
    BY <2>1, <2>4
<1> QED
  BY <1>4, <1>5, <1>6 DEF RaceEnds

\* The drain tasks that race() awaits after it was cancelled give back what
\* they hold.
LEMMA UnwindSettles ==
  ASSUME TypeOK, ItemsKept, Unwind
  PROVE  \E R \in SUBSET Chans : Settles(R, {})
<1> DEFINE F == {c \in Drains : \A d \in Drains : Rank(d) <= Rank(c) => Finished(d)}
           R == {c \in F : tst[c] = "result"}
<1>1. /\ Restore(R) /\ fate' = fate /\ origin' = origin
      /\ tst' = [t \in Tasks |-> IF t \in F THEN "off" ELSE tst[t]]
      /\ result' = [c \in Chans |-> IF c \in F THEN 0 ELSE result[c]]
  BY DEF Unwind, hist
<1>2. F \in SUBSET Chans
  BY DEF Drains
<1> HIDE DEF F
<1>3. R \in SUBSET Chans /\ \A c \in R \cup {} : tst[c] = "result"
  BY <1>2
<1>4. \A c \in Chans : Hands(c)' = IF c \in R \cup {} THEN {} ELSE Hands(c)
  BY <1>1, Names DEF Hands
<1>5. fate \in [1..MaxPuts -> {"none", "consumed", "discarded", "withdrawn"}]
  BY DEF TypeOK
<1> HIDE DEF R
<1>6. Settles(R, {})
  BY <1>1, <1>3, <1>4, <1>5 DEF Settles
<1> QED
  BY <1>3, <1>6

\* A race that is settled leaves well typed state behind.
LEMMA SettledTypes ==
  ASSUME TypeOK, ItemsKept, NEW R \in SUBSET Chans, NEW S \in SUBSET Chans, Settles(R, S)
  PROVE  ChanType' /\ fut' \in [Tasks -> {"none", "pending", "done", "cancelled"}]
BY RestoreTypes DEF Settles

\* The end of race() leaves well typed state behind.
LEMMA EndTypes ==
  ASSUME TypeOK, ItemsKept, NEW w \in SUBSET Chans,
         \A c \in Chans : tst[c] = "result" => c \in w /\ c \in Drains,
         RaceEnds(w)
  PROVE  TypeOK'
<1>1. PICK R, S \in SUBSET Chans : Settles(R, S)
  BY EndSettles
<1>2. ChanType' /\ fut' \in [Tasks -> {"none", "pending", "done", "cancelled"}]
  BY <1>1, SettledTypes
<1>3. /\ MgrType /\ TaskType /\ RaceType /\ LoopType /\ ThrdType /\ HistType
  BY TypeGroups
<1>4. MgrType'
  BY <1>3 DEF MgrType, RaceEnds
<1>5. TaskType'
  BY <1>2, <1>3, Names DEF TaskType, RaceEnds
<1>6. RaceType' /\ LoopType' /\ ThrdType'
  BY <1>3 DEF RaceEnds, RaceType, LoopType, ThrdType, loop, thrd
<1>7. HistType'
  <2>1. fate' \in [1..MaxPuts -> {"none", "consumed", "discarded", "withdrawn"}] /\ origin' = origin
    BY <1>1 DEF Settles
  <2> QED
    BY <1>3, <2>1 DEF HistType, RaceEnds
<1> QED
  BY <1>2, <1>4, <1>5, <1>6, <1>7
    DEF TypeOK, ChanType, MgrType, TaskType, RaceType, LoopType, ThrdType, HistType

\* What race() looks at when it returns.
LEMMA Looks ==
  ASSUME TypeOK, RaceKept
  PROVE  /\ RaceReaped => \A c \in Chans : tst[c] = "result" => c \in won /\ c \in Drains
         /\ \A c \in Chans : tst[c] = "result" => c \in Drains
         /\ won \in SUBSET Chans /\ Drains \in SUBSET Chans
<1>1. RaceReaped => \A c \in Drains \ won : tst[c] # "result"
  BY DEF RaceReaped, RaceKept, NoLateItem
<1> QED
  BY <1>1 DEF Drains, TypeOK

\* Producers and callbacks.
LEMMA ProducerTypes ==
  ASSUME TypeOK,
         \/ \E c \in Chans : LoopPut(c) \/ ThreadAppend(c)
         \/ LoopEvent \/ ThreadEvent \/ Thread \/ RunNotify
         \/ \E t \in Tasks : RunWake(t)
  PROVE  TypeOK'
<1>0. ChanType /\ MgrType /\ TaskType /\ RaceType /\ LoopType /\ ThrdType /\ HistType
  BY TypeGroups
<1>n. Len(origin) < MaxPuts =>
        /\ NextItem \in 1..MaxPuts
        /\ \A c \in Chans : /\ Append(items[c], NextItem) \in Seq(1..MaxPuts)
                            /\ Append(origin, c) \in Seq(Chans) /\ Len(Append(origin, c)) <= MaxPuts
  <2> SUFFICES ASSUME Len(origin) < MaxPuts, NEW c \in Chans
               PROVE  /\ NextItem \in 1..MaxPuts
                      /\ Append(items[c], NextItem) \in Seq(1..MaxPuts)
                      /\ Append(origin, c) \in Seq(Chans) /\ Len(Append(origin, c)) <= MaxPuts
    BY ChannelsAssumption
  <2>1. origin \in Seq(Chans) /\ items[c] \in Seq(1..MaxPuts) /\ Len(origin) \in Nat
    BY <1>0, LenProperties DEF HistType, ChanType
  <2>2. NextItem \in 1..MaxPuts
    BY <2>1, Names DEF NextItem
  <2>3. Append(items[c], NextItem) \in Seq(1..MaxPuts)
    BY <2>1, <2>2, AppendProperties
  <2>4. Append(origin, c) \in Seq(Chans) /\ Len(Append(origin, c)) = Len(origin) + 1
    BY <2>1, AppendProperties
  <2> QED
    BY <2>1, <2>2, <2>3, <2>4, Names
<1>p. \A c \in Chans : /\ Popped(waiters[c]) \in Seq(Tasks)
                       /\ \A t \in Woken(waiters[c]) : t \in Tasks
  <2> SUFFICES ASSUME NEW c \in Chans
               PROVE  Popped(waiters[c]) \in Seq(Tasks) /\ \A t \in Woken(waiters[c]) : t \in Tasks
    OBVIOUS
  <2>1. waiters[c] \in Seq(Tasks)
    BY <1>0 DEF ChanType
  <2>2. \A t \in Members(waiters[c]) : t \in Tasks
    BY <2>1, ElementOfSeq DEF Members
  <2> QED
    BY <2>1, <2>2, PopShape
<1>s. SignalNotify => notify' \in BOOLEAN /\ notify_pending' \in BOOLEAN
                      /\ ntask' \in {"off", "start", "waiting", "woken", "cancelling", "done"}
  BY <1>0 DEF SignalNotify, MgrType, RaceType
<1>1. ASSUME NEW c \in Chans, LoopPut(c) PROVE TypeOK'
  <2>1. ChanType'
    BY <1>0, <1>1, <1>n, <1>p DEF LoopPut, ChanType
  <2>2. TaskType'
    BY <1>0, <1>1 DEF LoopPut, TaskType
  <2>3. MgrType' /\ RaceType'
    BY <1>0, <1>1, <1>s DEF LoopPut, MgrType, RaceType
  <2>4. LoopType' /\ ThrdType'
    BY <1>0, <1>1 DEF LoopPut, LoopType, ThrdType, loop, thrd
  <2>5. HistType'
    BY <1>0, <1>1, <1>n DEF LoopPut, HistType
  <2> QED
    BY <2>1, <2>2, <2>3, <2>4, <2>5
      DEF TypeOK, ChanType, MgrType, TaskType, RaceType, LoopType, ThrdType, HistType
<1>2. ASSUME NEW c \in Chans, ThreadAppend(c) PROVE TypeOK'
  <2>1. ChanType'
    BY <1>0, <1>2, <1>n DEF ThreadAppend, ChanType
  <2>2. MgrType' /\ TaskType' /\ RaceType' /\ LoopType' /\ ThrdType'
    BY <1>0, <1>2 DEF ThreadAppend, MgrType, TaskType, RaceType, LoopType, ThrdType, mgr, tasks, race, loop
  <2>3. HistType'
    BY <1>0, <1>2, <1>n DEF ThreadAppend, HistType
  <2> QED
    BY <2>1, <2>2, <2>3
      DEF TypeOK, ChanType, MgrType, TaskType, RaceType, LoopType, ThrdType, HistType
<1>3. CASE LoopEvent
  <2>1. ChanType' /\ TaskType' /\ LoopType' /\ ThrdType'
    BY <1>0, <1>3 DEF LoopEvent, ChanType, TaskType, LoopType, ThrdType, chan, tasks, loop, thrd
  <2>2. MgrType' /\ RaceType'
    BY <1>0, <1>3, <1>s DEF LoopEvent, MgrType, RaceType
  <2>3. HistType'
    BY <1>0, <1>3, Names DEF LoopEvent, HistType
  <2> QED
    BY <2>1, <2>2, <2>3
      DEF TypeOK, ChanType, MgrType, TaskType, RaceType, LoopType, ThrdType, HistType
<1>4. CASE ThreadEvent
  <2>1. ChanType' /\ MgrType' /\ TaskType' /\ RaceType' /\ LoopType' /\ ThrdType'
    BY <1>0, <1>4 DEF ThreadEvent, ChanType, MgrType, TaskType, RaceType, LoopType, ThrdType, chan, mgr, tasks, race, loop
  <2>2. HistType'
    BY <1>0, <1>4, Names DEF ThreadEvent, HistType
  <2> QED
    BY <2>1, <2>2
      DEF TypeOK, ChanType, MgrType, TaskType, RaceType, LoopType, ThrdType, HistType
<1>5. CASE ThreadWake
  <2>1. tch \in Chans
    BY <1>0 DEF ThrdType
  <2>2. ChanType'
    BY <1>0, <1>5, <1>p, <2>1 DEF ThreadWake, ChanType
  <2>3. LoopType' /\ ThrdType'
    BY <1>0, <1>5, <1>p, <2>1 DEF ThreadWake, LoopType, ThrdType
  <2>4. MgrType' /\ TaskType' /\ RaceType' /\ HistType'
    BY <1>0, <1>5 DEF ThreadWake, MgrType, TaskType, RaceType, HistType, mgr, tasks, race, hist
  <2> QED
    BY <2>2, <2>3, <2>4
      DEF TypeOK, ChanType, MgrType, TaskType, RaceType, LoopType, ThrdType, HistType
<1>6. CASE ThreadNotify
  <2>1. Order[1] \in Chans
    <3>1. Order \in Seq(Chans) /\ Len(Order) \in Nat
      BY ChannelsAssumption, LenProperties
    <3>2. PICK c \in Chans : TRUE
      BY ChannelsAssumption
    <3>3. \E i \in 1..Len(Order) : Order[i] = c
      BY ChannelsAssumption
    <3>4. 1 \in 1..Len(Order)
      BY <3>1, <3>3
    <3> QED
      BY <3>1, <3>4, ElementOfSeq
  <2>2. MgrType' /\ ThrdType'
    BY <1>0, <1>6, <2>1 DEF ThreadNotify, MgrType, ThrdType
  <2>3. LoopType'
    BY <1>0, <1>6 DEF ThreadNotify, LoopType
  <2>4. ChanType' /\ TaskType' /\ RaceType' /\ HistType'
    BY <1>0, <1>6 DEF ThreadNotify, ChanType, TaskType, RaceType, HistType, chan, tasks, race, hist
  <2> QED
    BY <2>2, <2>3, <2>4
      DEF TypeOK, ChanType, MgrType, TaskType, RaceType, LoopType, ThrdType, HistType
<1>7. CASE RunNotify
  <2>1. ChanType' /\ TaskType' /\ ThrdType' /\ HistType'
    BY <1>0, <1>7 DEF RunNotify, ChanType, TaskType, ThrdType, HistType, chan, tasks, thrd, hist
  <2>2. MgrType' /\ RaceType'
    BY <1>0, <1>7 DEF RunNotify, MgrType, RaceType
  <2>3. LoopType'
    BY <1>0, <1>7 DEF RunNotify, LoopType
  <2> QED
    BY <2>1, <2>2, <2>3
      DEF TypeOK, ChanType, MgrType, TaskType, RaceType, LoopType, ThrdType, HistType
<1>8. ASSUME NEW t \in Tasks, RunWake(t) PROVE TypeOK'
  <2>1. ChanType' /\ MgrType' /\ RaceType' /\ ThrdType' /\ HistType'
    BY <1>0, <1>8 DEF RunWake, ChanType, MgrType, RaceType, ThrdType, HistType, chan, mgr, race, thrd, hist
  <2>2. TaskType' /\ LoopType'
    BY <1>0, <1>8 DEF RunWake, TaskType, LoopType
  <2> QED
    BY <2>1, <2>2
      DEF TypeOK, ChanType, MgrType, TaskType, RaceType, LoopType, ThrdType, HistType
<1> QED
  BY <1>1, <1>2, <1>3, <1>4, <1>5, <1>6, <1>7, <1>8 DEF Thread

\* The tasks in _drain_one and get().
LEMMA TaskTypes ==
  ASSUME TypeOK,
         \/ \E t \in Tasks : TaskStep(t)
         \/ \E g \in Getters : GetStart(g) \/ GetCancel(g)
  PROVE  TypeOK'
<1>0. ChanType /\ MgrType /\ TaskType /\ RaceType /\ LoopType /\ ThrdType /\ HistType
  BY TypeGroups
<1>1. ASSUME NEW t \in Tasks, StepCancelled(t) PROVE TypeOK'
  <2> DEFINE c == ChanOf(t)
             q == Without(waiters[c], t)
  <2>1. c \in Chans /\ q \in Seq(Tasks) /\ Popped(q) \in Seq(Tasks)
    BY <1>0, Names, WithoutType, PopShape DEF ChanType
  <2>2. \E r \in {q, Popped(q)} : waiters' = [waiters EXCEPT ![c] = r]
    BY <1>1 DEF StepCancelled
  <2>3. items' = items
    BY <1>1 DEF StepCancelled
  <2> HIDE DEF c, q
  <2>4. ChanType'
    BY <1>0, <2>1, <2>2, <2>3 DEF ChanType
  <2>5. TaskType'
    BY <1>0, <1>1 DEF StepCancelled, TaskType
  <2>6. MgrType' /\ RaceType' /\ LoopType' /\ ThrdType' /\ HistType'
    BY <1>0, <1>1 DEF StepCancelled, MgrType, RaceType, LoopType, ThrdType, HistType, mgr, race, thrd, hist
  <2> QED
    BY <2>4, <2>5, <2>6
      DEF TypeOK, ChanType, MgrType, TaskType, RaceType, LoopType, ThrdType, HistType
<1>2. ASSUME NEW t \in Tasks, StepTakes(t) PROVE TypeOK'
  <2> DEFINE c == ChanOf(t)
  <2>1. c \in Chans /\ items[c] # <<>> /\ items' = [items EXCEPT ![c] = Tail(@)]
    BY <1>2, Names DEF StepTakes
  <2>2. Tail(items[c]) \in Seq(1..MaxPuts) /\ Head(items[c]) \in 1..MaxPuts
    BY <1>0, <2>1, HeadTailProperties DEF ChanType
  <2>3. \/ t \in Chans /\ result' = [result EXCEPT ![t] = Head(items[c])] /\ fate' = fate
           /\ tst' = [tst EXCEPT ![t] = "result"]
        \/ fate' = [fate EXCEPT ![Head(items[c])] = "consumed"] /\ result' = result
           /\ tst' = [tst EXCEPT ![t] = "off"]
    BY <1>2 DEF StepTakes
  <2> HIDE DEF c
  <2>4. ChanType'
    BY <1>0, <1>2, <2>1, <2>2 DEF StepTakes, ChanType
  <2>5. TaskType'
    <3>1. result' \in [Chans -> 0..MaxPuts]
      <4>1. Head(items[c]) \in 0..MaxPuts
        BY <2>2, Names
      <4> QED
        BY <1>0, <2>3, <4>1 DEF TaskType
    <3>2. tst' \in [Tasks -> {"off", "start", "registering", "waiting", "result", "cancelled"}]
      BY <1>0, <2>3 DEF TaskType
    <3> QED
      BY <1>0, <1>2, <3>1, <3>2 DEF StepTakes, TaskType
  <2>6. HistType'
    BY <1>0, <1>2, <2>2, <2>3 DEF StepTakes, HistType
  <2>7. MgrType' /\ RaceType' /\ LoopType' /\ ThrdType'
    BY <1>0, <1>2 DEF StepTakes, MgrType, RaceType, LoopType, ThrdType, mgr, race, loop, thrd
  <2> QED
    BY <2>4, <2>5, <2>6, <2>7
      DEF TypeOK, ChanType, MgrType, TaskType, RaceType, LoopType, ThrdType, HistType
<1>3. ASSUME NEW t \in Tasks, StepEmpty(t) PROVE TypeOK'
  <2>1. TaskType' /\ LoopType'
    BY <1>0, <1>3 DEF StepEmpty, TaskType, LoopType
  <2>2. ChanType' /\ MgrType' /\ RaceType' /\ ThrdType' /\ HistType'
    BY <1>0, <1>3 DEF StepEmpty, ChanType, MgrType, RaceType, ThrdType, HistType, chan, mgr, race, thrd, hist
  <2> QED
    BY <2>1, <2>2
      DEF TypeOK, ChanType, MgrType, TaskType, RaceType, LoopType, ThrdType, HistType
<1>4. ASSUME NEW t \in Tasks, Register(t) PROVE TypeOK'
  <2>1. ChanOf(t) \in Chans /\ Append(waiters[ChanOf(t)], t) \in Seq(Tasks)
    BY <1>0, Names, AppendProperties DEF ChanType
  <2>2. ChanType'
    BY <1>0, <1>4, <2>1 DEF Register, ChanType
  <2>3. TaskType' /\ LoopType'
    BY <1>0, <1>4 DEF Register, TaskType, LoopType
  <2>4. MgrType' /\ RaceType' /\ ThrdType' /\ HistType'
    BY <1>0, <1>4 DEF Register, MgrType, RaceType, ThrdType, HistType, mgr, race, thrd, hist
  <2> QED
    BY <2>2, <2>3, <2>4
      DEF TypeOK, ChanType, MgrType, TaskType, RaceType, LoopType, ThrdType, HistType
<1>5. ASSUME NEW g \in Getters, GetStart(g) \/ GetCancel(g) PROVE TypeOK'
  <2>1. TaskType'
    BY <1>0, <1>5, Names DEF GetStart, GetCancel, CancelTasks, TaskType
  <2>2. ChanType' /\ MgrType' /\ RaceType' /\ LoopType' /\ ThrdType' /\ HistType'
    BY <1>0, <1>5 DEF GetStart, GetCancel, ChanType, MgrType, RaceType, LoopType, ThrdType, HistType, chan, mgr, race, loop, thrd, hist
  <2> QED
    BY <2>1, <2>2
      DEF TypeOK, ChanType, MgrType, TaskType, RaceType, LoopType, ThrdType, HistType
<1> QED
  BY <1>1, <1>2, <1>3, <1>4, <1>5 DEF TaskStep

\* drain, remove, clear and flush.
LEMMA ChannelTypes ==
  ASSUME TypeOK, NEW c \in Chans, DrainAll(c) \/ Withdraw(c) \/ Clear(c) \/ Flush(c)
  PROVE  TypeOK'
<1>0. ChanType /\ MgrType /\ TaskType /\ RaceType /\ LoopType /\ ThrdType /\ HistType
  BY TypeGroups
<1>1. <<>> \in Seq(1..MaxPuts) /\ <<>> \in Seq(Tasks)
  BY EmptySeq
<1>2. \A i : Without(items[c], i) \in Seq(1..MaxPuts)
  BY <1>0, WithoutType DEF ChanType
<1>3. ChanType'
  <2>1. items' \in [Chans -> Seq(1..MaxPuts)]
    BY <1>0, <1>1, <1>2 DEF DrainAll, Withdraw, Clear, Flush, ChanType
  <2>2. waiters' \in [Chans -> Seq(Tasks)]
    BY <1>0, <1>1 DEF DrainAll, Withdraw, Clear, Flush, ChanType
  <2> QED
    BY <2>1, <2>2 DEF ChanType
<1>4. MgrType'
  BY <1>0 DEF DrainAll, Withdraw, Clear, Flush, MgrType, mgr
<1>5. TaskType'
  BY <1>0 DEF DrainAll, Withdraw, Clear, Flush, TaskType, tasks
<1>6. RaceType' /\ LoopType' /\ ThrdType'
  BY <1>0 DEF DrainAll, Withdraw, Clear, Flush, RaceType, LoopType, ThrdType, race, loop, thrd
<1>7. HistType'
  BY <1>0 DEF DrainAll, Withdraw, Clear, Flush, Fate, HistType
<1> QED
  BY <1>3, <1>4, <1>5, <1>6, <1>7
    DEF TypeOK, ChanType, MgrType, TaskType, RaceType, LoopType, ThrdType, HistType

\* race().
LEMMA RaceTypes ==
  ASSUME TypeOK, ItemsKept, RaceKept, RaceStep \/ CancelRace \/ NotifyStep \/ LoopRestart
  PROVE  TypeOK'
<1>0. ChanType /\ MgrType /\ TaskType /\ RaceType /\ LoopType /\ ThrdType /\ HistType
  BY TypeGroups
<1>1. CASE RaceFast
  <2> DEFINE c == First({d \in registered : items[d] # <<>>})
  <2>1. c \in Chans /\ items[c] # <<>>
    <3>1. /\ {d \in registered : items[d] # <<>>} # {}
          /\ {d \in registered : items[d] # <<>>} \in SUBSET Chans
      BY <1>0, <1>1 DEF RaceFast, MgrType
    <3>2. c \in {d \in registered : items[d] # <<>>}
      BY <3>1, FirstChannel
    <3> QED
      BY <3>1, <3>2
  <2>2. items' = [items EXCEPT ![c] = Tail(@)] /\ fate' = [fate EXCEPT ![Head(items[c])] = "consumed"]
    BY <1>1 DEF RaceFast
  <2> HIDE DEF c
  <2>3. Tail(items[c]) \in Seq(1..MaxPuts) /\ Head(items[c]) \in 1..MaxPuts
    BY <1>0, <2>1, HeadTailProperties DEF ChanType
  <2>4. waiters' = waiters /\ registered' = registered /\ origin' = origin /\ events' = events
        /\ pair' = "current" /\ notify' = notify_pending /\ notify_pending' = FALSE /\ fresh' = FALSE
    BY <1>1 DEF RaceFast, RaceBegins
  <2>5. ChanType' /\ HistType'
    BY <1>0, <2>1, <2>2, <2>3, <2>4 DEF ChanType, HistType
  <2>6. MgrType'
    BY <1>0, <2>4 DEF MgrType
  <2>7. TaskType' /\ RaceType' /\ LoopType' /\ ThrdType'
    BY <1>0, <1>1 DEF RaceFast, TaskType, RaceType, LoopType, ThrdType, tasks, race, loop, thrd
  <2> QED
    BY <2>5, <2>6, <2>7
      DEF TypeOK, ChanType, MgrType, TaskType, RaceType, LoopType, ThrdType, HistType
<1>2. CASE RaceSlow
  <2>1. MgrType' /\ HistType'
    BY <1>0, <1>2 DEF RaceSlow, RaceBegins, MgrType, HistType
  <2>2. TaskType' /\ RaceType'
    BY <1>0, <1>2 DEF RaceSlow, TaskType, RaceType
  <2>3. ChanType' /\ LoopType' /\ ThrdType'
    BY <1>0, <1>2 DEF RaceSlow, ChanType, LoopType, ThrdType, chan, loop, thrd
  <2> QED
    BY <2>1, <2>2, <2>3
      DEF TypeOK, ChanType, MgrType, TaskType, RaceType, LoopType, ThrdType, HistType
<1>3. CASE RaceWakes
  <2>1. CASE RaceEnds(Drains)
    BY <2>1, EndTypes, Looks
  <2>2. CASE ~RaceEnds(Drains)
    <3> DEFINE P == {c \in Drains : ~Finished(c)}
    <3>1. /\ CancelTasks(P) /\ ntask' = (IF ntask = "done" THEN "done" ELSE "cancelling")
          /\ won' = Drains \ P /\ dst' = "reaping"
          /\ UNCHANGED <<chan, mgr, tst, result, asked, loop, thrd, hist>>
      BY <1>3, <2>2 DEF RaceWakes
    <3>2. P \subseteq Chans /\ Drains \subseteq Chans
      BY DEF Drains
    <3> HIDE DEF P
    <3>3. TaskType'
      BY <1>0, <3>1, <3>2, Names DEF CancelTasks, TaskType
    <3>4. RaceType'
      BY <1>0, <3>1, <3>2 DEF RaceType
    <3>5. ChanType' /\ MgrType' /\ LoopType' /\ ThrdType' /\ HistType'
      BY <1>0, <3>1 DEF ChanType, MgrType, LoopType, ThrdType, HistType, chan, mgr, loop, thrd, hist
    <3> QED
      BY <3>3, <3>4, <3>5
        DEF TypeOK, ChanType, MgrType, TaskType, RaceType, LoopType, ThrdType, HistType
  <2> QED
    BY <2>1, <2>2
<1>4. CASE RaceReaped
  <2>1. RaceEnds(won)
    BY <1>4 DEF RaceReaped
  <2> QED
    BY <1>4, <2>1, EndTypes, Looks
<1>5. CASE RaceCancelled
  <2> DEFINE P == {c \in Drains : ~Finished(c)}
  <2>1. CancelTasks(P) /\ P \subseteq Chans
    BY <1>5 DEF RaceCancelled, Drains
  <2> HIDE DEF P
  <2>2. TaskType'
    BY <1>0, <1>5, <2>1, Names DEF CancelTasks, RaceCancelled, TaskType
  <2>3. RaceType' /\ LoopType'
    BY <1>0, <1>5 DEF RaceCancelled, RaceType, LoopType
  <2>4. ChanType' /\ MgrType' /\ ThrdType' /\ HistType'
    BY <1>0, <1>5 DEF RaceCancelled, ChanType, MgrType, ThrdType, HistType, chan, mgr, thrd, hist
  <2> QED
    BY <2>2, <2>3, <2>4
      DEF TypeOK, ChanType, MgrType, TaskType, RaceType, LoopType, ThrdType, HistType
<1>6. CASE Unwind
  <2>1. PICK R \in SUBSET Chans : Settles(R, {})
    BY <1>6, UnwindSettles
  <2>2. ChanType' /\ fut' \in [Tasks -> {"none", "pending", "done", "cancelled"}]
    BY <2>1, SettledTypes
  <2>3. \E F : /\ tst' = [t \in Tasks |-> IF t \in F THEN "off" ELSE tst[t]]
               /\ result' = [c \in Chans |-> IF c \in F THEN 0 ELSE result[c]]
    BY <1>6 DEF Unwind
  <2>4. TaskType'
    BY <1>0, <1>6, <2>2, <2>3, Names DEF Unwind, TaskType
  <2>5. notify' \in BOOLEAN /\ dst' \in {"idle", dst} /\ asked' \in BOOLEAN
    BY <1>0, <1>6 DEF Unwind, RaceType
  <2>6. MgrType' /\ RaceType' /\ LoopType'
    BY <1>0, <1>6, <2>5 DEF Unwind, MgrType, RaceType, LoopType
  <2>7. ThrdType' /\ HistType'
    BY <1>0, <1>6 DEF Unwind, ThrdType, HistType, thrd
  <2> QED
    BY <2>2, <2>4, <2>6, <2>7
      DEF TypeOK, ChanType, MgrType, TaskType, RaceType, LoopType, ThrdType, HistType
<1>7. CASE CancelRace \/ NotifyStep
  <2>1. RaceType'
    BY <1>0, <1>7 DEF CancelRace, NotifyStep, RaceType
  <2>2. ChanType' /\ MgrType' /\ TaskType' /\ LoopType' /\ ThrdType' /\ HistType'
    BY <1>0, <1>7 DEF CancelRace, NotifyStep, ChanType, MgrType, TaskType, LoopType, ThrdType, HistType, chan, mgr, tasks, loop, thrd, hist
  <2> QED
    BY <2>1, <2>2
      DEF TypeOK, ChanType, MgrType, TaskType, RaceType, LoopType, ThrdType, HistType
<1>8. CASE LoopRestart
  <2>1. MgrType' /\ LoopType'
    BY <1>0, <1>8 DEF LoopRestart, MgrType, LoopType
  <2>2. ChanType' /\ TaskType' /\ RaceType' /\ ThrdType' /\ HistType'
    BY <1>0, <1>8 DEF LoopRestart, ChanType, TaskType, RaceType, ThrdType, HistType, chan, tasks, race, thrd, hist
  <2> QED
    BY <2>1, <2>2
      DEF TypeOK, ChanType, MgrType, TaskType, RaceType, LoopType, ThrdType, HistType
<1> QED
  BY <1>1, <1>2, <1>3, <1>4, <1>5, <1>6, <1>7, <1>8 DEF RaceStep

----------------------------------------------------------------------------
(***************************************************************************)
(* Where race() is.                                                        *)
(***************************************************************************)

\* Every step keeps what is known about race().
LEMMA RaceKeptNext ==
  ASSUME TypeOK, RaceKept, Next
  PROVE  RaceKept'
<1>0. RegisteringRuns /\ NobodyDrains /\ NoLateItem /\ PairIsHere
  BY DEF RaceKept
<1>1. ASSUME UNCHANGED <<tst, dst, won, cancelling, pair, running>> PROVE RaceKept'
  BY <1>0, <1>1 DEF RaceKept, RegisteringRuns, NobodyDrains, NoLateItem, PairIsHere, Drains
<1>2. ASSUME NEW c \in Chans,
             LoopPut(c) \/ ThreadAppend(c) \/ DrainAll(c) \/ Withdraw(c) \/ Clear(c) \/ Flush(c)
      PROVE  RaceKept'
  <2>1. UNCHANGED <<tst, dst, won, cancelling, pair, running>>
    BY <1>2 DEF LoopPut, ThreadAppend, DrainAll, Withdraw, Clear, Flush, mgr, tasks, race, loop
  <2> QED
    BY <1>1, <2>1
<1>3. CASE LoopEvent \/ ThreadEvent \/ Thread \/ RunNotify \/ NotifyStep \/ CancelRace \/ \E t \in Tasks : RunWake(t)
  <2>1. UNCHANGED <<tst, dst, won, cancelling, pair, running>>
    BY <1>3 DEF LoopEvent, ThreadEvent, Thread, ThreadWake, ThreadNotify, RunNotify, NotifyStep,
                CancelRace, RunWake, mgr, tasks, race, loop
  <2> QED
    BY <1>1, <2>1
<1>4. ASSUME NEW t \in Tasks, TaskStep(t) PROVE RaceKept'
  <2>1. tst \in [Tasks -> {"off", "start", "registering", "waiting", "result", "cancelled"}]
    BY DEF TypeOK
  <2>2. /\ UNCHANGED <<dst, won, pair>>
        /\ cancelling' = cancelling \/ (cancelling' = cancelling \ {t} /\ StepCancelled(t))
        /\ \A u \in Tasks : u # t => tst'[u] = tst[u]
    BY <1>4, <2>1 DEF TaskStep, StepCancelled, StepTakes, StepEmpty, Register, mgr, race
  <2>0. tst[t] \in {"start", "waiting", "registering"}
    BY <1>0, <1>4 DEF TaskStep, StepCancelled, StepTakes, StepEmpty, Register, Runnable, RegisteringRuns
  <2>3. RegisteringRuns'
    <3>1. CASE StepCancelled(t) \/ StepTakes(t)
      <4>1. tst'[t] # "registering" /\ running' = running /\ running = NoTask
        BY <2>1, <3>1 DEF StepCancelled, StepTakes, Runnable, loop
      <4> QED
        BY <1>0, <2>2, <4>1, Names DEF RegisteringRuns
    <3>2. CASE StepEmpty(t)
      <4>1. running = NoTask /\ running' = t /\ tst'[t] = "registering"
        BY <2>1, <3>2 DEF StepEmpty, Runnable
      <4>2. \A u \in Tasks : tst[u] # "registering"
        BY <1>0, <4>1, Names DEF RegisteringRuns
      <4> QED
        BY <2>2, <4>1, <4>2 DEF RegisteringRuns
    <3>3. CASE Register(t)
      <4>1. running = t /\ tst'[t] = "waiting" /\ running' = NoTask
        BY <2>1, <3>3 DEF Register
      <4>2. \A u \in Tasks : tst[u] = "registering" => u = t
        BY <1>0, <4>1 DEF RegisteringRuns
      <4> QED
        BY <2>2, <4>1, <4>2, Names DEF RegisteringRuns
    <3> QED
      BY <1>4, <3>1, <3>2, <3>3 DEF TaskStep
  <2>4. NobodyDrains'
    <3>1. dst = "idle" => t \notin Chans
      BY <1>0, <2>0 DEF NobodyDrains
    <3> QED
      BY <1>0, <2>2, <3>1, Names DEF NobodyDrains
  <2>5. NoLateItem'
    <3> SUFFICES ASSUME dst = "reaping", NEW c \in Drains', c \notin won
                 PROVE  tst'[c] = "cancelled" \/ (c \in cancelling' /\ tst'[c] \in {"start", "waiting"})
      BY <2>2 DEF NoLateItem
    <3>1. c \in Chans /\ tst'[c] # "off"
      BY DEF Drains
    <3>2. CASE c = t
      <4>1. c \in Drains /\ c \in cancelling /\ tst[c] \in {"start", "waiting"}
        BY <1>0, <2>0, <2>2, <3>1, <3>2 DEF NoLateItem, Drains
      <4>2. StepCancelled(t) \/ Register(t)
        BY <1>4, <3>2, <4>1 DEF TaskStep, StepTakes, StepEmpty, Cancelled
      <4>3. CASE StepCancelled(t)
        BY <2>1, <3>1, <3>2, <4>3 DEF StepCancelled
      <4>4. CASE Register(t)
        BY <2>1, <3>2, <4>1, <4>4 DEF Register
      <4> QED
        BY <4>2, <4>3, <4>4
    <3>3. CASE c # t
      <4>1. tst'[c] = tst[c] /\ (c \in cancelling => c \in cancelling')
        BY <2>2, <3>1, <3>3, Names
      <4> QED
        BY <1>0, <3>1, <4>1 DEF NoLateItem, Drains
    <3> QED
      BY <3>2, <3>3
  <2>6. PairIsHere'
    BY <1>0, <2>2 DEF PairIsHere
  <2> QED
    BY <2>3, <2>4, <2>5, <2>6 DEF RaceKept
<1>5. ASSUME NEW g \in Getters, GetStart(g) \/ GetCancel(g) PROVE RaceKept'
  <2>1. tst \in [Tasks -> {"off", "start", "registering", "waiting", "result", "cancelled"}]
    BY DEF TypeOK
  <2>2. /\ UNCHANGED <<dst, won, pair, running>> /\ cancelling \subseteq cancelling'
        /\ \A t \in Tasks : tst'[t] = tst[t] \/ (t = g /\ tst'[t] = "start" /\ tst[t] = "off")
    BY <1>5, <2>1 DEF GetStart, GetCancel, CancelTasks, mgr, race, loop
  <2>3. \A c \in Chans : tst'[c] = tst[c]
    BY <2>2, Names
  <2>4. RegisteringRuns'
    BY <1>0, <2>2 DEF RegisteringRuns
  <2>5. NobodyDrains' /\ NoLateItem' /\ PairIsHere'
    BY <1>0, <2>2, <2>3 DEF NobodyDrains, NoLateItem, PairIsHere, Drains
  <2> QED
    BY <2>4, <2>5 DEF RaceKept
<1>6. CASE RaceFast
  <2>1. UNCHANGED <<tst, dst, won, cancelling, running>> /\ pair' = "current"
    BY <1>6 DEF RaceFast, RaceBegins, tasks, race, loop
  <2> QED
    BY <1>0, <2>1 DEF RaceKept, RegisteringRuns, NobodyDrains, NoLateItem, PairIsHere, Drains
<1>7. CASE RaceSlow
  <2>1. /\ running = NoTask /\ running' = running /\ dst' = "racing" /\ pair' = "current"
        /\ \A t \in Tasks : tst'[t] = IF t \in registered THEN "start" ELSE tst[t]
    BY <1>7 DEF RaceSlow, RaceBegins, loop
  <2>2. RegisteringRuns'
    BY <1>0, <2>1, Names DEF RegisteringRuns
  <2>3. NobodyDrains' /\ NoLateItem' /\ PairIsHere'
    BY <2>1 DEF NobodyDrains, NoLateItem, PairIsHere
  <2> QED
    BY <2>2, <2>3 DEF RaceKept
<1>8. ASSUME NEW w, RaceEnds(w), running = NoTask PROVE RaceKept'
  <2>1. /\ dst' = "idle" /\ pair' = pair /\ running' = running
        /\ \A t \in Tasks : tst'[t] = IF t \in Chans THEN "off" ELSE tst[t]
    BY <1>8 DEF RaceEnds, loop
  <2>2. running = NoTask
    BY <1>8
  <2>3. RegisteringRuns'
    BY <1>0, <2>1, <2>2, Names DEF RegisteringRuns
  <2>4. NobodyDrains' /\ NoLateItem' /\ PairIsHere'
    BY <2>1, Names DEF NobodyDrains, NoLateItem, PairIsHere
  <2> QED
    BY <2>3, <2>4 DEF RaceKept
<1>9. CASE RaceWakes
  <2>1. CASE RaceEnds(Drains)
    BY <1>8, <1>9, <2>1 DEF RaceWakes
  <2>2. CASE ~RaceEnds(Drains)
    <3> DEFINE P == {c \in Drains : ~Finished(c)}
    <3>1. /\ cancelling' = cancelling \cup P /\ won' = Drains \ P /\ dst' = "reaping"
          /\ UNCHANGED <<pair, tst, running>>
          /\ running = NoTask /\ dst = "racing"
      BY <1>9, <2>2 DEF RaceWakes, CancelTasks, mgr, loop
    <3>2. \A t \in Tasks : tst[t] # "registering"
      BY <1>0, <3>1, Names DEF RegisteringRuns
    <3>3. \A c \in P : tst[c] \in {"start", "waiting"}
      BY <3>2, Names DEF TypeOK, Drains, Finished
    <3>4. Drains' = Drains
      BY <3>1 DEF Drains
    <3>5. NoLateItem'
      BY <3>1, <3>3, <3>4 DEF NoLateItem
    <3>6. RegisteringRuns' /\ NobodyDrains' /\ PairIsHere'
      BY <1>0, <3>1 DEF RegisteringRuns, NobodyDrains, PairIsHere
    <3> QED
      BY <3>5, <3>6 DEF RaceKept
  <2> QED
    BY <2>1, <2>2
<1>10. CASE RaceReaped
  BY <1>8, <1>10 DEF RaceReaped
<1>11. CASE RaceCancelled
  <2>1. /\ running = NoTask /\ tst' = tst /\ pair' = pair
        /\ dst' = "unwinding" /\ dst = "racing" /\ running' = Dispatcher
    BY <1>11 DEF RaceCancelled, mgr
  <2>2. \A t \in Tasks : tst[t] # "registering"
    BY <1>0, <2>1, Names DEF RegisteringRuns
  <2>3. RegisteringRuns'
    BY <2>1, <2>2, Names DEF RegisteringRuns
  <2>4. NobodyDrains' /\ NoLateItem' /\ PairIsHere'
    BY <1>0, <2>1 DEF NobodyDrains, NoLateItem, PairIsHere
  <2> QED
    BY <2>3, <2>4 DEF RaceKept
<1>12. CASE Unwind
  <2> DEFINE F == {c \in Drains : \A d \in Drains : Rank(d) <= Rank(c) => Finished(d)}
  <2>1. /\ running \in {Dispatcher, NoTask} /\ pair' = pair /\ dst = "unwinding"
        /\ running' = NoTask
        /\ \A t \in Tasks : tst'[t] = IF t \in F THEN "off" ELSE tst[t]
        /\ dst' = dst \/ (dst' = "idle" /\ F = Drains)
    BY <1>12 DEF Unwind
  <2>2. \A t \in Tasks : tst[t] # "registering"
    BY <1>0, <2>1, Names DEF RegisteringRuns
  <2> HIDE DEF F
  <2>3. dst' = "idle" => \A c \in Chans : tst'[c] = "off"
    BY <2>1, Names DEF Drains
  <2>4. RegisteringRuns'
    BY <2>1, <2>2, Names DEF RegisteringRuns
  <2>5. NobodyDrains' /\ NoLateItem' /\ PairIsHere'
    BY <1>0, <2>1, <2>3 DEF NobodyDrains, NoLateItem, PairIsHere
  <2> QED
    BY <2>4, <2>5 DEF RaceKept
<1>13. CASE LoopRestart
  <2>1. UNCHANGED <<tst, dst, won, cancelling, running>> /\ dst = "idle"
    BY <1>13 DEF LoopRestart, tasks, race
  <2> QED
    BY <1>0, <2>1 DEF RaceKept, RegisteringRuns, NobodyDrains, NoLateItem, PairIsHere, Drains
<1> QED
  BY <1>2, <1>3, <1>4, <1>5, <1>6, <1>7, <1>9, <1>10, <1>11, <1>12, <1>13 DEF Next, RaceStep

----------------------------------------------------------------------------
(***************************************************************************)
(* Where the items are.                                                    *)
(***************************************************************************)

\* What is in a channel was put on it and is not gone.
LEMMA OwnItems ==
  ASSUME TypeOK, ItemsKept, NEW c \in Chans
  PROVE  /\ items[c] \in Seq(1..MaxPuts) /\ origin \in Seq(Chans)
         /\ Len(origin) \in Nat /\ Len(origin) <= MaxPuts
         /\ Kept(c, items[c], Hands(c), fate, origin)
         /\ \A i \in Members(items[c]) : i \in 1..Len(origin) /\ i \in 1..MaxPuts /\ origin[i] = c
<1>1. items[c] \in Seq(1..MaxPuts) /\ origin \in Seq(Chans) /\ Len(origin) <= MaxPuts
  BY DEF TypeOK
<1>2. Len(origin) \in Nat /\ MaxPuts \in Nat
  BY <1>1, LenProperties, Names
<1>3. Kept(c, items[c], Hands(c), fate, origin)
  BY DEF ItemsKept
<1>4. \A i \in Members(items[c]) : i \in 1..Len(origin) /\ origin[i] = c
  BY <1>3 DEF Kept, Conserved, Owed
<1> QED
  BY <1>1, <1>2, <1>3, <1>4

\* A step that leaves the items where they are.
LEMMA NoItemMoves ==
  ASSUME ItemsKept, UNCHANGED <<items, fate, origin, result>>,
         \A c \in Chans : tst'[c] = "result" <=> tst[c] = "result"
  PROVE  ItemsKept'
<1>1. \A c \in Chans : Hands(c)' = Hands(c)
  BY DEF Hands
<1>2. \A c \in Chans : Kept(c, items'[c], Hands(c)', fate', origin')
  BY <1>1 DEF ItemsKept
<1> QED
  BY <1>2 DEF ItemsKept

\* A step that moves items of one channel.
LEMMA OneChannelMoves ==
  ASSUME TypeOK, ItemsKept, NEW c \in Chans, origin' = origin,
         \A d \in Chans \ {c} : items'[d] = items[d] /\ Hands(d)' = Hands(d),
         \A i \in (1..MaxPuts) \ Members(items[c]) : fate'[i] = fate[i],
         Kept(c, items'[c], Hands(c)', fate', origin)
  PROVE  ItemsKept'
<1>1. ASSUME NEW d \in Chans PROVE Kept(d, items'[d], Hands(d)', fate', origin')
  <2>1. CASE d = c
    BY <2>1
  <2>2. CASE d # c
    <3>1. Kept(d, items[d], Hands(d), fate, origin)
      BY DEF ItemsKept
    <3>2. \A i \in 1..Len(origin) : origin[i] = d => fate'[i] = fate[i]
      <4>1. \A i \in 1..Len(origin) : i \in 1..MaxPuts
        BY OwnItems, Names
      <4>2. \A i \in Members(items[c]) : origin[i] = c
        BY OwnItems
      <4> QED
        BY <2>2, <4>1, <4>2
    <3>3. Kept(d, items[d], Hands(d), fate', origin)
      BY <3>1, <3>2, KeptElsewhere
    <3> QED
      BY <2>2, <3>3
  <2> QED
    BY <2>1, <2>2
<1>2. ASSUME NEW i \in 1..MaxPuts, i > Len(origin') PROVE fate'[i] = "none"
  <2>0. Len(origin) \in Nat /\ \A j \in Members(items[c]) : j \in 1..Len(origin)
    BY OwnItems
  <2>1. i \notin Members(items[c])
    BY <1>2, <2>0
  <2> QED
    BY <1>2, <2>1 DEF ItemsKept
<1> QED
  BY <1>1, <1>2 DEF ItemsKept

\* A race that is settled has lost nothing.
LEMMA SettledItems ==
  ASSUME TypeOK, ItemsKept, NEW R \in SUBSET Chans, NEW S \in SUBSET Chans, Settles(R, S)
  PROVE  ItemsKept'
<1>1. /\ R \cap S = {} /\ \A c \in R \cup S : tst[c] = "result"
      /\ \A i \in 1..MaxPuts : fate'[i] = IF \E c \in S : result[c] = i THEN "consumed" ELSE fate[i]
      /\ \A c \in Chans : Hands(c)' = IF c \in R \cup S THEN {} ELSE Hands(c)
      /\ \A c \in Chans : items'[c] = IF c \in R THEN <<result[c]>> \o items[c] ELSE items[c]
      /\ origin' = origin
  BY DEF Settles, Restore
<1>2. \A c \in R \cup S : /\ result[c] \in 1..MaxPuts /\ result[c] \in 1..Len(origin)
                          /\ origin[result[c]] = c /\ Hands(c) = {result[c]}
  BY <1>1, HandsHold
<1>3. ASSUME NEW c \in Chans PROVE Kept(c, items'[c], Hands(c)', fate', origin')
  <2>1. /\ items[c] \in Seq(1..MaxPuts) /\ origin \in Seq(Chans)
        /\ Kept(c, items[c], Hands(c), fate, origin)
    BY OwnItems
  <2>2. \A i \in 1..Len(origin) : i \in 1..MaxPuts
    BY OwnItems, Names
  <2>3. CASE c \in R
    <3>1. Kept(c, <<result[c]>> \o items[c], {}, fate, origin)
      BY <1>2, <2>1, <2>3, KeptBack
    <3>2. \A i \in 1..Len(origin) : origin[i] = c => fate'[i] = fate[i]
      BY <1>1, <1>2, <2>2, <2>3
    <3>3. Kept(c, <<result[c]>> \o items[c], {}, fate', origin)
      BY <3>1, <3>2, KeptElsewhere
    <3> QED
      BY <1>1, <2>3, <3>3
  <2>4. CASE c \in S
    <3>1. fate'[result[c]] = "consumed"
      BY <1>1, <1>2, <2>4
    <3>2. \A i \in 1..Len(origin) : i # result[c] /\ origin[i] = c => fate'[i] = fate[i]
      BY <1>1, <1>2, <2>2, <2>4
    <3>3. Kept(c, items[c], {result[c]}, fate, origin)
      BY <1>2, <2>1, <2>4
    <3>4. Kept(c, items[c], {}, fate', origin)
      BY <2>1, <3>1, <3>2, <3>3, KeptWon
    <3> QED
      BY <1>1, <2>4, <3>4
  <2>5. CASE c \notin R \cup S
    <3>1. \A i \in 1..Len(origin) : origin[i] = c => fate'[i] = fate[i]
      BY <1>1, <1>2, <2>2, <2>5
    <3>2. Kept(c, items[c], Hands(c), fate', origin)
      BY <2>1, <3>1, KeptElsewhere
    <3> QED
      BY <1>1, <2>5, <3>2
  <2> QED
    BY <2>3, <2>4, <2>5
<1>4. ASSUME NEW i \in 1..MaxPuts, i > Len(origin') PROVE fate'[i] = "none"
  <2>0. Len(origin) \in Nat
    BY LenProperties DEF TypeOK
  <2>1. \A c \in S : result[c] # i
    BY <1>1, <1>2, <1>4, <2>0
  <2> QED
    BY <1>1, <1>4, <2>1 DEF ItemsKept
<1> QED
  BY <1>3, <1>4 DEF ItemsKept

\* Every step keeps track of every item.
LEMMA ItemsKeptNext ==
  ASSUME TypeOK, ItemsKept, RaceKept, Next
  PROVE  ItemsKept'
<1>0. RegisteringRuns /\ NobodyDrains
  BY DEF RaceKept
<1>t. /\ tst \in [Tasks -> {"off", "start", "registering", "waiting", "result", "cancelled"}]
      /\ items \in [Chans -> Seq(1..MaxPuts)] /\ result \in [Chans -> 0..MaxPuts]
      /\ fate \in [1..MaxPuts -> {"none", "consumed", "discarded", "withdrawn"}]
  BY DEF TypeOK
<1>1. ASSUME NEW c \in Chans, LoopPut(c) \/ ThreadAppend(c) PROVE ItemsKept'
  <2>1. /\ items' = [items EXCEPT ![c] = Append(@, Len(origin) + 1)]
        /\ origin' = Append(origin, c) /\ Len(origin) < MaxPuts
        /\ UNCHANGED <<tst, result, fate>>
    BY <1>1 DEF LoopPut, ThreadAppend, NextItem, tasks
  <2>2. /\ origin \in Seq(Chans) /\ Len(origin) + 1 \in 1..MaxPuts
        /\ Len(origin') = Len(origin) + 1 /\ Len(origin) \in Nat
    <3>1. origin \in Seq(Chans) /\ Len(origin) \in Nat
      BY OwnItems
    <3>2. Len(Append(origin, c)) = Len(origin) + 1
      BY <3>1, AppendProperties
    <3> QED
      BY <2>1, <3>1, <3>2, Names
  <2>3. fate[Len(origin) + 1] = "none"
    BY <2>2 DEF ItemsKept
  <2>4. ASSUME NEW d \in Chans PROVE Kept(d, items'[d], Hands(d)', fate', origin')
    <3>1. Kept(d, items[d], Hands(d), fate, origin) /\ items[d] \in Seq(1..MaxPuts)
      BY OwnItems
    <3>2. Kept(d, IF d = c THEN Append(items[d], Len(origin) + 1) ELSE items[d], Hands(d), fate, Append(origin, c))
      BY <2>2, <2>3, <3>1, KeptPut
    <3>3. items'[d] = IF d = c THEN Append(items[d], Len(origin) + 1) ELSE items[d]
      BY <1>t, <2>1
    <3>4. Hands(d)' = Hands(d)
      BY <2>1 DEF Hands
    <3> QED
      BY <2>1, <3>2, <3>3, <3>4
  <2>5. \A i \in 1..MaxPuts : i > Len(origin') => fate'[i] = "none"
    BY <2>1, <2>2 DEF ItemsKept
  <2> QED
    BY <2>4, <2>5 DEF ItemsKept
<1>2. ASSUME NEW c \in Chans, DrainAll(c) \/ Clear(c) \/ Flush(c) PROVE ItemsKept'
  <2>1. \E v \in {"consumed", "discarded"} :
          /\ \A i \in 1..MaxPuts : fate'[i] = IF i \in Members(items[c]) THEN v ELSE fate[i]
          /\ v = "discarded" \/ dst = "idle"
    BY <1>2 DEF DrainAll, Clear, Flush, Fate
  <2>2. /\ items' = [items EXCEPT ![c] = <<>>] /\ UNCHANGED <<tst, result, origin>>
    BY <1>2 DEF DrainAll, Clear, Flush, tasks
  <2>3. PICK v \in {"consumed", "discarded"} :
          /\ \A i \in 1..MaxPuts : fate'[i] = IF i \in Members(items[c]) THEN v ELSE fate[i]
          /\ v = "discarded" \/ dst = "idle"
    BY <2>1
  <2>4. v = "discarded" \/ Hands(c) = {}
    BY <1>0, <2>3 DEF NobodyDrains, Hands
  <2>5. /\ items[c] \in Seq(1..MaxPuts) /\ origin \in Seq(Chans)
        /\ Kept(c, items[c], Hands(c), fate, origin)
        /\ \A i \in 1..Len(origin) : i \in 1..MaxPuts
    BY OwnItems, Names
  <2>6. \A i \in 1..Len(origin) : fate'[i] = IF i \in Members(items[c]) THEN v ELSE fate[i]
    BY <2>3, <2>5
  <2>7. Kept(c, <<>>, Hands(c), fate', origin)
    BY <2>4, <2>5, <2>6, KeptEmptied
  <2>8. Hands(c)' = Hands(c) /\ \A d \in Chans : Hands(d)' = Hands(d)
    BY <2>2 DEF Hands
  <2>9. items'[c] = <<>> /\ \A d \in Chans \ {c} : items'[d] = items[d]
    BY <1>t, <2>2
  <2> QED
    BY <2>2, <2>3, <2>7, <2>8, <2>9, OneChannelMoves
<1>3. ASSUME NEW c \in Chans, Withdraw(c) PROVE ItemsKept'
  <2>1. PICK i \in Members(items[c]) : items' = [items EXCEPT ![c] = Without(@, i)] /\ Fate({i}, "withdrawn")
    BY <1>3 DEF Withdraw
  <2>2. UNCHANGED <<tst, result, origin>>
    BY <1>3 DEF Withdraw, tasks
  <2>3. /\ items[c] \in Seq(1..MaxPuts) /\ origin \in Seq(Chans)
        /\ Kept(c, items[c], Hands(c), fate, origin)
        /\ \A j \in 1..Len(origin) : j \in 1..MaxPuts
    BY OwnItems, Names
  <2>4. \A j \in 1..MaxPuts : fate'[j] = IF j = i THEN "withdrawn" ELSE fate[j]
    BY <2>1 DEF Fate
  <2>5. \A j \in 1..Len(origin) : fate'[j] = IF j = i THEN "withdrawn" ELSE fate[j]
    BY <2>3, <2>4
  <2>6. Kept(c, Without(items[c], i), Hands(c), fate', origin)
    BY <2>3, <2>5, KeptWithout
  <2>7. \A d \in Chans : Hands(d)' = Hands(d)
    BY <2>2 DEF Hands
  <2>8. items'[c] = Without(items[c], i) /\ \A d \in Chans \ {c} : items'[d] = items[d]
    BY <1>t, <2>1
  <2> QED
    BY <2>2, <2>4, <2>6, <2>7, <2>8, OneChannelMoves
<1>4. ASSUME NEW t \in Tasks, StepTakes(t), t \in Chans PROVE ItemsKept'
  <2>1. /\ items[t] # <<>> /\ items' = [items EXCEPT ![t] = Tail(@)]
        /\ result' = [result EXCEPT ![t] = Head(items[t])]
        /\ tst' = [tst EXCEPT ![t] = "result"]
        /\ fate' = fate /\ origin' = origin /\ tst[t] # "result"
    BY <1>4 DEF StepTakes, Runnable, ChanOf
  <2>2. /\ items[t] \in Seq(1..MaxPuts) /\ Kept(t, items[t], {}, fate, origin)
    BY <1>4, <2>1, OwnItems DEF Hands
  <2>3. Kept(t, Tail(items[t]), {Head(items[t])}, fate, origin)
    BY <2>1, <2>2, KeptHeld
  <2>4. Hands(t)' = {Head(items[t])} /\ \A d \in Chans \ {t} : Hands(d)' = Hands(d)
    BY <1>4, <1>t, <2>1, Names DEF Hands
  <2>5. items'[t] = Tail(items[t]) /\ \A d \in Chans \ {t} : items'[d] = items[d]
    BY <1>4, <1>t, <2>1
  <2> QED
    BY <1>4, <2>1, <2>3, <2>4, <2>5, OneChannelMoves
<1>5. ASSUME NEW c \in Chans, items[c] # <<>>, items' = [items EXCEPT ![c] = Tail(@)],
             fate' = [fate EXCEPT ![Head(items[c])] = "consumed"], origin' = origin,
             \A d \in Chans : Hands(d)' = Hands(d), c \in Shared \/ Hands(c) = {}
      PROVE  ItemsKept'
  <2>1. /\ items[c] \in Seq(1..MaxPuts) /\ origin \in Seq(Chans)
        /\ Kept(c, items[c], Hands(c), fate, origin)
        /\ \A i \in 1..Len(origin) : i \in 1..MaxPuts
    BY OwnItems, Names
  <2>2. Head(items[c]) \in Members(items[c]) /\ Head(items[c]) \in 1..MaxPuts
    BY <1>5, <2>1, ServedMembers, HeadTailProperties DEF Kept, Conserved, Once
  <2>3. \A i \in 1..MaxPuts : fate'[i] = IF i = Head(items[c]) THEN "consumed" ELSE fate[i]
    BY <1>5, <1>t
  <2>4. Kept(c, Tail(items[c]), Hands(c), fate', origin)
    BY <1>5, <2>1, <2>2, <2>3, KeptTaken
  <2>5. items'[c] = Tail(items[c]) /\ \A d \in Chans \ {c} : items'[d] = items[d]
    BY <1>5, <1>t
  <2> QED
    BY <1>5, <2>2, <2>3, <2>4, <2>5, OneChannelMoves
<1>6. ASSUME NEW t \in Tasks, StepTakes(t), t \notin Chans PROVE ItemsKept'
  <2>1. /\ ChanOf(t) \in Chans /\ ChanOf(t) \in Shared
        /\ items[ChanOf(t)] # <<>> /\ items' = [items EXCEPT ![ChanOf(t)] = Tail(@)]
        /\ fate' = [fate EXCEPT ![Head(items[ChanOf(t)])] = "consumed"] /\ origin' = origin
        /\ tst' = [tst EXCEPT ![t] = "off"] /\ result' = result
    BY <1>6, Names DEF StepTakes
  <2>2. \A d \in Chans : Hands(d)' = Hands(d)
    BY <1>6, <2>1 DEF Hands
  <2> QED
    BY <1>5, <2>1, <2>2
<1>7. CASE RaceFast
  <2> DEFINE S == {d \in registered : items[d] # <<>>}
             c == First(S)
  <2>1. /\ S # {} /\ items' = [items EXCEPT ![c] = Tail(@)] /\ dst = "idle"
        /\ fate' = [fate EXCEPT ![Head(items[c])] = "consumed"] /\ origin' = origin
        /\ UNCHANGED <<tst, result>>
    BY <1>7 DEF RaceFast, RaceBegins, tasks
  <2>2. S \in SUBSET Chans
    BY DEF TypeOK
  <2> HIDE DEF S
  <2>3. c \in S
    BY <2>1, <2>2, FirstChannel
  <2>4. c \in Chans /\ items[c] # <<>>
    BY <2>2, <2>3 DEF S
  <2> HIDE DEF c
  <2>5. \A d \in Chans : Hands(d)' = Hands(d) /\ Hands(d) = {}
    BY <1>0, <2>1 DEF Hands, NobodyDrains
  <2> QED
    BY <1>5, <2>1, <2>4, <2>5
<1>8. ASSUME NEW w \in SUBSET Chans, \A c \in Chans : tst[c] = "result" => c \in w /\ c \in Drains, RaceEnds(w)
      PROVE  ItemsKept'
  BY <1>8, EndSettles, SettledItems
<1>9. CASE RaceReaped
  BY <1>8, <1>9, Looks DEF RaceReaped
<1>10. CASE Unwind
  <2>1. PICK R \in SUBSET Chans : Settles(R, {})
    BY <1>10, UnwindSettles
  <2> QED
    BY <2>1, SettledItems
<1>11. CASE RaceWakes
  <2>1. CASE RaceEnds(Drains)
    BY <1>8, <2>1, Looks
  <2>2. CASE ~RaceEnds(Drains)
    <3>1. UNCHANGED <<items, fate, origin, result, tst>>
      BY <1>11, <2>2 DEF RaceWakes, chan, hist
    <3> QED
      BY <3>1, NoItemMoves
  <2> QED
    BY <2>1, <2>2
<1>12. CASE RaceSlow
  <2>1. /\ UNCHANGED <<items, fate, origin, result>> /\ dst = "idle"
        /\ tst' = [t \in Tasks |-> IF t \in registered THEN "start" ELSE tst[t]]
    BY <1>12 DEF RaceSlow, RaceBegins, chan
  <2>2. \A c \in Chans : tst'[c] = "result" <=> tst[c] = "result"
    BY <1>0, <2>1, Names DEF NobodyDrains
  <2> QED
    BY <2>1, <2>2, NoItemMoves
<1>13. ASSUME NEW t \in Tasks, StepCancelled(t) \/ StepEmpty(t) \/ Register(t) PROVE ItemsKept'
  <2>1. UNCHANGED <<items, fate, origin, result>>
    BY <1>13 DEF StepCancelled, StepEmpty, Register, chan, hist
  <2>2. tst[t] # "result"
    BY <1>0, <1>13 DEF StepCancelled, StepEmpty, Register, Runnable, RegisteringRuns
  <2>3. \E s \in {"cancelled", "off", "registering", "waiting"} : tst' = [tst EXCEPT ![t] = s]
    BY <1>13 DEF StepCancelled, StepEmpty, Register
  <2>4. \A c \in Chans : tst'[c] = "result" <=> tst[c] = "result"
    BY <1>t, <2>2, <2>3, Names
  <2> QED
    BY <2>1, <2>4, NoItemMoves
<1>14. ASSUME NEW g \in Getters, GetStart(g) \/ GetCancel(g) PROVE ItemsKept'
  <2>1. UNCHANGED <<items, fate, origin, result>>
    BY <1>14 DEF GetStart, GetCancel, chan, hist
  <2>2. \A c \in Chans : tst'[c] = tst[c]
    BY <1>14, <1>t, Names DEF GetStart, GetCancel
  <2> QED
    BY <2>1, <2>2, NoItemMoves
<1>15. CASE LoopEvent \/ ThreadEvent \/ Thread \/ RunNotify
  <2>1. UNCHANGED <<items, fate, origin, result, tst>>
    BY <1>15 DEF LoopEvent, ThreadEvent, Thread, ThreadWake, ThreadNotify, RunNotify, chan, hist, tasks
  <2> QED
    BY <2>1, NoItemMoves
<1>16. ASSUME NEW t \in Tasks, RunWake(t) PROVE ItemsKept'
  <2>1. UNCHANGED <<items, fate, origin, result, tst>>
    BY <1>16 DEF RunWake, chan, hist
  <2> QED
    BY <2>1, NoItemMoves
<1>17. CASE NotifyStep \/ CancelRace \/ LoopRestart \/ RaceCancelled
  <2>1. UNCHANGED <<items, fate, origin, result, tst>>
    BY <1>17 DEF NotifyStep, CancelRace, LoopRestart, RaceCancelled, chan, hist, tasks
  <2> QED
    BY <2>1, NoItemMoves
<1>18. ASSUME NEW t \in Tasks, TaskStep(t) PROVE ItemsKept'
  BY <1>4, <1>6, <1>13, <1>18 DEF TaskStep
<1>19. CASE RaceStep
  BY <1>7, <1>9, <1>10, <1>11, <1>12, <1>17, <1>19 DEF RaceStep
<1> QED
  BY <1>1, <1>2, <1>3, <1>14, <1>15, <1>16, <1>17, <1>18, <1>19 DEF Next

\* A channel holds no more items than may be put.
LEMMA FitsBound ==
  ASSUME TypeOK, ItemsKept, NEW c \in Chans
  PROVE  Len(items[c]) \in Nat /\ Len(items[c]) <= MaxPuts
<1>1. /\ items[c] \in Seq(1..MaxPuts) /\ Once(items[c])
      /\ \A i \in Members(items[c]) : i \in 1..MaxPuts
  BY OwnItems DEF Kept, Conserved
<1>2. Len(items[c]) = Cardinality(Members(items[c]))
  BY <1>1, DistinctLength DEF Once
<1>3. MaxPuts \in Nat /\ 1 \in Int /\ MaxPuts \in Int
  BY Names
<1>4. IsFiniteSet(1..MaxPuts) /\ Cardinality(1..MaxPuts) = (IF 1 > MaxPuts THEN 0 ELSE MaxPuts - 1 + 1)
  BY <1>3, FS_Interval
<1>5. Cardinality(Members(items[c])) <= Cardinality(1..MaxPuts)
  BY <1>1, <1>4, FS_Subset
<1>6. Len(items[c]) \in Nat
  BY <1>1, LenProperties
<1> QED
  BY <1>2, <1>3, <1>4, <1>5, <1>6

\* What ItemsKept says of one item.
LEMMA OnePlace ==
  ASSUME TypeOK, ItemsKept, NEW i \in 1..Len(origin)
  PROVE  Places(i) = 1
<1> DEFINE c == origin[i]
           P == {p \in Chans \X (1..MaxPuts) : p[2] <= Len(items[p[1]]) /\ items[p[1]][p[2]] = i}
           H == {d \in Chans : tst[d] = "result" /\ result[d] = i}
<1>1. c \in Chans
  BY ElementOfSeq DEF TypeOK
<1>2. ASSUME NEW p \in P PROVE p[1] = c /\ p[2] \in 1..Len(items[c]) /\ items[c][p[2]] = i /\ i \in Members(items[c])
  <2>1. p[1] \in Chans /\ p[2] \in 1..MaxPuts /\ p[2] <= Len(items[p[1]]) /\ items[p[1]][p[2]] = i
    OBVIOUS
  <2>2. Len(items[p[1]]) \in Nat
    BY <2>1, FitsBound
  <2>3. p[2] \in 1..Len(items[p[1]])
    BY <2>1, <2>2, Names
  <2>4. i \in Members(items[p[1]])
    BY <2>1, <2>3 DEF Members
  <2>5. p[1] = c
    BY <2>1, <2>4, OwnItems
  <2> QED
    BY <2>1, <2>3, <2>4, <2>5
<1>3. ASSUME NEW d \in H PROVE d = c /\ i \in Hands(c)
  BY HandsHold
<1>4. Conserved(c, items[c], Hands(c), fate, origin)
  BY <1>1 DEF ItemsKept, Kept
<1>5. i \in Members(items[c]) \cup Hands(c) <=> fate[i] = "none"
  BY <1>4 DEF Conserved, Owed
<1>6. Places(i) = Cardinality(P) + Cardinality(H) + (IF fate[i] = "none" THEN 0 ELSE 1)
  BY DEF Places
<1> HIDE DEF P, H
<1>7. CASE fate[i] # "none"
  <2>1. P = {} /\ H = {}
    BY <1>2, <1>3, <1>5, <1>7
  <2> QED
    BY <1>6, <1>7, <2>1, FS_EmptySet
<1>8. CASE fate[i] = "none" /\ i \in Members(items[c])
  <2>1. PICK k \in 1..Len(items[c]) : items[c][k] = i
    BY <1>8 DEF Members
  <2>2. H = {}
    BY <1>3, <1>4, <1>8 DEF Conserved
  <2>3. k \in 1..MaxPuts /\ k <= Len(items[c])
    BY <1>1, <2>1, FitsBound, Names
  <2>4. <<c, k>> \in P
    BY <1>1, <2>1, <2>3 DEF P
  <2>5. \A p \in P : p = <<c, k>>
    <3> TAKE p \in P
    <3>1. p[1] = c /\ p[2] = k
      BY <1>2, <1>4, <2>1 DEF Conserved, Once
    <3>2. p \in Chans \X (1..MaxPuts)
      BY DEF P
    <3> QED
      BY <3>1, <3>2
  <2>6. P = {<<c, k>>}
    BY <2>4, <2>5
  <2> QED
    <3>1. Cardinality(P) = 1
      BY <2>6, FS_Singleton
    <3>2. Cardinality(H) = 0
      BY <2>2, FS_EmptySet
    <3> QED
      BY <1>6, <1>8, <3>1, <3>2
<1>9. CASE fate[i] = "none" /\ i \notin Members(items[c])
  <2>1. P = {}
    BY <1>2, <1>9
  <2>2. i \in Hands(c)
    BY <1>5, <1>9
  <2>3. tst[c] = "result" /\ result[c] = i
    BY <2>2 DEF Hands
  <2>4. H = {c}
    BY <1>1, <1>3, <2>3 DEF H
  <2> QED
    <3>1. Cardinality(H) = 1
      BY <2>4, FS_Singleton
    <3>2. Cardinality(P) = 0
      BY <2>1, FS_EmptySet
    <3> QED
      BY <1>6, <1>9, <3>1, <3>2
<1> QED
  BY <1>7, <1>8, <1>9

\* The invariant says what the property does.
LEMMA KeptConserved ==
  ASSUME TypeOK, ItemsKept
  PROVE  ItemsConserved
<1>1. \A i \in 1..Len(origin) : Places(i) = 1
  BY OnePlace
<1>2. \A c \in Chans : \A i \in Members(items[c]) : origin[i] = c
  BY OwnItems
<1>3. ASSUME NEW c \in Chans \ {GetOf[g] : g \in Getters}
      PROVE  /\ \A j, k \in 1..Len(items[c]) : j < k => items[c][j] < items[c][k]
             /\ \A i \in 1..Len(origin) :
                  fate[i] = "consumed" /\ origin[i] = c => \A k \in Members(items[c]) : i < k
  <2>1. InOrder(c, items[c], Hands(c), fate, origin)
    BY DEF ItemsKept, Kept, Shared
  <2> QED
    BY <2>1 DEF InOrder, Ascending
<1> QED
  BY <1>1, <1>2, <1>3 DEF ItemsConserved

\* At the start there is no item and no race.
LEMMA ChannelsStart ==
  ASSUME Init
  PROVE  TypeOK /\ ItemsKept /\ RaceKept
<1>1. /\ <<>> \in Seq(1..MaxPuts) /\ <<>> \in Seq(Tasks) /\ <<>> \in Seq(Chans)
      /\ Len(<<>>) = 0 /\ 1..Len(<<>>) = {}
  BY EmptySeq
<1>2. Order[1] \in Chans
  <2>1. Order \in Seq(Chans) /\ Len(Order) \in Nat
    BY ChannelsAssumption, LenProperties
  <2>2. PICK c \in Chans : TRUE
    BY ChannelsAssumption
  <2>3. \E i \in 1..Len(Order) : Order[i] = c
    BY ChannelsAssumption
  <2>4. 1 \in 1..Len(Order)
    BY <2>1, <2>3
  <2> QED
    BY <2>1, <2>4, ElementOfSeq
<1>3. ChanType /\ MgrType
  BY <1>1 DEF Init, ChanType, MgrType
<1>h. HistType
  <2>1. MaxPuts \in Nat /\ MaxEvents \in Nat
    BY Names
  <2> QED
    <3>1. 0 \in 0..MaxEvents /\ Len(<<>>) <= MaxPuts
      BY <1>1, <2>1
    <3>2. origin = <<>> /\ events = 0 /\ fresh = FALSE /\ fate = [i \in 1..MaxPuts |-> "none"]
      BY DEF Init
    <3> QED
      BY <1>1, <3>1, <3>2 DEF HistType
<1>4. TaskType
  BY Names DEF Init, TaskType
<1>5. RaceType /\ LoopType /\ ThrdType
  BY <1>2 DEF Init, RaceType, LoopType, ThrdType
<1>6. TypeOK
  BY <1>3, <1>4, <1>5, <1>h, TypeGroups
<1>7. ASSUME NEW c \in Chans PROVE Kept(c, items[c], Hands(c), fate, origin)
  <2>0. c \in Tasks
    BY Names
  <2>1. items[c] = <<>> /\ origin = <<>> /\ Hands(c) = {}
    BY <2>0 DEF Init, Hands
  <2>2. Members(<<>>) = {} /\ Once(<<>>) /\ Ascending(<<>>) /\ Owed(c, fate, <<>>) = {}
    BY <1>1 DEF Members, Once, Ascending, Owed
  <2>3. Conserved(c, <<>>, {}, fate, <<>>)
    BY <2>2 DEF Conserved
  <2>4. InOrder(c, <<>>, {}, fate, <<>>)
    BY <1>1, <2>2 DEF InOrder
  <2> QED
    BY <2>1, <2>3, <2>4 DEF Kept
<1>8. ItemsKept
  BY <1>7 DEF Init, ItemsKept
<1>9. RaceKept
  BY Names DEF Init, RaceKept, RegisteringRuns, NobodyDrains, NoLateItem, PairIsHere
<1> QED
  BY <1>6, <1>8, <1>9

\* A stuttering step changes nothing of what follows.
LEMMA ChannelsStutter ==
  ASSUME TypeOK, ItemsKept, RaceKept, UNCHANGED vars
  PROVE  TypeOK' /\ ItemsKept' /\ RaceKept'
<1>1. UNCHANGED <<items, waiters, registered, pair, notify, notify_pending, tst, fut, result, cancelling,
                  ntask, dst, won, asked, wakes, nsets, running, tpc, tch, origin, fate, events, fresh>>
  BY DEF vars, chan, mgr, tasks, race, loop, thrd, hist
<1>2. TypeOK'
  BY <1>1 DEF TypeOK
<1>3. ItemsKept'
  BY <1>1, NoItemMoves
<1>4. RaceKept'
  BY <1>1 DEF RaceKept, RegisteringRuns, NobodyDrains, NoLateItem, PairIsHere, Drains
<1> QED
  BY <1>2, <1>3, <1>4

\* Every variable keeps its type.
LEMMA ChannelsTypes ==
  ASSUME TypeOK, ItemsKept, RaceKept, Next
  PROVE  TypeOK'
<1>1. CASE \E c \in Chans : LoopPut(c) \/ ThreadAppend(c)
  BY <1>1, ProducerTypes
<1>2. CASE \E c \in Chans : DrainAll(c) \/ Withdraw(c) \/ Clear(c) \/ Flush(c)
  BY <1>2, ChannelTypes
<1>3. CASE LoopEvent \/ ThreadEvent \/ Thread \/ RunNotify \/ \E t \in Tasks : RunWake(t)
  BY <1>3, ProducerTypes
<1>4. CASE (\E t \in Tasks : TaskStep(t)) \/ \E g \in Getters : GetStart(g) \/ GetCancel(g)
  BY <1>4, TaskTypes
<1>5. CASE RaceStep \/ CancelRace \/ NotifyStep \/ LoopRestart
  BY <1>5, RaceTypes
<1> QED
  BY <1>1, <1>2, <1>3, <1>4, <1>5 DEF Next

\* Where the items are, together with what it rests on.
ItemsInv == TypeOK /\ ItemsKept /\ RaceKept

\* The invariant holds in every run.
LEMMA ItemsInvariant == Spec => []ItemsInv
<1>1. Init => ItemsInv
  BY ChannelsStart DEF ItemsInv
<1>2. ItemsInv /\ [Next]_vars => ItemsInv'
  BY ChannelsTypes, ItemsKeptNext, RaceKeptNext, ChannelsStutter DEF ItemsInv
<1> QED
  BY <1>1, <1>2, PTL DEF Spec

(***************************************************************************)
(* put, get, drain, remove, clear, flush and race (channels.py): each item *)
(* that was put is in exactly one place, whatever is cancelled, flushed or *)
(* loses a race, and the dispatcher receives the items of a channel that   *)
(* nobody else reads in the order they were put.                           *)
(***************************************************************************)
THEOREM ItemsAreConserved == Spec => []ItemsConserved
<1>1. ItemsInv => ItemsConserved
  BY KeptConserved DEF ItemsInv
<1> QED
  BY <1>1, ItemsInvariant, PTL

----------------------------------------------------------------------------
(***************************************************************************)
(* What wakes race().                                                      *)
(***************************************************************************)

\* A step that puts nothing and wakes nobody.
LEMMA NothingAnnounced ==
  ASSUME Announced, UNCHANGED <<dst, ntask, nsets, tpc, notify, fresh>>, Drains' \subseteq Drains,
         \A c \in Chans : items[c] = <<>> => items'[c] = <<>>
  PROVE  Announced'
<1>1. (\A c \in Drains : items[c] = <<>>) => \A c \in Drains' : items'[c] = <<>>
  BY DEF Drains
<1> QED
  BY <1>1 DEF Announced

\* While race() sleeps, whatever arrives is announced to it.
LEMMA AnnouncedNext ==
  ASSUME TypeOK, RaceKept, Announced, Next
  PROVE  Announced'
<1>0. NobodyDrains /\ PairIsHere
  BY DEF RaceKept
<1>t. /\ tst \in [Tasks -> {"off", "start", "registering", "waiting", "result", "cancelled"}]
      /\ items \in [Chans -> Seq(1..MaxPuts)] /\ nsets \in Nat
      /\ tpc \in {"idle", "wake", "notify"} /\ notify \in BOOLEAN
  BY DEF TypeOK
<1>1. ASSUME SignalNotify, UNCHANGED dst PROVE Announced'
  BY <1>0, <1>1 DEF SignalNotify, PairIsHere, Announced
<1>2. ASSUME NEW c \in Chans, ThreadAppend(c) PROVE Announced'
  BY <1>2 DEF ThreadAppend, Announced
<1>3. CASE ThreadEvent \/ ThreadWake
  BY <1>3 DEF ThreadEvent, ThreadWake, Announced
<1>4. CASE ThreadNotify
  <2>1. UNCHANGED <<dst, pair>> /\ nsets' = IF pair = "current" THEN nsets + 1 ELSE nsets
    BY <1>4 DEF ThreadNotify, race
  <2>2. dst = "racing" => nsets' > 0
    BY <1>0, <1>t, <2>1 DEF PairIsHere
  <2> QED
    BY <2>1, <2>2 DEF Announced
<1>5. CASE RunNotify
  BY <1>5 DEF RunNotify, Announced
<1>6. CASE NotifyStep
  <2>1. /\ UNCHANGED <<dst, fresh, items, nsets, tpc, tst, notify>>
        /\ \/ ntask = "start" /\ ntask' = IF notify THEN "done" ELSE "waiting"
           \/ ntask' = "done"
    BY <1>6 DEF NotifyStep, hist, chan, thrd, tasks, mgr, loop
  <2>2. Drains' = Drains
    BY <2>1 DEF Drains
  <2> QED
    BY <2>1, <2>2 DEF Announced
<1>7. ASSUME NEW c \in Chans, DrainAll(c) \/ Withdraw(c) \/ Clear(c) \/ Flush(c) PROVE Announced'
  <2>1. /\ UNCHANGED <<dst, ntask, nsets, tpc, notify, fresh, tst>>
    BY <1>7 DEF DrainAll, Withdraw, Clear, Flush, race, loop, thrd, mgr, tasks
  <2>2. \E q : items' = [items EXCEPT ![c] = q] /\ (items[c] = <<>> => q = <<>>)
    <3>1. CASE Withdraw(c)
      <4>1. PICK i \in Members(items[c]) : items' = [items EXCEPT ![c] = Without(@, i)]
        BY <3>1 DEF Withdraw
      <4>2. items[c] # <<>>
        BY <4>1, EmptySeq DEF Members
      <4> QED
        BY <4>1, <4>2
    <3>2. CASE DrainAll(c) \/ Clear(c) \/ Flush(c)
      BY <3>2 DEF DrainAll, Clear, Flush
    <3> QED
      BY <1>7, <3>1, <3>2
  <2>3. \A d \in Chans : items[d] = <<>> => items'[d] = <<>>
    BY <1>t, <2>2
  <2> QED
    BY <2>1, <2>3, NothingAnnounced DEF Drains
<1>8. ASSUME NEW t \in Tasks, TaskStep(t) PROVE Announced'
  <2>1. UNCHANGED <<dst, ntask, nsets, tpc, notify, fresh>>
    BY <1>8 DEF TaskStep, StepCancelled, StepTakes, StepEmpty, Register, race, thrd, hist, mgr, loop
  <2>2. \/ items' = items
        \/ \E c \in Chans : items[c] # <<>> /\ items' = [items EXCEPT ![c] = Tail(@)]
    BY <1>8, Names DEF TaskStep, StepCancelled, StepTakes, StepEmpty, Register, chan
  <2>3. \A d \in Chans : items[d] = <<>> => items'[d] = <<>>
    BY <1>t, <2>2
  <2>4. /\ \A u \in Tasks : u # t => tst'[u] = tst[u]
        /\ tst[t] # "off"
    <3>1. tst[t] # "off"
      BY <1>8 DEF TaskStep, StepCancelled, StepTakes, StepEmpty, Register, Runnable, RaceKept, RegisteringRuns
    <3>2. \A u \in Tasks : u # t => tst'[u] = tst[u]
      BY <1>8, <1>t DEF TaskStep, StepCancelled, StepTakes, StepEmpty, Register
    <3> QED
      BY <3>1, <3>2
  <2>5. Drains' \subseteq Drains
    BY <2>4, Names DEF Drains
  <2> QED
    BY <2>1, <2>3, <2>5, NothingAnnounced
<1>9. ASSUME NEW g \in Getters, GetStart(g) \/ GetCancel(g) PROVE Announced'
  <2>1. UNCHANGED <<dst, ntask, nsets, tpc, notify, fresh, items>>
    BY <1>9 DEF GetStart, GetCancel, race, thrd, hist, mgr, loop, chan
  <2>2. \A c \in Chans : tst'[c] = tst[c]
    BY <1>9, <1>t, Names DEF GetStart, GetCancel
  <2>3. Drains' \subseteq Drains
    BY <2>2 DEF Drains
  <2> QED
    BY <2>1, <2>3, NothingAnnounced
<1>10. CASE CancelRace \/ \E t \in Tasks : RunWake(t)
  <2>1. UNCHANGED <<dst, ntask, nsets, tpc, notify, fresh, items, tst>>
    BY <1>10 DEF CancelRace, RunWake, race, thrd, hist, mgr, loop, chan, tasks
  <2> QED
    BY <2>1, NothingAnnounced DEF Drains
<1>11. CASE RaceSlow
  <2>1. /\ dst = "idle" /\ fresh' = FALSE /\ items' = items
        /\ \A c \in registered : items[c] = <<>>
        /\ tst' = [t \in Tasks |-> IF t \in registered THEN "start" ELSE tst[t]]
    BY <1>11 DEF RaceSlow, RaceBegins, chan
  <2>2. Drains' \subseteq registered
    BY <1>0, <2>1, Names DEF Drains, NobodyDrains
  <2> QED
    BY <2>1, <2>2 DEF Announced
<1>12. ASSUME NEW w, RaceEnds(w) PROVE Announced'
  BY <1>12 DEF RaceEnds, Announced
<1>13. CASE RaceWakes
  <2>1. CASE RaceEnds(Drains)
    BY <1>12, <2>1
  <2>2. CASE ~RaceEnds(Drains)
    <3>1. dst' = "reaping"
      BY <1>13, <2>2 DEF RaceWakes
    <3> QED
      BY <3>1 DEF Announced
  <2> QED
    BY <2>1, <2>2
<1>14. CASE RaceReaped
  BY <1>12, <1>14 DEF RaceReaped
<1>15. CASE RaceFast \/ RaceCancelled \/ Unwind \/ LoopRestart
  <2>1. dst' # "racing"
    BY <1>15 DEF RaceFast, RaceBegins, RaceCancelled, Unwind, LoopRestart, race
  <2> QED
    BY <2>1 DEF Announced
<1>16. ASSUME NEW c \in Chans, LoopPut(c) PROVE Announced'
  BY <1>1, <1>16 DEF LoopPut
<1>17. CASE LoopEvent
  BY <1>1, <1>17 DEF LoopEvent
<1>18. CASE RaceStep
  BY <1>11, <1>13, <1>14, <1>15, <1>18 DEF RaceStep
<1>19. CASE \E c \in Chans : LoopPut(c) \/ ThreadAppend(c) \/ DrainAll(c) \/ Withdraw(c) \/ Clear(c) \/ Flush(c)
  BY <1>2, <1>7, <1>16, <1>19
<1>20. CASE LoopEvent \/ ThreadEvent \/ Thread \/ RunNotify \/ NotifyStep \/ CancelRace \/ LoopRestart
  BY <1>3, <1>4, <1>5, <1>6, <1>10, <1>15, <1>17, <1>20 DEF Thread
<1>21. CASE (\E t \in Tasks : TaskStep(t) \/ RunWake(t)) \/ \E g \in Getters : GetStart(g) \/ GetCancel(g)
  BY <1>8, <1>9, <1>10, <1>21
<1> QED
  BY <1>18, <1>19, <1>20, <1>21 DEF Next

(***************************************************************************)
(* QueueManager.race (channels.py): while race() sleeps and nothing is     *)
(* under way that will wake it, no channel it watches holds an item and no *)
(* event arrived since it began, with and without puts from another        *)
(* thread, and across a restart of the loop.                               *)
(***************************************************************************)
THEOREM RaceIsNotStranded == Spec => []RaceNotStranded
<1>1. Init => Announced
  BY DEF Init, Announced
<1>2. ItemsInv /\ Announced /\ [Next]_vars => Announced'
  <2>1. ItemsInv /\ Announced /\ Next => Announced'
    BY AnnouncedNext DEF ItemsInv
  <2>2. Announced /\ UNCHANGED vars => Announced'
    <3> SUFFICES ASSUME Announced, UNCHANGED vars PROVE Announced'
      OBVIOUS
    <3>1. UNCHANGED <<dst, ntask, nsets, tpc, notify, fresh, items, tst>>
      BY DEF vars, chan, mgr, tasks, race, loop, thrd, hist
    <3> QED
      BY <3>1, NothingAnnounced DEF Drains
  <2> QED
    BY <2>1, <2>2
<1>3. Announced => RaceNotStranded
  BY DEF Announced, RaceNotStranded, Quiet
<1> QED
  BY <1>1, <1>2, <1>3, ItemsInvariant, PTL DEF Spec

----------------------------------------------------------------------------
(***************************************************************************)
(* Who waits.                                                              *)
(***************************************************************************)

\* What a settled race does to those who wait.
LEMMA SettledWaiters ==
  ASSUME TypeOK, NEW R \in SUBSET Chans, NEW S, Settles(R, S)
  PROVE  /\ \A t \in Tasks : fut'[t] = fut[t] \/ (fut[t] = "pending" /\ fut'[t] = "done")
         /\ \A c \in Chans : Members(waiters'[c]) \subseteq Members(waiters[c])
<1>1. /\ \A t \in Tasks : fut'[t] = IF \E c \in R : t \in Woken(waiters[c]) THEN "done" ELSE fut[t]
      /\ \A c \in Chans : waiters'[c] = IF c \in R THEN Popped(waiters[c]) ELSE waiters[c]
  BY DEF Settles, Restore
<1>2. \A c \in Chans : /\ \A t \in Woken(waiters[c]) : fut[t] = "pending"
                       /\ Members(Popped(waiters[c])) \subseteq Members(waiters[c])
  BY PopShape DEF TypeOK
<1> QED
  BY <1>1, <1>2

\* race() ends when none of its drain tasks waits.
LEMMA EndWaits ==
  ASSUME TypeOK, ItemsKept, RaceKept, RaceStep, dst' = "idle", dst # "unwinding", dst # "idle"
  PROVE  \E w \in SUBSET Chans : /\ RaceEnds(w) /\ running = NoTask
                                 /\ \A c \in Chans : tst[c] \in {"off", "result", "cancelled"}
                                 /\ \A c \in Chans : tst[c] = "result" => c \in w /\ c \in Drains
<1>1. RaceWakes \/ RaceReaped
  BY DEF RaceStep, RaceFast, RaceBegins, RaceSlow, RaceCancelled, Unwind
<1>2. (\A c \in Drains : Finished(c)) => \A c \in Chans : tst[c] \in {"off", "result", "cancelled"}
  BY DEF Drains, Finished
<1>3. CASE RaceWakes
  <2>1. RaceEnds(Drains) /\ \A c \in Drains : Finished(c)
    BY <1>3 DEF RaceWakes
  <2> QED
    BY <1>2, <1>3, <2>1, Looks DEF RaceWakes
<1>4. CASE RaceReaped
  BY <1>2, <1>4, Looks DEF RaceReaped
<1> QED
  BY <1>1, <1>3, <1>4

\* Nobody starts or stops waiting.
LEMMA SameWaits ==
  ASSUME Waiting, \A c \in Chans : Members(waiters'[c]) \subseteq Members(waiters[c]),
         \A t \in Tasks : /\ tst'[t] = "waiting" <=> tst[t] = "waiting"
                          /\ fut'[t] = "none" <=> fut[t] = "none"
  PROVE  Waiting'
BY DEF Waiting, HasFuture, OwnQueue, ChanOf

\* Every step keeps what is known about those who wait.
LEMMA WaitingNext ==
  ASSUME TypeOK, ItemsKept, RaceKept, Waiting, Next
  PROVE  Waiting'
<1>0. HasFuture /\ OwnQueue /\ RegisteringRuns /\ NobodyDrains
  BY DEF Waiting, RaceKept
<1>t. /\ tst \in [Tasks -> {"off", "start", "registering", "waiting", "result", "cancelled"}]
      /\ fut \in [Tasks -> {"none", "pending", "done", "cancelled"}]
      /\ waiters \in [Chans -> Seq(Tasks)] /\ tch \in Chans
  BY DEF TypeOK
<1>p. \A c \in Chans : /\ \A t \in Woken(waiters[c]) : fut[t] = "pending"
                       /\ Members(Popped(waiters[c])) \subseteq Members(waiters[c])
  BY <1>t, PopShape
<1>1. ASSUME UNCHANGED <<tst, fut, waiters>> PROVE Waiting'
  BY <1>1, SameWaits
<1>2. ASSUME NEW c \in Chans, LoopPut(c) PROVE Waiting'
  <2>1. /\ tst' = tst /\ waiters' = [waiters EXCEPT ![c] = Popped(@)]
        /\ fut' = [t \in Tasks |-> IF t \in Woken(waiters[c]) THEN "done" ELSE fut[t]]
    BY <1>2 DEF LoopPut
  <2>2. \A d \in Chans : Members(waiters'[d]) \subseteq Members(waiters[d])
    BY <1>t, <1>p, <2>1
  <2>3. \A t \in Tasks : fut'[t] = "none" <=> fut[t] = "none"
    BY <1>p, <2>1
  <2> QED
    BY <2>1, <2>2, <2>3, SameWaits
<1>3. ASSUME NEW c \in Chans, ThreadAppend(c) \/ DrainAll(c) \/ Withdraw(c) \/ Clear(c) PROVE Waiting'
  BY <1>1, <1>3 DEF ThreadAppend, DrainAll, Withdraw, Clear, tasks
<1>4. ASSUME NEW c \in Chans, Flush(c) PROVE Waiting'
  <2>1. /\ tst' = tst /\ waiters' = [waiters EXCEPT ![c] = <<>>]
        /\ \A t \in Tasks : fut'[t] = "none" <=> fut[t] = "none"
    BY <1>4 DEF Flush
  <2>2. Members(<<>>) = {}
    BY EmptySeq DEF Members
  <2>3. \A d \in Chans : Members(waiters'[d]) \subseteq Members(waiters[d])
    BY <1>t, <2>1, <2>2
  <2> QED
    BY <2>1, <2>3, SameWaits
<1>5. CASE LoopEvent \/ ThreadEvent \/ ThreadNotify \/ RunNotify \/ NotifyStep \/ CancelRace \/ LoopRestart
           \/ RaceFast
  BY <1>1, <1>5 DEF LoopEvent, ThreadEvent, ThreadNotify, RunNotify, NotifyStep, CancelRace, LoopRestart,
                    RaceFast, tasks, chan
<1>6. CASE ThreadWake
  <2>1. UNCHANGED <<tst, fut>> /\ waiters' = [waiters EXCEPT ![tch] = Popped(@)]
    BY <1>6 DEF ThreadWake, tasks
  <2>2. \A d \in Chans : Members(waiters'[d]) \subseteq Members(waiters[d])
    BY <1>t, <1>p, <2>1
  <2> QED
    BY <2>1, <2>2, SameWaits
<1>7. ASSUME NEW t \in Tasks, RunWake(t) PROVE Waiting'
  <2>1. /\ UNCHANGED <<tst, waiters>>
        /\ fut' = [fut EXCEPT ![t] = IF @ = "pending" THEN "done" ELSE @]
    BY <1>7 DEF RunWake, chan
  <2>2. \A u \in Tasks : fut'[u] = "none" <=> fut[u] = "none"
    BY <1>t, <2>1
  <2> QED
    BY <2>1, <2>2, SameWaits
<1>8. ASSUME NEW t \in Tasks, StepCancelled(t) PROVE Waiting'
  <2> DEFINE c == ChanOf(t)
             q == Without(waiters[c], t)
  <2>1. /\ c \in Chans /\ \E r \in {q, Popped(q)} : waiters' = [waiters EXCEPT ![c] = r]
        /\ tst' = [tst EXCEPT ![t] = IF t \in Chans THEN "cancelled" ELSE "off"]
        /\ fut'[t] = "none"
        /\ \A u \in Tasks \ {t} : fut'[u] = fut[u] \/ (fut'[u] = "done" /\ u \in Woken(q))
    BY <1>8, Names DEF StepCancelled
  <2>2. q \in Seq(Tasks) /\ Members(q) \subseteq Members(waiters[c])
    BY <1>t, <2>1, WithoutType, WithoutOthers
  <2> HIDE DEF c, q
  <2>3. Members(Popped(q)) \subseteq Members(q) /\ \A u \in Woken(q) : fut[u] = "pending"
    BY <2>2, PopShape
  <2>4. \A d \in Chans : Members(waiters'[d]) \subseteq Members(waiters[d])
    BY <1>t, <2>1, <2>2, <2>3
  <2>5. HasFuture'
    BY <1>0, <1>t, <2>1, <2>3 DEF HasFuture
  <2>6. OwnQueue'
    BY <1>0, <2>4 DEF OwnQueue, ChanOf
  <2> QED
    BY <2>5, <2>6 DEF Waiting
<1>9. ASSUME NEW t \in Tasks, StepTakes(t) \/ StepEmpty(t) PROVE Waiting'
  <2>1. /\ waiters' = waiters /\ fut' = [fut EXCEPT ![t] = "none"]
        /\ \E s \in {"result", "off", "registering"} : tst' = [tst EXCEPT ![t] = s]
    BY <1>9 DEF StepTakes, StepEmpty, chan
  <2>2. HasFuture'
    BY <1>0, <1>t, <2>1 DEF HasFuture
  <2>3. OwnQueue'
    BY <1>0, <2>1 DEF OwnQueue, ChanOf
  <2> QED
    BY <2>2, <2>3 DEF Waiting
<1>10. ASSUME NEW t \in Tasks, Register(t) PROVE Waiting'
  <2>1. /\ waiters' = [waiters EXCEPT ![ChanOf(t)] = Append(@, t)] /\ ChanOf(t) \in Chans
        /\ fut' = [fut EXCEPT ![t] = "pending"] /\ tst' = [tst EXCEPT ![t] = "waiting"]
    BY <1>10, Names DEF Register
  <2>2. HasFuture'
    BY <1>0, <1>t, <2>1 DEF HasFuture
  <2>3. Members(Append(waiters[ChanOf(t)], t)) = Members(waiters[ChanOf(t)]) \cup {t}
    BY <1>t, <2>1, AppendMembers
  <2>4. OwnQueue'
    BY <1>0, <1>t, <2>1, <2>3 DEF OwnQueue, ChanOf
  <2> QED
    BY <2>2, <2>4 DEF Waiting
<1>11. ASSUME NEW g \in Getters, GetStart(g) \/ GetCancel(g) PROVE Waiting'
  <2>1. /\ waiters' = waiters
        /\ \A t \in Tasks : /\ tst'[t] = tst[t] \/ (tst[t] = "off" /\ tst'[t] = "start")
                            /\ fut'[t] = "none" <=> fut[t] = "none"
    BY <1>11, <1>t, Names DEF GetStart, GetCancel, CancelTasks, chan
  <2> QED
    BY <2>1, SameWaits
<1>12. CASE RaceSlow
  <2>1. /\ UNCHANGED <<waiters, fut>> /\ dst = "idle" /\ registered \subseteq Chans
        /\ \A t \in Tasks : tst'[t] = IF t \in registered THEN "start" ELSE tst[t]
    BY <1>12 DEF RaceSlow, RaceBegins, chan, TypeOK
  <2>2. \A t \in registered : tst[t] = "off"
    BY <1>0, <2>1 DEF NobodyDrains
  <2> QED
    BY <2>1, <2>2, SameWaits
<1>13. CASE RaceCancelled \/ (RaceWakes /\ dst' # "idle")
  <2>1. UNCHANGED <<waiters, tst>> /\ \E ts : CancelTasks(ts)
    BY <1>13 DEF RaceCancelled, RaceWakes, RaceEnds, chan
  <2>2. \A t \in Tasks : fut'[t] = "none" <=> fut[t] = "none"
    BY <2>1 DEF CancelTasks
  <2> QED
    BY <2>1, <2>2, SameWaits
<1>14. CASE RaceReaped \/ (RaceWakes /\ dst' = "idle")
  <2>1. RaceStep /\ dst' = "idle" /\ dst \in {"racing", "reaping"}
    BY <1>14 DEF RaceStep, RaceReaped, RaceWakes, RaceEnds
  <2>2. PICK w \in SUBSET Chans : /\ RaceEnds(w)
                                  /\ \A c \in Chans : tst[c] \in {"off", "result", "cancelled"}
                                  /\ \A c \in Chans : tst[c] = "result" => c \in w /\ c \in Drains
    BY <2>1, EndWaits
  <2>3. PICK R, S \in SUBSET Chans : Settles(R, S)
    BY <2>2, EndSettles
  <2>4. \A t \in Tasks : tst'[t] = IF t \in Chans THEN "off" ELSE tst[t]
    BY <2>2 DEF RaceEnds
  <2>5. \A t \in Tasks : tst'[t] = "waiting" <=> tst[t] = "waiting"
    BY <2>2, <2>4
  <2> QED
    BY <2>3, <2>5, SettledWaiters, SameWaits
<1>15. CASE Unwind
  <2>1. PICK R \in SUBSET Chans : Settles(R, {})
    BY <1>15, UnwindSettles
  <2> DEFINE F == {c \in Drains : \A d \in Drains : Rank(d) <= Rank(c) => Finished(d)}
  <2>2. tst' = [t \in Tasks |-> IF t \in F THEN "off" ELSE tst[t]]
    BY <1>15 DEF Unwind
  <2>3. ASSUME NEW c \in F PROVE Finished(c)
    <3>1. Rank(c) <= Rank(c)
      BY RankType DEF Drains
    <3> QED
      BY <3>1
  <2> HIDE DEF F
  <2>4. \A t \in Tasks : tst'[t] = tst[t] \/ (tst'[t] = "off" /\ tst[t] \in {"result", "cancelled"})
    BY <2>2, <2>3 DEF Finished
  <2> QED
    BY <2>1, <2>4, SettledWaiters, SameWaits
<1>16. CASE RaceStep
  BY <1>5, <1>12, <1>13, <1>14, <1>15, <1>16 DEF RaceStep
<1>17. CASE \E c \in Chans : LoopPut(c) \/ ThreadAppend(c) \/ DrainAll(c) \/ Withdraw(c) \/ Clear(c) \/ Flush(c)
  BY <1>2, <1>3, <1>4, <1>17
<1>18. CASE LoopEvent \/ ThreadEvent \/ Thread \/ RunNotify \/ NotifyStep \/ CancelRace \/ LoopRestart
  BY <1>5, <1>6, <1>18 DEF Thread
<1>19. CASE (\E t \in Tasks : TaskStep(t) \/ RunWake(t)) \/ \E g \in Getters : GetStart(g) \/ GetCancel(g)
  BY <1>7, <1>8, <1>9, <1>10, <1>11, <1>19 DEF TaskStep
<1> QED
  BY <1>16, <1>17, <1>18, <1>19 DEF Next

----------------------------------------------------------------------------
(***************************************************************************)
(* Who is awake, while all puts are on the loop.                           *)
(***************************************************************************)

\* There are finitely many tasks.
LEMMA FiniteTasks ==
  ASSUME NEW A \in SUBSET Tasks
  PROVE  IsFiniteSet(A) /\ Cardinality(A) \in Nat
<1>1. IsFiniteSet(Chans) /\ IsFiniteSet(Getters)
  BY ChannelsAssumption
<1>2. IsFiniteSet(Tasks)
  BY <1>1, FS_Union DEF Tasks
<1> QED
  BY <1>2, FS_Subset, FS_CardinalityType

\* Counting: nobody falls asleep, nobody who is awake leaves, and no item is
\* added.
LEMMA EnoughMore ==
  ASSUME NEW A \in SUBSET Tasks, NEW B \in SUBSET Tasks, A \subseteq B, NEW S, NEW T \in SUBSET S,
         NEW n \in Nat, NEW m \in Nat, m <= n,
         S # {} => Cardinality(A) >= n
  PROVE  T # {} => Cardinality(B) >= m
<1>1. Cardinality(A) \in Nat /\ Cardinality(B) \in Nat /\ IsFiniteSet(B)
  BY FiniteTasks
<1>2. Cardinality(A) <= Cardinality(B)
  BY <1>1, FS_Subset
<1> QED
  BY <1>1, <1>2

\* Counting: an item is added and a sleeper is woken.
LEMMA EnoughPut ==
  ASSUME NEW A \in SUBSET Tasks, NEW S \in SUBSET Tasks, A \cap S = {},
         NEW W \in SUBSET S, S # {} => \E u : W = {u},
         NEW n \in Nat,
         S # {} => Cardinality(A) >= n
  PROVE  S \ W # {} => Cardinality(A \cup W) >= n + 1
<1> SUFFICES ASSUME S \ W # {} PROVE Cardinality(A \cup W) >= n + 1
  OBVIOUS
<1>1. PICK u : W = {u}
  OBVIOUS
<1>2. u \notin A
  BY <1>1
<1>3. IsFiniteSet(A) /\ Cardinality(A) \in Nat /\ Cardinality(A) >= n
  BY FiniteTasks
<1>4. Cardinality(A \cup {u}) = Cardinality(A) + 1
  BY <1>2, <1>3, FS_AddElement
<1> QED
  BY <1>1, <1>3, <1>4

\* Counting: an item is taken by somebody who may have been awake.
LEMMA EnoughTaken ==
  ASSUME NEW A \in SUBSET Tasks, NEW S, NEW T \in SUBSET S, NEW t,
         NEW n \in Nat, n # 0,
         S # {} => Cardinality(A) >= n
  PROVE  T # {} => Cardinality(A \ {t}) >= n - 1
<1>1. IsFiniteSet(A) /\ Cardinality(A) \in Nat
  BY FiniteTasks
<1>2. CASE t \in A
  <2>1. Cardinality(A \ {t}) = Cardinality(A) - 1
    BY <1>1, <1>2, FS_RemoveElement
  <2> QED
    BY <1>1, <2>1
<1>3. CASE t \notin A
  <2>1. A \ {t} = A
    BY <1>3
  <2> QED
    BY <1>1, <2>1
<1> QED
  BY <1>2, <1>3

\* What a wakeup does to a channel.
LEMMA OneWoken ==
  ASSUME TypeOK, OwnQueue, PendingQueued, NEW c \in Chans
  PROVE  /\ Woken(waiters[c]) \subseteq Asleep(c)
         /\ Asleep(c) # {} => \E u : Woken(waiters[c]) = {u}
         /\ \A t \in Asleep(c) : t \in Woken(waiters[c]) \/ t \in Members(Popped(waiters[c]))
         /\ Awake(c) \in SUBSET Tasks /\ Asleep(c) \in SUBSET Tasks /\ Awake(c) \cap Asleep(c) = {}
<1>1. waiters[c] \in Seq(Tasks) /\ \A t \in Members(waiters[c]) : t \in Tasks /\ ChanOf(t) = c
  BY ElementOfSeq DEF TypeOK, OwnQueue, Members
<1>2. \A t \in Asleep(c) : t \in Members(waiters[c]) /\ fut[t] = "pending"
  BY DEF Asleep, PendingQueued
<1>3. Woken(waiters[c]) \subseteq Asleep(c)
  BY <1>1, PopShape DEF Asleep
<1>4. Asleep(c) # {} => \E u : Woken(waiters[c]) = {u}
  BY <1>1, <1>2, PopShape
<1>5. \A t \in Asleep(c) : t \in Woken(waiters[c]) \/ t \in Members(Popped(waiters[c]))
  BY <1>1, <1>2, PopShape
<1>6. Awake(c) \in SUBSET Tasks /\ Asleep(c) \in SUBSET Tasks /\ Awake(c) \cap Asleep(c) = {}
  BY DEF Awake, Asleep
<1> QED
  BY <1>3, <1>4, <1>5, <1>6

\* A put or a settled race adds one item to each channel of R and wakes one
\* task for it.
LEMMA WakeEach ==
  ASSUME TypeOK, OwnQueue, PendingQueued, EnoughAwake, NEW R \in SUBSET Chans,
         \A t \in Tasks : fut'[t] = IF \E c \in R : t \in Woken(waiters[c]) THEN "done" ELSE fut[t],
         \A c \in Chans : waiters'[c] = IF c \in R THEN Popped(waiters[c]) ELSE waiters[c],
         \A c \in Chans : Len(items'[c]) = IF c \in R THEN Len(items[c]) + 1 ELSE Len(items[c])
  PROVE  PendingQueued' /\ EnoughAwake'
<1>1. \A t \in Tasks : \A c \in R : t \in Woken(waiters[c]) => ChanOf(t) = c
  BY OneWoken DEF Asleep
<1>2. ASSUME NEW t \in Tasks, fut'[t] = "pending" PROVE t \in Members(waiters'[ChanOf(t)])
  <2>1. /\ fut[t] = "pending" /\ ChanOf(t) \in Chans
        /\ ChanOf(t) \in R => t \notin Woken(waiters[ChanOf(t)])
    BY <1>2, Names
  <2>2. t \in Members(waiters[ChanOf(t)])
    BY <2>1 DEF PendingQueued
  <2>3. ChanOf(t) \in R => t \in Members(Popped(waiters[ChanOf(t)]))
    BY <2>1, OneWoken DEF Asleep
  <2> QED
    BY <2>1, <2>2, <2>3
<1>3. PendingQueued'
  BY <1>2 DEF PendingQueued, ChanOf
<1>4. ASSUME NEW c \in Chans PROVE Asleep(c)' # {} => Cardinality(Awake(c)') >= Len(items'[c])
  <2>0. Len(items[c]) \in Nat
    BY LenProperties DEF TypeOK
  <2>1. CASE c \in R
    <3>1. \A t \in Tasks : ChanOf(t) = c => fut'[t] = IF t \in Woken(waiters[c]) THEN "done" ELSE fut[t]
      BY <1>1, <2>1
    <3>2. Asleep(c)' = Asleep(c) \ Woken(waiters[c])
      BY <3>1 DEF Asleep, ChanOf
    <3>3. Awake(c)' = Awake(c) \cup Woken(waiters[c])
      <4>1. Woken(waiters[c]) \subseteq Asleep(c)
        BY OneWoken
      <4> QED
        BY <3>1, <4>1 DEF Awake, Asleep, ChanOf
    <3>4. Asleep(c) # {} => Cardinality(Awake(c)) >= Len(items[c])
      BY DEF EnoughAwake
    <3>5. Asleep(c) \ Woken(waiters[c]) # {} => Cardinality(Awake(c) \cup Woken(waiters[c])) >= Len(items[c]) + 1
      BY <2>0, <3>4, OneWoken, EnoughPut
    <3> QED
      BY <2>1, <3>2, <3>3, <3>5
  <2>2. CASE c \notin R
    <3>1. \A t \in Tasks : ChanOf(t) = c => fut'[t] = fut[t]
      BY <1>1, <2>2
    <3>2. Asleep(c)' = Asleep(c) /\ Awake(c)' = Awake(c)
      BY <3>1 DEF Asleep, Awake, ChanOf
    <3> QED
      BY <2>2, <3>2 DEF EnoughAwake
  <2> QED
    BY <2>1, <2>2
<1> QED
  BY <1>3, <1>4 DEF EnoughAwake

\* A step that adds no item, and puts nobody to sleep or takes him out of the
\* queue.
LEMMA NobodySleeps ==
  ASSUME TypeOK, PendingQueued, EnoughAwake,
         \A t \in Tasks : \/ fut'[t] = fut[t]
                          \/ fut[t] = "pending" /\ fut'[t] \in {"done", "cancelled"},
         \A c \in Chans : \A t \in Asleep(c)' : t \in Members(waiters[c]) => t \in Members(waiters'[c]),
         \A c \in Chans : Len(items'[c]) \in Nat /\ Len(items'[c]) <= Len(items[c])
  PROVE  PendingQueued' /\ EnoughAwake'
<1>1. \A c \in Chans : Asleep(c)' \subseteq Asleep(c) /\ Awake(c) \subseteq Awake(c)'
  BY DEF Asleep, Awake, ChanOf
<1>2. ASSUME NEW t \in Tasks, fut'[t] = "pending" PROVE t \in Members(waiters'[ChanOf(t)])
  <2>1. ChanOf(t) \in Chans /\ fut[t] = "pending"
    BY <1>2, Names
  <2>2. t \in Asleep(ChanOf(t))' /\ t \in Members(waiters[ChanOf(t)])
    BY <1>2, <2>1 DEF Asleep, PendingQueued, ChanOf
  <2> QED
    BY <2>1, <2>2
<1>3. PendingQueued'
  BY <1>2 DEF PendingQueued, ChanOf
<1>4. ASSUME NEW c \in Chans PROVE Asleep(c)' # {} => Cardinality(Awake(c)') >= Len(items'[c])
  <2>1. Asleep(c) # {} => Cardinality(Awake(c)) >= Len(items[c])
    BY DEF EnoughAwake
  <2>2. Awake(c) \in SUBSET Tasks /\ Awake(c)' \in SUBSET Tasks
    BY DEF Awake
  <2>3. Len(items[c]) \in Nat /\ Len(items'[c]) \in Nat /\ Len(items'[c]) <= Len(items[c])
    BY LenProperties DEF TypeOK
  <2> DEFINE n == Len(items[c])
             m == Len(items'[c])
             A == Awake(c)
             B == Awake(c)'
             S == Asleep(c)
             T == Asleep(c)'
  <2>4. /\ A \in SUBSET Tasks /\ B \in SUBSET Tasks /\ A \subseteq B /\ T \in SUBSET S
        /\ n \in Nat /\ m \in Nat /\ m <= n /\ (S # {} => Cardinality(A) >= n)
    BY <1>1, <2>1, <2>2, <2>3
  <2> HIDE DEF n, m, A, B, S, T
  <2>5. T # {} => Cardinality(B) >= m
    BY <2>4, EnoughMore
  <2> QED
    BY <2>5 DEF m, B, T
<1> QED
  BY <1>3, <1>4 DEF EnoughAwake

\* A step on one channel.
LEMMA OneServed ==
  ASSUME TypeOK, PendingQueued, EnoughAwake, NEW c \in Chans,
         \A t \in Tasks : ChanOf(t) # c => fut'[t] = fut[t],
         \A d \in Chans \ {c} : items'[d] = items[d] /\ waiters'[d] = waiters[d],
         \A t \in Tasks : ChanOf(t) = c /\ fut'[t] = "pending" => t \in Members(waiters'[c]),
         Asleep(c)' # {} => Cardinality(Awake(c)') >= Len(items'[c])
  PROVE  PendingQueued' /\ EnoughAwake'
<1>1. ASSUME NEW t \in Tasks, fut'[t] = "pending" PROVE t \in Members(waiters'[ChanOf(t)])
  <2>1. CASE ChanOf(t) = c
    BY <1>1, <2>1
  <2>2. CASE ChanOf(t) # c
    BY <1>1, <2>2, Names DEF PendingQueued
  <2> QED
    BY <2>1, <2>2
<1>2. PendingQueued'
  BY <1>1 DEF PendingQueued, ChanOf
<1>3. ASSUME NEW d \in Chans, d # c PROVE Asleep(d)' # {} => Cardinality(Awake(d)') >= Len(items'[d])
  <2>1. Asleep(d)' = Asleep(d) /\ Awake(d)' = Awake(d)
    BY <1>3 DEF Asleep, Awake, ChanOf
  <2> QED
    BY <1>3, <2>1 DEF EnoughAwake
<1> QED
  BY <1>2, <1>3 DEF EnoughAwake

\* An empty channel needs nobody to be awake.
LEMMA EmptyServed ==
  ASSUME NEW c \in Chans, items'[c] = <<>>
  PROVE  Cardinality(Awake(c)') >= Len(items'[c])
<1>1. Awake(c)' \in SUBSET Tasks
  BY DEF Awake
<1>2. Cardinality(Awake(c)') \in Nat
  BY <1>1, FiniteTasks
<1> QED
  BY <1>2, EmptySeq

\* The tasks in _drain_one and get().
LEMMA ServedSteps ==
  ASSUME TypeOK, RaceKept, Waiting, Served, NEW t \in Tasks, TaskStep(t)
  PROVE  PendingQueued' /\ EnoughAwake' /\ RunningEmpty'
<1> DEFINE c == ChanOf(t)
<1>0. /\ c \in Chans /\ HasFuture /\ OwnQueue /\ PendingQueued /\ RunningEmpty /\ EnoughAwake
      /\ RegisteringRuns
  BY Names DEF Waiting, Served, RaceKept
<1>t. /\ fut \in [Tasks -> {"none", "pending", "done", "cancelled"}]
      /\ items \in [Chans -> Seq(1..MaxPuts)] /\ waiters \in [Chans -> Seq(Tasks)]
      /\ waiters[c] \in Seq(Tasks) /\ Len(items[c]) \in Nat
  BY <1>0, LenProperties DEF TypeOK
<1>e. Asleep(c) # {} => Cardinality(Awake(c)) >= Len(items[c])
  BY <1>0 DEF EnoughAwake
<1>r. ASSUME Runnable(t) PROVE fut[t] # "pending" /\ (tst[t] # "waiting" => fut[t] = "none") /\ running = NoTask
  BY <1>0, <1>r DEF Runnable, HasFuture
<1>a. Awake(c) \in SUBSET Tasks /\ Asleep(c) \in SUBSET Tasks /\ Awake(c) \cap Asleep(c) = {}
  BY DEF Awake, Asleep
<1>1. CASE StepCancelled(t)
  <2> DEFINE q == Without(waiters[c], t)
             pass == tst[t] = "waiting" /\ items[c] # <<>>
  <2>1. /\ waiters' = [waiters EXCEPT ![c] = IF pass THEN Popped(q) ELSE q]
        /\ fut' = [u \in Tasks |-> IF u = t THEN "none"
                                   ELSE IF pass /\ u \in Woken(q) THEN "done" ELSE fut[u]]
        /\ items' = items /\ running' = running /\ Runnable(t)
    BY <1>1 DEF StepCancelled, loop
  <2>2. /\ q \in Seq(Tasks) /\ Members(q) \subseteq Members(waiters[c])
        /\ \A u \in Members(waiters[c]) : u # t => u \in Members(q)
    BY <1>t, WithoutType, WithoutOthers
  <2> HIDE DEF c, q
  <2>3. /\ \A u \in Woken(q) : u \in Members(q) /\ fut[u] = "pending"
        /\ \A u \in Members(q) : fut[u] = "pending" => u \in Woken(q) \/ u \in Members(Popped(q))
        /\ \A u \in Members(q) : fut[u] = "pending" => \E v : Woken(q) = {v}
    BY <2>2, PopShape
  <2>4. \A u \in Members(q) : ChanOf(u) = c /\ u \in Tasks
    <3>1. \A u \in Members(q) : u \in Tasks
      BY <2>2, ElementOfSeq DEF Members
    <3> QED
      BY <1>0, <2>2, <3>1 DEF OwnQueue
  <2>5. Woken(q) \subseteq Asleep(c)
    BY <2>3, <2>4 DEF Asleep
  <2>6. fut[t] # "pending" /\ running = NoTask
    BY <1>r, <2>1
  <2>7. \A u \in Tasks : ChanOf(u) # c => fut'[u] = fut[u]
    BY <2>1, <2>3, <2>4 DEF c
  <2>8. \A d \in Chans \ {c} : items'[d] = items[d] /\ waiters'[d] = waiters[d]
    BY <1>t, <2>1
  <2>9. \A u \in Tasks : ChanOf(u) = c /\ fut'[u] = "pending" => u \in Members(waiters'[c])
    <3> SUFFICES ASSUME NEW u \in Tasks, ChanOf(u) = c, fut'[u] = "pending"
                 PROVE  u \in Members(waiters'[c])
      OBVIOUS
    <3>1. u # t /\ fut[u] = "pending" /\ (pass => u \notin Woken(q))
      BY <2>1
    <3>2. u \in Members(q)
      BY <1>0, <2>2, <3>1 DEF PendingQueued
    <3>3. waiters'[c] = IF pass THEN Popped(q) ELSE q
      BY <1>0, <1>t, <2>1
    <3> QED
      BY <2>3, <3>1, <3>2, <3>3
  <2>10. Asleep(c)' # {} => Cardinality(Awake(c)') >= Len(items'[c])
    <3>1. CASE items[c] = <<>>
      BY <1>0, <2>1, <3>1, EmptyServed
    <3>2. CASE pass
      <4>1. Asleep(c)' = Asleep(c) \ Woken(q)
        BY <2>1, <2>6, <3>2 DEF Asleep, ChanOf
      <4>2. Awake(c)' = (Awake(c) \ {t}) \cup Woken(q)
        <5>1. t \notin Woken(q)
          BY <2>3, <2>6
        <5>2. \A u \in Tasks : fut'[u] = IF u = t THEN "none" ELSE IF u \in Woken(q) THEN "done" ELSE fut[u]
          BY <2>1, <3>2
        <5> QED
          BY <2>4, <2>5, <5>1, <5>2 DEF Awake, Asleep, ChanOf
      <4>3. Asleep(c) # {} => \E v : Woken(q) = {v}
        BY <1>0, <2>2, <2>3, <2>6 DEF Asleep, PendingQueued
      <4> DEFINE A == Awake(c)
                 B == Awake(c) \ {t}
                 S == Asleep(c)
                 W == Woken(q)
                 n == Len(items[c])
      <4>4. n \in Nat /\ n # 0
        BY <1>0, <1>t, <3>2, EmptySeq
      <4>5. /\ A \in SUBSET Tasks /\ S \in SUBSET S /\ (S # {} => Cardinality(A) >= n)
            /\ B = A \ {t} /\ B \in SUBSET Tasks /\ S \in SUBSET Tasks /\ B \cap S = {}
            /\ W \in SUBSET S /\ (S # {} => \E v : W = {v})
        BY <1>a, <1>e, <2>5, <4>3
      <4> HIDE DEF A, B, S, W, n
      <4>6. S # {} => Cardinality(B) >= n - 1
        BY <4>4, <4>5, EnoughTaken
      <4>7. n - 1 \in Nat /\ (n - 1) + 1 = n
        BY <4>4
      <4>8. S \ W # {} => Cardinality(B \cup W) >= (n - 1) + 1
        BY <4>5, <4>6, <4>7, EnoughPut
      <4> QED
        BY <2>1, <4>1, <4>2, <4>7, <4>8 DEF B, S, W, n
    <3>3. CASE tst[t] # "waiting"
      <4>1. fut[t] = "none"
        BY <1>r, <2>1, <3>3
      <4>2. \A u \in Tasks : fut'[u] = fut[u]
        BY <2>1, <3>3, <4>1
      <4>3. Asleep(c)' = Asleep(c) /\ Awake(c)' = Awake(c)
        BY <4>2 DEF Asleep, Awake, ChanOf
      <4> QED
        BY <1>e, <2>1, <4>3
    <3> QED
      BY <3>1, <3>2, <3>3
  <2>11. PendingQueued' /\ EnoughAwake'
    BY <1>0, <2>7, <2>8, <2>9, <2>10, OneServed
  <2>12. RunningEmpty'
    BY <2>1, <2>6, Names DEF RunningEmpty
  <2> QED
    BY <2>11, <2>12
<1>2. CASE StepTakes(t) \/ StepEmpty(t)
  <2>1. /\ waiters' = waiters /\ fut' = [fut EXCEPT ![t] = "none"] /\ Runnable(t)
        /\ \/ items[c] # <<>> /\ items' = [items EXCEPT ![c] = Tail(@)] /\ running' = running
           \/ items[c] = <<>> /\ items' = items /\ running' = t
    BY <1>2 DEF StepTakes, StepEmpty, chan, loop
  <2>2. fut[t] # "pending" /\ running = NoTask /\ ChanOf(t) = c
    BY <1>r, <2>1
  <2> HIDE DEF c
  <2>3. \A u \in Tasks : ChanOf(u) # c => fut'[u] = fut[u]
    BY <1>t, <2>1, <2>2
  <2>4. \A d \in Chans \ {c} : items'[d] = items[d] /\ waiters'[d] = waiters[d]
    BY <1>t, <2>1
  <2>5. \A u \in Tasks : ChanOf(u) = c /\ fut'[u] = "pending" => u \in Members(waiters'[c])
    BY <1>0, <1>t, <2>1 DEF PendingQueued
  <2>6. Asleep(c)' # {} => Cardinality(Awake(c)') >= Len(items'[c])
    <3>1. CASE items[c] = <<>>
      <4>1. items'[c] = <<>>
        BY <2>1, <3>1
      <4> QED
        BY <1>0, <4>1, EmptyServed
    <3>2. CASE items[c] # <<>>
      <4>1. Len(items'[c]) = Len(items[c]) - 1 /\ Len(items[c]) # 0
        <5>1. items[c] \in Seq(1..MaxPuts) /\ items'[c] = Tail(items[c])
          BY <1>0, <1>t, <2>1, <3>2
        <5> QED
          BY <1>t, <3>2, <5>1, HeadTailProperties, EmptySeq
      <4>2. Asleep(c)' \subseteq Asleep(c) /\ Awake(c)' = Awake(c) \ {t}
        BY <1>t, <2>1 DEF Asleep, Awake, ChanOf
      <4> DEFINE A == Awake(c)
                 S == Asleep(c)
                 T == Asleep(c)'
                 n == Len(items[c])
      <4>3. A \in SUBSET Tasks /\ T \in SUBSET S /\ n \in Nat /\ n # 0 /\ (S # {} => Cardinality(A) >= n)
        BY <1>a, <1>e, <1>t, <4>1, <4>2
      <4> HIDE DEF A, S, T, n
      <4>4. T # {} => Cardinality(A \ {t}) >= n - 1
        BY <4>3, EnoughTaken
      <4> QED
        BY <4>1, <4>2, <4>4 DEF A, T, n
    <3> QED
      BY <3>1, <3>2
  <2>7. PendingQueued' /\ EnoughAwake'
    BY <1>0, <2>3, <2>4, <2>5, <2>6, OneServed
  <2>8. RunningEmpty'
    BY <2>1, <2>2, Names DEF RunningEmpty, ChanOf
  <2> QED
    BY <2>7, <2>8
<1>3. CASE Register(t)
  <2>1. /\ waiters' = [waiters EXCEPT ![c] = Append(@, t)] /\ fut' = [fut EXCEPT ![t] = "pending"]
        /\ items' = items /\ running' = NoTask /\ running = t /\ ChanOf(t) = c
    BY <1>3 DEF Register
  <2>2. items'[c] = <<>>
    BY <1>0, <2>1 DEF RunningEmpty
  <2> HIDE DEF c
  <2>3. \A u \in Tasks : ChanOf(u) # c => fut'[u] = fut[u]
    BY <1>t, <2>1
  <2>4. \A d \in Chans \ {c} : items'[d] = items[d] /\ waiters'[d] = waiters[d]
    BY <1>t, <2>1
  <2>5. \A u \in Tasks : ChanOf(u) = c /\ fut'[u] = "pending" => u \in Members(waiters'[c])
    <3>1. waiters'[c] = Append(waiters[c], t)
      BY <1>0, <1>t, <2>1
    <3>2. Members(waiters[c]) \cup {t} \subseteq Members(Append(waiters[c], t))
      BY <1>t, AppendMembers
    <3> QED
      BY <1>0, <1>t, <2>1, <3>1, <3>2 DEF PendingQueued
  <2>6. PendingQueued' /\ EnoughAwake'
    BY <1>0, <2>2, <2>3, <2>4, <2>5, EmptyServed, OneServed
  <2>7. RunningEmpty'
    BY <2>1, Names DEF RunningEmpty
  <2> QED
    BY <2>6, <2>7
<1> QED
  BY <1>1, <1>2, <1>3 DEF TaskStep

\* A settled race gives items back, and wakes a task for each.
LEMMA ServedSettled ==
  ASSUME TypeOK, ItemsKept, OwnQueue, PendingQueued, EnoughAwake,
         NEW R \in SUBSET Chans, NEW S, Settles(R, S)
  PROVE  PendingQueued' /\ EnoughAwake'
<1>1. /\ \A t \in Tasks : fut'[t] = IF \E c \in R : t \in Woken(waiters[c]) THEN "done" ELSE fut[t]
      /\ \A c \in Chans : waiters'[c] = IF c \in R THEN Popped(waiters[c]) ELSE waiters[c]
      /\ \A c \in Chans : items'[c] = IF c \in R THEN <<result[c]>> \o items[c] ELSE items[c]
      /\ \A c \in R : tst[c] = "result"
  BY DEF Settles, Restore
<1>2. ASSUME NEW c \in R PROVE Len(<<result[c]>> \o items[c]) = Len(items[c]) + 1
  <2>1. /\ result[c] \in 1..MaxPuts /\ result[c] \notin Members(items[c])
        /\ items[c] \in Seq(1..MaxPuts)
    BY <1>1, HandsHold DEF TypeOK
  <2> QED
    BY <2>1, AscendingBack
<1>3. \A c \in Chans : Len(items'[c]) = IF c \in R THEN Len(items[c]) + 1 ELSE Len(items[c])
  BY <1>1, <1>2
<1> QED
  BY <1>1, <1>3, WakeEach

\* The other steps.
LEMMA ServedElse ==
  ASSUME ~Threads, TypeOK, ItemsKept, RaceKept, Waiting, Served, Next, ~\E t \in Tasks : TaskStep(t)
  PROVE  PendingQueued' /\ EnoughAwake'
<1>0. NoThread /\ PendingQueued /\ EnoughAwake /\ OwnQueue
  BY DEF Served, Waiting
<1>t. /\ items \in [Chans -> Seq(1..MaxPuts)] /\ waiters \in [Chans -> Seq(Tasks)]
      /\ fut \in [Tasks -> {"none", "pending", "done", "cancelled"}]
      /\ \A c \in Chans : items[c] \in Seq(1..MaxPuts) /\ Len(items[c]) \in Nat
  BY LenProperties DEF TypeOK
<1>1. ASSUME NEW c \in Chans, LoopPut(c) PROVE PendingQueued' /\ EnoughAwake'
  <2> DEFINE R == {c}
  <2>1. /\ items' = [items EXCEPT ![c] = Append(@, NextItem)]
        /\ waiters' = [waiters EXCEPT ![c] = Popped(@)]
        /\ fut' = [t \in Tasks |-> IF t \in Woken(waiters[c]) THEN "done" ELSE fut[t]]
        /\ Len(origin) < MaxPuts
    BY <1>1 DEF LoopPut
  <2>2. NextItem \in 1..MaxPuts
    <3>1. Len(origin) \in Nat
      BY OwnItems
    <3> QED
      BY <2>1, <3>1, Names DEF NextItem
  <2>3. Len(Append(items[c], NextItem)) = Len(items[c]) + 1
    BY <1>t, <2>2, AppendProperties
  <2>4. \A t \in Tasks : fut'[t] = IF \E d \in R : t \in Woken(waiters[d]) THEN "done" ELSE fut[t]
    BY <2>1
  <2>5. \A d \in Chans : waiters'[d] = IF d \in R THEN Popped(waiters[d]) ELSE waiters[d]
    BY <1>t, <2>1
  <2>6. \A d \in Chans : Len(items'[d]) = IF d \in R THEN Len(items[d]) + 1 ELSE Len(items[d])
    BY <1>t, <2>1, <2>3
  <2> HIDE DEF R
  <2>7. R \in SUBSET Chans
    BY DEF R
  <2> QED
    BY <1>0, <2>4, <2>5, <2>6, <2>7, WakeEach
<1>2. ASSUME NEW c \in Chans, NEW q \in Seq(1..MaxPuts), items' = [items EXCEPT ![c] = q],
             Len(q) <= Len(items[c]), UNCHANGED <<fut, waiters>>
      PROVE  PendingQueued' /\ EnoughAwake'
  <2>1. \A d \in Chans : Len(items'[d]) \in Nat /\ Len(items'[d]) <= Len(items[d])
    <3>1. Len(q) \in Nat
      BY LenProperties
    <3>2. ASSUME NEW d \in Chans PROVE Len(items'[d]) \in Nat /\ Len(items'[d]) <= Len(items[d])
      <4>1. CASE d = c
        BY <1>2, <1>t, <3>1, <4>1
      <4>2. CASE d # c
        BY <1>2, <1>t, <4>2
      <4> QED
        BY <4>1, <4>2
    <3> QED
      BY <3>2
  <2> QED
    BY <1>0, <1>2, <2>1, NobodySleeps
<1>3. ASSUME NEW c \in Chans, DrainAll(c) \/ Clear(c) PROVE PendingQueued' /\ EnoughAwake'
  <2>1. items' = [items EXCEPT ![c] = <<>>] /\ UNCHANGED <<fut, waiters>>
    BY <1>3 DEF DrainAll, Clear, tasks
  <2>2. <<>> \in Seq(1..MaxPuts) /\ Len(<<>>) <= Len(items[c])
    BY <1>t, EmptySeq
  <2> QED
    BY <1>2, <2>1, <2>2
<1>4. ASSUME NEW c \in Chans, Withdraw(c) PROVE PendingQueued' /\ EnoughAwake'
  <2>1. PICK i \in Members(items[c]) : items' = [items EXCEPT ![c] = Without(@, i)]
    BY <1>4 DEF Withdraw
  <2>2. UNCHANGED <<fut, waiters>>
    BY <1>4 DEF Withdraw, tasks
  <2>3. Without(items[c], i) \in Seq(1..MaxPuts) /\ Len(Without(items[c], i)) = Len(items[c]) - 1
    BY <1>t, WithoutType, WithoutShape
  <2>4. Len(Without(items[c], i)) <= Len(items[c])
    BY <1>t, <2>3
  <2> QED
    BY <1>2, <2>1, <2>2, <2>3, <2>4
<1>5. CASE RaceFast
  <2> DEFINE S == {d \in registered : items[d] # <<>>}
             c == First(S)
  <2>1. S # {} /\ items' = [items EXCEPT ![c] = Tail(@)] /\ UNCHANGED <<fut, waiters>>
    BY <1>5 DEF RaceFast, tasks
  <2>2. S \in SUBSET Chans
    BY DEF TypeOK
  <2> HIDE DEF S
  <2>3. c \in S
    BY <2>1, <2>2, FirstChannel
  <2>4. c \in Chans /\ items[c] # <<>>
    BY <2>2, <2>3 DEF S
  <2> HIDE DEF c
  <2>5. Tail(items[c]) \in Seq(1..MaxPuts) /\ Len(Tail(items[c])) = Len(items[c]) - 1
    BY <1>t, <2>4, HeadTailProperties
  <2>6. Len(Tail(items[c])) <= Len(items[c])
    BY <1>t, <2>4, <2>5
  <2> QED
    BY <1>2, <2>1, <2>4, <2>5, <2>6
<1>6. ASSUME NEW c \in Chans, Flush(c) PROVE PendingQueued' /\ EnoughAwake'
  <2>1. /\ items' = [items EXCEPT ![c] = <<>>] /\ waiters' = [waiters EXCEPT ![c] = <<>>]
        /\ fut' = [t \in Tasks |-> IF t \in Members(waiters[c]) /\ fut[t] = "pending"
                                   THEN "cancelled" ELSE fut[t]]
    BY <1>6 DEF Flush
  <2>2. \A t \in Tasks : fut'[t] = fut[t] \/ (fut[t] = "pending" /\ fut'[t] \in {"done", "cancelled"})
    BY <2>1
  <2>3. \A d \in Chans : \A t \in Asleep(d)' : t \in Members(waiters[d]) => t \in Members(waiters'[d])
    <3> SUFFICES ASSUME NEW d \in Chans, NEW t \in Asleep(d)', t \in Members(waiters[d])
                 PROVE  t \in Members(waiters'[d])
      OBVIOUS
    <3>1. fut'[t] = "pending" /\ t \in Tasks
      BY DEF Asleep
    <3>2. d # c
      BY <2>1, <3>1
    <3> QED
      BY <1>t, <2>1, <3>2
  <2>4. Len(<<>>) = 0 /\ Len(items[c]) \in Nat
    BY <1>t, EmptySeq
  <2>5. \A d \in Chans : Len(items'[d]) \in Nat /\ Len(items'[d]) <= Len(items[d])
    BY <1>t, <2>1, <2>4
  <2> QED
    BY <1>0, <2>2, <2>3, <2>5, NobodySleeps
<1>7. ASSUME UNCHANGED <<items, waiters>>,
             \A t \in Tasks : fut'[t] = fut[t] \/ (fut[t] = "pending" /\ fut'[t] \in {"done", "cancelled"})
      PROVE  PendingQueued' /\ EnoughAwake'
  BY <1>0, <1>7, <1>t, NobodySleeps
<1>8. CASE LoopEvent \/ RunNotify \/ NotifyStep \/ CancelRace \/ LoopRestart \/ RaceSlow
  BY <1>7, <1>8 DEF LoopEvent, RunNotify, NotifyStep, CancelRace, LoopRestart, RaceSlow, chan, tasks
<1>9. ASSUME NEW g \in Getters, GetStart(g) \/ GetCancel(g) PROVE PendingQueued' /\ EnoughAwake'
  <2>1. /\ UNCHANGED <<items, waiters>>
        /\ \A t \in Tasks : fut'[t] = fut[t] \/ (fut[t] = "pending" /\ fut'[t] \in {"done", "cancelled"})
    BY <1>9 DEF GetStart, GetCancel, CancelTasks, chan
  <2> QED
    BY <1>7, <2>1
<1>10. CASE RaceCancelled \/ (RaceWakes /\ dst' # "idle")
  <2>1. UNCHANGED <<items, waiters>> /\ \E ts : CancelTasks(ts)
    BY <1>10 DEF RaceCancelled, RaceWakes, RaceEnds, chan
  <2>2. \A t \in Tasks : fut'[t] = fut[t] \/ (fut[t] = "pending" /\ fut'[t] \in {"done", "cancelled"})
    BY <2>1 DEF CancelTasks
  <2> QED
    BY <1>7, <2>1, <2>2
<1>11. CASE RaceReaped \/ (RaceWakes /\ dst' = "idle")
  <2>1. RaceStep /\ dst' = "idle" /\ dst \in {"racing", "reaping"}
    BY <1>11 DEF RaceStep, RaceReaped, RaceWakes, RaceEnds
  <2>2. PICK w \in SUBSET Chans : /\ RaceEnds(w)
                                  /\ \A c \in Chans : tst[c] = "result" => c \in w /\ c \in Drains
    BY <2>1, EndWaits
  <2>3. PICK R, S \in SUBSET Chans : Settles(R, S)
    BY <2>2, EndSettles
  <2> QED
    BY <1>0, <2>3, ServedSettled
<1>12. CASE Unwind
  <2>1. PICK R \in SUBSET Chans : Settles(R, {})
    BY <1>12, UnwindSettles
  <2> QED
    BY <1>0, <2>1, ServedSettled
<1>13. CASE RaceStep
  BY <1>5, <1>8, <1>10, <1>11, <1>12, <1>13 DEF RaceStep
<1>14. \A c \in Chans : ~ThreadAppend(c)
  BY DEF ThreadAppend
<1>15. ~ThreadEvent /\ ~Thread /\ \A t \in Tasks : ~RunWake(t)
  BY <1>0 DEF ThreadEvent, Thread, ThreadWake, ThreadNotify, RunWake, NoThread
<1>16. CASE \E c \in Chans : LoopPut(c) \/ ThreadAppend(c) \/ DrainAll(c) \/ Withdraw(c) \/ Clear(c) \/ Flush(c)
  BY <1>1, <1>3, <1>4, <1>6, <1>14, <1>16
<1> QED
  BY <1>8, <1>9, <1>13, <1>15, <1>16 DEF Next

\* While all puts are on the loop, everyone who sleeps will be served.
LEMMA ServedNext ==
  ASSUME ~Threads, TypeOK, ItemsKept, RaceKept, Waiting, Served, Next
  PROVE  Served'
<1>0. NoThread /\ PendingQueued /\ RunningEmpty /\ EnoughAwake /\ OwnQueue
  BY DEF Served, Waiting
<1>t. /\ items \in [Chans -> Seq(1..MaxPuts)] /\ waiters \in [Chans -> Seq(Tasks)]
      /\ fut \in [Tasks -> {"none", "pending", "done", "cancelled"}]
      /\ \A c \in Chans : items[c] \in Seq(1..MaxPuts) /\ Len(items[c]) \in Nat
  BY LenProperties DEF TypeOK
<1>1. NoThread'
  <2>1. tpc' = tpc /\ wakes' \subseteq wakes
    <3>1. ASSUME NEW c \in Chans,
                 LoopPut(c) \/ ThreadAppend(c) \/ DrainAll(c) \/ Withdraw(c) \/ Clear(c) \/ Flush(c)
          PROVE  tpc' = tpc /\ wakes' \subseteq wakes
      BY <3>1 DEF LoopPut, ThreadAppend, DrainAll, Withdraw, Clear, Flush, loop, thrd
    <3>2. CASE LoopEvent \/ ThreadEvent \/ Thread \/ RunNotify \/ NotifyStep \/ CancelRace \/ LoopRestart
      BY <1>0, <3>2 DEF LoopEvent, ThreadEvent, Thread, ThreadWake, ThreadNotify, RunNotify, NotifyStep,
                        CancelRace, LoopRestart, NoThread, loop, thrd
    <3>3. ASSUME NEW t \in Tasks, TaskStep(t) \/ RunWake(t) PROVE tpc' = tpc /\ wakes' \subseteq wakes
      BY <3>3 DEF TaskStep, StepCancelled, StepTakes, StepEmpty, Register, RunWake, loop, thrd
    <3>4. ASSUME NEW g \in Getters, GetStart(g) \/ GetCancel(g) PROVE tpc' = tpc /\ wakes' \subseteq wakes
      BY <3>4 DEF GetStart, GetCancel, loop, thrd
    <3>5. CASE RaceStep
      BY <3>5 DEF RaceStep, RaceFast, RaceSlow, RaceWakes, RaceReaped, RaceEnds, RaceCancelled, Unwind, loop, thrd
    <3> QED
      BY <3>1, <3>2, <3>3, <3>4, <3>5 DEF Next
  <2> QED
    BY <1>0, <2>1 DEF NoThread
<1>2. (\E t \in Tasks : TaskStep(t)) \/ running' \notin Tasks
  <2>1. ASSUME NEW c \in Chans, LoopPut(c) \/ DrainAll(c) \/ Withdraw(c) \/ Clear(c) \/ Flush(c)
        PROVE  running' = NoTask
    BY <2>1 DEF LoopPut, DrainAll, Withdraw, Clear, Flush, loop
  <2>2. ASSUME NEW c \in Chans PROVE ~ThreadAppend(c)
    BY DEF ThreadAppend
  <2>3. CASE LoopEvent \/ RunNotify \/ NotifyStep \/ CancelRace \/ LoopRestart
    BY <2>3, Names DEF LoopEvent, RunNotify, NotifyStep, CancelRace, LoopRestart, loop
  <2>4. ~ThreadEvent /\ ~Thread /\ \A t \in Tasks : ~RunWake(t)
    BY <1>0 DEF ThreadEvent, Thread, ThreadWake, ThreadNotify, RunWake, NoThread
  <2>5. ASSUME NEW g \in Getters, GetStart(g) \/ GetCancel(g) PROVE running' = NoTask
    BY <2>5 DEF GetStart, GetCancel, loop
  <2>6. CASE RaceStep
    BY <2>6, Names DEF RaceStep, RaceFast, RaceBegins, RaceSlow, RaceWakes, RaceReaped, RaceEnds,
                       RaceCancelled, Unwind, loop
  <2> QED
    BY <2>1, <2>2, <2>3, <2>4, <2>5, <2>6, Names DEF Next
<1>3. RunningEmpty' /\ PendingQueued' /\ EnoughAwake'
  <2>1. ASSUME NEW t \in Tasks, TaskStep(t) PROVE RunningEmpty' /\ PendingQueued' /\ EnoughAwake'
    BY <2>1, ServedSteps
  <2>2. CASE ~\E t \in Tasks : TaskStep(t)
    <3>1. RunningEmpty'
      BY <1>2, <2>2 DEF RunningEmpty
    <3>2. PendingQueued' /\ EnoughAwake'
      BY <2>2, ServedElse DEF Served, Waiting
    <3> QED
      BY <3>1, <3>2
  <2> QED
    BY <2>1, <2>2
<1> QED
  BY <1>1, <1>3 DEF Served

(***************************************************************************)
(* Channel.get, put and _wake_next_waiter (channels.py): when nobody puts  *)
(* from another thread, get() does not sleep while its channel holds an    *)
(* item, whatever is cancelled, flushed, drained or given back by a race.  *)
(* With another thread it does: an item may be put between the test for    *)
(* one and the registration of the waiter.                                 *)
(***************************************************************************)
THEOREM GetIsNotStranded ==
  ASSUME ~Threads
  PROVE  Spec => []GetNotStranded
<1>1. Init => Waiting /\ Served
  <2> SUFFICES ASSUME Init PROVE Waiting /\ Served
    OBVIOUS
  <2>1. /\ tst = [t \in Tasks |-> "off"] /\ fut = [t \in Tasks |-> "none"] /\ tpc = "idle" /\ wakes = {}
        /\ items = [c \in Chans |-> <<>>] /\ waiters = [c \in Chans |-> <<>>] /\ running = NoTask
    BY DEF Init
  <2>2. Members(<<>>) = {}
    BY EmptySeq DEF Members
  <2>3. Waiting
    BY <2>1, <2>2 DEF Waiting, HasFuture, OwnQueue
  <2>4. NoThread /\ PendingQueued /\ RunningEmpty
    BY <2>1, Names DEF NoThread, PendingQueued, RunningEmpty
  <2>5. EnoughAwake
    BY <2>1 DEF EnoughAwake, Asleep
  <2> QED
    BY <2>3, <2>4, <2>5 DEF Served
<1>2. ItemsInv /\ Waiting /\ Served /\ [Next]_vars => Waiting' /\ Served'
  <2>1. ItemsInv /\ Waiting /\ Served /\ Next => Waiting' /\ Served'
    BY WaitingNext, ServedNext DEF ItemsInv
  <2>2. Waiting /\ Served /\ UNCHANGED vars => Waiting' /\ Served'
    <3> SUFFICES ASSUME Waiting, Served, UNCHANGED vars PROVE Waiting' /\ Served'
      OBVIOUS
    <3>1. UNCHANGED <<tst, fut, items, waiters, wakes, tpc, running>>
      BY DEF vars, chan, tasks, loop, thrd
    <3>2. Waiting'
      BY <3>1 DEF Waiting, HasFuture, OwnQueue, ChanOf
    <3>3. Served'
      BY <3>1 DEF Served, NoThread, PendingQueued, RunningEmpty, EnoughAwake, Asleep, Awake, ChanOf
    <3> QED
      BY <3>2, <3>3
  <2> QED
    BY <2>1, <2>2
<1>3. ItemsInv /\ Waiting /\ Served => GetNotStranded
  <2> SUFFICES ASSUME TypeOK, Waiting, Served, Quiet, NEW g \in Getters, tst[g] = "waiting"
               PROVE  items[GetOf[g]] = <<>>
    BY DEF ItemsInv, GetNotStranded
  <2> DEFINE c == GetOf[g]
  <2>1. /\ c \in Chans /\ g \in Tasks /\ ChanOf(g) = c
        /\ \A t \in Tasks : ~Runnable(t)
        /\ running = NoTask
    BY Names DEF Quiet
  <2> HIDE DEF c
  <2>2. \A t \in Tasks : fut[t] \in {"none", "pending"}
    BY <2>1 DEF Runnable, Waiting, HasFuture
  <2>3. Awake(c) = {}
    BY <2>2 DEF Awake
  <2>4. g \in Asleep(c)
    BY <2>1, <2>2 DEF Asleep, Waiting, HasFuture
  <2>5. 0 >= Len(items[c])
    BY <2>1, <2>3, <2>4, FS_EmptySet DEF Served, EnoughAwake
  <2>6. items[c] \in Seq(1..MaxPuts) /\ Len(items[c]) \in Nat
    BY <2>1, LenProperties DEF TypeOK
  <2>7. items[c] = <<>>
    BY <2>5, <2>6, EmptySeq
  <2> QED
    BY <2>7 DEF c
<1> QED
  BY <1>1, <1>2, <1>3, ItemsInvariant, PTL DEF Spec
=============================================================================
