--------------------------- MODULE QueueTheorems ---------------------------
(***************************************************************************)
(* Facts about the queues of the other modules that their proofs share.    *)
(***************************************************************************)
EXTENDS Queues, SequenceTheorems, FunctionTheorems, FiniteSetTheorems, WellFoundedInduction, TLAPS

\* Removing a member of a queue leaves a queue.
LEMMA WithoutType ==
  ASSUME NEW S, NEW q \in Seq(S), NEW c
  PROVE  Without(q, c) \in Seq(S)
<1> DEFINE i == CHOOSE i \in 1..Len(q) : q[i] = c
           n == IF Len(q) = 0 THEN 0 ELSE Len(q) - 1
           r == [j \in 1..(Len(q) - 1) |-> IF j < i THEN q[j] ELSE q[j + 1]]
<1>1. Len(q) \in Nat /\ q \in [1..Len(q) -> S]
  BY LenProperties
<1>2. n \in Nat /\ 1..(Len(q) - 1) = 1..n
  BY <1>1
<1>3. \A j \in 1..n : q[j] \in S /\ q[j + 1] \in S
  BY <1>1
<1>4. r \in [1..n -> S]
  BY <1>2, <1>3
<1>5. r \in Seq(S)
  BY <1>2, <1>4, SeqDef
<1> QED
  BY <1>5 DEF Without

\* The queue that is left is shorter by one, and the others stand in it in
\* the order they stood in before.
LEMMA WithoutShape ==
  ASSUME NEW S, NEW q \in Seq(S), NEW c \in Members(q)
  PROVE  \E i \in 1..Len(q) :
           /\ q[i] = c
           /\ Len(Without(q, c)) = Len(q) - 1
           /\ \A j \in 1..(Len(q) - 1) : Without(q, c)[j] = IF j < i THEN q[j] ELSE q[j + 1]
<1> DEFINE i == CHOOSE i \in 1..Len(q) : q[i] = c
           r == Without(q, c)
<1>1. Len(q) \in Nat
  BY LenProperties
<1>2. i \in 1..Len(q) /\ q[i] = c
  BY DEF Members
<1> HIDE DEF i
<1>3. r = [j \in 1..(Len(q) - 1) |-> IF j < i THEN q[j] ELSE q[j + 1]]
  BY DEF Without, i
<1>4. Len(r) = Len(q) - 1
  <2>1. r \in Seq(S) /\ DOMAIN r = 1..(Len(q) - 1)
    BY <1>3, WithoutType
  <2>2. Len(r) \in Nat /\ DOMAIN r = 1..Len(r)
    BY <2>1, LenProperties
  <2> HIDE DEF r
  <2> QED
    BY <2>1, <2>2, <1>1, <1>2
<1> QED
  BY <1>2, <1>3, <1>4

\* Removing c leaves every other member, and the head when it is another one.
LEMMA WithoutOthers ==
  ASSUME NEW S, NEW q \in Seq(S), NEW c
  PROVE  /\ Members(Without(q, c)) \subseteq Members(q)
         /\ Members(q) \ {c} \subseteq Members(Without(q, c))
         /\ q # <<>> /\ Head(q) # c => Without(q, c) # <<>> /\ Head(Without(q, c)) = Head(q)
<1>1. CASE c \notin Members(q)
  BY <1>1 DEF Without
<1>2. CASE c \in Members(q)
  <2> DEFINE r == Without(q, c)
  <2>1. Len(q) \in Nat /\ r \in Seq(S)
    BY LenProperties, WithoutType
  <2>2. PICK i \in 1..Len(q) : /\ q[i] = c /\ Len(r) = Len(q) - 1
                               /\ \A j \in 1..(Len(q) - 1) : r[j] = IF j < i THEN q[j] ELSE q[j + 1]
    BY <1>2, WithoutShape
  <2> HIDE DEF r
  <2>3. Members(r) \subseteq Members(q)
    <3>1. \A j \in 1..Len(r) : j \in 1..Len(q) /\ j + 1 \in 1..Len(q) /\ r[j] \in {q[j], q[j + 1]}
      BY <2>1, <2>2
    <3> QED
      BY <3>1 DEF Members
  <2>4. ASSUME NEW x \in Members(q), x # c PROVE x \in Members(r)
    <3>1. PICK m \in 1..Len(q) : x = q[m]
      BY DEF Members
    <3>2. m # i
      BY <2>2, <2>4, <3>1
    <3>3. CASE m < i
      <4>1. m \in 1..Len(r) /\ r[m] = x
        BY <2>1, <2>2, <3>1, <3>3
      <4> QED
        BY <4>1 DEF Members
    <3>4. CASE m > i
      <4>1. m - 1 \in 1..Len(r) /\ r[m - 1] = x
        BY <2>1, <2>2, <3>1, <3>4
      <4> QED
        BY <4>1 DEF Members
    <3> QED
      BY <3>2, <3>3, <3>4, <2>1, <2>2
  <2>5. ASSUME q # <<>>, Head(q) # c PROVE r # <<>> /\ Head(r) = Head(q)
    <3>1. Head(q) = q[1]
      BY <2>5, HeadTailProperties
    <3>2. i # 1
      BY <2>2, <2>5, <3>1
    <3>3. 1 \in 1..(Len(q) - 1) /\ 1 < i
      BY <2>1, <2>2, <3>2
    <3>4. r[1] = q[1] /\ Len(r) # 0
      BY <2>1, <2>2, <3>3
    <3>5. r # <<>>
      BY <2>1, <3>4, EmptySeq
    <3>6. Head(r) = r[1]
      BY <2>1, <3>5, HeadTailProperties
    <3> QED
      BY <3>1, <3>4, <3>5, <3>6
  <2> QED
    BY <2>3, <2>4, <2>5 DEF r
<1> QED
  BY <1>1, <1>2

\* Removing c from a queue that holds each member once.
LEMMA WithoutMembers ==
  ASSUME NEW S, NEW q \in Seq(S), \A i, j \in 1..Len(q) : q[i] = q[j] => i = j,
         NEW c \in Members(q)
  PROVE  /\ Members(Without(q, c)) = Members(q) \ {c}
         /\ \A i, j \in 1..Len(Without(q, c)) : Without(q, c)[i] = Without(q, c)[j] => i = j
<1> DEFINE r == Without(q, c)
<1>1. Len(q) \in Nat
  BY LenProperties
<1>2. PICK i \in 1..Len(q) : /\ q[i] = c /\ Len(r) = Len(q) - 1
                             /\ \A j \in 1..(Len(q) - 1) : r[j] = IF j < i THEN q[j] ELSE q[j + 1]
  BY WithoutShape
<1>3. Members(r) \subseteq Members(q) /\ Members(q) \ {c} \subseteq Members(r)
  BY WithoutOthers
<1> DEFINE f(j) == IF j < i THEN j ELSE j + 1
<1> HIDE DEF r
<1>4. \A j \in 1..Len(r) : r[j] = q[f(j)] /\ f(j) \in 1..Len(q) /\ f(j) # i
  BY <1>1, <1>2
<1>5. \A a, b \in 1..Len(r) : r[a] = r[b] => a = b
  <2> SUFFICES ASSUME NEW a \in 1..Len(r), NEW b \in 1..Len(r), r[a] = r[b] PROVE a = b
    OBVIOUS
  <2>1. f(a) = f(b)
    BY <1>4
  <2> QED
    BY <2>1, <1>1, <1>2
<1>6. c \notin Members(r)
  BY <1>2, <1>4 DEF Members
<1> QED
  BY <1>3, <1>5, <1>6 DEF r

\* Two messages sent one after the other are queued in that order.
LEMMA AppendSecond ==
  ASSUME NEW a, NEW b
  PROVE  Append(<<a>>, b) = <<a, b>>
<1> DEFINE S == {a, b}
           q == Append(<<a>>, b)
<1>1. <<a>> \in Seq(S) /\ b \in S /\ <<a, b>> \in Seq(S)
  OBVIOUS
<1>2. q \in Seq(S) /\ Len(q) = 2 /\ q[1] = a /\ q[2] = b
  OBVIOUS
<1>3. Len(<<a, b>>) = 2 /\ <<a, b>>[1] = a /\ <<a, b>>[2] = b
  OBVIOUS
<1>4. \A i \in 1..2 : i = 1 \/ i = 2
  OBVIOUS
<1> HIDE DEF S, q
<1>5. q = <<a, b>>
  BY <1>1, <1>2, <1>3, <1>4, SeqEqual
<1> QED
  BY <1>5 DEF q

\* What is sent on a socket whose queue is short.
LEMMA ShortWrites ==
  ASSUME NEW a, NEW b
  PROVE  /\ <<>> \o <<>> = <<>>
         /\ <<>> \o <<a>> = <<a>>
         /\ <<>> \o <<a, b>> = <<a, b>>
         /\ <<a>> \o <<b>> = <<a, b>>
         /\ Append(<<>>, a) = <<a>>
         /\ Append(<<a>>, b) = <<a, b>>
<1> DEFINE S == {a, b}
<1>1. <<a>> \in Seq(S) /\ b \in S
  OBVIOUS
<1>2. <<a>> \o <<b>> = <<a, b>>
  <2> HIDE DEF S
  <2> QED
    BY <1>1, AppendIsConcat, AppendSecond
<1>3. <<>> \o <<>> = <<>>
  OBVIOUS
<1>4. <<>> \o <<a>> = <<a>>
  OBVIOUS
<1>5. <<>> \o <<a, b>> = <<a, b>>
  OBVIOUS
<1>6. Append(<<>>, a) = <<a>>
  OBVIOUS
<1> QED
  BY <1>2, <1>3, <1>4, <1>5, <1>6, AppendSecond

\* What is left of a short queue when n messages were read, n being 0 or 1.
LEMMA ShortReads ==
  ASSUME NEW a, NEW b
  PROVE  /\ SubSeq(<<>>, 1, Len(<<>>)) = <<>>
         /\ SubSeq(<<a>>, 1, Len(<<a>>)) = <<a>>
         /\ SubSeq(<<a, b>>, 1, Len(<<a, b>>)) = <<a, b>>
         /\ SubSeq(<<a>>, 2, Len(<<a>>)) = <<>>
         /\ SubSeq(<<a, b>>, 2, Len(<<a, b>>)) = <<b>>
<1> DEFINE S == {a, b}
<1>1. /\ <<>> \in Seq(S) /\ <<a>> \in Seq(S) /\ <<a, b>> \in Seq(S)
  OBVIOUS
<1>2. <<a>> # <<>> /\ <<a, b>> # <<>>
  OBVIOUS
<1>3. Tail(<<a>>) = <<>> /\ Tail(<<a, b>>) = <<b>>
  OBVIOUS
<1> HIDE DEF S
<1>4. SubSeq(<<>>, 1, Len(<<>>)) = <<>> /\ SubSeq(<<a>>, 1, Len(<<a>>)) = <<a>>
  BY <1>1, SubSeqFull
<1>5. SubSeq(<<a, b>>, 1, Len(<<a, b>>)) = <<a, b>>
  BY <1>1, SubSeqFull
<1>6. SubSeq(<<a>>, 2, Len(<<a>>)) = Tail(<<a>>)
  BY <1>1, <1>2, TailIsSubSeq
<1>7. SubSeq(<<a, b>>, 2, Len(<<a, b>>)) = Tail(<<a, b>>)
  BY <1>1, <1>2, TailIsSubSeq
<1> QED
  BY <1>3, <1>4, <1>5, <1>6, <1>7

\* The messages in a short queue.
LEMMA ShortMembers ==
  ASSUME NEW a, NEW b
  PROVE  Members(<<>>) = {} /\ Members(<<a>>) = {a} /\ Members(<<a, b>>) = {a, b}
<1>1. 1..0 = {} /\ 1..1 = {1} /\ 1..2 = {1, 2}
  OBVIOUS
<1>2. Len(<<>>) = 0 /\ Len(<<a>>) = 1 /\ Len(<<a, b>>) = 2
  OBVIOUS
<1>3. Members(<<>>) = {}
  BY DEF Members
<1>4. Members(<<a>>) = {a}
  BY <1>1, <1>2 DEF Members
<1>5. Members(<<a, b>>) = {a, b}
  BY <1>1, <1>2 DEF Members
<1> QED
  BY <1>3, <1>4, <1>5

\* A queue that grows holds what it held and what was sent.
LEMMA MembersSent ==
  ASSUME NEW S, NEW s \in Seq(S), NEW t \in Seq(S)
  PROVE  Members(s \o t) \subseteq Members(s) \cup Members(t)
<1> SUFFICES ASSUME NEW i \in 1..Len(s \o t) PROVE (s \o t)[i] \in Members(s) \cup Members(t)
  BY DEF Members
<1>1. Len(s) \in Nat /\ Len(t) \in Nat
  BY LenProperties
<1>2. i \in 1..(Len(s) + Len(t)) /\ (s \o t)[i] = IF i <= Len(s) THEN s[i] ELSE t[i - Len(s)]
  BY ConcatProperties
<1>3. CASE i <= Len(s)
  BY <1>1, <1>2, <1>3 DEF Members
<1>4. CASE ~(i <= Len(s))
  <2>1. i - Len(s) \in 1..Len(t)
    BY <1>1, <1>2, <1>4
  <2> QED
    BY <1>2, <1>4, <2>1 DEF Members
<1> QED
  BY <1>3, <1>4

\* A queue that was read from holds nothing new.
LEMMA MembersRead ==
  ASSUME NEW S, NEW s \in Seq(S), NEW n \in Nat
  PROVE  Members(SubSeq(s, n + 1, Len(s))) \subseteq Members(s)
<1> DEFINE r == SubSeq(s, n + 1, Len(s))
<1>1. Len(s) \in Nat
  BY LenProperties
<1>2. CASE n + 1 <= Len(s)
  <2>1. \A i \in (n + 1)..Len(s) : s[i] \in S
    BY <1>1, ElementOfSeq
  <2>2. Len(r) = Len(s) - n /\ \A i \in 1..(Len(s) - n) : r[i] = s[n + i]
    BY <1>1, <1>2, <2>1, SubSeqProperties
  <2>3. \A i \in 1..(Len(s) - n) : n + i \in 1..Len(s)
    BY <1>1, <1>2
  <2> QED
    BY <2>2, <2>3 DEF Members
<1>3. CASE ~(n + 1 <= Len(s))
  <2>1. r = <<>>
    BY <1>1, <1>3, SubSeqProperties, SubSeqEmpty
  <2> QED
    BY <2>1 DEF Members
<1> QED
  BY <1>2, <1>3

\* A queue that holds each member once is as long as it has members.
LEMMA DistinctLength ==
  ASSUME NEW S, NEW q \in Seq(S), \A i, j \in 1..Len(q) : q[i] = q[j] => i = j
  PROVE  Len(q) = Cardinality(Members(q))
<1>1. Len(q) \in Nat /\ DOMAIN q = 1..Len(q) /\ q \in [1..Len(q) -> S]
  BY LenProperties
<1>2. q \in [1..Len(q) -> Members(q)]
  BY <1>1 DEF Members
<1>3. q \in Bijection(1..Len(q), Members(q))
  BY <1>2 DEF Members, Bijection, Injection, Surjection, IsInjective
<1>4. ExistsBijection(1..Len(q), Members(q))
  BY <1>3 DEF ExistsBijection
<1> QED
  BY <1>1, <1>4, FS_CountingElements

\* Somebody joins the end of such a queue.
LEMMA JoinedMembers ==
  ASSUME NEW S, NEW q \in Seq(S), \A i, j \in 1..Len(q) : q[i] = q[j] => i = j,
         NEW c \in S, c \notin Members(q)
  PROVE  /\ Append(q, c) \in Seq(S) /\ Members(Append(q, c)) = Members(q) \cup {c}
         /\ \A i, j \in 1..Len(Append(q, c)) : Append(q, c)[i] = Append(q, c)[j] => i = j
<1> DEFINE r == Append(q, c)
<1>1. /\ Len(q) \in Nat /\ r \in Seq(S) /\ Len(r) = Len(q) + 1
      /\ \A i \in 1..Len(q) : r[i] = q[i]
      /\ r[Len(q) + 1] = c
  BY LenProperties, AppendProperties
<1> HIDE DEF r
<1>2. \A i \in 1..Len(r) : i \in 1..Len(q) \/ i = Len(q) + 1
  BY <1>1
<1>3. 1..Len(q) \subseteq 1..Len(r) /\ Len(q) + 1 \in 1..Len(r)
  BY <1>1
<1>4. Members(r) \subseteq Members(q) \cup {c}
  BY <1>1, <1>2 DEF Members
<1>5. Members(q) \cup {c} \subseteq Members(r)
  BY <1>1, <1>3 DEF Members
<1>6. \A i \in 1..Len(q) : q[i] # c
  BY DEF Members
<1>7. \A i, j \in 1..Len(r) : r[i] = r[j] => i = j
  BY <1>1, <1>2, <1>6
<1> QED
  BY <1>1, <1>4, <1>5, <1>7 DEF r

\* The head of such a queue is served.
LEMMA ServedMembers ==
  ASSUME NEW S, NEW q \in Seq(S), \A i, j \in 1..Len(q) : q[i] = q[j] => i = j, q # <<>>
  PROVE  /\ Head(q) \in Members(q) /\ Head(q) \in S
         /\ Tail(q) \in Seq(S) /\ Members(Tail(q)) = Members(q) \ {Head(q)}
         /\ \A i, j \in 1..Len(Tail(q)) : Tail(q)[i] = Tail(q)[j] => i = j
<1> DEFINE r == Tail(q)
           h == Head(q)
<1>1. /\ Len(q) \in Nat /\ Len(q) # 0 /\ r \in Seq(S) /\ Len(r) = Len(q) - 1
      /\ \A i \in 1..Len(r) : r[i] = q[i + 1]
      /\ h = q[1] /\ h \in S
  BY LenProperties, EmptySeq, HeadTailProperties
<1> HIDE DEF r, h
<1>2. 1 \in 1..Len(q) /\ \A i \in 1..Len(r) : i + 1 \in 1..Len(q) /\ i + 1 # 1
  BY <1>1
<1>3. \A i \in 1..Len(q) : i = 1 \/ (i - 1 \in 1..Len(r) /\ (i - 1) + 1 = i)
  BY <1>1
<1>4. h \in Members(q)
  BY <1>1, <1>2 DEF Members
<1>5. Members(r) \subseteq Members(q) \ {h}
  BY <1>1, <1>2 DEF Members
<1>6. ASSUME NEW x \in Members(q) \ {h} PROVE x \in Members(r)
  <2>1. PICK i \in 1..Len(q) : x = q[i]
    BY DEF Members
  <2>2. i - 1 \in 1..Len(r) /\ r[i - 1] = q[i]
    BY <1>1, <1>3, <2>1
  <2> QED
    BY <2>1, <2>2 DEF Members
<1>7. \A i, j \in 1..Len(r) : r[i] = r[j] => i = j
  <2> SUFFICES ASSUME NEW i \in 1..Len(r), NEW j \in 1..Len(r), r[i] = r[j] PROVE i = j
    OBVIOUS
  <2>1. i + 1 = j + 1
    BY <1>1, <1>2
  <2> QED
    BY <1>1, <2>1
<1> QED
  BY <1>1, <1>4, <1>5, <1>6, <1>7 DEF r, h

LastIs(q, x) == q # <<>> /\ q[Len(q)] = x

\* The last one in line stays the last one when another one is removed or is
\* served.
LEMMA LastStays ==
  ASSUME NEW S, NEW q \in Seq(S), NEW x, LastIs(q, x)
  PROVE  /\ \A c : c # x => LastIs(Without(q, c), x)
         /\ Head(q) # x => LastIs(Tail(q), x)
<1>1. Len(q) \in Nat /\ Len(q) # 0 /\ q[Len(q)] = x
  BY LenProperties, EmptySeq DEF LastIs
<1>2. ASSUME NEW c, c # x PROVE LastIs(Without(q, c), x)
  <2> DEFINE r == Without(q, c)
  <2>1. CASE c \notin Members(q)
    BY <2>1 DEF Without
  <2>2. CASE c \in Members(q)
    <3>1. r \in Seq(S)
      BY WithoutType
    <3>2. PICK i \in 1..Len(q) : /\ q[i] = c /\ Len(r) = Len(q) - 1
                                 /\ \A j \in 1..(Len(q) - 1) : r[j] = IF j < i THEN q[j] ELSE q[j + 1]
      BY <2>2, WithoutShape
    <3> HIDE DEF r
    <3>3. i # Len(q)
      BY <1>1, <1>2, <3>2
    <3>4. Len(q) - 1 \in 1..(Len(q) - 1) /\ ~(Len(q) - 1 < i) /\ (Len(q) - 1) + 1 = Len(q)
      BY <1>1, <3>2, <3>3
    <3>5. r[Len(r)] = x /\ Len(r) # 0
      BY <1>1, <3>2, <3>4
    <3>6. r # <<>>
      BY <3>1, <3>5, EmptySeq
    <3>7. LastIs(r, x)
      BY <3>5, <3>6 DEF LastIs
    <3> QED
      BY <3>7 DEF r
  <2> QED
    BY <2>1, <2>2
<1>3. ASSUME Head(q) # x PROVE LastIs(Tail(q), x)
  <2> DEFINE r == Tail(q)
  <2>1. q # <<>>
    BY DEF LastIs
  <2>2. /\ r \in Seq(S) /\ Len(r) = Len(q) - 1 /\ Head(q) = q[1]
        /\ \A i \in 1..Len(r) : r[i] = q[i + 1]
    BY <2>1, HeadTailProperties
  <2> HIDE DEF r
  <2>3. Len(q) # 1
    BY <1>1, <1>3, <2>2
  <2>4. Len(r) \in 1..Len(r) /\ Len(r) + 1 = Len(q) /\ Len(r) # 0
    BY <1>1, <2>2, <2>3
  <2>5. r[Len(r)] = x
    BY <1>1, <2>2, <2>4
  <2>6. r # <<>>
    BY <2>2, <2>4, EmptySeq
  <2>7. LastIs(r, x)
    BY <2>5, <2>6 DEF LastIs
  <2> QED
    BY <2>7 DEF r
<1> QED
  BY <1>2, <1>3

\* Whoever joins is the last one.
LEMMA LastJoins ==
  ASSUME NEW S, NEW q \in Seq(S), NEW x \in S
  PROVE  LastIs(Append(q, x), x)
<1> DEFINE r == Append(q, x)
<1>1. Len(q) \in Nat /\ r \in Seq(S) /\ Len(r) = Len(q) + 1 /\ r[Len(q) + 1] = x
  BY LenProperties, AppendProperties
<1> HIDE DEF r
<1>2. Len(r) # 0 /\ r[Len(r)] = x
  BY <1>1
<1>3. LastIs(r, x)
  BY <1>1, <1>2, EmptySeq DEF LastIs
<1> QED
  BY <1>3 DEF r

\* A queue that holds each member once and whose head is its last is served up.
LEMMA LastServed ==
  ASSUME NEW S, NEW q \in Seq(S), NEW x, LastIs(q, x), Head(q) = x,
         \A i, j \in 1..Len(q) : q[i] = q[j] => i = j
  PROVE  Tail(q) = <<>>
<1>1. Len(q) \in Nat /\ Len(q) # 0 /\ q # <<>> /\ q[Len(q)] = x
  BY LenProperties, EmptySeq DEF LastIs
<1>2. Head(q) = q[1] /\ Tail(q) \in Seq(S) /\ Len(Tail(q)) = Len(q) - 1
  BY <1>1, HeadTailProperties
<1>3. Len(q) = 1
  <2>1. 1 \in 1..Len(q) /\ Len(q) \in 1..Len(q) /\ q[1] = q[Len(q)]
    BY <1>1, <1>2
  <2> QED
    BY <2>1
<1>4. Len(Tail(q)) = 0
  BY <1>2, <1>3
<1> QED
  BY <1>2, <1>4, EmptySeq

\* A set of naturals that is not empty has a least member.
LEMMA LeastNumber ==
  ASSUME NEW S \in SUBSET Nat, S # {}
  PROVE  \E x \in S : \A y \in S : x <= y
<1> DEFINE R == {ss \in Nat \X Nat : ss[1] < ss[2]}
<1>1. IsWellFoundedOn(R, Nat)
  BY NatLessThanWellFounded DEF OpToRel
<1>2. PICK x \in S : \A y \in S : ~ (<<y, x>> \in R)
  <2> HIDE DEF R
  <2> QED
    BY <1>1, WFMin
<1>3. \A y \in S : x <= y
  <2> TAKE y \in S
  <2>1. <<y, x>> \in Nat \X Nat /\ <<y, x>>[1] = y /\ <<y, x>>[2] = x
    OBVIOUS
  <2> QED
    BY <1>2, <2>1
<1> QED
  BY <1>3

\* The function that Only describes exists: what it is up to one place of the
\* list gives what it is up to the next one.
LEMMA OnlyExists ==
  ASSUME NEW X, NEW q \in Seq(X), NEW S
  PROVE  \E f : f = [i \in 0..Len(q) |->
                       IF i = 0 THEN <<>> ELSE IF q[i] \in S THEN Append(f[i - 1], q[i]) ELSE f[i - 1]]
<1> DEFINE Eq(f, n) == f = [i \in 0..n |-> IF i = 0 THEN <<>>
                                           ELSE IF q[i] \in S THEN Append(f[i - 1], q[i]) ELSE f[i - 1]]
           Bad == {n \in Nat : ~ \E f : Eq(f, n)}
<1>1. \E f : Eq(f, 0)
  <2> DEFINE f0 == [i \in 0..0 |-> <<>>]
  <2>1. f0 = [i \in 0..0 |-> IF i = 0 THEN <<>> ELSE IF q[i] \in S THEN Append(f0[i - 1], q[i]) ELSE f0[i - 1]]
    OBVIOUS
  <2> QED
    BY <2>1
<1>2. ASSUME NEW n \in Nat, \E f : Eq(f, n) PROVE \E f : Eq(f, n + 1)
  <2>1. PICK f : Eq(f, n)
    BY <1>2
  <2> DEFINE v == IF q[n + 1] \in S THEN Append(f[n], q[n + 1]) ELSE f[n]
             g == [i \in 0..(n + 1) |-> IF i = n + 1 THEN v ELSE f[i]]
  <2>2. \A i \in 0..(n + 1) : g[i] = IF i = 0 THEN <<>> ELSE IF q[i] \in S THEN Append(g[i - 1], q[i]) ELSE g[i - 1]
    <3> TAKE i \in 0..(n + 1)
    <3>1. CASE i = n + 1
      <4>1. n \in 0..(n + 1) /\ n + 1 \in 0..(n + 1) /\ n # n + 1 /\ n + 1 # 0 /\ (n + 1) - 1 = n
        OBVIOUS
      <4>2. g[n] = f[n] /\ g[n + 1] = v
        BY <4>1
      <4> HIDE DEF g
      <4> QED
        BY <3>1, <4>1, <4>2
    <3>2. CASE i # n + 1 /\ i # 0
      <4>1. i \in 0..n /\ i - 1 \in 0..n /\ i - 1 # n + 1 /\ i - 1 \in 0..(n + 1)
        BY <3>2
      <4>2. f[i] = IF q[i] \in S THEN Append(f[i - 1], q[i]) ELSE f[i - 1]
        BY <2>1, <3>2, <4>1
      <4>3. g[i] = f[i] /\ g[i - 1] = f[i - 1]
        BY <3>2, <4>1
      <4> HIDE DEF g
      <4> QED
        BY <3>2, <4>2, <4>3
    <3>3. CASE i = 0
      <4>1. 0 \in 0..n /\ 0 # n + 1
        OBVIOUS
      <4>2. f[0] = <<>>
        BY <2>1, <4>1
      <4> QED
        BY <3>3, <4>1, <4>2
    <3> QED
      BY <3>1, <3>2, <3>3
  <2>3. Eq(g, n + 1)
    <3>1. g = [i \in 0..(n + 1) |-> g[i]]
      OBVIOUS
    <3> HIDE DEF g
    <3> QED
      BY <2>2, <3>1
  <2> QED
    BY <2>3
<1>3. Bad = {}
  <2> SUFFICES ASSUME Bad # {} PROVE FALSE
    OBVIOUS
  <2> HIDE DEF Eq
  <2>1. PICK n \in Bad : \A m \in Bad : n <= m
    BY LeastNumber
  <2> HIDE DEF Bad
  <2>2. n \in Nat /\ n # 0
    BY <1>1 DEF Bad
  <2>3. n - 1 \in Nat /\ n - 1 \notin Bad
    BY <2>1, <2>2
  <2>4. \E f : Eq(f, n - 1)
    BY <2>3 DEF Bad
  <2>5. \E f : Eq(f, (n - 1) + 1)
    BY <1>2, <2>3, <2>4
  <2>6. (n - 1) + 1 = n
    BY <2>2
  <2> QED
    BY <2>1, <2>5, <2>6 DEF Bad
<1>4. Len(q) \in Nat
  BY LenProperties
<1>5. \E f : Eq(f, Len(q))
  <2> HIDE DEF Eq
  <2> QED
    BY <1>3, <1>4
<1> QED
  BY <1>5

\* What is kept of the first n entries of a list stands in it where g says, in
\* the same order, and nothing that is in S is missing.
KeepsTo(r, q, S, n, g) ==
  /\ g \in [1..Len(r) -> 1..n]
  /\ \A k \in 1..Len(r) : r[k] = q[g[k]] /\ r[k] \in S
  /\ \A k, m \in 1..Len(r) : k < m => g[k] < g[m]
  /\ \A i \in 1..n : q[i] \in S => \E k \in 1..Len(r) : g[k] = i

\* One more entry of the list, which is kept.
LEMMA KeepsNext ==
  ASSUME NEW X, NEW q \in Seq(X), NEW S, NEW n \in Nat, n + 1 \in 1..Len(q), q[n + 1] \in S,
         NEW r \in Seq(X), NEW g, KeepsTo(r, q, S, n, g)
  PROVE  Append(r, q[n + 1]) \in Seq(X) /\ \E h : KeepsTo(Append(r, q[n + 1]), q, S, n + 1, h)
<1> DEFINE s == Append(r, q[n + 1])
           h == [k \in 1..Len(s) |-> IF k = Len(s) THEN n + 1 ELSE g[k]]
<1>0. /\ g \in [1..Len(r) -> 1..n]
      /\ \A k \in 1..Len(r) : r[k] = q[g[k]] /\ r[k] \in S
      /\ \A k, m \in 1..Len(r) : k < m => g[k] < g[m]
      /\ \A i \in 1..n : q[i] \in S => \E k \in 1..Len(r) : g[k] = i
  BY DEF KeepsTo
<1>1. Len(r) \in Nat /\ Len(q) \in Nat /\ q[n + 1] \in X
  BY LenProperties
<1>2. /\ s \in Seq(X) /\ Len(s) = Len(r) + 1 /\ s[Len(r) + 1] = q[n + 1]
      /\ \A k \in 1..Len(r) : s[k] = r[k]
  BY <1>1, AppendProperties
<1> HIDE DEF s
<1>3. /\ h[Len(r) + 1] = n + 1
      /\ \A k \in 1..Len(r) : k \in 1..Len(s) /\ h[k] = g[k] /\ g[k] \in 1..n /\ k # Len(s)
  <2>1. Len(r) + 1 \in 1..Len(s) /\ \A k \in 1..Len(r) : k \in 1..Len(s) /\ k # Len(s)
    BY <1>1, <1>2
  <2>2. \A k \in 1..Len(r) : g[k] \in 1..n
    BY <1>0
  <2> QED
    BY <1>2, <2>1, <2>2
<1>4. \A k \in 1..Len(s) : k = Len(r) + 1 \/ k \in 1..Len(r)
  BY <1>1, <1>2
<1>5. \A k \in 1..Len(s) : h[k] \in 1..(n + 1)
  <2> TAKE k \in 1..Len(s)
  <2>1. CASE k = Len(r) + 1
    BY <2>1, <1>3
  <2>2. CASE k \in 1..Len(r)
    <3>1. h[k] \in 1..n
      BY <2>2, <1>3
    <3> QED
      BY <3>1
  <2> QED
    BY <2>1, <2>2, <1>4
<1>6. h \in [1..Len(s) -> 1..(n + 1)]
  BY <1>5
<1> HIDE DEF h
<1>7. \A k \in 1..Len(s) : s[k] = q[h[k]] /\ s[k] \in S
  BY <1>0, <1>2, <1>3, <1>4
<1>8. \A k, m \in 1..Len(s) : k < m => h[k] < h[m]
  <2> TAKE k, m \in 1..Len(s)
  <2> HAVE k < m
  <2>1. k \in 1..Len(r)
    BY <1>1, <1>4
  <2>2. CASE m \in 1..Len(r)
    BY <2>1, <2>2, <1>0, <1>3
  <2>3. CASE m = Len(r) + 1
    <3>1. h[k] \in 1..n /\ h[m] = n + 1
      BY <2>1, <2>3, <1>3
    <3> QED
      BY <3>1
  <2> QED
    BY <2>2, <2>3, <1>4
<1>9. \A i \in 1..(n + 1) : q[i] \in S => \E k \in 1..Len(s) : h[k] = i
  <2> TAKE i \in 1..(n + 1)
  <2> HAVE q[i] \in S
  <2>1. CASE i = n + 1
    <3>1. Len(r) + 1 \in 1..Len(s)
      BY <1>1, <1>2
    <3> QED
      BY <2>1, <3>1, <1>3
  <2>2. CASE i # n + 1
    <3>1. i \in 1..n
      BY <2>2
    <3>2. PICK k \in 1..Len(r) : g[k] = i
      BY <3>1, <1>0
    <3> QED
      BY <3>2, <1>3
  <2> QED
    BY <2>1, <2>2
<1> QED
  <2>1. KeepsTo(s, q, S, n + 1, h)
    BY <1>6, <1>7, <1>8, <1>9 DEF KeepsTo
  <2> QED
    BY <1>2, <2>1 DEF s

\* What Only keeps is a list of members of the list, each where it stood
\* relative to the others.
LEMMA OnlyShape ==
  ASSUME NEW X, NEW q \in Seq(X), NEW S
  PROVE  Only(q, S) \in Seq(X) /\ \E g : KeepsTo(Only(q, S), q, S, Len(q), g)
<1> DEFINE Eq(f) == f = [i \in 0..Len(q) |->
                           IF i = 0 THEN <<>> ELSE IF q[i] \in S THEN Append(f[i - 1], q[i]) ELSE f[i - 1]]
           f == CHOOSE f : Eq(f)
           Good(r, n) == r \in Seq(X) /\ \E g : KeepsTo(r, q, S, n, g)
           Bad == {n \in 0..Len(q) : ~Good(f[n], n)}
<1>1. Len(q) \in Nat
  BY LenProperties
<1>2. Eq(f)
  <2>1. \E g : Eq(g)
    BY OnlyExists, Zenon
  <2> HIDE DEF Eq
  <2> QED
    BY <2>1
<1>3. Only(q, S) = f[Len(q)]
  BY DEF Only
<1> HIDE DEF f
<1>4. /\ f[0] = <<>>
      /\ \A i \in 1..Len(q) : f[i] = IF q[i] \in S THEN Append(f[i - 1], q[i]) ELSE f[i - 1]
  <2>1. 0 \in 0..Len(q) /\ \A i \in 1..Len(q) : i \in 0..Len(q) /\ i # 0
    BY <1>1
  <2> QED
    BY <1>2, <2>1
<1> HIDE DEF Eq
<1>5. Good(f[0], 0)
  <2>1. <<>> \in Seq(X) /\ Len(<<>>) = 0 /\ 1..0 = {} /\ 1..Len(<<>>) = {}
    BY EmptySeq
  <2>2. [k \in {} |-> 0] \in [1..Len(<<>>) -> 1..0]
    BY <2>1
  <2>3. KeepsTo(<<>>, q, S, 0, [k \in {} |-> 0])
    BY <2>1, <2>2 DEF KeepsTo
  <2> QED
    BY <2>1, <2>3, <1>4
<1>6. ASSUME NEW n \in Nat, n + 1 \in 1..Len(q), Good(f[n], n) PROVE Good(f[n + 1], n + 1)
  <2> DEFINE r == f[n]
  <2>1. PICK g : r \in Seq(X) /\ KeepsTo(r, q, S, n, g)
    BY <1>6
  <2>2. f[n + 1] = IF q[n + 1] \in S THEN Append(r, q[n + 1]) ELSE r
    <3>1. (n + 1) - 1 = n
      OBVIOUS
    <3> QED
      BY <1>4, <1>6, <3>1
  <2> HIDE DEF r, Bad
  <2>3. CASE q[n + 1] \in S
    <3>1. Append(r, q[n + 1]) \in Seq(X) /\ \E h : KeepsTo(Append(r, q[n + 1]), q, S, n + 1, h)
      BY <1>6, <2>1, <2>3, KeepsNext
    <3> QED
      BY <2>2, <2>3, <3>1
  <2>4. CASE q[n + 1] \notin S
    <3>1. /\ g \in [1..Len(r) -> 1..n]
          /\ \A i \in 1..n : q[i] \in S => \E k \in 1..Len(r) : g[k] = i
      BY <2>1 DEF KeepsTo
    <3>2. g \in [1..Len(r) -> 1..(n + 1)]
      BY <3>1
    <3>3. \A i \in 1..(n + 1) : q[i] \in S => \E k \in 1..Len(r) : g[k] = i
      <4> TAKE i \in 1..(n + 1)
      <4> HAVE q[i] \in S
      <4>1. i \in 1..n
        BY <2>4
      <4> QED
        BY <4>1, <3>1
    <3>4. KeepsTo(r, q, S, n + 1, g)
      BY <2>1, <3>2, <3>3 DEF KeepsTo
    <3> QED
      BY <2>1, <2>2, <2>4, <3>4
  <2> QED
    BY <2>3, <2>4
<1> HIDE DEF Good
<1>7. Bad = {}
  <2> SUFFICES ASSUME Bad # {} PROVE FALSE
    OBVIOUS
  <2>1. Bad \in SUBSET Nat
    BY <1>1
  <2> HIDE DEF Bad
  <2>2. PICK n \in Bad : \A m \in Bad : n <= m
    BY LeastNumber, <2>1
  <2>3. n \in 0..Len(q) /\ n # 0 /\ ~Good(f[n], n)
    BY <1>5, <2>2 DEF Bad
  <2>4. n - 1 \in Nat /\ n - 1 \in 0..Len(q) /\ (n - 1) + 1 = n /\ n \in 1..Len(q)
    BY <2>3, <1>1
  <2>5. n - 1 \notin Bad
    BY <2>2, <2>4
  <2>6. Good(f[n - 1], n - 1)
    BY <2>4, <2>5 DEF Bad
  <2>7. Good(f[(n - 1) + 1], (n - 1) + 1)
    BY <1>6, <2>4, <2>6
  <2> QED
    BY <2>3, <2>4, <2>7
<1>8. Good(f[Len(q)], Len(q))
  BY <1>1, <1>7
<1> QED
  BY <1>3, <1>8 DEF Good

\* What a list keeps: those of its members that are in S, each as often as it
\* was there, and the head when it is one of them.
LEMMA OnlyMembers ==
  ASSUME NEW X, NEW q \in Seq(X), NEW S
  PROVE  /\ Members(Only(q, S)) = Members(q) \cap S
         /\ (\A i, j \in 1..Len(q) : q[i] = q[j] => i = j) =>
              \A i, j \in 1..Len(Only(q, S)) : Only(q, S)[i] = Only(q, S)[j] => i = j
<1> DEFINE r == Only(q, S)
<1>1. PICK g : KeepsTo(r, q, S, Len(q), g)
  BY OnlyShape
<1>2. r \in Seq(X) /\ Len(r) \in Nat /\ Len(q) \in Nat
  BY OnlyShape, LenProperties
<1> HIDE DEF r
<1>3. \A k \in 1..Len(r) : g[k] \in 1..Len(q) /\ r[k] = q[g[k]] /\ r[k] \in S
  BY <1>1 DEF KeepsTo
<1>4. \A i \in 1..Len(q) : q[i] \in S => \E k \in 1..Len(r) : g[k] = i
  BY <1>1 DEF KeepsTo
<1>5. Members(r) \subseteq Members(q) \cap S
  BY <1>3 DEF Members
<1>6. Members(q) \cap S \subseteq Members(r)
  <2>1. SUFFICES ASSUME NEW i \in 1..Len(q), q[i] \in S
                 PROVE  q[i] \in Members(r)
    BY DEF Members
  <2>2. PICK k \in 1..Len(r) : g[k] = i
    BY <1>4, <2>1
  <2>3. r[k] = q[i]
    BY <1>3, <2>2
  <2> QED
    BY <2>3 DEF Members
<1>7. ASSUME \A i, j \in 1..Len(q) : q[i] = q[j] => i = j,
             NEW i \in 1..Len(r), NEW j \in 1..Len(r), r[i] = r[j]
      PROVE  i = j
  <2>1. g[i] = g[j] /\ g[i] \in 1..Len(q) /\ g[j] \in 1..Len(q)
    BY <1>3, <1>7
  <2>2. ~(i < j) /\ ~(j < i)
    BY <1>1, <2>1, <1>2 DEF KeepsTo
  <2> QED
    BY <1>2, <2>2
<1> QED
  BY <1>5, <1>6, <1>7 DEF r

\* When the head of a list is kept it stays the head.
LEMMA OnlyHead ==
  ASSUME NEW X, NEW q \in Seq(X), NEW S, q # <<>>, Head(q) \in S
  PROVE  Only(q, S) # <<>> /\ Head(Only(q, S)) = Head(q)
<1> DEFINE r == Only(q, S)
<1>1. PICK g : KeepsTo(r, q, S, Len(q), g)
  BY OnlyShape
<1>2. r \in Seq(X) /\ Len(r) \in Nat /\ Len(q) \in Nat /\ Len(q) # 0 /\ Head(q) = q[1]
  BY OnlyShape, LenProperties, EmptySeq, HeadTailProperties
<1> HIDE DEF r
<1>3. PICK k \in 1..Len(r) : g[k] = 1
  <2>1. 1 \in 1..Len(q) /\ q[1] \in S
    BY <1>2
  <2> QED
    BY <1>1, <2>1 DEF KeepsTo
<1>4. r # <<>> /\ 1 \in 1..Len(r) /\ Head(r) = r[1]
  <2>1. Len(r) # 0
    BY <1>2, <1>3
  <2>2. r # <<>>
    BY <1>2, <2>1, EmptySeq
  <2> QED
    BY <1>2, <2>1, <2>2, HeadTailProperties
<1>5. k = 1
  <2>1. g[1] \in 1..Len(q)
    BY <1>1, <1>4 DEF KeepsTo
  <2>2. ~(1 < k)
    BY <1>1, <1>2, <1>3, <1>4, <2>1 DEF KeepsTo
  <2> QED
    BY <1>2, <1>3, <2>2
<1>6. r[1] = q[1]
  BY <1>1, <1>3, <1>4, <1>5 DEF KeepsTo
<1> QED
  BY <1>2, <1>4, <1>6 DEF r
=============================================================================
