--------------------------- MODULE EventLogProofs ---------------------------
(***************************************************************************)
(* Proofs about the event log, for any number of events and any mixture of *)
(* backends, writers, removals, crashes and failing statements, and about  *)
(* the summarizers at work on it, for any number of concurrent turns.      *)
(***************************************************************************)
EXTENDS Summaries, FiniteSetTheorems, WellFoundedInduction, TLAPS

----------------------------------------------------------------------------
(***************************************************************************)
(* Least and greatest members, and ranks.                                  *)
(***************************************************************************)

\* A set of naturals that is not empty has a least member.
LEMMA MinOfNaturals ==
  ASSUME NEW S \in SUBSET Nat, S # {}
  PROVE  Min(S) \in S /\ \A y \in S : Min(S) <= y
<1> DEFINE R == {ss \in Nat \X Nat : ss[1] < ss[2]}
<1>1. IsWellFoundedOn(R, Nat)
  BY NatLessThanWellFounded DEF OpToRel
<1>2. PICK x \in S : \A y \in S : ~ (<<y, x>> \in R)
  <2> HIDE DEF R
  <2> QED
    BY <1>1, WFMin
<1>3. \A y \in S : x <= y
  <2> TAKE y \in S
  <2>1. <<y, x>> \in Nat \X Nat /\ <<y, x>>[1] = y /\ <<y, x>>[2] = x
    OBVIOUS
  <2> QED
    BY <1>2, <2>1
<1> QED
  BY <1>3 DEF Min

\* A set of naturals that is bounded and not empty has a greatest member.
LEMMA MaxOfNaturals ==
  ASSUME NEW S \in SUBSET Nat, NEW n \in Nat, \A y \in S : y <= n, S # {}
  PROVE  Max(S) \in S /\ \A y \in S : Max(S) >= y
<1> DEFINE T == {n - y : y \in S}
<1>1. T \in SUBSET Nat /\ T # {}
  <2>1. \A y \in S : n - y \in Nat
    OBVIOUS
  <2> QED
    BY <2>1
<1>2. Min(T) \in T /\ \A y \in T : Min(T) <= y
  BY <1>1, MinOfNaturals
<1>3. PICK x \in S : Min(T) = n - x
  BY <1>2
<1>4. \A y \in S : n - x <= n - y
  BY <1>2, <1>3
<1>5. \A y \in S : x >= y
  BY <1>4
<1> QED
  BY <1>5 DEF Max

----------------------------------------------------------------------------
(***************************************************************************)
(* The invariants.                                                         *)
(***************************************************************************)

\* f is a list: its members have the indices from 0 on, each one once.
IsList(f) ==
  /\ {f[t] : t \in DOMAIN f} = 0..(Cardinality(DOMAIN f) - 1)
  /\ \A t, u \in DOMAIN f : f[t] = f[u] => t = u

Choosing == {"archive", "unlist"}
Storing  == {"archive", "unlist", "index", "store"}
Placing  == {"move", "place"}

\* Where a collapse is: what it has taken out of the view and not put back.
\* What it places is not listed before, is stored and has room in the view.
UnderWay ==
  /\ \A t \in Stored : Start(t) <= End(t)
  /\ pc # "idle" => gone # {} /\ gone \subseteq Stored
  /\ pc \in Choosing => todo # {} /\ todo \subseteq Listed
  /\ pc \notin Choosing => todo = {}
  /\ pc \in Storing => Listed \cap (gone \cup {SummaryTag}) \subseteq todo
  /\ pc \in Placing => SummaryTag \in Stored
  /\ pc = "move" => SummaryTag \in Listed
  /\ pc = "place" => SummaryTag \notin Listed
  /\ Cardinality(Listed) + (IF pc = "place" THEN 1 ELSE 0) <= ids
  /\ pc \in {"store", "place"} => place <= Cardinality(Listed)
  /\ pc = "move" => place < Cardinality(Listed)
  /\ ids <= MaxEvents + (IF pc \in Storing THEN 0 ELSE 1)

ListKept == backend = "memory" => IsList(pos)

\* The parts of StableTags.
LogType ==
  /\ backend \in Backends
  /\ Stored \subseteq Tags /\ \A t \in Stored : events[t] \in [id : 1..(MaxEvents + 1), kids : SUBSET Tags]
  /\ archived \subseteq Tags
  /\ next_tag \in 1..(MaxEvents + 1) /\ other \in 0..MaxEvents
  /\ ids \in 0..(MaxEvents + 1) /\ DOMAIN given \subseteq Nums /\ dropped \subseteq Nums

ViewType == Listed \subseteq Tags /\ pos \in [Listed -> Nat]

CallType ==
  /\ pc \in {"idle", "archive", "unlist", "index", "store", "move", "place"}
  /\ todo \subseteq gone /\ gone \subseteq Tags /\ place \in 0..(MaxEvents + 1)

Returned == \A n \in DOMAIN given \ dropped : <<n>> \in Stored /\ events[<<n>>].id = given[n]
Numbered == \A t \in Stored : End(t) < next_tag
HeldBack == other # 0 => <<other>> \notin Stored /\ other < next_tag

StoreInv ==
  /\ LogType /\ ViewType /\ CallType
  /\ Returned /\ Numbered /\ HeldBack /\ Listed \subseteq Stored
  /\ UnderWay /\ ListKept

\* Of the other members of the view, those before what is collapsed and those
\* after it.
Before(v) == \A g \in gone : End(v) < Start(g)
After(v)  == \A g \in gone : End(g) < Start(v)

Others == Listed \ (gone \cup {SummaryTag})

\* In memory the view stays in order while a range of it is collapsed; the
\* other members are on one side of the range or the other, and the place that
\* is chosen for the summary lies between the two sides.
InOrder ==
  \A t, u \in (IF pc = "move" THEN Listed \ {SummaryTag} ELSE Listed) :
    pos[t] < pos[u] => End(t) < Start(u)

Sides  == pc \in Storing => \A v \in Others : Before(v) \/ After(v)
Anchor == pc \in {"archive", "unlist", "index"} => \E g \in gone : place = Start(g)
Gap    == pc \in {"store", "move", "place"} =>
            \A v \in Listed \ {SummaryTag} : IF pos[v] < place THEN Before(v) ELSE After(v)
LastIn == pc = "move" => pos[SummaryTag] = Cardinality(Listed) - 1

MemoryOrdered == backend = "memory" =>
  other = 0 /\ InOrder /\ Sides /\ Anchor /\ Gap /\ LastIn

\* What stands in for the collapsed events while they are out of the view.
StandIns == IF pc \in Storing THEN gone ELSE IF pc \in Placing THEN {SummaryTag} ELSE {}

\* Nothing is hidden while a range is collapsed.
NothingHidden == backend = "memory" =>
  \A n \in DOMAIN given \ dropped : \E t \in Listed \cup StandIns : n \in Span(t)
----------------------------------------------------------------------------
(***************************************************************************)
(* Lists.                                                                  *)
(***************************************************************************)

\* A finite set of naturals that is not empty has a greatest member: one
\* without it of the least size would have one after all.
LEMMA MaxOfFinite ==
  ASSUME NEW S \in SUBSET Nat, IsFiniteSet(S), S # {}
  PROVE  Max(S) \in S /\ \A y \in S : Max(S) >= y
<1> DEFINE Topped(T) == \E x \in T : \A y \in T : x >= y
           Bad == {T \in SUBSET S : T # {} /\ ~Topped(T)}
           Sizes == {Cardinality(T) : T \in Bad}
<1>1. \A T \in SUBSET S : IsFiniteSet(T) /\ Cardinality(T) \in Nat
  BY FS_Subset, FS_CardinalityType
<1>2. Bad = {}
  <2> SUFFICES ASSUME Bad # {} PROVE FALSE
    OBVIOUS
  <2>1. Sizes \in SUBSET Nat /\ Sizes # {}
    BY <1>1
  <2>2. Min(Sizes) \in Sizes /\ \A y \in Sizes : Min(Sizes) <= y
    BY <2>1, MinOfNaturals
  <2>3. PICK T \in Bad : Cardinality(T) = Min(Sizes)
    BY <2>2
  <2>4. PICK x \in T : TRUE
    OBVIOUS
  <2>5. Cardinality(T \ {x}) = Cardinality(T) - 1
    BY <1>1, FS_RemoveElement
  <2>6. T \ {x} \notin Bad
    <3> SUFFICES ASSUME T \ {x} \in Bad PROVE FALSE
      OBVIOUS
    <3>1. Cardinality(T \ {x}) \in Sizes
      OBVIOUS
    <3> QED
      <4>1. Min(Sizes) <= Cardinality(T \ {x})
        BY <3>1, <2>2
      <4>2. Cardinality(T) \in Nat
        BY <1>1
      <4> HIDE DEF Sizes
      <4> QED
        BY <4>1, <4>2, <2>3, <2>5
  <2>7. T \ {x} # {}
    <3> SUFFICES ASSUME T = {x} PROVE FALSE
      OBVIOUS
    <3> QED
      OBVIOUS
  <2>8. PICK m \in T \ {x} : \A y \in T \ {x} : m >= y
    BY <2>6, <2>7
  <2>9. Topped(T)
    <3>1. CASE x >= m
      <4>1. \A y \in T : x >= y
        BY <2>8, <3>1
      <4> QED
        BY <4>1
    <3>2. CASE ~(x >= m)
      <4>1. \A y \in T : m >= y
        BY <2>8, <3>2
      <4> QED
        BY <4>1, <2>8
    <3> QED
      BY <3>1, <3>2
  <2> QED
    BY <2>9
<1>3. PICK x \in S : \A y \in S : x >= y
  BY <1>2
<1> QED
  BY <1>3 DEF Max

\* A list without repetitions is a bijection to its indices.
LEMMA IndicesBelow ==
  ASSUME NEW D, IsFiniteSet(D), NEW f \in [D -> Nat], IsList(f),
         NEW k \in 0..Cardinality(D)
  PROVE  LET S == {u \in D : f[u] < k}
         IN  IsFiniteSet(S) /\ Cardinality(S) = k
<1> DEFINE S == {u \in D : f[u] < k}
           g == [u \in S |-> f[u]]
<1>1. DOMAIN f = D /\ Cardinality(D) \in Nat
  BY FS_CardinalityType
<1>2. g \in [S -> 0..(k - 1)] /\ \A u, v \in S : g[u] = g[v] => u = v
  BY <1>1 DEF IsList
<1>3. \A i \in 0..(k - 1) : \E u \in S : g[u] = i
  <2> SUFFICES ASSUME NEW i \in 0..(k - 1) PROVE \E u \in S : g[u] = i
    OBVIOUS
  <2>1. i \in 0..(Cardinality(D) - 1) /\ i < k
    BY <1>1
  <2>2. PICK u \in D : f[u] = i
    BY <2>1, <1>1 DEF IsList
  <2> QED
    BY <2>1, <2>2
<1>4. g \in Bijection(S, 0..(k - 1))
  BY <1>2, <1>3 DEF Bijection, Injection, Surjection, IsInjective
<1>5. IsFiniteSet(S)
  BY FS_Subset
<1>6. Cardinality(0..(k - 1)) = Cardinality(S)
  <2>1. ExistsBijection(S, 0..(k - 1))
    BY <1>4 DEF ExistsBijection
  <2> QED
    BY <2>1, <1>5, FS_Bijection
<1>7. Cardinality(0..(k - 1)) = k
  <2>1. k \in Nat /\ 0 \in Int /\ k - 1 \in Int
    BY <1>1
  <2>2. Cardinality(0..(k - 1)) = IF 0 > k - 1 THEN 0 ELSE (k - 1) - 0 + 1
    BY <2>1, FS_Interval
  <2> QED
    BY <2>1, <2>2
<1> QED
  BY <1>5, <1>6, <1>7

\* A list without one of its members, the gap closed.
LEMMA GapClosed ==
  ASSUME NEW D, IsFiniteSet(D), NEW f \in [D -> Nat], IsList(f), NEW t \in D
  PROVE  LET g == [u \in D \ {t} |-> IF f[t] < f[u] THEN f[u] - 1 ELSE f[u]]
         IN  g \in [D \ {t} -> Nat] /\ IsList(g)
<1> DEFINE g == [u \in D \ {t} |-> IF f[t] < f[u] THEN f[u] - 1 ELSE f[u]]
           n == Cardinality(D)
<1>1. /\ n \in Nat /\ DOMAIN f = D /\ DOMAIN g = D \ {t}
      /\ Cardinality(D \ {t}) = n - 1
  BY FS_CardinalityType, FS_RemoveElement
<1>2. \A u \in D : f[u] \in 0..(n - 1)
  BY <1>1 DEF IsList
<1>3. \A u, v \in D : f[u] = f[v] => u = v
  BY <1>1 DEF IsList
<1>4. \A i \in 0..(n - 1) : \E u \in D : f[u] = i
  BY <1>1 DEF IsList
<1> HIDE DEF n
<1>5. \A u \in D \ {t} : g[u] \in 0..(n - 2) /\ g[u] \in Nat
  BY <1>1, <1>2, <1>3
<1>6. \A u, v \in D \ {t} : g[u] = g[v] => u = v
  BY <1>2, <1>3, <1>1
<1>7. \A i \in 0..(n - 2) : \E u \in D \ {t} : g[u] = i
  <2> SUFFICES ASSUME NEW i \in 0..(n - 2) PROVE \E u \in D \ {t} : g[u] = i
    OBVIOUS
  <2>1. i \in 0..(n - 1) /\ i + 1 \in 0..(n - 1)
    BY <1>1
  <2>2. CASE i < f[t]
    <3>1. PICK u \in D : f[u] = i
      BY <2>1, <1>4
    <3> QED
      BY <3>1, <2>2, <1>2
  <2>3. CASE ~(i < f[t])
    <3>1. PICK u \in D : f[u] = i + 1
      BY <2>1, <1>4
    <3> QED
      BY <3>1, <2>3, <1>2
  <2> QED
    BY <2>2, <2>3
<1>8. {g[u] : u \in D \ {t}} = 0..((n - 1) - 1)
  <2>1. (n - 1) - 1 = n - 2
    BY <1>1
  <2> HIDE DEF g
  <2> QED
    BY <2>1, <1>5, <1>7
<1>9. g \in [D \ {t} -> Nat]
  BY <1>5
<1>10. IsList(g)
  <2> HIDE DEF g
  <2> QED
    BY <1>1, <1>6, <1>8 DEF IsList
<1> QED
  BY <1>9, <1>10

\* A new member has the next index.
LEMMA ListExtended ==
  ASSUME NEW D, IsFiniteSet(D), NEW f \in [D -> Nat], IsList(f), NEW t, t \notin D
  PROVE  LET g == [u \in D \cup {t} |-> IF u = t THEN Cardinality(D) ELSE f[u]]
         IN  g \in [D \cup {t} -> Nat] /\ IsList(g)
<1> DEFINE g == [u \in D \cup {t} |-> IF u = t THEN Cardinality(D) ELSE f[u]]
           n == Cardinality(D)
<1>1. /\ n \in Nat /\ DOMAIN f = D /\ DOMAIN g = D \cup {t}
      /\ Cardinality(D \cup {t}) = n + 1
  BY FS_CardinalityType, FS_AddElement
<1>2. \A u \in D : f[u] \in 0..(n - 1) /\ g[u] = f[u]
  BY <1>1 DEF IsList
<1>3. \A u, v \in D : f[u] = f[v] => u = v
  BY <1>1 DEF IsList
<1>4. \A i \in 0..(n - 1) : \E u \in D : f[u] = i
  BY <1>1 DEF IsList
<1>5. g[t] = n
  OBVIOUS
<1>6. g \in [D \cup {t} -> Nat]
  BY <1>1
<1> HIDE DEF g, n
<1>7. IsList(g)
  <2>1. \A u \in D \cup {t} : g[u] \in 0..n
    BY <1>1, <1>2, <1>5
  <2>2. \A i \in 0..n : \E u \in D \cup {t} : g[u] = i
    <3> TAKE i \in 0..n
    <3>1. i = n \/ i \in 0..(n - 1)
      BY <1>1
    <3> QED
      BY <3>1, <1>2, <1>4, <1>5
  <2>3. \A u, v \in D \cup {t} : g[u] = g[v] => u = v
    BY <1>1, <1>2, <1>3, <1>5
  <2>4. (n + 1) - 1 = n
    BY <1>1
  <2> QED
    BY <1>1, <2>1, <2>2, <2>3, <2>4 DEF IsList
<1> QED
  BY <1>6, <1>7 DEF g, n

\* A member put at an index moves those from there on up by one.
LEMMA ListInserted ==
  ASSUME NEW D, IsFiniteSet(D), NEW f \in [D -> Nat], IsList(f), NEW t, t \notin D,
         NEW k \in Nat, k <= Cardinality(D)
  PROVE  LET g == [u \in D \cup {t} |-> IF u = t THEN k
                                        ELSE IF f[u] >= k THEN f[u] + 1 ELSE f[u]]
         IN  g \in [D \cup {t} -> Nat] /\ IsList(g)
<1> DEFINE g == [u \in D \cup {t} |-> IF u = t THEN k
                                      ELSE IF f[u] >= k THEN f[u] + 1 ELSE f[u]]
           n == Cardinality(D)
<1>1. /\ n \in Nat /\ DOMAIN f = D /\ DOMAIN g = D \cup {t}
      /\ Cardinality(D \cup {t}) = n + 1 /\ k <= n
  BY FS_CardinalityType, FS_AddElement
<1>2. /\ \A u \in D : f[u] \in 0..(n - 1)
      /\ \A u \in D : g[u] = IF f[u] >= k THEN f[u] + 1 ELSE f[u]
  BY <1>1 DEF IsList
<1>3. \A u, v \in D : f[u] = f[v] => u = v
  BY <1>1 DEF IsList
<1>4. \A i \in 0..(n - 1) : \E u \in D : f[u] = i
  BY <1>1 DEF IsList
<1>5. g[t] = k
  OBVIOUS
<1>6. g \in [D \cup {t} -> Nat]
  BY <1>1
<1> HIDE DEF g, n
<1>7. IsList(g)
  <2>1. \A u \in D \cup {t} : g[u] \in 0..n
    BY <1>1, <1>2, <1>5
  <2>2. \A i \in 0..n : \E u \in D \cup {t} : g[u] = i
    <3> TAKE i \in 0..n
    <3>1. CASE i < k
      <4>1. PICK u \in D : f[u] = i
        BY <3>1, <1>1, <1>4
      <4> QED
        BY <4>1, <3>1, <1>2
    <3>2. CASE i = k
      BY <3>2, <1>5
    <3>3. CASE i > k
      <4>1. i - 1 \in 0..(n - 1) /\ i - 1 >= k /\ (i - 1) + 1 = i
        BY <3>3, <1>1
      <4>2. PICK u \in D : f[u] = i - 1
        BY <4>1, <1>4
      <4> QED
        BY <4>1, <4>2, <1>2
    <3> QED
      BY <3>1, <3>2, <3>3, <1>1
  <2>3. \A u, v \in D \cup {t} : g[u] = g[v] => u = v
    <3>1. \A u \in D : g[u] # k
      BY <1>1, <1>2
    <3>2. \A u, v \in D : g[u] = g[v] => f[u] = f[v]
      BY <1>1, <1>2
    <3> QED
      BY <3>1, <3>2, <1>3, <1>5
  <2>4. (n + 1) - 1 = n
    BY <1>1
  <2> QED
    BY <1>1, <2>1, <2>2, <2>3, <2>4 DEF IsList
<1> QED
  BY <1>6, <1>7 DEF g

----------------------------------------------------------------------------
(***************************************************************************)
(* Tags and the view.                                                      *)
(***************************************************************************)

\* The numbers of a tag.
LEMMA TagNumbers ==
  ASSUME NEW t \in Tags
  PROVE  Start(t) \in Nums /\ End(t) \in Nums
<1>1. CASE \E n \in Nums : t = <<n>>
  BY <1>1 DEF Start, End
<1>2. CASE \E m, n \in Nums : t = <<m, n>>
  <2>1. PICK m \in Nums, n \in Nums : t = <<m, n>>
    BY <1>2
  <2> QED
    BY <2>1 DEF Start, End
<1> QED
  BY <1>1, <1>2 DEF Tags

\* The tag of an original event spans its own number and is no range.
LEMMA OriginalTag ==
  ASSUME NEW n \in Nums
  PROVE  /\ <<n>> \in Tags /\ Start(<<n>>) = n /\ End(<<n>>) = n
         /\ \A m, k : <<n>> # <<m, k>>
BY DEF Tags, Start, End

\* There are finitely many tags.
LEMMA TagsFinite ==
  ASSUME NEW S \in SUBSET Tags
  PROVE  IsFiniteSet(S) /\ Cardinality(S) \in Nat
<1> DEFINE Ones == {<<n>> : n \in Nums}
           Pairs == {<<m, n>> : m \in Nums, n \in Nums}
<1>1. IsFiniteSet(Nums)
  BY EventLogAssumption, FS_Interval DEF Nums
<1>2. IsFiniteSet(Pairs)
  <2>1. Pairs = Nums \X Nums
    OBVIOUS
  <2> QED
    BY <1>1, <2>1, FS_Product
<1>3. IsFiniteSet(Ones)
  <2> DEFINE f == [n \in Nums |-> <<n>>]
  <2>1. f \in Surjection(Nums, Ones)
    BY DEF Surjection
  <2> QED
    BY <2>1, <1>1, FS_Surjection
<1>4. IsFiniteSet(Tags)
  <2>1. Tags = Ones \cup Pairs
    BY DEF Tags
  <2> HIDE DEF Ones, Pairs
  <2>2. IsFiniteSet(Ones \cup Pairs)
    BY <1>2, <1>3, FS_Union
  <2> QED
    BY <2>1, <2>2
<1> QED
  BY <1>4, FS_Subset, FS_CardinalityType

\* store() lists a tag after all others.
LEMMA Appended ==
  ASSUME ViewType, NEW t
  PROVE  /\ AppendTag(t) \in [Listed \cup {t} -> Nat]
         /\ \A u \in Listed \ {t} : AppendTag(t)[u] = pos[u]
         /\ IsList(pos) /\ t \notin Listed =>
              IsList(AppendTag(t)) /\ AppendTag(t)[t] = Cardinality(Listed)
<1> DEFINE P == {pos[u] : u \in Listed}
           next == IF Listed = {} THEN 0 ELSE 1 + Max(P)
<1>1. IsFiniteSet(Listed) /\ Cardinality(Listed) \in Nat
  BY TagsFinite DEF ViewType
<1>2. AppendTag(t) = [u \in Listed \cup {t} |-> IF u = t THEN next ELSE pos[u]]
  BY DEF AppendTag, Extend, Listed
<1>3. P \in SUBSET Nat
  BY DEF ViewType
<1>4. IsFiniteSet(P)
  <2>1. [u \in Listed |-> pos[u]] \in Surjection(Listed, P)
    BY DEF Surjection
  <2> QED
    BY <2>1, <1>1, FS_Surjection
<1>5. P # {} => Max(P) \in P /\ \A y \in P : Max(P) >= y
  BY <1>3, <1>4, MaxOfFinite
<1>6. Listed # {} => P # {}
  OBVIOUS
<1>7. next \in Nat
  <2>1. Listed # {} => Max(P) \in Nat
    BY <1>3, <1>5, <1>6
  <2> HIDE DEF P
  <2> QED
    BY <2>1
<1>8. IsList(pos) => next = Cardinality(Listed)
  <2> SUFFICES ASSUME IsList(pos) PROVE next = Cardinality(Listed)
    OBVIOUS
  <2>1. P = 0..(Cardinality(Listed) - 1)
    BY DEF IsList, Listed
  <2>2. CASE Listed = {}
    BY <2>2, FS_EmptySet
  <2>3. CASE Listed # {}
    <3>1. Cardinality(Listed) # 0
      BY <2>3, <1>1, FS_EmptySet
    <3>2. Cardinality(Listed) - 1 \in P
      BY <3>1, <2>1, <1>1
    <3>3. Max(P) \in 0..(Cardinality(Listed) - 1) /\ Max(P) >= Cardinality(Listed) - 1
      BY <3>2, <2>1, <1>5
    <3> HIDE DEF P
    <3>4. Max(P) = Cardinality(Listed) - 1
      BY <3>3, <1>1
    <3> QED
      BY <3>4, <2>3, <1>1
  <2> QED
    BY <2>2, <2>3
<1> HIDE DEF P, next
<1>9. IsList(pos) /\ t \notin Listed => IsList(AppendTag(t))
  <2> SUFFICES ASSUME IsList(pos), t \notin Listed PROVE IsList(AppendTag(t))
    OBVIOUS
  <2>1. AppendTag(t) = [u \in Listed \cup {t} |-> IF u = t THEN Cardinality(Listed) ELSE pos[u]]
    BY <1>2, <1>8
  <2>2. pos \in [Listed -> Nat]
    BY DEF ViewType
  <2> QED
    BY <2>1, <2>2, <1>1, ListExtended
<1> QED
  BY <1>2, <1>7, <1>8, <1>9 DEF ViewType

\* A tag is taken out of the view: a list closes the gap, a table keeps it.
LEMMA Unlisted ==
  ASSUME ViewType, NEW t
  PROVE  /\ Unlist({t}) \in [Listed \ {t} -> Nat]
         /\ backend = "sqlite" => \A u \in Listed \ {t} : Unlist({t})[u] = pos[u]
         /\ backend # "sqlite" /\ IsList(pos) =>
              /\ IsList(Unlist({t}))
              /\ \A u \in Listed \ {t} :
                   Unlist({t})[u] = IF t \in Listed /\ pos[t] < pos[u] THEN pos[u] - 1 ELSE pos[u]
<1> DEFINE L == Listed \ {t}
<1>1. IsFiniteSet(Listed) /\ pos \in [Listed -> Nat]
  BY TagsFinite DEF ViewType
<1>2. CASE backend = "sqlite"
  BY <1>2, <1>1 DEF Unlist, Without
<1>3. CASE backend # "sqlite"
  <2>1. Unlist({t}) = [v \in L |-> Cardinality({u \in L : pos[u] < pos[v]})]
    BY <1>3 DEF Unlist
  <2>2. \A v \in L : Cardinality({u \in L : pos[u] < pos[v]}) \in Nat
    BY TagsFinite DEF ViewType
  <2>3. Unlist({t}) \in [L -> Nat]
    BY <2>1, <2>2
  <2>4. ASSUME IsList(pos), NEW v \in L
        PROVE  Unlist({t})[v] = IF t \in Listed /\ pos[t] < pos[v] THEN pos[v] - 1 ELSE pos[v]
    <3> DEFINE S == {u \in Listed : pos[u] < pos[v]}
    <3>1. pos[v] \in 0..Cardinality(Listed)
      BY <2>4, <1>1, TagsFinite DEF IsList, ViewType
    <3>2. IsFiniteSet(S) /\ Cardinality(S) = pos[v]
      BY <3>1, <1>1, <2>4, IndicesBelow
    <3>3. {u \in L : pos[u] < pos[v]} = S \ {t}
      OBVIOUS
    <3>4. Cardinality(S \ {t}) = IF t \in S THEN Cardinality(S) - 1 ELSE Cardinality(S)
      BY <3>2, FS_RemoveElement
    <3> QED
      BY <2>1, <3>2, <3>3, <3>4
  <2>5. ASSUME IsList(pos) PROVE IsList(Unlist({t}))
    <3>1. CASE t \in Listed
      <4>1. Unlist({t}) = [v \in Listed \ {t} |-> IF pos[t] < pos[v] THEN pos[v] - 1 ELSE pos[v]]
        BY <2>3, <2>4, <2>5, <3>1
      <4> QED
        BY <4>1, <3>1, <2>5, <1>1, GapClosed
    <3>2. CASE t \notin Listed
      <4>1. Unlist({t}) = pos
        <5>1. L = Listed
          BY <3>2
        <5>2. \A v \in Listed : Unlist({t})[v] = pos[v]
          BY <2>4, <2>5, <3>2, <5>1
        <5> QED
          BY <5>1, <5>2, <2>3, <1>1
      <4> QED
        BY <4>1, <2>5
    <3> QED
      BY <3>1, <3>2
  <2> QED
    BY <1>3, <2>3, <2>4, <2>5
<1> QED
  BY <1>2, <1>3

\* A tag is put at an index.
LEMMA Inserted ==
  ASSUME ViewType, NEW t, t \notin Listed, NEW k \in Nat, k <= Cardinality(Listed)
  PROVE  /\ InsertTag(t, k) \in [Listed \cup {t} -> Nat]
         /\ \A u \in Listed : InsertTag(t, k)[u] = IF pos[u] >= k THEN pos[u] + 1 ELSE pos[u]
         /\ InsertTag(t, k)[t] = k
         /\ IsList(pos) => IsList(InsertTag(t, k))
<1>1. IsFiniteSet(Listed) /\ pos \in [Listed -> Nat]
  BY TagsFinite DEF ViewType
<1>2. InsertTag(t, k) \in [Listed \cup {t} -> Nat]
  BY <1>1 DEF InsertTag
<1>3. IsList(pos) => IsList(InsertTag(t, k))
  BY <1>1, ListInserted DEF InsertTag
<1> QED
  BY <1>2, <1>3 DEF InsertTag

\* The index of a summary is one of the view or its end.
LEMMA IndexInView ==
  ASSUME ViewType, NEW first
  PROVE  InsertIndex(first) \in Nat /\ InsertIndex(first) <= Cardinality(Listed)
<1>1. IsFiniteSet(Listed) /\ Cardinality(Listed) \in Nat
  BY TagsFinite DEF ViewType
<1>2. \A at : LET S == {t \in Listed : pos[t] < pos[at]}
              IN  Cardinality(S) \in Nat /\ Cardinality(S) <= Cardinality(Listed)
  BY <1>1, FS_Subset, FS_CardinalityType
<1> QED
  BY <1>1, <1>2 DEF InsertIndex

\* The greater of two numbers.
LEMMA MaxOfTwo ==
  ASSUME NEW a \in Nat, NEW b \in Nat
  PROVE  Max({a, b}) = IF a >= b THEN a ELSE b
<1>1. \A y \in {a, b} : y <= a + b
  OBVIOUS
<1>2. Max({a, b}) \in {a, b} /\ \A y \in {a, b} : Max({a, b}) >= y
  BY <1>1, MaxOfNaturals
<1> QED
  BY <1>2

TagOver(G) == <<Min({Start(t) : t \in G}), Max({End(t) : t \in G})>>

\* The tag of a summary spans what it stands for, and nothing more.
LEMMA SummarySpan ==
  ASSUME NEW G \in SUBSET Tags, G # {}, \A g \in G : Start(g) <= End(g)
  PROVE  /\ TagOver(G) \in Tags /\ Start(TagOver(G)) <= End(TagOver(G))
         /\ \A n : TagOver(G) # <<n>>
         /\ \A g \in G : Start(TagOver(G)) <= Start(g) /\ End(g) <= End(TagOver(G))
         /\ \E g \in G : Start(TagOver(G)) = Start(g)
         /\ \E g \in G : End(TagOver(G)) = End(g)
<1> DEFINE S == {Start(t) : t \in G}
           E == {End(t) : t \in G}
           a == Min(S)
           b == Max(E)
<1>1. \A g \in G : Start(g) \in Nums /\ End(g) \in Nums
  BY TagNumbers
<1>2. Nums \subseteq Nat /\ MaxEvents \in Nat /\ \A n \in Nums : n <= MaxEvents
  BY EventLogAssumption DEF Nums
<1>3. S \in SUBSET Nums /\ E \in SUBSET Nums /\ S # {} /\ E # {}
  BY <1>1
<1>4. a \in S /\ \A y \in S : a <= y
  BY <1>2, <1>3, MinOfNaturals
<1>5. b \in E /\ \A y \in E : b >= y
  BY <1>2, <1>3, MaxOfNaturals
<1>6. PICK g \in G : a = Start(g)
  BY <1>4
<1>7. PICK h \in G : b = End(h)
  BY <1>5
<1>8. \A t \in G : a <= Start(t) /\ End(t) <= b
  BY <1>4, <1>5, <1>1, <1>2
<1>9. a \in Nums /\ b \in Nums /\ a <= b
  <2>1. a \in Nums /\ b \in Nums /\ a <= End(g) /\ End(g) <= b /\ End(g) \in Nums
    BY <1>1, <1>6, <1>7, <1>8
  <2>2. a \in Nat /\ b \in Nat /\ End(g) \in Nat
    BY <2>1, <1>2
  <2> HIDE DEF a, b
  <2>3. a <= b
    BY <2>1, <2>2
  <2> QED
    BY <2>1, <2>3
<1>10. TagOver(G) = <<a, b>>
  BY DEF TagOver
<1> HIDE DEF a, b, S, E
<1>11. TagOver(G) \in Tags /\ Start(TagOver(G)) = a /\ End(TagOver(G)) = b
  BY <1>9, <1>10 DEF Tags, Start, End
<1>12. \A n : TagOver(G) # <<n>>
  BY <1>10
<1> QED
  BY <1>6, <1>7, <1>8, <1>9, <1>11, <1>12

----------------------------------------------------------------------------
(***************************************************************************)
(* Storing an event.                                                       *)
(***************************************************************************)

\* What store() does to the log and the view.
LEMMA StoreEffect ==
  ASSUME StoreInv, NEW t \in Tags, NEW kids \in SUBSET Tags, ids <= MaxEvents,
         t \notin Listed, Store(t, kids), backend' = backend
  PROVE  /\ Stored' = Stored \cup {t}
         /\ events'[t] = [id |-> ids + 1, kids |-> kids]
         /\ \A u \in Stored \ {t} : events'[u] = events[u]
         /\ \A u \in Stored' : events'[u] \in [id : 1..(MaxEvents + 1), kids : SUBSET Tags]
         /\ archived' \subseteq Tags
         /\ next_tag' \in 1..(MaxEvents + 1) /\ next_tag <= next_tag' /\ Numbered'
         /\ ids' = ids + 1 /\ ids' \in 0..(MaxEvents + 1)
         /\ Listed' = Listed \cup {t} /\ ViewType' /\ ListKept'
         /\ \A u \in Listed : pos'[u] = pos[u]
         /\ ListKept /\ backend = "memory" => pos'[t] = Cardinality(Listed)
         /\ Cardinality(Listed') = Cardinality(Listed) + 1
<1> USE DEF StoreInv
<1>1. /\ MaxEvents \in Nat /\ ids \in Nat /\ next_tag \in 1..(MaxEvents + 1)
      /\ End(t) \in Nums /\ Nums = 1..MaxEvents
  BY EventLogAssumption, TagNumbers DEF LogType, Nums
<1>2. events' = [u \in Stored \cup {t} |-> IF u = t THEN [id |-> ids + 1, kids |-> kids] ELSE events[u]]
  BY DEF Store, Extend, Stored
<1>3. /\ Stored' = Stored \cup {t}
      /\ events'[t] = [id |-> ids + 1, kids |-> kids]
      /\ \A u \in Stored \ {t} : events'[u] = events[u]
  BY <1>2 DEF Stored
<1>4. [id |-> ids + 1, kids |-> kids] \in [id : 1..(MaxEvents + 1), kids : SUBSET Tags]
  BY <1>1
<1>5. \A u \in Stored' : events'[u] \in [id : 1..(MaxEvents + 1), kids : SUBSET Tags]
  BY <1>3, <1>4 DEF LogType
<1>6. archived' \subseteq Tags
  BY DEF Store, LogType
<1>7. next_tag' = IF next_tag >= End(t) + 1 THEN next_tag ELSE End(t) + 1
  BY <1>1, MaxOfTwo DEF Store
<1>8. next_tag' \in 1..(MaxEvents + 1) /\ next_tag <= next_tag' /\ End(t) < next_tag'
  BY <1>1, <1>7
<1>9. Numbered'
  <2>1. \A u \in Stored : End(u) \in Nums /\ End(u) < next_tag
    BY TagNumbers DEF LogType, Numbered
  <2>2. \A u \in Stored \cup {t} : End(u) < next_tag'
    BY <2>1, <1>8, <1>1
  <2> QED
    BY <2>2, <1>3 DEF Numbered, End
<1>10. ids' = ids + 1 /\ ids' \in 0..(MaxEvents + 1)
  BY <1>1 DEF Store
<1>11. pos' = AppendTag(t)
  BY DEF Store
<1>12. /\ AppendTag(t) \in [Listed \cup {t} -> Nat]
       /\ \A u \in Listed \ {t} : AppendTag(t)[u] = pos[u]
       /\ IsList(pos) => IsList(AppendTag(t)) /\ AppendTag(t)[t] = Cardinality(Listed)
  BY Appended
<1>13. Listed' = Listed \cup {t} /\ ViewType'
  BY <1>11, <1>12 DEF Listed, ViewType
<1>14. ListKept'
  BY <1>11, <1>12 DEF ListKept, IsList
<1>15. Cardinality(Listed') = Cardinality(Listed) + 1
  BY <1>13, TagsFinite, FS_AddElement DEF ViewType
<1> QED
  BY <1>3, <1>5, <1>6, <1>8, <1>9, <1>10, <1>11, <1>12, <1>13, <1>14, <1>15 DEF ListKept

\* A new event of the agent, by this manager or by the other one, keeps the
\* invariant, also in the middle of a collapse.
LEMMA RecordedKeeps ==
  ASSUME StoreInv, NEW n \in Nums, <<n>> \notin Stored, ids < MaxEvents, Recorded(n),
         UNCHANGED <<backend, call>>, other' \in {0, other}, other' # n
  PROVE  StoreInv'
<1> USE DEF StoreInv
<1> DEFINE t == <<n>>
<1>1. /\ t \in Tags /\ Start(t) = n /\ End(t) = n
      /\ \A m, k : t # <<m, k>>
  BY OriginalTag
<1>2. /\ n \in Nat /\ ids \in Nat /\ MaxEvents \in Nat
  BY EventLogAssumption DEF Nums, LogType
<1>3. t \notin Listed /\ ids <= MaxEvents /\ Store(t, {}) /\ backend' = backend
  BY <1>2 DEF Recorded
<1> HIDE DEF t
<1>4. /\ Stored' = Stored \cup {t}
      /\ events'[t] = [id |-> ids + 1, kids |-> {}]
      /\ \A u \in Stored \ {t} : events'[u] = events[u]
      /\ \A u \in Stored' : events'[u] \in [id : 1..(MaxEvents + 1), kids : SUBSET Tags]
      /\ archived' \subseteq Tags
      /\ next_tag' \in 1..(MaxEvents + 1) /\ next_tag <= next_tag' /\ Numbered'
      /\ ids' = ids + 1 /\ ids' \in 0..(MaxEvents + 1)
      /\ Listed' = Listed \cup {t} /\ ViewType' /\ ListKept'
      /\ Cardinality(Listed') = Cardinality(Listed) + 1
  BY <1>1, <1>3, StoreEffect
<1>5. given' = [m \in DOMAIN given \cup {n} |-> IF m = n THEN ids + 1 ELSE given[m]] /\ dropped' = dropped \ {n}
  BY DEF Recorded, Extend
<1>6. LogType'
  <2>1. Stored' \subseteq Tags /\ DOMAIN given' \subseteq Nums /\ dropped' \subseteq Nums
    BY <1>1, <1>4, <1>5 DEF LogType
  <2>2. other' \in 0..MaxEvents /\ backend' \in Backends
    BY <1>2 DEF LogType
  <2> QED
    BY <1>4, <2>1, <2>2 DEF LogType
<1>7. CallType'
  BY DEF CallType, call
<1>8. Returned'
  <2> SUFFICES ASSUME NEW m \in DOMAIN given' \ dropped'
               PROVE  <<m>> \in Stored' /\ events'[<<m>>].id = given'[m]
    BY DEF Returned
  <2>1. CASE m = n
    BY <2>1, <1>4, <1>5 DEF t
  <2>2. CASE m # n
    <3>1. m \in DOMAIN given \ dropped /\ given'[m] = given[m] /\ <<m>> # t
      BY <2>2, <1>5 DEF t
    <3>2. <<m>> \in Stored /\ events[<<m>>].id = given[m]
      BY <3>1 DEF Returned
    <3> QED
      BY <3>1, <3>2, <1>4
  <2> QED
    BY <2>1, <2>2
<1>9. HeldBack'
  <2> SUFFICES ASSUME other' # 0 PROVE <<other'>> \notin Stored' /\ other' < next_tag'
    BY DEF HeldBack
  <2>1. other' = other /\ other # 0 /\ other \in Nat /\ next_tag \in Nat
    BY DEF LogType
  <2>2. <<other>> \notin Stored /\ other < next_tag
    BY <2>1 DEF HeldBack
  <2>3. <<other>> # t
    BY <2>1 DEF t
  <2> QED
    BY <2>1, <2>2, <2>3, <1>4
<1>10. Listed' \subseteq Stored'
  BY <1>4
<1>11. UnderWay'
  <2>1. pc' = pc /\ gone' = gone /\ todo' = todo /\ place' = place /\ SummaryTag' = SummaryTag
    BY DEF call, SummaryTag
  <2>2. \A u \in Stored' : Start(u) <= End(u)
    BY <1>1, <1>2, <1>4 DEF UnderWay
  <2>3. Cardinality(Listed) \in Nat /\ place \in Nat
    BY TagsFinite DEF ViewType, CallType
  <2>4. pc # "idle" => t \notin gone \cup {SummaryTag}
    <3> SUFFICES ASSUME pc # "idle" PROVE t \notin gone \cup {SummaryTag}
      OBVIOUS
    <3>1. gone # {} /\ gone \subseteq Stored /\ gone \in SUBSET Tags /\ \A g \in gone : Start(g) <= End(g)
      BY DEF UnderWay, CallType
    <3>2. SummaryTag # t
      BY <3>1, SummarySpan DEF t, SummaryTag, TagOver
    <3> QED
      BY <3>1, <3>2 DEF t
  <2>5. pc \in Storing => Listed' \cap (gone \cup {SummaryTag}) \subseteq todo
    BY <2>4, <1>4 DEF UnderWay, Storing
  <2>6. pc = "place" => SummaryTag \notin Listed'
    BY <2>4, <1>4 DEF UnderWay
  <2>7. Cardinality(Listed') + (IF pc = "place" THEN 1 ELSE 0) <= ids'
    BY <2>3, <1>2, <1>4 DEF UnderWay
  <2>8. pc \in {"store", "place"} => place <= Cardinality(Listed')
    BY <2>3, <1>4 DEF UnderWay
  <2>9. pc = "move" => place < Cardinality(Listed')
    BY <2>3, <1>4 DEF UnderWay
  <2>10. ids' <= MaxEvents + (IF pc \in Storing THEN 0 ELSE 1)
    BY <1>2, <1>4
  <2>11. /\ pc # "idle" => gone # {} /\ gone \subseteq Stored'
         /\ pc \in Choosing => todo # {} /\ todo \subseteq Listed'
         /\ pc \notin Choosing => todo = {}
         /\ pc \in Placing => SummaryTag \in Stored'
         /\ pc = "move" => SummaryTag \in Listed'
    BY <1>4 DEF UnderWay
  <2> QED
    BY <2>1, <2>2, <2>5, <2>6, <2>7, <2>8, <2>9, <2>10, <2>11 DEF UnderWay, Start, End
<1> QED
  BY <1>4, <1>6, <1>7, <1>8, <1>9, <1>10, <1>11

\* An event of this manager is recorded and listed last.
LEMMA AddKeeps ==
  ASSUME StoreInv, Add
  PROVE  StoreInv'
<1>1. next_tag \in Nums /\ ids < MaxEvents
  BY EventLogAssumption DEF StoreInv, LogType, Add, Room, Nums
<1>2. <<next_tag>> \notin Stored
  BY <1>1, OriginalTag, EventLogAssumption DEF StoreInv, Numbered, Nums
<1>3. other' = other /\ other # next_tag
  BY <1>1, EventLogAssumption DEF Add, StoreInv, HeldBack, LogType, Nums
<1> QED
  BY <1>1, <1>2, <1>3, RecordedKeeps DEF Add

\* The other manager stores the event it has a serial number for.
LEMMA OtherStoresKeeps ==
  ASSUME StoreInv, OtherStores
  PROVE  StoreInv'
<1>1. other \in Nums /\ ids < MaxEvents
  BY EventLogAssumption DEF StoreInv, LogType, OtherStores, Nums
<1>2. <<other>> \notin Stored /\ other' = 0 /\ other # 0
  BY DEF StoreInv, HeldBack, OtherStores
<1> QED
  BY <1>1, <1>2, RecordedKeeps DEF OtherStores

----------------------------------------------------------------------------
(***************************************************************************)
(* The steps of a collapse.                                                *)
(***************************************************************************)

\* What a step that leaves the stored events alone need not say again.
LEMMA LogUntouched ==
  ASSUME StoreInv, UNCHANGED <<backend, events, next_tag, other, hist>>, archived' \subseteq Tags
  PROVE  /\ LogType' /\ Returned' /\ Numbered' /\ HeldBack'
         /\ Stored' = Stored /\ ids' = ids
<1>1. Stored' = Stored /\ ids' = ids
  BY DEF Stored, hist
<1>2. LogType'
  BY <1>1 DEF StoreInv, LogType, hist
<1>3. Returned' /\ Numbered' /\ HeldBack'
  BY <1>1 DEF StoreInv, Returned, Numbered, HeldBack, hist, End
<1> QED
  BY <1>1, <1>2, <1>3

\* A step that moves no event in the view.
LEMMA ViewUntouched ==
  ASSUME StoreInv, UNCHANGED <<backend, pos>>
  PROVE  ViewType' /\ ListKept' /\ Listed' = Listed
BY DEF StoreInv, ViewType, ListKept, Listed, IsList

\* The tag of the summary depends on what is collapsed only.
LEMMA SummaryTagIs ==
  /\ SummaryTag = TagOver(gone)
  /\ SummaryTag' = TagOver(gone')
BY DEF SummaryTag, TagOver, Start, End

\* Some members of the view come first.
LEMMA FirstListed ==
  ASSUME ViewType, NEW S \in SUBSET Listed, S # {}
  PROVE  \E t \in S : \A u \in S : pos[t] <= pos[u]
<1> DEFINE P == {pos[u] : u \in S}
<1>1. P \in SUBSET Nat /\ P # {}
  BY DEF ViewType
<1>2. Min(P) \in P /\ \A y \in P : Min(P) <= y
  BY <1>1, MinOfNaturals
<1>3. PICK t \in S : pos[t] = Min(P)
  BY <1>2
<1> QED
  BY <1>2, <1>3

\* A collapse starts and removes nothing yet.
LEMMA CollapseKeeps ==
  ASSUME StoreInv, NEW s \in Nums, NEW e \in Nums, Collapse(s, e)
  PROVE  StoreInv'
<1> USE DEF StoreInv
<1> DEFINE G == Overlapping(s, e)
<1>1. /\ G # {} /\ G \subseteq Listed
      /\ gone' = G /\ todo' = G /\ pc' = "archive"
      /\ UNCHANGED <<backend, events, archived, pos, next_tag, other, hist>>
  BY DEF Collapse, Overlapping, store
<1>2. LogType' /\ Returned' /\ Numbered' /\ HeldBack' /\ Stored' = Stored /\ ids' = ids
  BY <1>1, LogUntouched DEF LogType
<1>3. ViewType' /\ ListKept' /\ Listed' = Listed
  BY <1>1, ViewUntouched
<1>4. G \in SUBSET Tags /\ \A g \in G : Start(g) <= End(g)
  BY <1>1 DEF ViewType, UnderWay
<1>5. place' \in Nums
  <2>1. PICK first \in G : \A u \in G : pos[first] <= pos[u]
    BY <1>1, FirstListed
  <2>2. place' = Start(CHOOSE t \in G : \A u \in G : pos[t] <= pos[u])
    BY <1>1 DEF Collapse
  <2> QED
    BY <1>4, <2>1, <2>2, TagNumbers
<1>6. CallType'
  BY <1>1, <1>4, <1>5, EventLogAssumption DEF CallType, Nums
<1>7. TagOver(G) \in Listed => TagOver(G) \in G
  <2> SUFFICES ASSUME TagOver(G) \in Listed PROVE TagOver(G) \in G
    OBVIOUS
  <2>1. PICK g \in G : Start(TagOver(G)) = Start(g)
    BY <1>1, <1>4, SummarySpan
  <2>2. PICK h \in G : End(TagOver(G)) = End(h)
    BY <1>1, <1>4, SummarySpan
  <2>3. Start(g) <= e /\ End(h) >= s
    BY DEF Overlapping
  <2> QED
    BY <2>1, <2>2, <2>3 DEF Overlapping
<1>8. UnderWay'
  <2>1. SummaryTag' = TagOver(G)
    BY <1>1, SummaryTagIs
  <2>2. \A t \in Stored' : Start(t) <= End(t)
    BY <1>2 DEF UnderWay
  <2>3. gone' # {} /\ gone' \subseteq Stored' /\ todo' # {} /\ todo' \subseteq Listed'
    BY <1>1, <1>2, <1>3
  <2>4. Listed' \cap (gone' \cup {SummaryTag'}) \subseteq todo'
    BY <1>1, <1>3, <1>7, <2>1
  <2>5. Cardinality(Listed') + 0 <= ids' /\ ids' <= MaxEvents + 0
    <3>1. pc = "idle" /\ ids < MaxEvents
      BY DEF Collapse
    <3>2. Cardinality(Listed) \in Nat /\ ids \in Nat /\ MaxEvents \in Nat
      BY TagsFinite, EventLogAssumption DEF ViewType, LogType
    <3>3. Cardinality(Listed) + 0 <= ids
      BY <3>1 DEF UnderWay
    <3> QED
      BY <3>1, <3>2, <3>3, <1>2, <1>3
  <2> HIDE DEF G
  <2> QED
    BY <1>1, <2>2, <2>3, <2>4, <2>5 DEF UnderWay, Storing, Choosing, Placing, Start, End
<1> QED
  BY <1>2, <1>3, <1>1, <1>6, <1>8

\* An event is marked as archived and still listed.
LEMMA ArchiveKeeps ==
  ASSUME StoreInv, Archive
  PROVE  StoreInv'
<1> USE DEF StoreInv
<1>1. /\ pc = "archive" /\ pc' = "unlist" /\ archived' \subseteq Tags
      /\ UNCHANGED <<backend, events, pos, next_tag, todo, gone, place, other, hist>>
  BY DEF Archive, LogType, CallType
<1>2. LogType' /\ Returned' /\ Numbered' /\ HeldBack' /\ Stored' = Stored /\ ids' = ids
  BY <1>1, LogUntouched
<1>3. ViewType' /\ ListKept' /\ Listed' = Listed
  BY <1>1, ViewUntouched
<1>4. CallType'
  BY <1>1 DEF CallType
<1>5. UnderWay'
  BY <1>1, <1>2, <1>3, SummaryTagIs DEF UnderWay, Storing, Choosing, Placing, Start, End
<1> QED
  BY <1>2, <1>3, <1>4, <1>5

\* What taking a tag out of the view does to it.
LEMMA UnlistEffect ==
  ASSUME StoreInv, NEW t, pos' = Unlist({t}), backend' = backend
  PROVE  /\ Listed' = Listed \ {t} /\ ViewType' /\ ListKept'
         /\ Cardinality(Listed) \in Nat
         /\ Cardinality(Listed') = IF t \in Listed THEN Cardinality(Listed) - 1 ELSE Cardinality(Listed)
<1>1. backend \in {"memory", "sqlite"}
  BY EventLogAssumption DEF StoreInv, LogType
<1>2. /\ Unlist({t}) \in [Listed \ {t} -> Nat]
      /\ backend # "sqlite" /\ IsList(pos) => IsList(Unlist({t}))
  BY Unlisted DEF StoreInv
<1>3. Listed' = Listed \ {t}
  BY <1>2 DEF Listed
<1>4. ViewType'
  BY <1>2, <1>3 DEF StoreInv, ViewType
<1>5. ListKept'
  BY <1>1, <1>2 DEF StoreInv, ListKept, IsList
<1>6. IsFiniteSet(Listed) /\ Cardinality(Listed) \in Nat
  BY TagsFinite DEF StoreInv, ViewType
<1> QED
  BY <1>3, <1>4, <1>5, <1>6, FS_RemoveElement

\* An archived event leaves the view.
LEMMA CollapseUnlistKeeps ==
  ASSUME StoreInv, CollapseUnlist
  PROVE  StoreInv'
<1> USE DEF StoreInv
<1>1. PICK t \in todo :
        /\ pos' = Unlist({t}) /\ todo' = todo \ {t}
        /\ pc' = IF todo = {t} THEN "index" ELSE "archive"
  BY DEF CollapseUnlist
<1>2. /\ pc = "unlist"
      /\ UNCHANGED <<backend, events, archived, next_tag, gone, place, other, hist>>
  BY DEF CollapseUnlist
<1>3. LogType' /\ Returned' /\ Numbered' /\ HeldBack' /\ Stored' = Stored /\ ids' = ids
  BY <1>2, LogUntouched DEF LogType
<1>4. t \in Listed
  BY <1>2 DEF UnderWay, Choosing
<1>5. /\ Listed' = Listed \ {t} /\ ViewType' /\ ListKept'
      /\ Cardinality(Listed) \in Nat /\ Cardinality(Listed') = Cardinality(Listed) - 1
  BY <1>1, <1>2, <1>4, UnlistEffect
<1>6. CallType'
  BY <1>1, <1>2 DEF CallType
<1>7. UnderWay'
  <2>1. SummaryTag' = SummaryTag
    BY <1>2, SummaryTagIs
  <2>2. /\ \A u \in Stored' : Start(u) <= End(u)
        /\ gone' # {} /\ gone' \subseteq Stored'
    BY <1>2, <1>3 DEF UnderWay
  <2>3. Listed' \cap (gone' \cup {SummaryTag'}) \subseteq todo'
    BY <1>1, <1>2, <1>5, <2>1 DEF UnderWay, Storing
  <2>4. /\ pc' = "archive" => todo' # {} /\ todo' \subseteq Listed'
        /\ pc' = "index" => todo' = {}
        /\ pc' \in {"archive", "index"}
    BY <1>1, <1>2, <1>5 DEF UnderWay, Choosing
  <2>5. Cardinality(Listed') + 0 <= ids' /\ ids' <= MaxEvents + 0
    <3>1. Cardinality(Listed) + 0 <= ids /\ ids <= MaxEvents + 0 /\ ids \in Nat
      BY <1>2 DEF UnderWay, Storing, LogType
    <3> QED
      BY <3>1, <1>3, <1>5
  <2> QED
    BY <2>2, <2>3, <2>4, <2>5 DEF UnderWay, Storing, Choosing, Placing, Start, End
<1> QED
  BY <1>3, <1>5, <1>6, <1>7

\* The place of the summary in the view is chosen.
LEMMA IndexKeeps ==
  ASSUME StoreInv, Index
  PROVE  StoreInv'
<1> USE DEF StoreInv
<1>1. /\ pc = "index" /\ pc' = "store" /\ place' = InsertIndex(place)
      /\ UNCHANGED <<backend, events, archived, pos, next_tag, todo, gone, other, hist>>
  BY DEF Index, store
<1>2. LogType' /\ Returned' /\ Numbered' /\ HeldBack' /\ Stored' = Stored /\ ids' = ids
  BY <1>1, LogUntouched DEF LogType
<1>3. ViewType' /\ ListKept' /\ Listed' = Listed
  BY <1>1, ViewUntouched
<1>4. place' \in Nat /\ place' <= Cardinality(Listed)
  BY <1>1, IndexInView
<1>5. Cardinality(Listed) \in Nat /\ Cardinality(Listed) + 0 <= ids /\ ids <= MaxEvents + 0
  BY <1>1, TagsFinite DEF ViewType, UnderWay, Storing
<1>6. CallType'
  <2>1. place' \in 0..(MaxEvents + 1)
    BY <1>4, <1>5, EventLogAssumption DEF LogType
  <2> QED
    BY <1>1, <2>1 DEF CallType
<1>7. UnderWay'
  <2>1. SummaryTag' = SummaryTag
    BY <1>1, SummaryTagIs
  <2>2. place' <= Cardinality(Listed')
    BY <1>3, <1>4
  <2> QED
    BY <1>1, <1>2, <1>3, <2>1, <2>2 DEF UnderWay, Storing, Choosing, Placing, Start, End
<1> QED
  BY <1>2, <1>3, <1>6, <1>7

\* The summary is recorded under the tag of what it stands for.
LEMMA StoreSummaryKeeps ==
  ASSUME StoreInv, StoreSummary
  PROVE  StoreInv'
<1> USE DEF StoreInv
<1>1. /\ pc = "store" /\ pc' = "move" /\ Store(SummaryTag, gone)
      /\ UNCHANGED <<backend, todo, gone, place, other, given, dropped>>
  BY DEF StoreSummary
<1>2. /\ gone # {} /\ gone \subseteq Stored /\ gone \in SUBSET Tags
      /\ \A g \in gone : Start(g) <= End(g)
      /\ todo = {} /\ SummaryTag \notin Listed
      /\ place <= Cardinality(Listed) /\ ids <= MaxEvents + 0
      /\ Cardinality(Listed) + 0 <= ids
  BY <1>1 DEF CallType, UnderWay, Storing, Choosing
<1>3. /\ SummaryTag \in Tags /\ Start(SummaryTag) <= End(SummaryTag)
      /\ \A n : SummaryTag # <<n>>
  BY <1>2, SummarySpan, SummaryTagIs
<1>4. /\ ids \in Nat /\ MaxEvents \in Nat /\ ids <= MaxEvents
      /\ Cardinality(Listed) \in Nat /\ Cardinality(Listed) <= ids /\ place \in Nat
  BY <1>2, EventLogAssumption, TagsFinite DEF LogType, ViewType, CallType
<1>5. /\ Stored' = Stored \cup {SummaryTag}
      /\ \A u \in Stored \ {SummaryTag} : events'[u] = events[u]
      /\ \A u \in Stored' : events'[u] \in [id : 1..(MaxEvents + 1), kids : SUBSET Tags]
      /\ archived' \subseteq Tags
      /\ next_tag' \in 1..(MaxEvents + 1) /\ next_tag <= next_tag' /\ Numbered'
      /\ ids' = ids + 1 /\ ids' \in 0..(MaxEvents + 1)
      /\ Listed' = Listed \cup {SummaryTag} /\ ViewType' /\ ListKept'
      /\ Cardinality(Listed') = Cardinality(Listed) + 1
  BY <1>1, <1>2, <1>3, <1>4, StoreEffect
<1>6. LogType'
  <2>1. Stored' \subseteq Tags /\ backend' \in Backends /\ other' \in 0..MaxEvents
        /\ DOMAIN given' \subseteq Nums /\ dropped' \subseteq Nums
    BY <1>1, <1>3, <1>5 DEF LogType
  <2> QED
    BY <1>5, <2>1 DEF LogType
<1>7. CallType'
  BY <1>1 DEF CallType
<1>8. Returned'
  BY <1>1, <1>3, <1>5 DEF Returned
<1>9. HeldBack'
  <2>1. other' = other /\ other \in Nat /\ next_tag \in Nat
    BY <1>1 DEF LogType
  <2> QED
    BY <2>1, <1>3, <1>5 DEF HeldBack
<1>10. UnderWay'
  <2>1. SummaryTag' = SummaryTag
    BY <1>1, SummaryTagIs
  <2>2. \A u \in Stored' : Start(u) <= End(u)
    BY <1>3, <1>5 DEF UnderWay
  <2>3. /\ Cardinality(Listed') + 0 <= ids' /\ ids' <= MaxEvents + 1
        /\ place' < Cardinality(Listed')
    <3>1. Cardinality(Listed') = Cardinality(Listed) + 1 /\ ids' = ids + 1 /\ place' = place
      BY <1>1, <1>5
    <3>2. place <= Cardinality(Listed)
      BY <1>2
    <3> QED
      BY <3>1, <3>2, <1>4
  <2>4. /\ gone' # {} /\ gone' \subseteq Stored' /\ todo' = {}
        /\ SummaryTag' \in Stored' /\ SummaryTag' \in Listed'
    BY <1>1, <1>2, <1>5, <2>1
  <2> QED
    BY <1>1, <2>2, <2>3, <2>4 DEF UnderWay, Storing, Choosing, Placing, Start, End
<1> QED
  BY <1>5, <1>6, <1>7, <1>8, <1>9, <1>10

\* The summary is refused, as its tag is taken.
LEMMA StoreRefusedKeeps ==
  ASSUME StoreInv, StoreRefused
  PROVE  StoreInv'
<1> USE DEF StoreInv
<1>1. /\ pc = "store" /\ pc' = "idle" /\ gone' = {} /\ place' = 0
      /\ UNCHANGED <<backend, events, archived, pos, next_tag, todo, other, hist>>
  BY DEF StoreRefused, store
<1>2. LogType' /\ Returned' /\ Numbered' /\ HeldBack' /\ Stored' = Stored /\ ids' = ids
  BY <1>1, LogUntouched DEF LogType
<1>3. ViewType' /\ ListKept' /\ Listed' = Listed
  BY <1>1, ViewUntouched
<1>4. todo' = {}
  BY <1>1 DEF UnderWay, Choosing
<1>5. CallType'
  BY <1>1, <1>4, EventLogAssumption DEF CallType
<1>6. UnderWay'
  <2>1. ids <= MaxEvents + 0 /\ ids \in Nat /\ MaxEvents \in Nat
    BY <1>1, EventLogAssumption DEF UnderWay, Storing, LogType
  <2>2. ids' <= MaxEvents + 1
    BY <2>1, <1>2
  <2>3. Cardinality(Listed') + 0 <= ids' /\ \A u \in Stored' : Start(u) <= End(u)
    BY <1>1, <1>2, <1>3 DEF UnderWay
  <2> QED
    BY <1>1, <1>4, <2>2, <2>3 DEF UnderWay, Storing, Choosing, Placing, Start, End
<1> QED
  BY <1>2, <1>3, <1>5, <1>6

\* The summary is taken off the end of the view.
LEMMA MoveKeeps ==
  ASSUME StoreInv, Move
  PROVE  StoreInv'
<1> USE DEF StoreInv
<1>1. /\ pc = "move" /\ pc' = "place" /\ pos' = Unlist({SummaryTag})
      /\ UNCHANGED <<backend, events, archived, next_tag, todo, gone, place, other, hist>>
  BY DEF Move
<1>2. LogType' /\ Returned' /\ Numbered' /\ HeldBack' /\ Stored' = Stored /\ ids' = ids
  BY <1>1, LogUntouched DEF LogType
<1>3. SummaryTag \in Listed
  BY <1>1 DEF UnderWay
<1>4. /\ Listed' = Listed \ {SummaryTag} /\ ViewType' /\ ListKept'
      /\ Cardinality(Listed) \in Nat /\ Cardinality(Listed') = Cardinality(Listed) - 1
  BY <1>1, <1>3, UnlistEffect
<1>5. CallType'
  BY <1>1 DEF CallType
<1>6. UnderWay'
  <2>1. SummaryTag' = SummaryTag
    BY <1>1, SummaryTagIs
  <2>2. /\ \A u \in Stored' : Start(u) <= End(u)
        /\ gone' # {} /\ gone' \subseteq Stored' /\ todo' = {} /\ SummaryTag' \in Stored'
    BY <1>1, <1>2, <2>1 DEF UnderWay, Choosing, Placing
  <2>3. SummaryTag' \notin Listed'
    BY <1>4, <2>1
  <2>4. Cardinality(Listed) + 0 <= ids /\ place < Cardinality(Listed) /\ ids <= MaxEvents + 1
    BY <1>1 DEF UnderWay, Storing
  <2>5. ids \in Nat /\ place \in Nat /\ place' = place
    BY <1>1 DEF LogType, CallType
  <2>6. Cardinality(Listed') + 1 <= ids' /\ place' <= Cardinality(Listed') /\ ids' <= MaxEvents + 1
    BY <1>2, <1>4, <2>4, <2>5
  <2> QED
    BY <1>1, <2>2, <2>3, <2>6 DEF UnderWay, Storing, Choosing, Placing, Start, End
<1> QED
  BY <1>2, <1>4, <1>5, <1>6

\* The summary gets its place.
LEMMA PlaceKeeps ==
  ASSUME StoreInv, Place
  PROVE  StoreInv'
<1> USE DEF StoreInv
<1>1. /\ pc = "place" /\ pc' = "idle" /\ gone' = {} /\ place' = 0
      /\ pos' = InsertTag(SummaryTag, place)
      /\ UNCHANGED <<backend, events, archived, next_tag, todo, other, hist>>
  BY DEF Place
<1>2. LogType' /\ Returned' /\ Numbered' /\ HeldBack' /\ Stored' = Stored /\ ids' = ids
  BY <1>1, LogUntouched DEF LogType
<1>3. /\ SummaryTag \notin Listed /\ SummaryTag \in Stored /\ todo = {}
      /\ place <= Cardinality(Listed) /\ Cardinality(Listed) + 1 <= ids /\ ids <= MaxEvents + 1
  BY <1>1 DEF UnderWay, Placing, Choosing, Storing
<1>4. place \in Nat
  BY DEF CallType
<1>5. /\ InsertTag(SummaryTag, place) \in [Listed \cup {SummaryTag} -> Nat]
      /\ IsList(pos) => IsList(InsertTag(SummaryTag, place))
  BY <1>3, <1>4, Inserted
<1>6. Listed' = Listed \cup {SummaryTag}
  BY <1>1, <1>5 DEF Listed
<1>7. ViewType'
  BY <1>1, <1>3, <1>5, <1>6 DEF ViewType, LogType
<1>8. ListKept'
  BY <1>1, <1>5 DEF ListKept, IsList
<1>9. Listed' \subseteq Stored'
  BY <1>2, <1>3, <1>6
<1>10. CallType'
  BY <1>1, <1>3, EventLogAssumption DEF CallType
<1>11. UnderWay'
  <2>1. Cardinality(Listed') = Cardinality(Listed) + 1
    BY <1>3, <1>6, TagsFinite, FS_AddElement DEF ViewType
  <2>2. Cardinality(Listed') + 0 <= ids' /\ ids' <= MaxEvents + 1
    BY <1>2, <1>3, <2>1, TagsFinite DEF ViewType
  <2>3. \A u \in Stored' : Start(u) <= End(u)
    BY <1>2 DEF UnderWay
  <2> QED
    BY <1>1, <1>3, <2>2, <2>3 DEF UnderWay, Storing, Choosing, Placing, Start, End
<1> QED
  BY <1>2, <1>7, <1>8, <1>9, <1>10, <1>11

----------------------------------------------------------------------------
(***************************************************************************)
(* The other writer, removals, crashes and failures.                       *)
(***************************************************************************)

\* A step that changes neither the view nor what a collapse looks at.
LEMMA CallUntouched ==
  ASSUME StoreInv, UNCHANGED <<call, pos>>, Stored' = Stored, ids' = ids
  PROVE  CallType' /\ UnderWay'
<1>1. Listed' = Listed /\ SummaryTag' = SummaryTag
  BY SummaryTagIs DEF Listed, call
<1>2. CallType'
  BY DEF StoreInv, CallType, call
<1>3. UnderWay'
  BY <1>1 DEF StoreInv, UnderWay, call, Start, End
<1> QED
  BY <1>2, <1>3

\* The other manager takes the next serial number.
LEMMA OtherAllocatesKeeps ==
  ASSUME StoreInv, OtherAllocates
  PROVE  StoreInv'
<1> USE DEF StoreInv
<1>1. /\ other' = next_tag /\ next_tag' = next_tag + 1 /\ next_tag <= MaxEvents
      /\ UNCHANGED <<backend, events, archived, pos, call, hist>>
  BY DEF OtherAllocates, Room
<1>2. Stored' = Stored /\ ids' = ids
  BY <1>1 DEF Stored, hist
<1>3. ViewType' /\ ListKept' /\ Listed' = Listed
  BY <1>1, ViewUntouched
<1>4. CallType' /\ UnderWay'
  BY <1>1, <1>2, CallUntouched
<1>5. /\ next_tag \in 1..(MaxEvents + 1) /\ MaxEvents \in Nat
      /\ \A u \in Stored : End(u) \in Nums /\ End(u) < next_tag
  BY EventLogAssumption, TagNumbers DEF LogType, Numbered
<1>6. LogType'
  <2>1. next_tag' \in 1..(MaxEvents + 1) /\ other' \in 0..MaxEvents
    BY <1>1, <1>5
  <2> QED
    BY <1>1, <1>2, <2>1 DEF LogType, hist
<1>7. Returned'
  BY <1>1, <1>2 DEF Returned, hist
<1>8. Numbered'
  <2>1. \A u \in Stored : End(u) < next_tag'
    BY <1>1, <1>5 DEF Nums
  <2> QED
    BY <1>2, <2>1 DEF Numbered, End
<1>9. HeldBack'
  <2>1. next_tag \in Nums
    BY <1>1, <1>5 DEF Nums
  <2>2. <<next_tag>> \notin Stored
    <3>1. End(<<next_tag>>) = next_tag
      BY <2>1, OriginalTag
    <3> QED
      BY <3>1, <1>5
  <2> QED
    BY <1>1, <1>2, <1>5, <2>2 DEF HeldBack
<1> QED
  BY <1>2, <1>3, <1>4, <1>6, <1>7, <1>8, <1>9

\* An event is removed by its tag.
LEMMA RemoveKeeps ==
  ASSUME StoreInv, NEW t \in Stored, Remove(t)
  PROVE  StoreInv'
<1> USE DEF StoreInv
<1> DEFINE cut == IF t \in Listed THEN Span(t) ELSE IF Len(t) = 1 THEN {t[1]} ELSE {}
<1>1. /\ pc = "idle"
      /\ events' = [u \in Stored \ {t} |-> events[u]] /\ archived' = archived \ {t}
      /\ pos' = Unlist({t}) /\ dropped' = dropped \cup cut
      /\ UNCHANGED <<backend, next_tag, call, other, ids, given>>
  BY DEF Remove, Without, Stored
<1>2. Stored' = Stored \ {t} /\ \A u \in Stored' : events'[u] = events[u]
  BY <1>1 DEF Stored
<1>3. /\ Listed' = Listed \ {t} /\ ViewType' /\ ListKept'
      /\ Cardinality(Listed) \in Nat
      /\ Cardinality(Listed') = IF t \in Listed THEN Cardinality(Listed) - 1 ELSE Cardinality(Listed)
  BY <1>1, UnlistEffect
<1>4. t \in Tags /\ Start(t) \in Nums /\ End(t) \in Nums
  BY TagNumbers DEF LogType
<1>5. cut \subseteq Nums
  <2>1. Span(t) \subseteq Nums
    <3>1. MaxEvents \in Nat /\ Start(t) \in 1..MaxEvents /\ End(t) \in 1..MaxEvents
      BY <1>4, EventLogAssumption DEF Nums
    <3>2. \A n \in Start(t)..End(t) : n \in 1..MaxEvents
      BY <3>1
    <3> QED
      BY <3>2 DEF Span, Nums
  <2>2. {t[1]} \subseteq Nums
    BY <1>4 DEF Start
  <2> QED
    BY <2>1, <2>2
<1>6. \A n \in Nums : t = <<n>> => n \in cut
  <2> TAKE n \in Nums
  <2> HAVE t = <<n>>
  <2>1. Start(t) = n /\ End(t) = n /\ t[1] = n /\ Len(t) = 1
    BY OriginalTag
  <2>2. n \in Span(t)
    BY <2>1 DEF Span, Nums
  <2> QED
    BY <2>1, <2>2
<1> HIDE DEF cut
<1>7. LogType'
  <2>1. Stored' \subseteq Tags /\ archived' \subseteq Tags /\ dropped' \subseteq Nums
    BY <1>1, <1>2, <1>5 DEF LogType
  <2> QED
    BY <1>1, <1>2, <2>1 DEF LogType
<1>8. CallType'
  BY <1>1 DEF CallType, call
<1>9. Returned'
  <2> SUFFICES ASSUME NEW n \in DOMAIN given' \ dropped'
               PROVE  <<n>> \in Stored' /\ events'[<<n>>].id = given'[n]
    BY DEF Returned
  <2>1. n \in DOMAIN given \ dropped /\ n \notin cut /\ given' = given
    BY <1>1
  <2>2. <<n>> \in Stored /\ events[<<n>>].id = given[n] /\ n \in Nums
    BY <2>1 DEF Returned, LogType
  <2>3. <<n>> # t
    BY <2>1, <2>2, <1>6
  <2> QED
    BY <2>1, <2>2, <2>3, <1>2
<1>10. Numbered' /\ HeldBack'
  BY <1>1, <1>2 DEF Numbered, HeldBack, End
<1>11. UnderWay'
  <2>1. pc' = "idle" /\ todo' = {} /\ ids' = ids
    BY <1>1 DEF UnderWay, call, Choosing
  <2>2. Cardinality(Listed) + 0 <= ids /\ ids <= MaxEvents + 1 /\ ids \in Nat
    BY <1>1 DEF UnderWay, Storing, LogType
  <2>3. Cardinality(Listed') + 0 <= ids'
    BY <2>1, <2>2, <1>3
  <2>4. \A u \in Stored' : Start(u) <= End(u)
    BY <1>2 DEF UnderWay
  <2> QED
    BY <2>1, <2>2, <2>3, <2>4 DEF UnderWay, Storing, Choosing, Placing, Start, End
<1> QED
  BY <1>2, <1>3, <1>7, <1>8, <1>9, <1>10, <1>11

\* The log is cleared and numbered from one again.
LEMMA ClearKeeps ==
  ASSUME StoreInv, Clear
  PROVE  StoreInv'
<1> USE DEF StoreInv
<1>1. /\ pc = "idle" /\ other = 0
      /\ events' = Empty /\ archived' = {} /\ pos' = Empty /\ next_tag' = 1
      /\ given' = Empty /\ dropped' = {}
      /\ UNCHANGED <<backend, call, other, ids>>
  BY DEF Clear
<1>2. Stored' = {} /\ Listed' = {} /\ DOMAIN given' = {}
  BY <1>1 DEF Stored, Listed, Empty
<1>3. LogType'
  BY <1>1, <1>2, EventLogAssumption DEF LogType
<1>4. ViewType'
  BY <1>1, <1>2 DEF ViewType, Empty
<1>5. CallType'
  BY <1>1 DEF CallType, call
<1>6. Returned' /\ Numbered' /\ HeldBack'
  BY <1>1, <1>2 DEF Returned, Numbered, HeldBack
<1>7. Cardinality({}) = 0 /\ 0..(0 - 1) = {}
  BY FS_EmptySet
<1>8. ListKept'
  <2>1. IsList(Empty)
    BY <1>7 DEF IsList, Empty
  <2> QED
    BY <1>1, <2>1 DEF ListKept, IsList
<1>9. UnderWay'
  <2>1. pc' = "idle" /\ todo' = {} /\ ids' = ids
    BY <1>1 DEF UnderWay, call, Choosing
  <2>2. ids <= MaxEvents + 1 /\ ids \in Nat
    BY <1>1 DEF UnderWay, Storing, LogType
  <2> QED
    BY <1>2, <1>7, <2>1, <2>2 DEF UnderWay, Storing, Choosing, Placing, Start, End
<1> QED
  BY <1>2, <1>3, <1>4, <1>5, <1>6, <1>8, <1>9

\* A collapse that is cut short leaves the view as it is.
LEMMA CutShort ==
  ASSUME StoreInv, UNCHANGED <<pos, ids>>, Stored' = Stored,
         pc' = "idle", todo' = {}, gone' = {}, place' = 0
  PROVE  CallType' /\ UnderWay'
<1> USE DEF StoreInv
<1>1. Listed' = Listed
  BY DEF Listed
<1>2. CallType'
  BY EventLogAssumption DEF CallType
<1>3. /\ ids \in Nat /\ MaxEvents \in Nat /\ Cardinality(Listed) \in Nat
  BY EventLogAssumption, TagsFinite DEF LogType, ViewType
<1>4. Cardinality(Listed) + 0 <= ids /\ ids <= MaxEvents + 1
  BY <1>3 DEF UnderWay
<1>5. UnderWay'
  <2>1. \A u \in Stored' : Start(u) <= End(u)
    BY DEF UnderWay
  <2> QED
    BY <1>1, <1>4, <2>1 DEF UnderWay, Storing, Choosing, Placing, Start, End
<1> QED
  BY <1>2, <1>5

\* The process ends and another one opens the log.
LEMMA ReopenKeeps ==
  ASSUME StoreInv, Reopen
  PROVE  StoreInv'
<1> USE DEF StoreInv
<1>1. /\ next_tag' = LastNumber(Stored) + 1 /\ other' = 0
      /\ pc' = "idle" /\ todo' = {} /\ gone' = {} /\ place' = 0
      /\ UNCHANGED <<backend, events, archived, pos, hist>>
  BY DEF Reopen
<1>2. Stored' = Stored /\ ids' = ids
  BY <1>1 DEF Stored, hist
<1>3. ViewType' /\ ListKept' /\ Listed' = Listed
  BY <1>1, ViewUntouched
<1>4. CallType' /\ UnderWay'
  BY <1>1, <1>2, CutShort
<1>5. /\ LastNumber(Stored) \in 0..MaxEvents
      /\ \A u \in Stored : End(u) <= LastNumber(Stored)
  <2> DEFINE E == {End(u) : u \in Stored}
  <2>1. E \in SUBSET Nat /\ E \subseteq 1..MaxEvents /\ \A y \in E : y <= MaxEvents
    BY TagNumbers DEF LogType, Nums
  <2>2. CASE Stored = {}
    BY <2>2, EventLogAssumption DEF LastNumber
  <2>3. CASE Stored # {}
    <3>1. E # {} /\ MaxEvents \in Nat
      BY <2>3, EventLogAssumption
    <3>2. Max(E) \in E /\ \A y \in E : Max(E) >= y
      BY <2>1, <3>1, MaxOfNaturals
    <3>3. LastNumber(Stored) = Max(E)
      BY <2>3 DEF LastNumber
    <3>4. \A u \in Stored : End(u) \in E
      OBVIOUS
    <3> HIDE DEF E
    <3>5. LastNumber(Stored) \in 1..MaxEvents
      BY <2>1, <3>2, <3>3
    <3>6. \A u \in Stored : LastNumber(Stored) >= End(u) /\ End(u) \in 1..MaxEvents
      BY <2>1, <3>2, <3>3, <3>4
    <3> QED
      BY <3>1, <3>5, <3>6
  <2> QED
    BY <2>2, <2>3
<1>6. LogType'
  BY <1>1, <1>2, <1>5, EventLogAssumption DEF LogType, hist
<1>7. Returned' /\ HeldBack'
  BY <1>1, <1>2 DEF Returned, HeldBack, hist
<1>8. Numbered'
  <2>1. \A u \in Stored : End(u) \in Nums
    BY TagNumbers DEF LogType
  <2>2. \A u \in Stored : End(u) < next_tag'
    BY <1>1, <1>5, <2>1 DEF Nums
  <2> QED
    BY <1>2, <2>2 DEF Numbered, End
<1> QED
  BY <1>2, <1>3, <1>4, <1>6, <1>7, <1>8

\* A statement of a collapse fails, and the call with it.
LEMMA StatementFailsKeeps ==
  ASSUME StoreInv, StatementFails
  PROVE  StoreInv'
<1>1. /\ pc' = "idle" /\ todo' = {} /\ gone' = {} /\ place' = 0
      /\ UNCHANGED <<backend, events, archived, pos, next_tag, other, hist>>
  BY DEF StatementFails, store
<1>2. LogType' /\ Returned' /\ Numbered' /\ HeldBack' /\ Stored' = Stored /\ ids' = ids
  BY <1>1, LogUntouched DEF StoreInv, LogType
<1>3. ViewType' /\ ListKept' /\ Listed' = Listed
  BY <1>1, ViewUntouched
<1>4. CallType' /\ UnderWay'
  BY <1>1, <1>2, CutShort DEF hist
<1> QED
  BY <1>2, <1>3, <1>4 DEF StoreInv

\* Every step keeps what is known about the stored events.
LEMMA StoreInvNext ==
  ASSUME StoreInv, [Next]_vars
  PROVE  StoreInv'
<1>1. CASE UNCHANGED vars
  <2>1. UNCHANGED <<backend, events, archived, pos, next_tag, call, other, hist>>
    BY <1>1 DEF vars, store
  <2>2. LogType' /\ Returned' /\ Numbered' /\ HeldBack' /\ Stored' = Stored /\ ids' = ids
    BY <2>1, LogUntouched DEF StoreInv, LogType
  <2>3. ViewType' /\ ListKept' /\ Listed' = Listed
    BY <2>1, ViewUntouched
  <2>4. CallType' /\ UnderWay'
    BY <2>1, <2>2, CallUntouched
  <2> QED
    BY <2>2, <2>3, <2>4 DEF StoreInv
<1>2. CASE Next
  BY <1>2, AddKeeps, OtherAllocatesKeeps, OtherStoresKeeps, CollapseKeeps, ArchiveKeeps,
     CollapseUnlistKeeps, IndexKeeps, StoreSummaryKeeps, StoreRefusedKeeps, MoveKeeps,
     PlaceKeeps, RemoveKeeps, ClearKeeps, ReopenKeeps, StatementFailsKeeps DEF Next
<1> QED
  BY <1>1, <1>2

\* An empty log is a sound one.
LEMMA StoreInvInit ==
  ASSUME Init
  PROVE  StoreInv
<1>1. /\ Stored = {} /\ Listed = {} /\ DOMAIN given = {}
  BY DEF Init, Stored, Listed, Empty
<1>2. LogType /\ CallType
  BY <1>1, EventLogAssumption DEF Init, LogType, CallType
<1>3. ViewType
  BY <1>1 DEF Init, ViewType, Empty
<1>4. Returned /\ Numbered /\ HeldBack
  BY <1>1 DEF Init, Returned, Numbered, HeldBack
<1>5. Cardinality({}) = 0 /\ 0..(0 - 1) = {}
  BY FS_EmptySet
<1>6. ListKept
  BY <1>5 DEF Init, ListKept, IsList, Empty
<1>7. UnderWay
  BY <1>1, <1>5, EventLogAssumption DEF Init, UnderWay, Storing, Choosing, Placing
<1> QED
  BY <1>1, <1>2, <1>3, <1>4, <1>6, <1>7 DEF StoreInv

\* The invariant of the store says what StableTags does.
LEMMA StoreInvStable ==
  ASSUME StoreInv
  PROVE  StableTags
<1>1. backend = "memory" => {pos[t] : t \in Listed} = 0..(Cardinality(Listed) - 1)
  BY DEF StoreInv, ListKept, IsList, Listed
<1>2. TypeOK
  BY <1>1 DEF StoreInv, LogType, ViewType, CallType, TypeOK
<1> QED
  BY <1>2 DEF StoreInv, Returned, Numbered, HeldBack, StableTags

\* Stable access to the log.  The tag of an original event returns that event
\* for good, through nested summaries, another writer, crashes, resumed sessions
\* and failing statements; no number is handed out while the log refers to it,
\* and the view lists no tag without an event.
THEOREM TagsStable == Spec => []StableTags
BY StoreInvStable, StoreInvInit, StoreInvNext, PTL DEF Spec

----------------------------------------------------------------------------
(***************************************************************************)
(* The view in memory.                                                     *)
(***************************************************************************)

\* What the invariant of the store says of a view in memory.
LEMMA MemoryFacts ==
  ASSUME StoreInv, backend = "memory"
  PROVE  /\ IsList(pos) /\ pos \in [Listed -> Nat] /\ Cardinality(Listed) \in Nat
         /\ \A t \in Listed : /\ pos[t] \in Nat /\ pos[t] < Cardinality(Listed)
                              /\ Start(t) \in Nat /\ End(t) \in Nat /\ Start(t) <= End(t)
         /\ \A t, u \in Listed : t # u => pos[t] < pos[u] \/ pos[u] < pos[t]
<1>1. IsList(pos) /\ pos \in [Listed -> Nat] /\ Cardinality(Listed) \in Nat
  BY TagsFinite DEF StoreInv, ListKept, ViewType
<1>2. \A t \in Listed : Start(t) \in Nat /\ End(t) \in Nat /\ Start(t) <= End(t)
  BY TagNumbers DEF StoreInv, ViewType, UnderWay, Nums
<1>3. \A t \in Listed : pos[t] \in 0..(Cardinality(Listed) - 1)
  BY <1>1 DEF IsList
<1>4. \A t, u \in Listed : pos[t] = pos[u] => t = u
  BY <1>1 DEF IsList
<1> QED
  BY <1>1, <1>2, <1>3, <1>4

\* What a collapsed tag, and the summary of all of them, is like.
LEMMA GoneFacts ==
  ASSUME StoreInv, pc # "idle"
  PROVE  /\ gone # {}
         /\ \A g \in gone : Start(g) \in Nat /\ End(g) \in Nat /\ Start(g) <= End(g)
         /\ Start(SummaryTag) \in Nat /\ End(SummaryTag) \in Nat
         /\ \A g \in gone : Start(SummaryTag) <= Start(g) /\ End(g) <= End(SummaryTag)
         /\ \E g \in gone : Start(SummaryTag) = Start(g)
         /\ \E g \in gone : End(SummaryTag) = End(g)
<1>1. gone # {} /\ gone \in SUBSET Tags /\ \A g \in gone : Start(g) <= End(g)
  BY DEF StoreInv, CallType, UnderWay
<1>2. \A g \in gone : Start(g) \in Nat /\ End(g) \in Nat
  BY <1>1, TagNumbers DEF Nums
<1>3. /\ \A g \in gone : Start(SummaryTag) <= Start(g) /\ End(g) <= End(SummaryTag)
      /\ \E g \in gone : Start(SummaryTag) = Start(g)
      /\ \E g \in gone : End(SummaryTag) = End(g)
  BY <1>1, SummarySpan, SummaryTagIs
<1> QED
  BY <1>1, <1>2, <1>3

\* A recorded event comes last, by its number and by its place.
LEMMA AddOrdered ==
  ASSUME StoreInv, MemoryOrdered, backend = "memory", Add
  PROVE  MemoryOrdered'
<1> DEFINE t == <<next_tag>>
<1>1. /\ pc = "idle" /\ pc' = "idle" /\ backend' = backend /\ other' = other
      /\ ids < MaxEvents /\ next_tag \in Nums /\ Store(t, {})
  BY EventLogAssumption DEF Add, Room, Recorded, call, StoreInv, LogType, Nums
<1>2. ids <= MaxEvents
  BY <1>1, EventLogAssumption DEF StoreInv, LogType
<1>3. t \in Tags /\ Start(t) = next_tag /\ End(t) = next_tag
  BY <1>1, OriginalTag
<1>4. t \notin Listed
  <2>1. \A u \in Stored : End(u) \in Nums /\ End(u) < next_tag
    BY TagNumbers DEF StoreInv, LogType, Numbered
  <2> QED
    BY <1>1, <1>3, <2>1 DEF StoreInv, Nums
<1> HIDE DEF t
<1>5. /\ Listed' = Listed \cup {t}
      /\ \A u \in Listed : pos'[u] = pos[u]
      /\ pos'[t] = Cardinality(Listed)
  BY <1>1, <1>2, <1>3, <1>4, StoreEffect DEF StoreInv
<1>6. InOrder'
  <2> SUFFICES ASSUME NEW u \in Listed', NEW v \in Listed', pos'[u] < pos'[v]
               PROVE  End(u) < Start(v)
    BY <1>1 DEF InOrder
  <2>1. CASE u \in Listed /\ v \in Listed
    BY <2>1, <1>1, <1>5 DEF MemoryOrdered, InOrder
  <2>2. CASE u \in Listed /\ v = t
    BY <2>2, <1>3 DEF StoreInv, Numbered
  <2>3. CASE u = t
    <3>1. pos'[v] \in Nat /\ pos'[v] <= Cardinality(Listed) /\ Cardinality(Listed) \in Nat
      BY MemoryFacts, <1>5
    <3> QED
      BY <2>3, <3>1, <1>5
  <2> QED
    BY <2>1, <2>2, <2>3, <1>5
<1>7. Sides' /\ Anchor' /\ Gap' /\ LastIn'
  BY <1>1 DEF Sides, Anchor, Gap, LastIn, Storing
<1> QED
  BY <1>1, <1>6, <1>7 DEF MemoryOrdered

\* What a collapse is about to take lies together in the view.
LEMMA CollapseOrdered ==
  ASSUME StoreInv, MemoryOrdered, backend = "memory",
         NEW s \in Nums, NEW e \in Nums, Collapse(s, e)
  PROVE  MemoryOrdered'
<1> DEFINE G == Overlapping(s, e)
<1>1. /\ G # {} /\ G \subseteq Listed
      /\ gone' = G /\ pc = "idle" /\ pc' = "archive"
      /\ pos' = pos /\ other' = other /\ Listed' = Listed
  BY DEF Collapse, Overlapping, store, Listed
<1>2. InOrder'
  BY <1>1 DEF InOrder, MemoryOrdered, Start, End
<1>3. Sides'
  <2> SUFFICES ASSUME NEW v \in Listed \ G
               PROVE  (\A g \in G : End(v) < Start(g)) \/ (\A g \in G : End(g) < Start(v))
    BY <1>1 DEF Sides, Others, Before, After, Start, End
  <2>1. s \in Nat /\ e \in Nat
    BY DEF Nums
  <2>2. Start(v) \in Nat /\ End(v) \in Nat /\ Start(v) <= End(v)
    BY MemoryFacts
  <2>3. \A g \in G : /\ Start(g) <= e /\ End(g) >= s
                     /\ Start(g) \in Nat /\ End(g) \in Nat /\ Start(g) <= End(g)
    BY MemoryFacts, <1>1 DEF Overlapping
  <2>4. \A g \in G : End(v) < Start(g) \/ End(g) < Start(v)
    <3> TAKE g \in G
    <3>1. pos[v] < pos[g] \/ pos[g] < pos[v]
      BY MemoryFacts, <1>1
    <3> QED
      BY <3>1, <1>1 DEF MemoryOrdered, InOrder
  <2>5. End(v) < s \/ Start(v) > e
    BY <2>1, <2>2 DEF Overlapping
  <2>6. CASE End(v) < s
    BY <2>6, <2>1, <2>2, <2>3, <2>4
  <2>7. CASE Start(v) > e
    BY <2>7, <2>1, <2>2, <2>3, <2>4
  <2> QED
    BY <2>5, <2>6, <2>7
<1>4. Anchor'
  <2>1. PICK first \in G : \A u \in G : pos[first] <= pos[u]
    BY <1>1, FirstListed DEF StoreInv
  <2>2. place' = Start(CHOOSE t \in G : \A u \in G : pos[t] <= pos[u])
    BY <1>1 DEF Collapse
  <2>3. \E g \in G : place' = Start(g)
    BY <2>1, <2>2
  <2> QED
    BY <1>1, <2>3 DEF Anchor, Start
<1>5. Gap' /\ LastIn'
  BY <1>1 DEF Gap, LastIn
<1> QED
  BY <1>1, <1>2, <1>3, <1>4, <1>5 DEF MemoryOrdered

\* Archiving moves nothing in the view.
LEMMA ArchiveOrdered ==
  ASSUME StoreInv, MemoryOrdered, backend = "memory", Archive
  PROVE  MemoryOrdered'
<1>1. /\ pc = "archive" /\ pc' = "unlist"
      /\ UNCHANGED <<backend, pos, gone, place, other>>
  BY DEF Archive
<1>2. Listed' = Listed /\ SummaryTag' = SummaryTag
  BY <1>1, SummaryTagIs DEF Listed
<1>3. InOrder' /\ Sides' /\ Anchor' /\ Gap' /\ LastIn'
  BY <1>1, <1>2 DEF MemoryOrdered, InOrder, Sides, Anchor, Gap, LastIn, Others, Before, After, Storing, Start, End
<1> QED
  BY <1>1, <1>3 DEF MemoryOrdered

\* Unlisting a tag keeps the order of the others.
LEMMA OrderKept ==
  ASSUME StoreInv, backend = "memory", NEW t
  PROVE  \A u, v \in Listed \ {t} :
           Unlist({t})[u] < Unlist({t})[v] => pos[u] < pos[v]
<1>1. \A u \in Listed \ {t} :
        Unlist({t})[u] = IF t \in Listed /\ pos[t] < pos[u] THEN pos[u] - 1 ELSE pos[u]
  BY MemoryFacts, Unlisted DEF StoreInv
<1>2. \A u \in Listed : pos[u] \in Nat
  BY MemoryFacts
<1>3. \A u \in Listed \ {t} : t \in Listed => pos[t] < pos[u] \/ pos[u] < pos[t]
  BY MemoryFacts
<1> QED
  BY <1>1, <1>2, <1>3

\* The gap in the view widens by one event.
LEMMA CollapseUnlistOrdered ==
  ASSUME StoreInv, MemoryOrdered, backend = "memory", CollapseUnlist
  PROVE  MemoryOrdered'
<1>1. PICK t \in todo :
        /\ pos' = Unlist({t})
        /\ pc' = IF todo = {t} THEN "index" ELSE "archive"
  BY DEF CollapseUnlist
<1>2. pc = "unlist" /\ UNCHANGED <<backend, gone, place, other>>
  BY DEF CollapseUnlist
<1>3. Listed' = Listed \ {t}
  BY <1>1, <1>2, UnlistEffect
<1>4. SummaryTag' = SummaryTag
  BY <1>2, SummaryTagIs
<1>5. InOrder'
  BY <1>1, <1>2, <1>3, OrderKept DEF InOrder, MemoryOrdered, Start, End
<1>6. Sides'
  BY <1>1, <1>2, <1>3, <1>4 DEF Sides, MemoryOrdered, Others, Before, After, Storing, Start, End
<1>7. Anchor'
  BY <1>2 DEF Anchor, MemoryOrdered, Start
<1>8. Gap' /\ LastIn'
  BY <1>1 DEF Gap, LastIn
<1> QED
  BY <1>2, <1>5, <1>6, <1>7, <1>8 DEF MemoryOrdered

\* The place of the summary is the index of the first tag after the range.
LEMMA IndexOrdered ==
  ASSUME StoreInv, MemoryOrdered, backend = "memory", Index
  PROVE  MemoryOrdered'
<1> DEFINE later == {t \in Listed : Start(t) > place}
<1>1. /\ pc = "index" /\ pc' = "store" /\ place' = InsertIndex(place)
      /\ UNCHANGED <<backend, pos, gone, other>>
  BY DEF Index, store
<1>2. Listed' = Listed /\ SummaryTag' = SummaryTag
  BY <1>1, SummaryTagIs DEF Listed
<1>3. Others = Listed
  BY <1>1 DEF StoreInv, UnderWay, Choosing, Storing, Others
<1>4. PICK h \in gone : place = Start(h)
  BY <1>1 DEF MemoryOrdered, Anchor
<1>5. /\ h \in gone /\ Start(h) \in Nat /\ End(h) \in Nat /\ Start(h) <= End(h)
      /\ \A g \in gone : Start(g) \in Nat /\ End(g) \in Nat /\ Start(g) <= End(g)
  BY <1>1, GoneFacts
<1>6. \A v \in Listed : IF v \in later THEN After(v) ELSE Before(v)
  <2> SUFFICES ASSUME NEW v \in Listed PROVE IF v \in later THEN After(v) ELSE Before(v)
    OBVIOUS
  <2>1. Before(v) \/ After(v)
    BY <1>1, <1>3 DEF MemoryOrdered, Sides, Storing
  <2>2. Start(v) \in Nat /\ End(v) \in Nat /\ Start(v) <= End(v)
    BY MemoryFacts
  <2>3. CASE Before(v)
    <3>1. End(v) < Start(h)
      BY <2>3 DEF Before
    <3> QED
      BY <3>1, <2>2, <2>3, <1>4, <1>5
  <2>4. CASE After(v)
    <3>1. End(h) < Start(v)
      BY <2>4 DEF After
    <3> QED
      BY <3>1, <2>2, <2>4, <1>4, <1>5
  <2> QED
    BY <2>1, <2>3, <2>4
<1>7. \A v \in Listed : IF pos[v] < place' THEN Before(v) ELSE After(v)
  <2>1. CASE later = {}
    <3>1. place' = Cardinality(Listed)
      BY <1>1, <2>1 DEF InsertIndex
    <3> QED
      BY <3>1, <2>1, <1>6, MemoryFacts
  <2>2. CASE later # {}
    <3> DEFINE at == CHOOSE t \in later : \A u \in later : pos[t] <= pos[u]
    <3>1. at \in later /\ \A u \in later : pos[at] <= pos[u]
      BY <2>2, FirstListed DEF StoreInv
    <3>2. place' = Cardinality({t \in Listed : pos[t] < pos[at]})
      BY <1>1, <2>2 DEF InsertIndex
    <3> HIDE DEF at
    <3>3. pos[at] \in 0..Cardinality(Listed)
      BY <3>1, MemoryFacts
    <3>4. place' = pos[at]
      BY <3>2, <3>3, MemoryFacts, IndicesBelow, TagsFinite DEF StoreInv, ViewType
    <3>5. ASSUME NEW v \in Listed PROVE IF pos[v] < place' THEN Before(v) ELSE After(v)
      <4>1. CASE v \in later
        <5>1. ~(pos[v] < pos[at])
          BY <3>1, <4>1, MemoryFacts
        <5> QED
          BY <5>1, <4>1, <3>4, <1>6
      <4>2. CASE v \notin later
        <5>1. Before(v) /\ After(at)
          BY <3>1, <4>2, <1>6
        <5>2. End(v) < Start(h) /\ End(h) < Start(at)
          BY <5>1 DEF Before, After
        <5>3. ~(End(at) < Start(v))
          BY <5>2, <1>5, <3>1, MemoryFacts
        <5>4. ~(pos[at] < pos[v])
          BY <5>3, <3>1, <1>1 DEF MemoryOrdered, InOrder
        <5>5. pos[v] < pos[at]
          BY <5>4, <4>2, <3>1, MemoryFacts
        <5> QED
          BY <5>1, <5>5, <3>4
      <4> QED
        BY <4>1, <4>2
    <3> QED
      BY <3>5
  <2> QED
    BY <2>1, <2>2
<1>8. InOrder'
  BY <1>1, <1>2 DEF InOrder, MemoryOrdered, Start, End
<1>9. Sides'
  BY <1>1, <1>2 DEF Sides, MemoryOrdered, Others, Before, After, Storing, Start, End
<1>10. Gap'
  BY <1>1, <1>2, <1>7 DEF Gap, Before, After, Start, End
<1>11. Anchor' /\ LastIn'
  BY <1>1 DEF Anchor, LastIn
<1> QED
  BY <1>1, <1>8, <1>9, <1>10, <1>11 DEF MemoryOrdered

\* The summary is listed last first, behind the gap that its events left.
LEMMA StoreSummaryOrdered ==
  ASSUME StoreInv, MemoryOrdered, backend = "memory", StoreSummary
  PROVE  MemoryOrdered'
<1>1. /\ pc = "store" /\ pc' = "move" /\ Store(SummaryTag, gone)
      /\ UNCHANGED <<backend, gone, place, other>>
  BY DEF StoreSummary
<1>2. /\ gone # {} /\ gone \in SUBSET Tags /\ \A g \in gone : Start(g) <= End(g)
      /\ SummaryTag \notin Listed /\ ids <= MaxEvents + 0
  BY <1>1 DEF StoreInv, CallType, UnderWay, Storing, Choosing
<1>3. ids <= MaxEvents /\ SummaryTag \in Tags
  BY <1>2, EventLogAssumption, SummarySpan, SummaryTagIs DEF StoreInv, LogType
<1>4. /\ Listed' = Listed \cup {SummaryTag}
      /\ \A u \in Listed : pos'[u] = pos[u]
      /\ pos'[SummaryTag] = Cardinality(Listed)
      /\ Cardinality(Listed') = Cardinality(Listed) + 1
  BY <1>1, <1>2, <1>3, StoreEffect DEF StoreInv
<1>5. SummaryTag' = SummaryTag /\ Listed' \ {SummaryTag} = Listed
  BY <1>1, <1>2, <1>4, SummaryTagIs
<1>6. InOrder'
  BY <1>1, <1>4, <1>5 DEF InOrder, MemoryOrdered, Start, End
<1>7. Gap'
  BY <1>1, <1>2, <1>4, <1>5 DEF Gap, MemoryOrdered, Before, After, Start, End
<1>8. LastIn'
  <2>1. Cardinality(Listed) \in Nat
    BY MemoryFacts
  <2>2. Cardinality(Listed) = Cardinality(Listed') - 1
    BY <2>1, <1>4
  <2> QED
    BY <2>2, <1>4, <1>5 DEF LastIn
<1>9. Sides' /\ Anchor'
  BY <1>1 DEF Sides, Anchor, Storing
<1> QED
  BY <1>1, <1>6, <1>7, <1>8, <1>9 DEF MemoryOrdered

\* The other events keep their order when the summary is taken off the view.
LEMMA MoveOrdered ==
  ASSUME StoreInv, MemoryOrdered, backend = "memory", Move
  PROVE  MemoryOrdered'
<1>1. /\ pc = "move" /\ pc' = "place" /\ pos' = Unlist({SummaryTag})
      /\ UNCHANGED <<backend, gone, place, other>>
  BY DEF Move
<1>2. Listed' = Listed \ {SummaryTag} /\ SummaryTag' = SummaryTag
  BY <1>1, UnlistEffect, SummaryTagIs
<1>3. \A u \in Listed' : pos'[u] = pos[u]
  <2>1. SummaryTag \in Listed /\ pos[SummaryTag] = Cardinality(Listed) - 1
    BY <1>1 DEF StoreInv, UnderWay, MemoryOrdered, LastIn
  <2>2. \A u \in Listed : ~(pos[SummaryTag] < pos[u])
    BY <2>1, MemoryFacts
  <2>3. \A u \in Listed \ {SummaryTag} :
          Unlist({SummaryTag})[u] = IF SummaryTag \in Listed /\ pos[SummaryTag] < pos[u] THEN pos[u] - 1 ELSE pos[u]
    BY MemoryFacts, Unlisted DEF StoreInv
  <2> QED
    BY <2>2, <2>3, <1>1, <1>2
<1>4. InOrder'
  BY <1>1, <1>2, <1>3 DEF InOrder, MemoryOrdered, Start, End
<1>5. Gap'
  BY <1>1, <1>2, <1>3 DEF Gap, MemoryOrdered, Before, After, Start, End
<1>6. Sides' /\ Anchor' /\ LastIn'
  BY <1>1 DEF Sides, Anchor, LastIn, Storing
<1> QED
  BY <1>1, <1>4, <1>5, <1>6 DEF MemoryOrdered

\* The summary fills the gap.
LEMMA PlaceOrdered ==
  ASSUME StoreInv, MemoryOrdered, backend = "memory", Place
  PROVE  MemoryOrdered'
<1> DEFINE t == SummaryTag
<1>1. /\ pc = "place" /\ pc' = "idle"
      /\ pos' = InsertTag(t, place) /\ UNCHANGED <<backend, other>>
  BY DEF Place
<1>2. t \notin Listed /\ place <= Cardinality(Listed) /\ place \in Nat
  BY <1>1 DEF StoreInv, UnderWay, CallType
<1>3. /\ InsertTag(t, place) \in [Listed \cup {t} -> Nat]
      /\ \A u \in Listed : InsertTag(t, place)[u] = IF pos[u] >= place THEN pos[u] + 1 ELSE pos[u]
      /\ InsertTag(t, place)[t] = place
  <2>1. pos \in [Listed -> Nat]
    BY DEF StoreInv, ViewType
  <2> HIDE DEF t
  <2> QED
    BY <1>2, <2>1 DEF InsertTag
<1>4. Listed' = Listed \cup {t}
  BY <1>1, <1>3 DEF Listed
<1>5. /\ gone # {} /\ Start(t) \in Nat /\ End(t) \in Nat
      /\ \E g \in gone : Start(t) = Start(g)
      /\ \E g \in gone : End(t) = End(g)
  BY <1>1, GoneFacts
<1>6. \A v \in Listed : IF pos[v] < place THEN End(v) < Start(t) ELSE End(t) < Start(v)
  <2>1. \A v \in Listed : IF pos[v] < place THEN Before(v) ELSE After(v)
    BY <1>1, <1>2 DEF MemoryOrdered, Gap
  <2> QED
    BY <2>1, <1>5 DEF Before, After
<1> HIDE DEF t
<1>7. InOrder'
  <2> SUFFICES ASSUME NEW u \in Listed', NEW v \in Listed', pos'[u] < pos'[v]
               PROVE  End(u) < Start(v)
    BY <1>1 DEF InOrder
  <2>1. CASE u \in Listed /\ v \in Listed
    <3>1. pos[u] \in Nat /\ pos[v] \in Nat
      BY <2>1, MemoryFacts
    <3>2. pos[u] < pos[v]
      BY <3>1, <2>1, <1>1, <1>2, <1>3
    <3> QED
      BY <3>2, <2>1, <1>1 DEF MemoryOrdered, InOrder
  <2>2. CASE u \in Listed /\ v = t
    <3>1. pos[u] \in Nat
      BY <2>2, MemoryFacts
    <3>2. pos[u] < place
      BY <3>1, <2>2, <1>1, <1>2, <1>3
    <3> QED
      BY <3>2, <2>2, <1>6
  <2>3. CASE u = t /\ v \in Listed
    <3>1. pos[v] \in Nat
      BY <2>3, MemoryFacts
    <3>2. ~(pos[v] < place)
      BY <3>1, <2>3, <1>1, <1>2, <1>3
    <3> QED
      BY <3>2, <2>3, <1>6
  <2>4. CASE u = t /\ v = t
    BY <2>4, <1>1, <1>2, <1>3
  <2> QED
    BY <2>1, <2>2, <2>3, <2>4, <1>4
<1>8. Sides' /\ Anchor' /\ Gap' /\ LastIn'
  BY <1>1 DEF Sides, Anchor, Gap, LastIn, Storing
<1> QED
  BY <1>1, <1>7, <1>8 DEF MemoryOrdered

\* The view without an event is in the order it was in.
LEMMA RemoveOrdered ==
  ASSUME StoreInv, MemoryOrdered, backend = "memory", NEW t \in Stored, Remove(t)
  PROVE  MemoryOrdered'
<1>1. pc = "idle" /\ pc' = "idle" /\ pos' = Unlist({t}) /\ UNCHANGED <<backend, other>>
  BY DEF Remove, call
<1>2. Listed' = Listed \ {t}
  BY <1>1, UnlistEffect
<1>3. InOrder'
  BY <1>1, <1>2, OrderKept DEF InOrder, MemoryOrdered, Start, End
<1>4. Sides' /\ Anchor' /\ Gap' /\ LastIn'
  BY <1>1 DEF Sides, Anchor, Gap, LastIn, Storing
<1> QED
  BY <1>1, <1>3, <1>4 DEF MemoryOrdered

\* An empty view is in order.
LEMMA ClearOrdered ==
  ASSUME StoreInv, MemoryOrdered, backend = "memory", Clear
  PROVE  MemoryOrdered'
<1>1. pc = "idle" /\ pc' = "idle" /\ pos' = Empty /\ UNCHANGED <<backend, other>>
  BY DEF Clear, call
<1>2. Listed' = {}
  BY <1>1 DEF Listed, Empty
<1>3. InOrder' /\ Sides' /\ Anchor' /\ Gap' /\ LastIn'
  BY <1>1, <1>2 DEF InOrder, Sides, Anchor, Gap, LastIn, Storing
<1> QED
  BY <1>1, <1>3 DEF MemoryOrdered

\* In memory no statement fails and no process of its own dies.
LEMMA MemoryIsSafe ==
  ASSUME backend = "memory"
  PROVE  ~Reopen /\ ~StatementFails /\ ~StoreRefused
BY EventLogAssumption DEF Reopen, StatementFails, StoreRefused, MayStore

\* A step that this manager takes by itself, in memory.
OwnStep ==
  \/ Add \/ (\E s, e \in Nums : Collapse(s, e))
  \/ Archive \/ CollapseUnlist \/ Index \/ StoreSummary \/ Move \/ Place
  \/ (\E t \in Stored : Remove(t)) \/ Clear

\* Such a step keeps the view in order.
LEMMA OwnStepOrdered ==
  ASSUME StoreInv, MemoryOrdered, backend = "memory", OwnStep \/ UNCHANGED vars
  PROVE  MemoryOrdered'
<1>1. CASE UNCHANGED vars
  <2>1. UNCHANGED <<backend, pos, pc, gone, place, other>>
    BY <1>1 DEF vars, store, call
  <2>2. Listed' = Listed /\ SummaryTag' = SummaryTag
    BY <2>1, SummaryTagIs DEF Listed
  <2>3. InOrder' /\ Sides' /\ Anchor' /\ Gap' /\ LastIn'
    BY <1>1, <2>1, <2>2
       DEF MemoryOrdered, InOrder, Sides, Anchor, Gap, LastIn, Others, Before, After, Storing, Start, End
  <2> QED
    BY <2>1, <2>3 DEF MemoryOrdered
<1>2. CASE OwnStep
  BY <1>2, AddOrdered, CollapseOrdered, ArchiveOrdered, CollapseUnlistOrdered,
     IndexOrdered, StoreSummaryOrdered, MoveOrdered, PlaceOrdered, RemoveOrdered, ClearOrdered DEF OwnStep
<1> QED
  BY <1>1, <1>2

\* A view in memory stays in the order of its tags while one manager writes.
LEMMA MemoryOrderedNext ==
  ASSUME "memory" \notin Shared, StoreInv, MemoryOrdered, [Next]_vars
  PROVE  MemoryOrdered'
<1> SUFFICES ASSUME backend' = "memory" PROVE MemoryOrdered'
  BY DEF MemoryOrdered
<1>1. backend = "memory"
  BY DEF vars, Next, Add, OtherAllocates, OtherStores, Collapse, Archive, CollapseUnlist, Index,
         StoreSummary, StoreRefused, Move, Place, Remove, Clear, Reopen, StatementFails
<1>2. ~OtherAllocates /\ ~OtherStores
  BY <1>1 DEF OtherAllocates, OtherStores, MemoryOrdered
<1>3. OwnStep \/ UNCHANGED vars
  BY <1>1, <1>2, MemoryIsSafe DEF Next, OwnStep
<1> QED
  BY <1>1, <1>3, OwnStepOrdered

----------------------------------------------------------------------------
(***************************************************************************)
(* Nothing is hidden.                                                      *)
(***************************************************************************)

\* What stands in for an event goes on doing so when the tags that are listed
\* or collapsed cover at least the same numbers.
LEMMA CoverKept ==
  ASSUME NothingHidden, backend = "memory", UNCHANGED <<given, dropped>>,
         \A t \in Listed \cup StandIns : \E u \in Listed' \cup StandIns' : Span(t) \subseteq Span(u)
  PROVE  NothingHidden'
<1> SUFFICES ASSUME NEW n \in DOMAIN given \ dropped
             PROVE  \E u \in Listed' \cup StandIns' : n \in Span(u)
  BY DEF NothingHidden, Span, Start, End
<1>1. PICK t \in Listed \cup StandIns : n \in Span(t)
  BY DEF NothingHidden
<1>2. PICK u \in Listed' \cup StandIns' : Span(t) \subseteq Span(u)
  OBVIOUS
<1> QED
  BY <1>1, <1>2

\* In particular when the same tags are listed or collapsed.
LEMMA CoverMoved ==
  ASSUME NothingHidden, backend = "memory", UNCHANGED <<given, dropped>>,
         Listed \cup StandIns \subseteq Listed' \cup StandIns'
  PROVE  NothingHidden'
<1>1. \A t \in Listed \cup StandIns : \E u \in Listed' \cup StandIns' : Span(t) \subseteq Span(u)
  OBVIOUS
<1> QED
  BY <1>1, CoverKept

\* While a range is collapsed its events, then its summary, stand in for what leaves the view.
LEMMA CollapseCovers ==
  ASSUME StoreInv, NothingHidden, backend = "memory",
         \/ \E s, e \in Nums : Collapse(s, e)
         \/ Archive \/ CollapseUnlist \/ Index \/ StoreSummary \/ Move \/ Place
  PROVE  NothingHidden'
<1>1. CASE \E s, e \in Nums : Collapse(s, e)
  <2>1. pc = "idle" /\ pos' = pos /\ UNCHANGED <<given, dropped>>
    BY <1>1 DEF Collapse, store, hist
  <2>2. StandIns = {} /\ Listed' = Listed
    BY <2>1 DEF StandIns, Storing, Placing, Listed
  <2> QED
    BY <2>1, <2>2, CoverMoved
<1>2. CASE Archive \/ Index
  <2>1. pc \in Storing /\ pc' \in Storing /\ pos' = pos /\ gone' = gone /\ UNCHANGED <<given, dropped>>
    BY <1>2 DEF Archive, Index, store, hist, Storing
  <2>2. StandIns' = StandIns /\ Listed' = Listed
    BY <2>1 DEF StandIns, Listed
  <2> QED
    BY <2>1, <2>2, CoverMoved
<1>3. CASE CollapseUnlist
  <2>1. PICK t \in todo : pos' = Unlist({t}) /\ pc' \in {"index", "archive"}
    BY <1>3 DEF CollapseUnlist
  <2>2. pc = "unlist" /\ UNCHANGED <<backend, gone, given, dropped>>
    BY <1>3 DEF CollapseUnlist, hist
  <2>3. Listed' = Listed \ {t}
    BY <2>1, <2>2, UnlistEffect
  <2>4. StandIns = gone /\ StandIns' = gone /\ t \in gone
    BY <2>1, <2>2 DEF StandIns, Storing, StoreInv, CallType
  <2> QED
    BY <2>2, <2>3, <2>4, CoverMoved
<1>4. CASE StoreSummary
  <2>1. /\ pc = "store" /\ pc' = "move" /\ Store(SummaryTag, gone)
        /\ UNCHANGED <<backend, gone, given, dropped>>
    BY <1>4 DEF StoreSummary
  <2>2. /\ gone # {} /\ gone \in SUBSET Tags /\ \A g \in gone : Start(g) <= End(g)
    BY <2>1 DEF StoreInv, CallType, UnderWay
  <2>3. Listed' = Listed \cup {SummaryTag}
    <3>1. pos' = AppendTag(SummaryTag)
      BY <2>1 DEF Store
    <3>2. AppendTag(SummaryTag) \in [Listed \cup {SummaryTag} -> Nat]
      BY Appended DEF StoreInv
    <3> QED
      BY <3>1, <3>2 DEF Listed
  <2>4. StandIns = gone /\ StandIns' = {SummaryTag}
    BY <2>1, SummaryTagIs DEF StandIns, Storing, Placing
  <2>5. \A g \in gone : Span(g) \subseteq Span(SummaryTag)
    <3> TAKE g \in gone
    <3>1. /\ Start(SummaryTag) <= Start(g) /\ End(g) <= End(SummaryTag)
          /\ Start(g) \in Nat /\ End(g) \in Nat
          /\ Start(SummaryTag) \in Nat /\ End(SummaryTag) \in Nat
      BY <2>1, GoneFacts
    <3> QED
      BY <3>1 DEF Span
  <2>6. \A t \in Listed \cup StandIns : \E u \in Listed' \cup StandIns' : Span(t) \subseteq Span(u)
    BY <2>3, <2>4, <2>5
  <2> QED
    BY <2>1, <2>6, CoverKept
<1>5. CASE Move
  <2>1. pc = "move" /\ pc' = "place" /\ pos' = Unlist({SummaryTag}) /\ UNCHANGED <<backend, gone, given, dropped>>
    BY <1>5 DEF Move, hist
  <2>2. Listed' = Listed \ {SummaryTag}
    BY <2>1, UnlistEffect
  <2>3. StandIns = {SummaryTag} /\ StandIns' = {SummaryTag}
    BY <2>1, SummaryTagIs DEF StandIns, Storing, Placing
  <2> QED
    BY <2>1, <2>2, <2>3, CoverMoved
<1>6. CASE Place
  <2>1. pc = "place" /\ pos' = InsertTag(SummaryTag, place) /\ UNCHANGED <<given, dropped>>
    BY <1>6 DEF Place, hist
  <2>2. Listed' = Listed \cup {SummaryTag}
    BY <2>1 DEF Listed, InsertTag
  <2>3. StandIns = {SummaryTag}
    BY <2>1 DEF StandIns, Storing, Placing
  <2> QED
    BY <2>1, <2>2, <2>3, CoverMoved
<1> QED
  BY <1>1, <1>2, <1>3, <1>4, <1>5, <1>6

\* A new event is listed itself.
LEMMA RecordedCovers ==
  ASSUME StoreInv, NothingHidden, backend = "memory", Add \/ OtherStores
  PROVE  NothingHidden'
<1>1. PICK n \in Nums : Recorded(n) /\ UNCHANGED <<backend, call>>
  <2>1. CASE Add
    <3>1. next_tag \in Nums
      BY <2>1, EventLogAssumption DEF Add, Room, StoreInv, LogType, Nums
    <3> QED
      BY <2>1, <3>1 DEF Add
  <2>2. CASE OtherStores
    <3>1. other \in Nums
      BY <2>2, EventLogAssumption DEF OtherStores, StoreInv, LogType, Nums
    <3> QED
      BY <2>2, <3>1 DEF OtherStores
  <2> QED
    BY <2>1, <2>2
<1>2. given' = [m \in DOMAIN given \cup {n} |-> IF m = n THEN ids + 1 ELSE given[m]] /\ dropped' = dropped \ {n}
  BY <1>1 DEF Recorded, Extend
<1>3. Listed' = Listed \cup {<<n>>}
  <2>1. pos' = AppendTag(<<n>>)
    BY <1>1 DEF Recorded, Store
  <2>2. AppendTag(<<n>>) \in [Listed \cup {<<n>>} -> Nat]
    BY Appended DEF StoreInv
  <2> QED
    BY <2>1, <2>2 DEF Listed
<1>4. StandIns' = StandIns
  BY <1>1, SummaryTagIs DEF StandIns, call
<1>5. n \in Span(<<n>>)
  BY OriginalTag DEF Span, Nums
<1> SUFFICES ASSUME NEW m \in DOMAIN given' \ dropped'
             PROVE  \E u \in Listed' \cup StandIns' : m \in Span(u)
  BY DEF NothingHidden, Span, Start, End
<1>6. CASE m = n
  BY <1>6, <1>3, <1>5
<1>7. CASE m # n
  <2>1. m \in DOMAIN given \ dropped
    BY <1>7, <1>2
  <2>2. PICK t \in Listed \cup StandIns : m \in Span(t)
    BY <2>1 DEF NothingHidden
  <2> QED
    BY <2>2, <1>3, <1>4
<1> QED
  BY <1>6, <1>7

\* What a removal takes out of the view counts as dropped.
LEMMA RemoveCovers ==
  ASSUME StoreInv, NothingHidden, backend = "memory", NEW t \in Stored, Remove(t)
  PROVE  NothingHidden'
<1>1. /\ pc = "idle" /\ pos' = Unlist({t}) /\ backend' = backend /\ given' = given
      /\ dropped' = dropped \cup (IF t \in Listed THEN Span(t) ELSE IF Len(t) = 1 THEN {t[1]} ELSE {})
  BY DEF Remove
<1>2. Listed' = Listed \ {t}
  BY <1>1, UnlistEffect
<1> SUFFICES ASSUME NEW n \in DOMAIN given' \ dropped'
             PROVE  \E u \in Listed' \cup StandIns' : n \in Span(u)
  BY DEF NothingHidden, Span, Start, End
<1>3. n \in DOMAIN given \ dropped /\ (t \in Listed => n \notin Span(t))
  BY <1>1
<1>4. PICK u \in Listed : n \in Span(u)
  BY <1>1, <1>3 DEF NothingHidden, StandIns, Storing, Placing
<1> QED
  BY <1>2, <1>3, <1>4

\* No step hides a stored event from the view without a summary for it.
LEMMA NothingHiddenNext ==
  ASSUME StoreInv, NothingHidden, [Next]_vars
  PROVE  NothingHidden'
<1> SUFFICES ASSUME backend' = "memory" PROVE NothingHidden'
  BY DEF NothingHidden
<1>1. CASE UNCHANGED vars
  <2>1. UNCHANGED <<backend, pos, pc, gone, given, dropped>>
    BY <1>1 DEF vars, store, call, hist
  <2>2. Listed' = Listed /\ StandIns' = StandIns
    BY <2>1, SummaryTagIs DEF Listed, StandIns
  <2> QED
    BY <2>1, <2>2, CoverMoved
<1>2. CASE Next
  <2>1. backend = "memory"
    BY <1>2 DEF Next, Add, OtherAllocates, OtherStores, Collapse, Archive, CollapseUnlist, Index,
                StoreSummary, StoreRefused, Move, Place, Remove, Clear, Reopen, StatementFails
  <2>2. CASE OtherAllocates
    <3>1. UNCHANGED <<pos, pc, gone, given, dropped>>
      BY <2>2 DEF OtherAllocates, call, hist
    <3>2. Listed' = Listed /\ StandIns' = StandIns
      BY <3>1, SummaryTagIs DEF Listed, StandIns
    <3> QED
      BY <2>1, <3>1, <3>2, CoverMoved
  <2>3. CASE Clear
    <3>1. DOMAIN given' = {}
      BY <2>3 DEF Clear, Empty
    <3> QED
      BY <3>1 DEF NothingHidden
  <2> QED
    BY <1>2, <2>1, <2>2, <2>3, MemoryIsSafe, CollapseCovers, RecordedCovers, RemoveCovers DEF Next
<1> QED
  BY <1>1, <1>2

\* An empty log is in order and hides nothing.
LEMMA LogStarts ==
  ASSUME Init
  PROVE  StoreInv /\ MemoryOrdered /\ NothingHidden
<1>1. Listed = {} /\ DOMAIN given = {} /\ pc = "idle" /\ other = 0
  BY DEF Init, Listed, Empty
<1>2. MemoryOrdered
  BY <1>1 DEF MemoryOrdered, InOrder, Sides, Anchor, Gap, LastIn, Storing
<1>3. NothingHidden
  BY <1>1 DEF NothingHidden
<1> QED
  BY <1>2, <1>3, StoreInvInit

\* What the invariants say of the view between two collapses.
LEMMA ViewIsFaithful ==
  ASSUME Backends \ Faulty \subseteq {"memory"}, StoreInv, MemoryOrdered, NothingHidden
  PROVE  ViewFaithful
<1>1. backend = "memory" => ViewOrdered
  BY DEF MemoryOrdered, InOrder, ViewOrdered
<1>2. backend \notin Faulty => backend = "memory"
  BY DEF StoreInv, LogType
<1>3. pc = "idle" => StandIns = {}
  BY DEF StandIns, Storing, Placing
<1> QED
  BY <1>1, <1>2, <1>3 DEF ViewFaithful, NothingHidden

\* The view in memory, where no other thread writes to the log: it is in order
\* whatever was collapsed, nested, removed or cleared before, and every event
\* that nobody removed is in it, itself or in the range of a summary.  Without
\* the first hypothesis an event may be listed after one with a later number;
\* without the second, collapsing one summary again hides its range in SQLite.
THEOREM ViewKept ==
  ASSUME "memory" \notin Shared, Backends \ Faulty \subseteq {"memory"}
  PROVE  Spec => []ViewFaithful
<1> DEFINE I == StoreInv /\ MemoryOrdered /\ NothingHidden
<1>1. Init => I
  BY LogStarts
<1>2. I /\ [Next]_vars => I'
  BY StoreInvNext, MemoryOrderedNext, NothingHiddenNext
<1>3. I => ViewFaithful
  BY ViewIsFaithful
<1> HIDE DEF I
<1> QED
  BY <1>1, <1>2, <1>3, PTL DEF Spec

----------------------------------------------------------------------------
(***************************************************************************)
(* The summarizers at work on a log.                                       *)
(***************************************************************************)

Turning == {"idle", "before", "ready", "calling", "awaiting", "responded", "recorded"}

SummariesType ==
  /\ active \in BOOLEAN /\ (active => backend = "memory")
  /\ turn \in [Turns -> Turning]
  /\ fork \in {"none", "running", "done", "loose"} /\ closing \in {"open", "closing", "closed"}
  /\ ftext \in BOOLEAN /\ owed \in Nat
  /\ method \in {"none", "running", "done"}
  /\ method # "none" => mrange[1] \in Nums /\ mrange[2] \in Nums

\* One call waits for a fork that runs and none for one that does not.  While
\* the summarizer is open a text that is there belongs to a fork that is done,
\* and a fork has a source.
ForkInv ==
  /\ fork \in {"running", "loose"} => \E t \in Turns : Awaiting = {t}
  /\ fork \in {"none", "done"} => Awaiting = {}
  /\ fork = "loose" => closing = "closed"
  /\ closing = "open" => owed = (IF ftext THEN 1 ELSE 0)
  /\ closing = "open" /\ fork # "done" => ~ftext
  /\ closing = "open" /\ fork \in {"running", "done"} => fsource # {}

\* Who waits for a fork when one call moves.
LEMMA OneTurnMoves ==
  ASSUME turn \in [Turns -> Turning], NEW t \in Turns, NEW where \in Turning, Goes(t, where)
  PROVE  /\ turn' \in [Turns -> Turning]
         /\ Awaiting' = IF where = "awaiting" THEN Awaiting \cup {t} ELSE Awaiting \ {t}
<1>1. turn' \in [Turns -> Turning] /\ turn'[t] = where /\ \A u \in Turns : u # t => turn'[u] = turn[u]
  BY DEF Goes
<1> QED
  BY <1>1 DEF Awaiting

\* A call that is not waiting moves to a place where it does not wait.
LEMMA NobodyWaits ==
  ASSUME turn \in [Turns -> Turning], NEW t \in Turns, turn[t] # "awaiting",
         NEW where \in Turning \ {"awaiting"}, Goes(t, where)
  PROVE  turn' \in [Turns -> Turning] /\ Awaiting' = Awaiting
<1>1. turn' \in [Turns -> Turning] /\ Awaiting' = Awaiting \ {t}
  BY OneTurnMoves
<1> QED
  BY <1>1 DEF Awaiting

\* A step that leaves the fork, and who waits for it, alone.
LEMMA ForkUntouched ==
  ASSUME ForkInv, UNCHANGED <<fork, fsource, ftext, owed, closing>>, Awaiting' = Awaiting
  PROVE  ForkInv'
BY DEF ForkInv

\* What the fork is when a call or the fork itself moves.
LEMMA ForkNext ==
  ASSUME SummariesType, ForkInv, SNext
  PROVE  ForkInv'
<1>0. /\ turn \in [Turns -> Turning] /\ fork \in {"none", "running", "done", "loose"}
      /\ closing \in {"open", "closing", "closed"} /\ ftext \in BOOLEAN /\ owed \in Nat
  BY DEF SummariesType
<1>1. CASE ~active /\ Next /\ UNCHANGED svars
  BY <1>1 DEF svars, forks, ForkInv, Awaiting
<1>2. ASSUME NEW t \in Turns, BeforeTurn(t) PROVE ForkInv'
  <2>1. turn[t] # "awaiting" /\ Goes(t, "before") /\ closing' = closing
    BY <1>2 DEF BeforeTurn
  <2>2. Awaiting' = Awaiting
    BY <1>0, <2>1, NobodyWaits DEF Turning
  <2>3. CASE fork # "done" \/ closing # "open"
    <3>1. UNCHANGED forks
      BY <1>2, <2>3 DEF BeforeTurn
    <3> QED
      BY <2>1, <2>2, <3>1, ForkUntouched DEF forks
  <2>4. CASE fork = "done" /\ closing = "open"
    <3>1. ClearFork
      BY <1>2, <2>4 DEF BeforeTurn
    <3> QED
      BY <2>1, <2>2, <2>4, <3>1 DEF ClearFork, ForkInv
  <2> QED
    BY <2>3, <2>4
<1>3. ASSUME NEW t \in Turns, ApplyMethod(t) \/ Call(t) \/ Respond(t) \/ Record(t) \/ AfterTurn(t) \/ CallOverflows(t)
      PROVE  ForkInv'
  <2>1. /\ turn[t] # "awaiting" /\ UNCHANGED <<forks, closing>>
        /\ \E where \in Turning \ {"awaiting"} : Goes(t, where)
    BY <1>3 DEF ApplyMethod, Call, Respond, Record, AfterTurn, CallOverflows, Turning
  <2> QED
    BY <1>0, <2>1, NobodyWaits, ForkUntouched DEF forks
<1>4. ASSUME NEW t \in Turns, RespondForks(t) PROVE ForkInv'
  <2>1. /\ Goes(t, "awaiting") /\ fork = "none" /\ fork' = "running" /\ fsource' # {}
        /\ UNCHANGED <<ftext, owed, closing>>
    BY <1>4 DEF RespondForks, MayFork
  <2>2. Awaiting' = Awaiting \cup {t}
    BY <1>0, <2>1, OneTurnMoves DEF Turning
  <2> QED
    BY <2>1, <2>2 DEF ForkInv
<1>5. ASSUME NEW t \in Turns, CancelTurn(t) PROVE ForkInv'
  <2>1. /\ Goes(t, "idle") /\ UNCHANGED <<fsource, ftext, owed, closing>>
    BY <1>5 DEF CancelTurn
  <2>2. CASE turn[t] # "awaiting"
    <3>1. Awaiting' = Awaiting
      BY <1>0, <2>1, <2>2, NobodyWaits DEF Turning
    <3>2. fork' = fork
      BY <1>5, <2>2 DEF CancelTurn
    <3> QED
      BY <2>1, <3>1, <3>2, ForkUntouched
  <2>3. CASE turn[t] = "awaiting"
    <3>1. Awaiting' = Awaiting \ {t} /\ t \in Awaiting
      BY <1>0, <2>1, <2>3, OneTurnMoves DEF Turning, Awaiting
    <3>2. fork' = IF fork = "running" THEN "done" ELSE "none"
      BY <1>5, <2>3 DEF CancelTurn
    <3>3. fork \in {"running", "loose"} /\ Awaiting' = {}
      BY <1>0, <3>1 DEF ForkInv
    <3> QED
      BY <2>1, <3>2, <3>3 DEF ForkInv
  <2> QED
    BY <2>2, <2>3
<1>6. CASE Collapsing
  BY <1>6, ForkUntouched DEF Collapsing, forks, Awaiting
<1>7. CASE ForkSucceeds
  <2>1. /\ fork \in {"running", "loose"} /\ fork' = (IF fork = "running" THEN "done" ELSE "none")
        /\ ftext' = TRUE /\ owed' = owed + 1 /\ UNCHANGED <<fsource, closing>>
        /\ \E t \in Awaiting : Goes(t, "responded")
    BY <1>7 DEF ForkSucceeds
  <2>2. Awaiting' = {}
    <3>1. PICK t \in Awaiting : Goes(t, "responded")
      BY <2>1
    <3>2. Awaiting' = Awaiting \ {t}
      BY <1>0, <3>1, OneTurnMoves DEF Turning, Awaiting
    <3> QED
      BY <2>1, <3>1, <3>2 DEF ForkInv
  <2>3. closing = "open" => owed = 0 /\ fork = "running"
    BY <2>1 DEF ForkInv
  <2>4. closing = "open" => owed' = 1
    BY <2>1, <2>3
  <2> QED
    BY <2>1, <2>2, <2>3, <2>4 DEF ForkInv
<1>8. CASE ForkFails
  <2>1. /\ fork \in {"running", "loose"} /\ fork' = (IF fork = "running" THEN "done" ELSE "none")
        /\ ftext' = FALSE /\ UNCHANGED <<fsource, owed, closing>>
        /\ \E t \in Awaiting : Goes(t, "responded")
    BY <1>8 DEF ForkFails
  <2>2. Awaiting' = {}
    <3>1. PICK t \in Awaiting : Goes(t, "responded")
      BY <2>1
    <3>2. Awaiting' = Awaiting \ {t}
      BY <1>0, <3>1, OneTurnMoves DEF Turning, Awaiting
    <3> QED
      BY <2>1, <3>1, <3>2 DEF ForkInv
  <2> QED
    BY <2>1, <2>2 DEF ForkInv
<1>9. CASE MethodEnds
  BY <1>9, ForkUntouched DEF MethodEnds, forks, Awaiting
<1>10. CASE CloseStarts
  <2>1. /\ closing = "open" /\ closing' = "closing" /\ fork' = (IF fork = "running" THEN "none" ELSE fork)
        /\ turn' = [t \in Turns |-> IF turn[t] = "awaiting" THEN "idle" ELSE turn[t]]
    BY <1>10 DEF CloseStarts
  <2>2. Awaiting' = {}
    BY <2>1 DEF Awaiting
  <2> QED
    BY <1>0, <2>1, <2>2 DEF ForkInv
<1>11. CASE CloseEnds
  <2>1. /\ closing = "closing" /\ closing' = "closed" /\ fork' = (IF fork = "running" THEN "loose" ELSE "none")
        /\ turn' = turn
    BY <1>11 DEF CloseEnds
  <2>2. Awaiting' = Awaiting
    BY <2>1 DEF Awaiting
  <2> QED
    BY <1>0, <2>1, <2>2 DEF ForkInv
<1> QED
  BY <1>1, <1>2, <1>3, <1>4, <1>5, <1>6, <1>7, <1>8, <1>9, <1>10, <1>11 DEF SNext

\* Tags begin and end with numbers of the log.
LEMMA ListedNumbers ==
  ASSUME StoreInv, NEW t \in Listed
  PROVE  Start(t) \in Nums /\ End(t) \in Nums
BY TagNumbers DEF StoreInv, ViewType

\* The source of a summary that is applied is what the view shows now: what
\* stands between its first and its last event.
LEMMA FreshSource ==
  ASSUME StoreInv, NEW src, src # {}, Fresh(src)
  PROVE  /\ FirstOf(src) \in Listed /\ LastOf(src) \in Listed
         /\ src = {Entry(t) : t \in {u \in Listed : pos[FirstOf(src)] <= pos[u] /\ pos[u] <= pos[LastOf(src)]}}
         /\ pos[FirstOf(src)] <= pos[LastOf(src)]
<1> DEFINE first == FirstOf(src)
           last == LastOf(src)
           S == {Start(p[1]) : p \in src}
<1>1. InRange(first, last) = src
  BY DEF Fresh
<1> HIDE DEF first, last
<1>2. first \in Listed /\ \A p \in src : \E u \in Listed : p = Entry(u) /\ pos[u] >= pos[first]
  BY <1>1 DEF InRange
<1>3. \A p \in src : p[1] \in Listed /\ pos[p[1]] >= pos[first]
  BY <1>2 DEF Entry
<1>4. \A p \in src : Start(p[1]) \in Nums
  BY <1>3, ListedNumbers
<1>5. \E p \in src : \A q \in src : Start(p[1]) >= Start(q[1])
  <2>1. S # {} /\ S \in SUBSET Nat /\ \A x \in S : x <= MaxEvents
    BY <1>4, EventLogAssumption DEF Nums
  <2>2. Max(S) \in S /\ \A y \in S : y <= Max(S)
    <3> HIDE DEF S
    <3> QED
      BY <2>1, MaxOfNaturals, EventLogAssumption
  <2> QED
    BY <2>2, <1>4, <2>1
<1>6. last \in Listed /\ pos[last] >= pos[first]
  <2>1. \E p \in src : last = p[1]
    BY <1>5 DEF last, LastOf
  <2> QED
    BY <2>1, <1>3
<1>7. src = {Entry(t) : t \in {u \in Listed : pos[u] >= pos[first] /\ pos[last] >= pos[first] /\ pos[u] <= pos[last]}}
  BY <1>1, <1>2, <1>6 DEF InRange
<1>8. \A u \in Listed : pos[u] \in Nat
  BY DEF StoreInv, ViewType
<1> QED
  BY <1>2, <1>6, <1>7, <1>8 DEF first, last

\* In a view in order, what overlaps the range from one listed event to a later
\* one is what stands between the two.
LEMMA RangeOverlaps ==
  ASSUME StoreInv, MemoryOrdered, backend = "memory", pc = "idle",
         NEW a \in Listed, NEW b \in Listed, pos[a] <= pos[b]
  PROVE  Overlapping(Start(a), End(b)) = {u \in Listed : pos[a] <= pos[u] /\ pos[u] <= pos[b]}
<1>1. \A t, u \in Listed : pos[t] < pos[u] => End(t) < Start(u)
  BY DEF MemoryOrdered, InOrder
<1>2. /\ \A t \in Listed : pos[t] \in Nat /\ Start(t) \in Nat /\ End(t) \in Nat /\ Start(t) <= End(t)
      /\ \A t, u \in Listed : t # u => pos[t] < pos[u] \/ pos[u] < pos[t]
  BY MemoryFacts
<1>3. ASSUME NEW u \in Listed, pos[a] <= pos[u], pos[u] <= pos[b]
      PROVE  Start(u) <= End(b) /\ End(u) >= Start(a)
  <2>1. u = b \/ pos[u] < pos[b]
    BY <1>2, <1>3
  <2>2. u = a \/ pos[a] < pos[u]
    BY <1>2, <1>3
  <2>3. Start(u) <= End(b)
    BY <2>1, <1>1, <1>2
  <2> QED
    BY <2>2, <2>3, <1>1, <1>2
<1>4. ASSUME NEW u \in Listed, Start(u) <= End(b), End(u) >= Start(a)
      PROVE  pos[a] <= pos[u] /\ pos[u] <= pos[b]
  <2>1. ~(pos[u] < pos[a]) /\ ~(pos[b] < pos[u])
    BY <1>1, <1>2, <1>4
  <2> QED
    BY <2>1, <1>2
<1> QED
  BY <1>3, <1>4 DEF Overlapping

\* A step of an agent with summarizers is one its log can take by itself.
LEMMA LogSteps ==
  ASSUME StoreInv, SummariesType, ForkInv, SNext
  PROVE  /\ [Next]_vars
         /\ active => OwnStep \/ UNCHANGED vars
<1>1. CASE ~active /\ Next /\ UNCHANGED svars
  BY <1>1
<1>2. ASSUME OwnStep \/ UNCHANGED vars PROVE [Next]_vars
  BY <1>2 DEF OwnStep, Next
<1>3. ASSUME NEW t \in Turns, BeforeTurn(t) PROVE OwnStep \/ UNCHANGED vars
  <2> SUFFICES ASSUME ~UNCHANGED vars PROVE OwnStep
    OBVIOUS
  <2>1. /\ fork = "done" /\ closing = "open" /\ Fresh(fsource)
        /\ Replace(Start(FirstOf(fsource)), End(LastOf(fsource)))
    BY <1>3 DEF BeforeTurn
  <2>2. FirstOf(fsource) \in Listed /\ LastOf(fsource) \in Listed
    BY <2>1, FreshSource DEF ForkInv
  <2> QED
    BY <2>1, <2>2, ListedNumbers DEF Replace, OwnStep
<1>4. ASSUME NEW t \in Turns, ApplyMethod(t) PROVE OwnStep \/ UNCHANGED vars
  <2>1. UNCHANGED vars \/ (method # "none" /\ Replace(mrange[1], mrange[2]))
    BY <1>4 DEF ApplyMethod
  <2> QED
    BY <2>1 DEF SummariesType, Replace, OwnStep
<1>5. ASSUME NEW t \in Turns, CallOverflows(t) PROVE OwnStep \/ UNCHANGED vars
  <2> DEFINE first == CHOOSE v \in Listed : pos[v] = 0
  <2>1. UNCHANGED vars \/ \E u \in Listed : Replace(Start(first), End(u))
    BY <1>5 DEF CallOverflows
  <2>2. ASSUME NEW u \in Listed, Replace(Start(first), End(u)) PROVE OwnStep
    <3>1. active /\ backend = "memory"
      BY <1>5 DEF CallOverflows, Free, SummariesType
    <3>2. /\ {pos[v] : v \in Listed} = 0..(Cardinality(Listed) - 1)
          /\ Cardinality(Listed) \in Nat /\ pos[u] \in Nat /\ pos[u] < Cardinality(Listed)
      BY <3>1, MemoryFacts DEF IsList, Listed
    <3>3. 0 \in 0..(Cardinality(Listed) - 1)
      BY <3>2
    <3>4. \E v \in Listed : pos[v] = 0
      BY <3>2, <3>3
    <3>5. first \in Listed
      BY <3>4
    <3> HIDE DEF first
    <3>6. Start(first) \in Nums /\ End(u) \in Nums
      BY <3>5, ListedNumbers
    <3> QED
      BY <2>2, <3>6 DEF Replace, OwnStep
  <2> QED
    BY <2>1, <2>2
<1>6. ASSUME NEW t \in Turns,
             Call(t) \/ Respond(t) \/ RespondForks(t) \/ CancelTurn(t) \/ Record(t) \/ AfterTurn(t)
      PROVE  OwnStep \/ UNCHANGED vars
  BY <1>6 DEF Call, Respond, RespondForks, CancelTurn, Record, AfterTurn, OwnStep
<1>7. CASE Collapsing
  BY <1>7, <1>2 DEF Collapsing, OwnStep
<1>8. CASE ForkSucceeds \/ ForkFails \/ MethodEnds \/ CloseStarts \/ CloseEnds
  BY <1>8 DEF ForkSucceeds, ForkFails, MethodEnds, CloseStarts, CloseEnds
<1> QED
  BY <1>1, <1>2, <1>3, <1>4, <1>5, <1>6, <1>7, <1>8 DEF SNext

\* The variables of the summarizers keep their types: the range of a method
\* runs from one serial number to another.
LEMMA SummariesTypes ==
  ASSUME StoreInv, SummariesType, ForkInv, SNext
  PROVE  SummariesType'
<1> DEFINE F == {"none", "running", "done", "loose"}
           C == {"open", "closing", "closed"}
           M == {"none", "running", "done"}
<1>0. /\ active \in BOOLEAN /\ (active => backend = "memory") /\ turn \in [Turns -> Turning]
      /\ fork \in F /\ closing \in C /\ ftext \in BOOLEAN /\ owed \in Nat /\ method \in M
      /\ method # "none" => mrange[1] \in Nums /\ mrange[2] \in Nums
  BY DEF SummariesType
<1>1. active' = active /\ (active => backend' = backend)
  <2>1. active' = active
    BY DEF SNext, svars, BeforeTurn, ApplyMethod, Call, CallOverflows, Respond, RespondForks, CancelTurn,
           Record, AfterTurn, Collapsing, ForkSucceeds, ForkFails, MethodEnds, CloseStarts, CloseEnds
  <2>2. active => OwnStep \/ UNCHANGED vars
    BY LogSteps
  <2>3. OwnStep \/ UNCHANGED vars => backend' = backend
    BY DEF OwnStep, vars, Add, Collapse, Archive, CollapseUnlist, Index, StoreSummary, Move, Place, Remove, Clear
  <2> QED
    BY <2>1, <2>2, <2>3
<1>2. turn' \in [Turns -> Turning]
  <2>1. ASSUME NEW t \in Turns, NEW where \in Turning, Goes(t, where) PROVE turn' \in [Turns -> Turning]
    BY <1>0, <2>1, OneTurnMoves
  <2>2. \/ turn' = turn
        \/ \E t \in Turns, where \in Turning : Goes(t, where)
        \/ turn' = [t \in Turns |-> IF turn[t] = "awaiting" THEN "idle" ELSE turn[t]]
    BY DEF SNext, svars, BeforeTurn, ApplyMethod, Call, CallOverflows, Respond, RespondForks, CancelTurn,
           Record, AfterTurn, Collapsing, ForkSucceeds, ForkFails, MethodEnds, CloseStarts, CloseEnds, Turning,
           Awaiting
  <2>3. ASSUME turn' = [t \in Turns |-> IF turn[t] = "awaiting" THEN "idle" ELSE turn[t]]
        PROVE  turn' \in [Turns -> Turning]
    BY <1>0, <2>3 DEF Turning
  <2> QED
    BY <1>0, <2>1, <2>2, <2>3
<1>3. fork' \in F /\ closing' \in C /\ ftext' \in BOOLEAN /\ owed' \in Nat
  <2> DEFINE Typed == fork' \in F /\ closing' \in C /\ ftext' \in BOOLEAN /\ owed' \in Nat
  <2>1. ASSUME UNCHANGED <<forks, closing>> PROVE Typed
    BY <1>0, <2>1 DEF forks
  <2>2. ASSUME NEW t \in Turns, BeforeTurn(t) PROVE Typed
    <3>1. \/ fork' = "none" /\ ftext' = FALSE /\ owed' = 0
          \/ fork' = fork /\ ftext' = ftext /\ owed' = owed
      BY <2>2 DEF BeforeTurn, ClearFork, forks
    <3>2. closing' = closing
      BY <2>2 DEF BeforeTurn
    <3>3. 0 \in Nat
      OBVIOUS
    <3>4. CASE fork' = "none" /\ ftext' = FALSE /\ owed' = 0
      BY <1>0, <3>2, <3>3, <3>4
    <3>5. CASE fork' = fork /\ ftext' = ftext /\ owed' = owed
      BY <1>0, <3>2, <3>5
    <3> QED
      BY <3>1, <3>4, <3>5
  <2>3. ASSUME NEW t \in Turns, RespondForks(t) PROVE Typed
    <3>1. fork' = "running" /\ ftext' = ftext /\ owed' = owed /\ closing' = closing
      BY <2>3 DEF RespondForks
    <3> QED
      BY <1>0, <3>1
  <2>4. ASSUME NEW t \in Turns, CancelTurn(t) PROVE Typed
    <3>1. fork' \in {fork, "done", "none"}
      BY <2>4 DEF CancelTurn
    <3>2. ftext' = ftext /\ owed' = owed /\ closing' = closing
      BY <2>4 DEF CancelTurn
    <3> QED
      BY <1>0, <3>1, <3>2
  <2>5. ASSUME ForkSucceeds PROVE Typed
    <3>1. fork' \in {"done", "none"}
      BY <2>5 DEF ForkSucceeds
    <3>2. ftext' = TRUE /\ owed' = owed + 1 /\ closing' = closing
      BY <2>5 DEF ForkSucceeds
    <3> QED
      BY <1>0, <3>1, <3>2
  <2>6. ASSUME ForkFails PROVE Typed
    <3>1. fork' \in {"done", "none"}
      BY <2>6 DEF ForkFails
    <3>2. ftext' = FALSE /\ owed' = owed /\ closing' = closing
      BY <2>6 DEF ForkFails
    <3> QED
      BY <1>0, <3>1, <3>2
  <2>7. ASSUME CloseStarts PROVE Typed
    <3>1. fork' \in {fork, "none"}
      BY <2>7 DEF CloseStarts
    <3>2. ftext' = ftext /\ owed' = owed /\ closing' = "closing"
      BY <2>7 DEF CloseStarts
    <3> QED
      BY <1>0, <3>1, <3>2
  <2>8. ASSUME CloseEnds PROVE Typed
    <3>1. fork' \in {"loose", "none"}
      BY <2>8 DEF CloseEnds
    <3>2. ftext' = FALSE /\ owed' = 0 /\ closing' = "closed"
      BY <2>8 DEF CloseEnds
    <3> QED
      BY <1>0, <3>1, <3>2
  <2>9. \/ UNCHANGED <<forks, closing>>
        \/ \E t \in Turns : BeforeTurn(t) \/ RespondForks(t) \/ CancelTurn(t)
        \/ ForkSucceeds \/ ForkFails \/ CloseStarts \/ CloseEnds
    BY DEF SNext, svars, ApplyMethod, Call, CallOverflows, Respond, Record, AfterTurn, Collapsing, MethodEnds
  <2> HIDE DEF Typed
  <2>10. Typed
    BY <2>1, <2>2, <2>3, <2>4, <2>5, <2>6, <2>7, <2>8, <2>9
  <2> QED
    BY <2>10 DEF Typed
<1>4. method' \in M /\ (method' # "none" => mrange'[1] \in Nums /\ mrange'[2] \in Nums)
  <2>1. CASE UNCHANGED <<method, mrange>>
    BY <1>0, <2>1
  <2>2. ASSUME NEW t \in Turns, ApplyMethod(t)
        PROVE  method' \in M /\ (method' # "none" => mrange'[1] \in Nums /\ mrange'[2] \in Nums)
    BY <1>0, <2>2 DEF ApplyMethod, methods
  <2>3. ASSUME NEW t \in Turns, AfterTurn(t)
        PROVE  method' \in M /\ (method' # "none" => mrange'[1] \in Nums /\ mrange'[2] \in Nums)
    <3>1. \/ UNCHANGED <<method, mrange>>
          \/ method' = "running" /\ \E u, v \in Listed : mrange' = <<Start(u), End(v)>>
      BY <2>3 DEF AfterTurn
    <3> QED
      BY <1>0, <3>1, ListedNumbers
  <2>4. CASE MethodEnds
    BY <1>0, <2>4 DEF MethodEnds
  <2>5. \/ UNCHANGED <<method, mrange>>
        \/ \E t \in Turns : ApplyMethod(t) \/ AfterTurn(t)
        \/ MethodEnds
    BY DEF SNext, svars, methods, BeforeTurn, Call, CallOverflows, Respond, RespondForks, CancelTurn,
           Record, Collapsing, ForkSucceeds, ForkFails, CloseStarts, CloseEnds
  <2> QED
    BY <2>1, <2>2, <2>3, <2>4, <2>5
<1> QED
  BY <1>0, <1>1, <1>2, <1>3, <1>4 DEF SummariesType

\* No summary of a fork is applied to a log without summarizers.
Unclaimed == ~active => claim = {}

\* What a collapse takes is the source of the summary it puts there, from the
\* moment it starts.
LEMMA HonestNext ==
  ASSUME StoreInv, SummariesType, ForkInv, active => MemoryOrdered, Unclaimed, SummaryHonest, SNext
  PROVE  Unclaimed' /\ SummaryHonest'
<1>1. CASE ~active /\ Next /\ UNCHANGED svars
  BY <1>1 DEF svars, Unclaimed, SummaryHonest
<1>2. CASE active
  <2>1. active'
    BY <1>2 DEF SNext, svars, BeforeTurn, ApplyMethod, Call, CallOverflows, Respond, RespondForks, CancelTurn,
           Record, AfterTurn, Collapsing, ForkSucceeds, ForkFails, MethodEnds, CloseStarts, CloseEnds
  <2>2. ASSUME NEW t \in Turns, BeforeTurn(t) PROVE SummaryHonest'
    <3>1. CASE UNCHANGED <<vars, claim>>
      BY <3>1 DEF vars, call, store, SummaryHonest, Entry
    <3>2. CASE ~UNCHANGED <<vars, claim>>
      <4>1. /\ fork = "done" /\ closing = "open" /\ Fresh(fsource) /\ claim' = fsource
            /\ Collapse(Start(FirstOf(fsource)), End(LastOf(fsource)))
        BY <2>2, <3>2 DEF BeforeTurn, Replace
      <4>2. /\ pc = "idle" /\ events' = events
            /\ gone' = Overlapping(Start(FirstOf(fsource)), End(LastOf(fsource)))
        BY <4>1 DEF Collapse, store
      <4>3. fsource # {}
        BY <4>1 DEF ForkInv
      <4>4. /\ FirstOf(fsource) \in Listed /\ LastOf(fsource) \in Listed
            /\ pos[FirstOf(fsource)] <= pos[LastOf(fsource)]
            /\ fsource = {Entry(u) : u \in {v \in Listed : pos[FirstOf(fsource)] <= pos[v] /\ pos[v] <= pos[LastOf(fsource)]}}
        BY <4>1, <4>3, FreshSource
      <4>5. backend = "memory"
        BY <1>2 DEF SummariesType
      <4>6. gone' = {v \in Listed : pos[FirstOf(fsource)] <= pos[v] /\ pos[v] <= pos[LastOf(fsource)]}
        BY <1>2, <4>2, <4>4, <4>5, RangeOverlaps
      <4>7. fsource = {Entry(u) : u \in gone'}
        BY <4>4, <4>6
      <4>8. gone' = {p[1] : p \in fsource}
        <5>1. ASSUME NEW G, NEW S, S = {Entry(u) : u \in G} PROVE G = {p[1] : p \in S}
          <6>1. \A u : Entry(u)[1] = u
            BY DEF Entry
          <6>2. \A u \in G : Entry(u) \in S
            BY <5>1
          <6>3. \A p \in S : \E u \in G : p = Entry(u)
            BY <5>1
          <6> QED
            BY <6>1, <6>2, <6>3
        <5> QED
          BY <4>7, <5>1
      <4>9. \A u : Entry(u)' = Entry(u)
        BY <4>2 DEF Entry
      <4> QED
        BY <4>1, <4>7, <4>8, <4>9 DEF SummaryHonest
    <3> QED
      BY <3>1, <3>2
  <2>3. ASSUME NEW t \in Turns, ApplyMethod(t) \/ CallOverflows(t) PROVE SummaryHonest'
    BY <2>3 DEF ApplyMethod, CallOverflows, SummaryHonest
  <2>4. ASSUME NEW t \in Turns, Record(t) PROVE SummaryHonest'
    BY <2>4 DEF Record, Add, call, SummaryHonest
  <2>5. ASSUME UNCHANGED <<vars, claim>> PROVE SummaryHonest'
    BY <2>5 DEF vars, call, store, SummaryHonest, Entry
  <2>6. ASSUME Collapsing PROVE SummaryHonest'
    <3>1. claim' = claim
      BY <2>6 DEF Collapsing
    <3>2. CASE Archive \/ CollapseUnlist \/ Index
      <4>1. pc \in {"archive", "unlist", "index"} /\ gone' = gone /\ events' = events
        BY <3>2 DEF Archive, CollapseUnlist, Index, store
      <4> QED
        BY <3>1, <4>1 DEF SummaryHonest, Entry
    <3>3. CASE StoreSummary \/ Move \/ Place
      <4>1. pc' \in {"move", "place", "idle"}
        BY <3>3 DEF StoreSummary, Move, Place
      <4> QED
        BY <4>1 DEF SummaryHonest
    <3> QED
      BY <2>6, <3>2, <3>3 DEF Collapsing
  <2>7. \/ UNCHANGED <<vars, claim>>
        \/ \E t \in Turns : BeforeTurn(t) \/ ApplyMethod(t) \/ CallOverflows(t) \/ Record(t)
        \/ Collapsing
    BY <1>2 DEF SNext, Call, Respond, RespondForks, CancelTurn,
           AfterTurn, ForkSucceeds, ForkFails, MethodEnds, CloseStarts, CloseEnds
  <2> QED
    BY <2>1, <2>2, <2>3, <2>4, <2>5, <2>6, <2>7 DEF Unclaimed
<1> QED
  BY <1>1, <1>2 DEF SNext, BeforeTurn, ApplyMethod, Call, CallOverflows, Respond, RespondForks, CancelTurn,
     Record, AfterTurn, Collapsing, ForkSucceeds, ForkFails, MethodEnds, CloseStarts, CloseEnds, Free

\* The log of an agent starts with one event, its Task.
LEMMA RecordedTask ==
  ASSUME TaskRecorded
  PROVE  StoreInv /\ MemoryOrdered /\ NothingHidden
<1>1. MaxEvents \in Nat /\ 1 \in Nums
  BY EventLogAssumption, SummariesAssumption DEF Nums
<1>2. /\ backend \in Backends /\ archived = {} /\ next_tag = 2
      /\ pc = "idle" /\ todo = {} /\ gone = {} /\ place = 0 /\ other = 0 /\ ids = 1 /\ dropped = {}
  BY DEF TaskRecorded
<1>3. /\ Stored = {<<1>>} /\ events[<<1>>] = [id |-> 1, kids |-> {}]
      /\ Listed = {<<1>>} /\ pos[<<1>>] = 0 /\ pos = [t \in {<<1>>} |-> 0]
      /\ DOMAIN given = {1} /\ given[1] = 1
  BY DEF TaskRecorded, Extend, Empty, Stored, Listed
<1>4. <<1>> \in Tags /\ Start(<<1>>) = 1 /\ End(<<1>>) = 1
  BY <1>1 DEF Tags, Start, End
<1>5. events[<<1>>] \in [id : 1..(MaxEvents + 1), kids : SUBSET Tags]
  <2>1. 1 \in 1..(MaxEvents + 1)
    BY <1>1
  <2> QED
    BY <1>3, <2>1
<1>6. LogType
  BY <1>1, <1>2, <1>3, <1>4, <1>5 DEF LogType, Nums
<1>7. ViewType /\ CallType
  BY <1>1, <1>2, <1>3, <1>4 DEF ViewType, CallType
<1>8. Returned /\ Numbered /\ HeldBack
  BY <1>2, <1>3, <1>4 DEF Returned, Numbered, HeldBack
<1>9. Cardinality(Listed) = 1
  BY <1>3, FS_Singleton
<1>10. ListKept
  <2>1. DOMAIN pos = {<<1>>} /\ Cardinality(DOMAIN pos) = 1 /\ 0..(1 - 1) = {0}
    BY <1>3, <1>9 DEF Listed
  <2> QED
    BY <1>3, <2>1 DEF ListKept, IsList
<1>11. UnderWay
  BY <1>1, <1>2, <1>3, <1>4, <1>9 DEF UnderWay, Storing, Choosing, Placing
<1>12. MemoryOrdered
  BY <1>2, <1>3 DEF MemoryOrdered, InOrder, Sides, Anchor, Gap, LastIn, Storing
<1>13. NothingHidden
  BY <1>2, <1>3, <1>4 DEF NothingHidden, Span
<1> QED
  BY <1>3, <1>6, <1>7, <1>8, <1>10, <1>11, <1>12, <1>13 DEF StoreInv

SummariesInv ==
  /\ StoreInv /\ (active => MemoryOrdered)
  /\ SummariesType /\ ForkInv /\ Unclaimed /\ SummaryHonest

\* The log, the fork and the summary that is applied agree in every state.
LEMMA SummariesInvariant == SSpec => []SummariesInv
<1>1. SInit => SummariesInv
  <2> SUFFICES ASSUME SInit PROVE SummariesInv
    OBVIOUS
  <2>1. StoreInv /\ (active => MemoryOrdered) /\ active \in BOOLEAN
    BY StoreInvInit, RecordedTask DEF SInit
  <2>2. active => backend = "memory"
    BY DEF SInit, TaskRecorded
  <2>3. SummariesType /\ Unclaimed /\ SummaryHonest
    BY <2>1, <2>2 DEF SInit, SummariesType, Turning, Unclaimed, SummaryHonest
  <2>4. ForkInv
    BY DEF SInit, ForkInv, Awaiting
  <2> QED
    BY <2>1, <2>3, <2>4 DEF SummariesInv
<1>2. SummariesInv /\ [SNext]_allvars => SummariesInv'
  <2>1. ASSUME SummariesInv, SNext PROVE SummariesInv'
    <3>1. StoreInv /\ SummariesType /\ ForkInv /\ Unclaimed /\ SummaryHonest /\ (active => MemoryOrdered)
      BY <2>1 DEF SummariesInv
    <3>2. [Next]_vars /\ (active => OwnStep \/ UNCHANGED vars)
      BY <2>1, <3>1, LogSteps
    <3>3. StoreInv'
      BY <3>1, <3>2, StoreInvNext
    <3>4. SummariesType' /\ ForkInv' /\ Unclaimed' /\ SummaryHonest'
      BY <2>1, <3>1, SummariesTypes, ForkNext, HonestNext
    <3>5. active' => MemoryOrdered'
      <4>1. active' = active
        BY <2>1 DEF SNext, svars, BeforeTurn, ApplyMethod, Call, CallOverflows, Respond, RespondForks, CancelTurn,
               Record, AfterTurn, Collapsing, ForkSucceeds, ForkFails, MethodEnds, CloseStarts, CloseEnds
      <4>2. active => backend = "memory"
        BY <3>1 DEF SummariesType
      <4> QED
        BY <3>1, <3>2, <4>1, <4>2, OwnStepOrdered
    <3> QED
      BY <3>3, <3>4, <3>5 DEF SummariesInv
  <2>2. ASSUME SummariesInv, UNCHANGED allvars PROVE SummariesInv'
    <3>1. UNCHANGED vars /\ UNCHANGED svars
      BY <2>2 DEF allvars
    <3>2. StoreInv' /\ (active => MemoryOrdered')
      BY <2>2, <3>1, StoreInvNext, OwnStepOrdered DEF SummariesInv, SummariesType
    <3>3. active' = active /\ SummariesType' /\ ForkInv' /\ Unclaimed'
      BY <2>2, <3>1 DEF SummariesInv, SummariesType, ForkInv, Unclaimed, Awaiting, svars, forks, methods, vars
    <3>4. SummaryHonest'
      BY <2>2, <3>1 DEF SummariesInv, SummaryHonest, Entry, svars, vars, call, store
    <3> QED
      BY <3>2, <3>3, <3>4 DEF SummariesInv
  <2> QED
    BY <2>1, <2>2
<1> QED
  BY <1>1, <1>2, PTL DEF SSpec

\* For any number of concurrent calls, however they interleave with a fork,
\* with the collapses of the other summarizer, with overflowing requests,
\* cancellations and the closing of the agent: a summary that a fork wrote
\* replaces exactly the events its request showed.
THEOREM SummariesAreHonest == SSpec => []SummaryHonest
<1>1. SummariesInv => SummaryHonest
  BY DEF SummariesInv
<1> QED
  BY <1>1, SummariesInvariant, PTL

\* Likewise: no finished summary is overwritten while the agent is open, and a
\* fork runs exactly while one call waits for it.
THEOREM SummariesAreKept == SSpec => []SummaryKept
<1>1. SummariesInv => SummaryKept
  <2> SUFFICES ASSUME SummariesInv PROVE SummaryKept
    OBVIOUS
  <2>1. ForkInv /\ fork \in {"none", "running", "done", "loose"}
    BY DEF SummariesInv, SummariesType
  <2>2. Cardinality({}) = 0 /\ \A t \in Turns : Cardinality({t}) = 1
    BY FS_EmptySet, FS_Singleton
  <2>3. fork \in {"running", "loose"} => Cardinality(Awaiting) = 1
    BY <2>1, <2>2 DEF ForkInv
  <2>4. fork \in {"none", "done"} => Cardinality(Awaiting) = 0
    BY <2>1, <2>2 DEF ForkInv
  <2> QED
    BY <2>1, <2>3, <2>4 DEF ForkInv, SummaryKept
<1> QED
  BY <1>1, SummariesInvariant, PTL

\* The tags of a log stay stable also when summarizers collapse ranges of it.
THEOREM TagsStableUnderSummaries == SSpec => []StableTags
<1>1. SummariesInv => StableTags
  BY StoreInvStable DEF SummariesInv
<1> QED
  BY <1>1, SummariesInvariant, PTL

\* An agent with both summarizers and the recovery from over-long prompts takes
\* no step on its log but those of the log itself (EventManager.add, collapse,
\* remove, clear): they reach the log through its operations only.
THEOREM SummariesUseTheLog == SSpec => [][Next]_vars
<1>1. SummariesInv /\ [SNext]_allvars => [Next]_vars
  <2>1. SummariesInv /\ SNext => [Next]_vars
    BY LogSteps DEF SummariesInv
  <2>2. UNCHANGED allvars => [Next]_vars
    BY DEF allvars
  <2> QED
    BY <2>1, <2>2
<1> QED
  BY <1>1, SummariesInvariant, PTL DEF SSpec

\* And its view stays in order and complete, under the hypotheses of ViewKept.
THEOREM ViewKeptUnderSummaries ==
  ASSUME "memory" \notin Shared, Backends \ Faulty \subseteq {"memory"}
  PROVE  SSpec => []ViewFaithful
<1> DEFINE I == StoreInv /\ MemoryOrdered /\ NothingHidden
<1>1. SInit => I
  BY LogStarts, RecordedTask DEF SInit
<1>2. SummariesInv /\ SummariesInv' /\ I /\ [SNext]_allvars => I'
  <2>1. SummariesInv /\ SNext => [Next]_vars
    BY LogSteps DEF SummariesInv
  <2>2. UNCHANGED allvars => [Next]_vars
    BY DEF allvars
  <2> QED
    BY <2>1, <2>2, StoreInvNext, MemoryOrderedNext, NothingHiddenNext
<1>3. I => ViewFaithful
  BY ViewIsFaithful
<1> HIDE DEF I
<1> QED
  BY <1>1, <1>2, <1>3, SummariesInvariant, PTL DEF SSpec
=============================================================================
