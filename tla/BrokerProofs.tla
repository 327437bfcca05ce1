---------------------------- MODULE BrokerProofs ----------------------------
(***************************************************************************)
(* Proofs about the admission broker, for any number of connections and    *)
(* controllers and any settings of the group.                              *)
(***************************************************************************)
EXTENDS Broker, QueueTheorems, FiniteSetTheorems, FunctionTheorems

\* The part of TypeOK that _offer_available assigns.
StateType ==
  /\ waiters \in Seq(Conns)
  /\ active \in Int /\ reserved_calls \in Int /\ admitted_calls \in Nat
  /\ not_before \in Nat /\ wake \in Nat \cup {NoTimer}
  /\ wstate \in [Conns -> WaiterStates]

----------------------------------------------------------------------------
\* When the gate is open and nothing blocks, the loop of _offer_available
\* makes at least one offer and at most one per queued waiter.
LEMMA OfferCountRange ==
  ASSUME NEW q \in Seq(Conns), NEW act \in Int, NEW res \in Int, NEW adm \in Nat,
         ~Blocked(q, act, res, adm)
  PROVE  /\ OfferCount(q, act, res, adm) \in 1..Len(q)
         /\ act + OfferCount(q, act, res, adm) <= MaxInFlight
         /\ MaxCalls # NoCap => adm + res + OfferCount(q, act, res, adm) <= MaxCalls
<1>1. Len(q) \in Nat /\ Len(q) > 0
  BY EmptySeq, LenProperties DEF Blocked
<1>2. act < MaxInFlight /\ MaxInFlight \in Nat
  BY BrokerAssumption DEF Blocked
<1>3. MaxCalls # NoCap => MaxCalls \in Nat /\ adm + res < MaxCalls
  BY BrokerAssumption DEF Blocked, CapReserved
<1>4. CASE MaxCalls = NoCap
  BY <1>1, <1>2, <1>4 DEF OfferCount, Least
<1>5. CASE MaxCalls # NoCap
  <2>1. \A a, b \in Int : Least(a, b) <= a /\ Least(a, b) <= b /\ Least(a, b) \in {a, b}
    BY DEF Least
  <2>2. CASE Interval > 0
    <3>1. OfferCount(q, act, res, adm) = 1
      BY <2>2 DEF OfferCount
    <3> QED
      BY <3>1, <1>1, <1>2, <1>3
  <2>3. CASE ~(Interval > 0)
    <3> DEFINE slots == MaxInFlight - act
               budget == MaxCalls - adm - res
               free == Least(slots, budget)
    <3>1. OfferCount(q, act, res, adm) = Least(Len(q), free)
      BY <2>3, <1>5 DEF OfferCount
    <3>2. slots \in Int /\ slots > 0 /\ budget \in Int /\ budget > 0
      BY <1>2, <1>3, <1>5
    <3>3. free \in Int /\ 0 < free /\ free <= slots /\ free <= budget
      <4> HIDE DEF slots, budget
      <4> QED
        BY <3>2, <2>1
    <3>4. /\ Least(Len(q), free) \in 1..Len(q)
          /\ Least(Len(q), free) <= slots
          /\ Least(Len(q), free) <= budget
      <4> HIDE DEF slots, budget, free
      <4> QED
        BY <3>2, <3>3, <2>1, <1>1
    <3> HIDE DEF free
    <3> QED
      BY <3>1, <3>4, <1>1, <1>2, <1>3
  <2> QED
    BY <2>2, <2>3
<1> QED
  BY <1>4, <1>5

\* _offer_available leaves well typed state behind.
LEMMA OfferAvailableType ==
  ASSUME NEW q \in Seq(Conns), NEW ws \in [Conns -> WaiterStates],
         NEW act \in Int, NEW res \in Int, NEW adm \in Nat, NEW gate \in Nat,
         OfferAvailable(q, ws, act, res, adm, gate)
  PROVE  StateType'
<1>1. CASE ~closed /\ CapReached(adm)
  <2>1. waiters' = <<>>
    BY <1>1 DEF OfferAvailable
  <2>2. wstate' = [c \in Conns |-> IF c \in Members(q) THEN "terminal" ELSE ws[c]]
    BY <1>1 DEF OfferAvailable
  <2>3. active' = act /\ reserved_calls' = res /\ admitted_calls' = adm /\ not_before' = gate /\ wake' = NoTimer
    BY <1>1 DEF OfferAvailable
  <2> QED
    BY <2>1, <2>2, <2>3 DEF StateType, WaiterStates
<1>2. CASE /\ closed \/ ~CapReached(adm)
           /\ Blocked(q, act, res, adm) \/ gate > 0
  <2>1. waiters' = q /\ wstate' = ws
    BY <1>2 DEF OfferAvailable
  <2>2. active' = act /\ reserved_calls' = res /\ admitted_calls' = adm /\ not_before' = gate
    BY <1>2 DEF OfferAvailable
  <2>3. wake' \in {NoTimer, gate}
    BY <1>2 DEF OfferAvailable
  <2> QED
    BY <2>1, <2>2, <2>3 DEF StateType
<1>3. CASE ~CapReached(adm) /\ ~Blocked(q, act, res, adm) /\ gate = 0
  <2> DEFINE k == OfferCount(q, act, res, adm)
  <2>1. k \in 1..Len(q)
    BY <1>3, OfferCountRange
  <2>2. waiters' = SubSeq(q, k + 1, Len(q))
    BY <1>3 DEF OfferAvailable
  <2>3. wstate' = [c \in Conns |-> IF c \in {q[i] : i \in 1..k} THEN "offered" ELSE ws[c]]
    BY <1>3 DEF OfferAvailable
  <2>4. /\ active' = act + k /\ reserved_calls' = res + k /\ admitted_calls' = adm
        /\ not_before' = Interval /\ wake' = NoTimer
    BY <1>3 DEF OfferAvailable
  <2>5. waiters' \in Seq(Conns)
    <3>1. k + 1 \in 1..(Len(q) + 1) /\ Len(q) \in Nat
      BY <2>1, LenProperties
    <3>2. \A j \in (k + 1)..Len(q) : q[j] \in Conns
      BY <3>1, ElementOfSeq
    <3> QED
      BY <2>2, <3>1, <3>2, SubSeqProperties
  <2>6. wstate' \in [Conns -> WaiterStates]
    BY <2>3 DEF WaiterStates
  <2>7. k \in Int
    BY <2>1, LenProperties
  <2> HIDE DEF k
  <2> QED
    BY <2>4, <2>5, <2>6, <2>7, BrokerAssumption DEF StateType
<1> QED
  BY <1>1, <1>2, <1>3 DEF OfferAvailable

----------------------------------------------------------------------------
(***************************************************************************)
(* Type correctness.                                                       *)
(***************************************************************************)

\* The variables _offer_available does not touch.
RestType ==
  /\ closed \in BOOLEAN
  /\ hst \in [Conns -> HandlerStates]
  /\ cst \in [Conns -> ClientStates]
  /\ ctl_closed \in [Controllers -> BOOLEAN]
  /\ c2s \in [Conns -> Seq(ToServer)] /\ s2c \in [Conns -> Seq(ToClient)]
  /\ attempts \in Nat /\ dispatched \in Nat /\ since_confirm \in 0..Interval

\* The type invariant is what _offer_available assigns and the rest.
LEMMA TypeSplit == TypeOK <=> StateType /\ RestType
  BY DEF TypeOK, StateType, RestType

\* The operations of _BrokerState keep its type.
LEMMA OperationsType ==
  ASSUME StateType, NEW c \in Conns
  PROVE  /\ Enqueue(c) => StateType'
         /\ Disconnect(c) => StateType'
         /\ Confirm(c) => StateType'
         /\ \A d \in 1..MaxCooldown : Cooldown(d) => StateType'
<1> USE DEF StateType
<1>1. ASSUME Enqueue(c) PROVE StateType'
  <2>1. Append(waiters, c) \in Seq(Conns)
    BY AppendProperties
  <2>2. [wstate EXCEPT ![c] = "queued"] \in [Conns -> WaiterStates]
    BY DEF WaiterStates
  <2> QED
    BY <1>1, <2>1, <2>2, OfferAvailableType DEF Enqueue
<1>2. ASSUME Disconnect(c) PROVE StateType'
  <2> DEFINE q == IF wstate[c] = "queued" THEN Without(waiters, c) ELSE waiters
             ws == [wstate EXCEPT ![c] = "none"]
             act == IF wstate[c] \in {"offered", "leased"} THEN active - 1 ELSE active
             res == IF wstate[c] = "offered" THEN reserved_calls - 1 ELSE reserved_calls
  <2>1. q \in Seq(Conns)
    BY WithoutType
  <2>2. ws \in [Conns -> WaiterStates]
    BY DEF WaiterStates
  <2>3. act \in Int /\ res \in Int
    OBVIOUS
  <2>4. OfferAvailable(q, ws, act, res, admitted_calls, not_before)
    BY <1>2 DEF Disconnect
  <2> HIDE DEF q, ws, act, res
  <2> QED
    BY <2>1, <2>2, <2>3, <2>4, OfferAvailableType
<1>3. ASSUME Confirm(c) PROVE StateType'
  <2> DEFINE gate == IF Interval > 0 THEN Greatest(not_before, Interval) ELSE not_before
  <2>1. [wstate EXCEPT ![c] = "leased"] \in [Conns -> WaiterStates]
    BY DEF WaiterStates
  <2>2. gate \in Nat
    BY BrokerAssumption DEF Greatest
  <2>3. OfferAvailable(waiters, [wstate EXCEPT ![c] = "leased"], active,
                       reserved_calls - 1, admitted_calls + 1, gate)
    BY <1>3 DEF Confirm
  <2>4. reserved_calls - 1 \in Int /\ admitted_calls + 1 \in Nat
    OBVIOUS
  <2> HIDE DEF gate
  <2> QED
    BY <2>1, <2>2, <2>3, <2>4, OfferAvailableType
<1>4. ASSUME NEW d \in 1..MaxCooldown, Cooldown(d) PROVE StateType'
  <2>1. Greatest(not_before, Least(d, MaxCooldown)) \in Nat
    BY BrokerAssumption DEF Greatest, Least
  <2> QED
    BY <1>4, <2>1, OfferAvailableType DEF Cooldown
<1> QED
  BY <1>1, <1>2, <1>3, <1>4

\* What the sockets and the ends of a connection hold stays well typed.
LEMMA SocketTypes ==
  ASSUME RestType, NEW c \in Conns
  PROVE  /\ \A m \in ToClient : Reply(c, <<m>>) => s2c' \in [Conns -> Seq(ToClient)]
         /\ c2s[c] # <<>> /\ Take(c) => c2s' \in [Conns -> Seq(ToServer)]
         /\ \A n \in Nat, ms \in Seq(ToServer) : Send(c, n, ms) =>
              s2c' \in [Conns -> Seq(ToClient)] /\ c2s' \in [Conns -> Seq(ToServer)]
         /\ \A cs : CloseAll(cs) =>
              /\ cst' \in [Conns -> ClientStates]
              /\ s2c' \in [Conns -> Seq(ToClient)] /\ c2s' \in [Conns -> Seq(ToServer)]
         /\ \A last \in Seq(ToClient) : HandlerGone(c, last) =>
              /\ cst' \in [Conns -> ClientStates] /\ hst' \in [Conns -> HandlerStates]
              /\ s2c' \in [Conns -> Seq(ToClient)] /\ c2s' \in [Conns -> Seq(ToServer)]
<1> USE DEF RestType
<1>0. c2s[c] \in Seq(ToServer) /\ s2c[c] \in Seq(ToClient)
  OBVIOUS
<1>1. ASSUME NEW m \in ToClient, Reply(c, <<m>>) PROVE s2c' \in [Conns -> Seq(ToClient)]
  <2>1. s2c[c] \o <<m>> \in Seq(ToClient)
    BY <1>0, ConcatProperties
  <2> QED
    BY <1>1, <2>1 DEF Reply
<1>2. ASSUME c2s[c] # <<>>, Take(c) PROVE c2s' \in [Conns -> Seq(ToServer)]
  <2>1. Tail(c2s[c]) \in Seq(ToServer)
    BY <1>0, <1>2, HeadTailProperties
  <2> QED
    BY <1>2, <2>1 DEF Take
<1>3. ASSUME NEW n \in Nat, NEW ms \in Seq(ToServer), Send(c, n, ms)
      PROVE  s2c' \in [Conns -> Seq(ToClient)] /\ c2s' \in [Conns -> Seq(ToServer)]
  <2>1. SubSeq(s2c[c], n + 1, Len(s2c[c])) \in Seq(ToClient)
    <3>1. Len(s2c[c]) \in Nat
      BY <1>0, LenProperties
    <3>2. \A i \in (n + 1)..Len(s2c[c]) : s2c[c][i] \in ToClient
      BY <1>0, <3>1, ElementOfSeq
    <3> QED
      BY <3>1, <3>2, SubSeqProperties
  <2>2. c2s[c] \o ms \in Seq(ToServer)
    BY <1>0, ConcatProperties
  <2> QED
    BY <1>3, <2>1, <2>2 DEF Send
<1>4. ASSUME NEW cs, CloseAll(cs)
      PROVE  /\ cst' \in [Conns -> ClientStates]
             /\ s2c' \in [Conns -> Seq(ToClient)] /\ c2s' \in [Conns -> Seq(ToServer)]
  <2>1. <<>> \in Seq(ToClient) /\ <<"eof">> \in Seq(ToServer)
    BY DEF ToServer
  <2>2. \A d \in Conns : Append(c2s[d], "eof") \in Seq(ToServer)
    BY AppendProperties DEF ToServer
  <2>3. cst' \in [Conns -> ClientStates]
    BY <1>4 DEF CloseAll, ClientStates
  <2>4. s2c' \in [Conns -> Seq(ToClient)]
    BY <1>4, <2>1 DEF CloseAll
  <2>5. c2s' \in [Conns -> Seq(ToServer)]
    BY <1>4, <2>1, <2>2 DEF CloseAll
  <2> QED
    BY <2>3, <2>4, <2>5
<1>5. ASSUME NEW last \in Seq(ToClient), HandlerGone(c, last)
      PROVE  /\ cst' \in [Conns -> ClientStates] /\ hst' \in [Conns -> HandlerStates]
             /\ s2c' \in [Conns -> Seq(ToClient)] /\ c2s' \in [Conns -> Seq(ToServer)]
  <2>1. <<>> \in Seq(ToClient) /\ <<>> \in Seq(ToServer)
    OBVIOUS
  <2>2. s2c[c] \o last \in Seq(ToClient)
    BY <1>0, ConcatProperties
  <2> QED
    BY <1>5, <2>1, <2>2 DEF HandlerGone, ClientStates, HandlerStates
<1> QED
  BY <1>1, <1>2, <1>3, <1>4, <1>5

\* The initial state is well typed.
LEMMA InitType == Init => TypeOK
<1> SUFFICES ASSUME Init PROVE TypeOK
  OBVIOUS
<1>1. <<>> \in Seq(Conns) /\ <<>> \in Seq(ToServer) /\ <<>> \in Seq(ToClient)
  OBVIOUS
<1>2. c2s \in [Conns -> Seq(ToServer)] /\ s2c \in [Conns -> Seq(ToClient)]
  BY <1>1 DEF Init
<1>3. /\ wstate \in [Conns -> WaiterStates] /\ hst \in [Conns -> HandlerStates]
      /\ cst \in [Conns -> ClientStates] /\ ctl_closed \in [Controllers -> BOOLEAN]
  BY DEF Init, WaiterStates, HandlerStates, ClientStates
<1>4. /\ waiters \in Seq(Conns) /\ active \in Int /\ reserved_calls \in Int
      /\ admitted_calls \in Nat /\ not_before \in Nat /\ wake \in Nat \cup {NoTimer}
      /\ attempts \in Nat /\ dispatched \in Nat /\ since_confirm \in 0..Interval
  BY <1>1, BrokerAssumption DEF Init
<1>5. closed \in BOOLEAN
  BY DEF Init
<1> QED
  BY <1>2, <1>3, <1>4, <1>5 DEF TypeOK

\* Every step of a handler keeps the types.
LEMMA HandlerType ==
  ASSUME TypeOK, NEW c \in Conns, Handler(c)
  PROVE  TypeOK'
<1> SUFFICES StateType' /\ RestType'
  BY DEF TypeOK, StateType, RestType
<1>0. StateType /\ RestType
  BY TypeSplit
<1> DEFINE Client == \A m \in ToClient : Reply(c, <<m>>) => s2c' \in [Conns -> Seq(ToClient)]
           Gone == \A last \in Seq(ToClient) : HandlerGone(c, last) =>
                     /\ cst' \in [Conns -> ClientStates] /\ hst' \in [Conns -> HandlerStates]
                     /\ s2c' \in [Conns -> Seq(ToClient)] /\ c2s' \in [Conns -> Seq(ToServer)]
<1>1. /\ Client /\ Gone
      /\ c2s[c] # <<>> /\ Take(c) => c2s' \in [Conns -> Seq(ToServer)]
  BY <1>0, SocketTypes
<1>2. /\ Enqueue(c) => StateType'
      /\ Disconnect(c) => StateType'
      /\ Confirm(c) => StateType'
      /\ \A d \in 1..MaxCooldown : Cooldown(d) => StateType'
  BY <1>0, OperationsType
<1>3. UNCHANGED state => StateType'
  BY <1>0 DEF state, StateType
<1>4. /\ <<"unauthorized", "eof">> \in Seq(ToClient)
      /\ <<"call_cap", "eof">> \in Seq(ToClient)
      /\ <<>> \in Seq(ToClient)
  BY DEF ToClient
<1> HIDE DEF Client, Gone
<1>a. CASE HandleRequest(c)
  BY <1>0, <1>1, <1>2, <1>a DEF HandleRequest, Reads, RestType, HandlerStates, ghost
<1>b. CASE HandleUnauthorized(c)
  <2>1. HandlerGone(c, <<"unauthorized", "eof">>) /\ UNCHANGED <<state, closed, ctl_closed, ghost>>
    BY <1>b DEF HandleUnauthorized
  <2> QED
    BY <2>1, <1>0, <1>1, <1>3, <1>4 DEF Gone, RestType, ghost
<1>c. CASE SendOffer(c)
  BY <1>0, <1>1, <1>3, <1>c DEF SendOffer, Client, ToClient, RestType, HandlerStates, ghost
<1>d. CASE SendCallCap(c)
  <2>1. Disconnect(c) /\ HandlerGone(c, <<"call_cap", "eof">>) /\ UNCHANGED <<closed, ctl_closed, ghost>>
    BY <1>d DEF SendCallCap
  <2> QED
    BY <2>1, <1>0, <1>1, <1>2, <1>4 DEF Gone, RestType, ghost
<1>e. CASE HandleAccept(c)
  BY <1>0, <1>1, <1>3, <1>e DEF HandleAccept, Reads, Client, ToClient, RestType, HandlerStates, ghost
<1>f. CASE HandleAcquired(c)
  BY <1>0, <1>1, <1>2, <1>f, BrokerAssumption
  DEF HandleAcquired, Reads, Client, ToClient, RestType, HandlerStates
<1>g. CASE HandleCooldown(c)
  <2>1. StateType'
    BY <1>g, <1>2 DEF HandleCooldown
  <2>2. RestType'
    BY <1>0, <1>1, <1>g DEF HandleCooldown, Reads, Client, ToClient, RestType, ghost
  <2> QED
    BY <2>1, <2>2
<1>h. CASE HandleRelease(c)
  BY <1>0, <1>1, <1>2, <1>h DEF HandleRelease, Reads, RestType, HandlerStates, ghost
<1>i. CASE HandlerEof(c)
  <2>1. Disconnect(c) /\ HandlerGone(c, <<>>) /\ UNCHANGED <<closed, ctl_closed, ghost>>
    BY <1>i DEF HandlerEof
  <2> QED
    BY <2>1, <1>0, <1>1, <1>2, <1>4 DEF Gone, RestType, ghost
<1>j. CASE HandlerCancelled(c)
  <2>1. Disconnect(c) /\ HandlerGone(c, <<>>) /\ UNCHANGED <<closed, ctl_closed, ghost>>
    BY <1>j DEF HandlerCancelled
  <2> QED
    BY <2>1, <1>0, <1>1, <1>2, <1>4 DEF Gone, RestType, ghost
<1> QED
  BY <1>a, <1>b, <1>c, <1>d, <1>e, <1>f, <1>g, <1>h, <1>i, <1>j DEF Handler

\* Every step of a child keeps the types.
LEMMA ChildType ==
  ASSUME TypeOK, NEW c \in Conns, Child(c)
  PROVE  TypeOK'
<1> SUFFICES StateType' /\ RestType'
  BY DEF TypeOK, StateType, RestType
<1>0. StateType /\ RestType
  BY TypeSplit
<1>1. StateType'
  BY <1>0 DEF Child, Acquire, GetOffer, GetReady, GetConfirmed, AcquireFails, ProviderReturns,
     ProviderOverloaded, GetCooldownApplied, FeedbackFails, IdleExpires, state, StateType
<1> DEFINE Sent(n) == \A ms \in Seq(ToServer) : Send(c, n, ms) =>
             s2c' \in [Conns -> Seq(ToClient)] /\ c2s' \in [Conns -> Seq(ToServer)]
<1>2. Sent(0) /\ Sent(1)
  BY <1>0, SocketTypes
<1>3. CloseAll({c}) => /\ cst' \in [Conns -> ClientStates]
                       /\ s2c' \in [Conns -> Seq(ToClient)] /\ c2s' \in [Conns -> Seq(ToServer)]
  BY <1>0, SocketTypes
<1>4. <<>> \in Seq(ToServer) /\ \A m \in ToServer : <<m>> \in Seq(ToServer)
  OBVIOUS
<1>5. ASSUME NEW n \in {0, 1}, ReleaseConnection(c, n)
      PROVE  /\ cst' \in [Conns -> ClientStates]
             /\ s2c' \in [Conns -> Seq(ToClient)] /\ c2s' \in [Conns -> Seq(ToServer)]
  <2>1. CASE Send(c, n, <<"release">>) /\ cst' = [cst EXCEPT ![c] = "idle"]
    BY <1>0, <1>2, <1>4, <2>1 DEF ToServer, ClientStates, RestType
  <2>2. CASE /\ s2c' = [s2c EXCEPT ![c] = <<>>]
             /\ c2s' = IF hst[c] = "none" THEN c2s
                       ELSE [c2s EXCEPT ![c] = @ \o <<"release", "eof">>]
             /\ cst' = [cst EXCEPT ![c] = IF hst[c] = "none" THEN "none" ELSE "closed"]
    <3>1. <<"release", "eof">> \in Seq(ToServer) /\ <<>> \in Seq(ToClient)
      BY DEF ToServer
    <3>2. c2s[c] \o <<"release", "eof">> \in Seq(ToServer)
      BY <1>0, <3>1, ConcatProperties DEF RestType
    <3> QED
      BY <1>0, <2>2, <3>1, <3>2 DEF RestType, ClientStates
  <2> QED
    BY <1>5, <2>1, <2>2 DEF ReleaseConnection
<1> HIDE DEF Sent
<1>a. CASE Acquire(c)
  <2>1. s2c' \in [Conns -> Seq(ToClient)] /\ c2s' \in [Conns -> Seq(ToServer)]
    <3>1. <<"request">> \in Seq(ToServer) /\ <<>> \in Seq(ToClient)
      BY <1>4 DEF ToServer
    <3>2. CASE Send(c, 0, <<"request">>)
      BY <3>1, <3>2, <1>2 DEF Sent
    <3>3. CASE c2s' = [c2s EXCEPT ![c] = <<"request">>] /\ s2c' = [s2c EXCEPT ![c] = <<>>]
      BY <3>1, <3>3, <1>0 DEF RestType
    <3> QED
      BY <1>a, <3>2, <3>3 DEF Acquire
  <2>2. hst' \in [Conns -> HandlerStates] /\ cst' \in [Conns -> ClientStates] /\ attempts' \in Nat
    <3>1. hst' = hst \/ hst' = [hst EXCEPT ![c] = "request"]
      BY <1>a DEF Acquire
    <3>2. cst' = [cst EXCEPT ![c] = "requested"] /\ attempts' = attempts + 1
      BY <1>a DEF Acquire
    <3> QED
      BY <1>0, <3>1, <3>2 DEF RestType, HandlerStates, ClientStates
  <2>3. UNCHANGED <<closed, ctl_closed, dispatched, since_confirm>>
    BY <1>a DEF Acquire
  <2> QED
    BY <1>0, <1>1, <2>1, <2>2, <2>3 DEF RestType
<1>b. CASE GetOffer(c)
  BY <1>0, <1>1, <1>2, <1>4, <1>b DEF GetOffer, Sent, ToServer, ClientStates, RestType, ghost
<1>c. CASE GetReady(c)
  BY <1>0, <1>1, <1>2, <1>4, <1>c DEF GetReady, Sent, ToServer, ClientStates, RestType, ghost
<1>d. CASE GetConfirmed(c)
  <2>1. s2c' \in [Conns -> Seq(ToClient)] /\ c2s' \in [Conns -> Seq(ToServer)]
    BY <1>2, <1>4, <1>d DEF GetConfirmed, Sent
  <2>2. cst' = [cst EXCEPT ![c] = "running"] /\ dispatched' = dispatched + 1
    BY <1>d DEF GetConfirmed
  <2>3. UNCHANGED <<closed, hst, ctl_closed, attempts, since_confirm>>
    BY <1>d DEF GetConfirmed
  <2> QED
    BY <1>0, <1>1, <2>1, <2>2, <2>3 DEF ClientStates, RestType
<1>e. CASE AcquireFails(c)
  BY <1>0, <1>1, <1>3, <1>e DEF AcquireFails, RestType, ghost
<1>f. CASE ProviderReturns(c)
  BY <1>0, <1>1, <1>5, <1>f DEF ProviderReturns, RestType, ghost
<1>g. CASE ProviderOverloaded(c)
  BY <1>0, <1>1, <1>2, <1>4, <1>g DEF ProviderOverloaded, Sent, ToServer, ClientStates, RestType, ghost
<1>h. CASE GetCooldownApplied(c)
  BY <1>0, <1>1, <1>5, <1>h DEF GetCooldownApplied, RestType, ghost
<1>i. CASE FeedbackFails(c)
  BY <1>0, <1>1, <1>3, <1>i DEF FeedbackFails, RestType, ghost
<1>j. CASE IdleExpires(c)
  BY <1>0, <1>1, <1>3, <1>j DEF IdleExpires, RestType, ghost
<1> QED
  BY <1>a, <1>b, <1>c, <1>d, <1>e, <1>f, <1>g, <1>h, <1>i, <1>j DEF Child

\* Every step keeps the types.
LEMMA NextType == TypeOK /\ [Next]_vars => TypeOK'
<1> SUFFICES ASSUME TypeOK, [Next]_vars PROVE TypeOK'
  OBVIOUS
<1>0. StateType /\ RestType
  BY TypeSplit
<1>s. StateType' /\ RestType' => TypeOK'
  BY DEF TypeOK, StateType, RestType
<1>1. CASE \E c \in Conns : Handler(c) \/ Child(c)
  BY <1>1, HandlerType, ChildType
<1>2. ASSUME NEW p \in Controllers, ControllerClose(p) \/ ChildCrash(p)
      PROVE  TypeOK'
  <2>1. StateType'
    BY <1>0, <1>2 DEF ControllerClose, ChildCrash, state, StateType
  <2>2. PICK cs : CloseAll(cs)
    BY <1>2 DEF ControllerClose, ChildCrash
  <2>3. Conns # {} => /\ cst' \in [Conns -> ClientStates]
                      /\ s2c' \in [Conns -> Seq(ToClient)] /\ c2s' \in [Conns -> Seq(ToServer)]
    BY <1>0, <2>2, SocketTypes
  <2>4. Conns = {} => /\ cst' \in [Conns -> ClientStates]
                      /\ s2c' \in [Conns -> Seq(ToClient)] /\ c2s' \in [Conns -> Seq(ToServer)]
    BY <2>2 DEF CloseAll
  <2>5. RestType'
    BY <1>0, <1>2, <2>3, <2>4 DEF ControllerClose, ChildCrash, RestType, ghost
  <2> QED
    BY <1>s, <2>1, <2>5
<1>3. CASE WakeFires
  <2>1. StateType'
    BY <1>0, <1>3, OfferAvailableType DEF WakeFires, StateType
  <2>2. RestType'
    BY <1>0, <1>3 DEF WakeFires, RestType, net, ghost
  <2> QED
    BY <1>s, <2>1, <2>2
<1>4. CASE Shutdown
  <2>1. StateType'
    BY <1>0, <1>4 DEF Shutdown, StateType
  <2>2. \A c \in Conns : Append(s2c[c], "eof") \in Seq(ToClient)
    BY <1>0, AppendProperties DEF RestType, ToClient
  <2>3. s2c' \in [Conns -> Seq(ToClient)]
    BY <1>0, <1>4, <2>2 DEF Shutdown, RestType
  <2>4. RestType'
    BY <1>0, <1>4, <2>3 DEF Shutdown, RestType, ghost
  <2> QED
    BY <1>s, <2>1, <2>4
<1>5. CASE Tick
  <2>1. StateType'
    BY <1>0, <1>5 DEF Tick, StateType, Greatest, NoTimer
  <2>2. RestType'
    BY <1>0, <1>5, BrokerAssumption DEF Tick, RestType, net, Least
  <2> QED
    BY <1>s, <2>1, <2>2
<1>6. CASE UNCHANGED vars
  BY <1>6 DEF vars, state, net, ghost, TypeOK
<1> QED
  BY <1>1, <1>2, <1>3, <1>4, <1>5, <1>6 DEF Next

\* Every reachable state of the broker, its handlers, its children and the
\* sockets between them is well typed.
THEOREM TypeCorrect == Spec => []TypeOK
  BY InitType, NextType, PTL DEF Spec

----------------------------------------------------------------------------
(***************************************************************************)
(* Proof that the broker's counters always are the sets they stand for and *)
(* that slots and budget are never overbooked.                             *)
(*                                                                         *)
(* Neither is inductive by itself: enqueue counts a waiter twice if its    *)
(* connection already has one, and confirm takes back a reservation that   *)
(* an un-offered waiter never made.  What excludes both is where the       *)
(* connection's handler stands (HandlerWaiter).                            *)
(***************************************************************************)

\* What a handler awaits tells the state of its waiter.
Fits(h, w) ==
  /\ h \in {"none", "request"} => w = "none"
  /\ h = "outcome" => w \in {"queued", "offered", "terminal"}
  /\ h \in {"ack", "acquired"} => w = "offered"
  /\ h = "release" => w = "leased"

HandlerWaiter == \A c \in Conns : Fits(hst[c], wstate[c])

\* The inductive invariant.
AccountingInv == TypeOK /\ Accounting /\ CapacityKept /\ HandlerWaiter

----------------------------------------------------------------------------
(***************************************************************************)
(* The books for a given queue and given waiter states and counters.       *)
(***************************************************************************)

In(ws, S) == {c \in Conns : ws[c] \in S}

Books(q, ws, act, res) ==
  /\ act = Cardinality(In(ws, {"offered", "leased"}))
  /\ res = Cardinality(In(ws, {"offered"}))
  /\ Members(q) = In(ws, {"queued"})
  /\ \A i, j \in 1..Len(q) : q[i] = q[j] => i = j

Room(act, res, adm) ==
  /\ act <= MaxInFlight
  /\ MaxCalls # NoCap => adm + res <= MaxCalls

\* The books as the steps use them are the accounting the runs check.
LEMMA BooksAreAccounting ==
  /\ Accounting <=> Books(waiters, wstate, active, reserved_calls)
  /\ Accounting' <=> Books(waiters', wstate', active', reserved_calls')
  /\ CapacityKept <=> Room(active, reserved_calls, admitted_calls)
  /\ CapacityKept' <=> Room(active', reserved_calls', admitted_calls')
<1>1. \A ws : In(ws, {"offered"}) = {c \in Conns : ws[c] = "offered"}
              /\ In(ws, {"queued"}) = {c \in Conns : ws[c] = "queued"}
  BY DEF In
<1>2. /\ {c \in Conns : Holds(c)} = In(wstate, {"offered", "leased"})
      /\ {c \in Conns : Holds(c)}' = In(wstate', {"offered", "leased"})
  BY DEF In, Holds
<1> QED
  BY <1>1, <1>2 DEF Accounting, Books, CapacityKept, Room

\* A set of connections with one more, or one less.
LEMMA CountOneMore ==
  ASSUME NEW S \in SUBSET Conns, NEW c
  PROVE  /\ IsFiniteSet(S) /\ Cardinality(S) \in Nat
         /\ c \notin S => Cardinality(S \cup {c}) = Cardinality(S) + 1
         /\ c \in S => Cardinality(S \ {c}) = Cardinality(S) - 1
<1>1. IsFiniteSet(S)
  BY FS_Subset, BrokerAssumption
<1> QED
  BY <1>1, FS_CardinalityType, FS_AddElement, FS_RemoveElement

\* The first k entries of a queue without repetitions are k connections.
LEMMA PrefixCount ==
  ASSUME NEW q \in Seq(Conns), \A i, j \in 1..Len(q) : q[i] = q[j] => i = j,
         NEW k \in 0..Len(q)
  PROVE  /\ IsFiniteSet({q[i] : i \in 1..k})
         /\ Cardinality({q[i] : i \in 1..k}) = k
<1> DEFINE T == {q[i] : i \in 1..k}
           f == [i \in 1..k |-> q[i]]
<1>1. Len(q) \in Nat /\ k \in Nat /\ 1..k \subseteq 1..Len(q)
  BY LenProperties
<1>2. f \in [1..k -> T] /\ \A a, b \in 1..k : f[a] = f[b] => a = b
  BY <1>1
<1>3. \A t \in T : \E s \in 1..k : f[s] = t
  OBVIOUS
<1>4. f \in Bijection(1..k, T)
  BY <1>2, <1>3, Fun_IsBij
<1>5. ExistsBijection(1..k, T)
  BY <1>4, Fun_ExistsBij
<1>6. Cardinality(T) = k
  BY <1>1, <1>5, FS_CountingElements
<1>7. IsFiniteSet(T)
  BY <1>1, <1>5, FS_NatBijection
<1> QED
  BY <1>6, <1>7

----------------------------------------------------------------------------
(***************************************************************************)
(* _offer_available keeps the books.                                       *)
(***************************************************************************)

\* The states of the waiters after an operation that began with ws.
After(ws) ==
  \A d \in Conns : \/ wstate'[d] = ws[d]
                   \/ ws[d] = "queued" /\ wstate'[d] \in {"offered", "terminal"}

Kept(ws) == Accounting' /\ CapacityKept' /\ After(ws)

\* One pass of _offer_available over books that are right leaves them right.
LEMMA OfferKeepsBooks ==
  ASSUME NEW q \in Seq(Conns), NEW ws \in [Conns -> WaiterStates],
         NEW act \in Int, NEW res \in Int, NEW adm \in Nat, NEW gate \in Nat,
         Books(q, ws, act, res), Room(act, res, adm),
         OfferAvailable(q, ws, act, res, adm, gate)
  PROVE  Kept(ws)
<1>m. \A c \in Conns : c \in Members(q) <=> ws[c] = "queued"
  BY DEF Books, In
<1> SUFFICES /\ Books(waiters', wstate', active', reserved_calls')
             /\ Room(active', reserved_calls', admitted_calls')
             /\ After(ws)
  BY BooksAreAccounting DEF Kept
<1>1. CASE ~closed /\ CapReached(adm)
  <2>1. wstate' = [c \in Conns |-> IF c \in Members(q) THEN "terminal" ELSE ws[c]]
    BY <1>1 DEF OfferAvailable
  <2>2. waiters' = <<>> /\ active' = act /\ reserved_calls' = res /\ admitted_calls' = adm
    BY <1>1 DEF OfferAvailable
  <2>3. \A c \in Conns : wstate'[c] = IF ws[c] = "queued" THEN "terminal" ELSE ws[c]
    BY <2>1, <1>m
  <2>4. /\ In(wstate', {"offered", "leased"}) = In(ws, {"offered", "leased"})
        /\ In(wstate', {"offered"}) = In(ws, {"offered"})
        /\ In(wstate', {"queued"}) = {}
    BY <2>3 DEF In
  <2>5. Len(<<>>) = 0 /\ Members(<<>>) = {}
    BY DEF Members
  <2>6. After(ws)
    BY <2>3 DEF After
  <2>7. \A i, j \in 1..Len(waiters') : waiters'[i] = waiters'[j] => i = j
    BY <2>2, <2>5
  <2>8. Members(waiters') = In(wstate', {"queued"})
    BY <2>2, <2>4, <2>5
  <2>9. Books(waiters', wstate', active', reserved_calls')
    BY <2>2, <2>4, <2>7, <2>8 DEF Books
  <2>10. Room(active', reserved_calls', admitted_calls')
    BY <2>2
  <2> QED
    BY <2>6, <2>9, <2>10
<1>2. CASE /\ closed \/ ~CapReached(adm)
           /\ Blocked(q, act, res, adm) \/ gate > 0
  <2>1. /\ waiters' = q /\ wstate' = ws /\ active' = act /\ reserved_calls' = res
        /\ admitted_calls' = adm
    BY <1>2 DEF OfferAvailable
  <2> QED
    BY <2>1 DEF After
<1>3. CASE ~CapReached(adm) /\ ~Blocked(q, act, res, adm) /\ gate = 0
  <2> DEFINE k == OfferCount(q, act, res, adm)
             offers == {q[i] : i \in 1..k}
             rest == SubSeq(q, k + 1, Len(q))
  <2>1. /\ k \in 1..Len(q) /\ act + k <= MaxInFlight
        /\ MaxCalls # NoCap => adm + res + k <= MaxCalls
    BY <1>3, OfferCountRange
  <2>2. /\ waiters' = rest /\ active' = act + k /\ reserved_calls' = res + k
        /\ admitted_calls' = adm
        /\ wstate' = [c \in Conns |-> IF c \in offers THEN "offered" ELSE ws[c]]
    BY <1>3 DEF OfferAvailable
  <2>a. Len(q) \in Nat /\ k \in Nat /\ k \in 0..Len(q) /\ \A i \in 1..Len(q) : q[i] \in Conns
    BY <2>1, LenProperties, ElementOfSeq
  <2> HIDE DEF k
  <2>3. IsFiniteSet(offers) /\ Cardinality(offers) = k
    BY <2>a, PrefixCount DEF Books
  <2>4. offers \subseteq Conns /\ \A c \in offers : ws[c] = "queued"
    <3>1. offers \subseteq Members(q)
      BY <2>a DEF Members
    <3>2. offers \subseteq Conns
      BY <2>a
    <3> QED
      BY <3>1, <3>2, <1>m
  <2>5. \A c \in Conns : wstate'[c] = IF c \in offers THEN "offered" ELSE ws[c]
    BY <2>2
  <2>6. After(ws)
    BY <2>4, <2>5 DEF After
  <2> DEFINE H == In(ws, {"offered", "leased"})
             O == In(ws, {"offered"})
  <2>7. /\ In(wstate', {"offered", "leased"}) = H \cup offers
        /\ In(wstate', {"offered"}) = O \cup offers
        /\ In(wstate', {"queued"}) = In(ws, {"queued"}) \ offers
        /\ H \cap offers = {} /\ O \cap offers = {}
    BY <2>4, <2>5 DEF In
  <2>8. IsFiniteSet(H) /\ IsFiniteSet(O) /\ Cardinality(H) \in Nat /\ Cardinality(O) \in Nat
    <3>1. H \in SUBSET Conns /\ O \in SUBSET Conns
      BY DEF In
    <3> QED
      BY <3>1, CountOneMore
  <2>9. Cardinality(H \cup offers) = Cardinality(H) + k /\ Cardinality(O \cup offers) = Cardinality(O) + k
    <3>1. Cardinality(H \cup offers) = Cardinality(H) + Cardinality(offers) - Cardinality(H \cap offers)
      BY <2>3, <2>8, FS_Union
    <3>2. Cardinality(O \cup offers) = Cardinality(O) + Cardinality(offers) - Cardinality(O \cap offers)
      BY <2>3, <2>8, FS_Union
    <3>3. Cardinality(H \cap offers) = 0 /\ Cardinality(O \cap offers) = 0
      BY <2>7, FS_EmptySet
    <3> HIDE DEF H, O, offers
    <3> QED
      BY <3>1, <3>2, <3>3, <2>3, <2>8, <2>a
  <2>10. active' = Cardinality(In(wstate', {"offered", "leased"}))
         /\ reserved_calls' = Cardinality(In(wstate', {"offered"}))
    BY <2>2, <2>7, <2>9 DEF Books
  <2>11. /\ Len(rest) = Len(q) - k
         /\ \A i \in 1..(Len(q) - k) : rest[i] = q[k + i]
    <3>1. \A i \in (k + 1)..Len(q) : q[i] \in Conns
      BY <2>a
    <3>2. /\ Len(rest) = IF k + 1 <= Len(q) THEN Len(q) - (k + 1) + 1 ELSE 0
          /\ \A i \in 1..(Len(q) - (k + 1) + 1) : rest[i] = q[(k + 1) + i - 1]
      BY <2>a, <3>1, SubSeqProperties
    <3> HIDE DEF rest
    <3>3. Len(rest) = Len(q) - k
      BY <2>a, <3>2
    <3>4. \A i \in 1..(Len(q) - k) : /\ i \in 1..(Len(q) - (k + 1) + 1)
                                     /\ (k + 1) + i - 1 = k + i
      BY <2>a
    <3>5. \A i \in 1..(Len(q) - k) : rest[i] = q[k + i]
      BY <3>2, <3>4
    <3> QED
      BY <3>3, <3>5
  <2> HIDE DEF rest
  <2>12. \A i, j \in 1..Len(rest) : rest[i] = rest[j] => i = j
    <3> SUFFICES ASSUME NEW i \in 1..Len(rest), NEW j \in 1..Len(rest), rest[i] = rest[j]
                 PROVE  i = j
      OBVIOUS
    <3>1. k + i \in 1..Len(q) /\ k + j \in 1..Len(q) /\ q[k + i] = q[k + j]
      BY <2>a, <2>11
    <3>2. k + i = k + j
      BY <3>1 DEF Books
    <3> QED
      BY <3>2, <2>a, <2>11
  <2>13. Members(rest) = In(ws, {"queued"}) \ offers
    <3>1. Members(q) = In(ws, {"queued"})
      BY DEF Books
    <3>2. ASSUME NEW x \in Members(rest) PROVE x \in Members(q) /\ x \notin offers
      <4>1. PICK i \in 1..Len(rest) : x = rest[i]
        BY <3>2 DEF Members
      <4>2. x = q[k + i] /\ k + i \in 1..Len(q)
        BY <4>1, <2>a, <2>11
      <4>3. \A j \in 1..k : q[j] # q[k + i]
        <5> SUFFICES ASSUME NEW j \in 1..k, q[j] = q[k + i] PROVE FALSE
          OBVIOUS
        <5>1. j \in 1..Len(q)
          BY <2>a
        <5>2. j = k + i
          BY <5>1, <4>2 DEF Books
        <5> QED
          BY <5>2, <2>a, <2>11
      <4> QED
        BY <4>2, <4>3 DEF Members
    <3>3. ASSUME NEW x \in Members(q), x \notin offers PROVE x \in Members(rest)
      <4>1. PICK i \in 1..Len(q) : x = q[i]
        BY DEF Members
      <4>2. i \notin 1..k
        BY <4>1, <3>3
      <4>3. i - k \in 1..Len(rest) /\ k + (i - k) = i
        BY <4>2, <2>a, <2>11
      <4>4. rest[i - k] = x
        BY <4>1, <4>3, <2>11
      <4> QED
        BY <4>3, <4>4 DEF Members
    <3> QED
      BY <3>1, <3>2, <3>3
  <2>14. Books(waiters', wstate', active', reserved_calls')
    BY <2>2, <2>7, <2>10, <2>12, <2>13 DEF Books
  <2>15. Room(active', reserved_calls', admitted_calls')
    BY <2>1, <2>2, <2>a, BrokerAssumption DEF Room
  <2> QED
    BY <2>6, <2>14, <2>15
<1> QED
  BY <1>1, <1>2, <1>3 DEF OfferAvailable

\* A request of a connection that has no waiter keeps the books.
LEMMA EnqueueKeeps ==
  ASSUME TypeOK, Accounting, CapacityKept, NEW c \in Conns, wstate[c] = "none", Enqueue(c)
  PROVE  Kept([wstate EXCEPT ![c] = "queued"])
<1> DEFINE ws == [wstate EXCEPT ![c] = "queued"]
           q == Append(waiters, c)
<1>0. /\ waiters \in Seq(Conns) /\ wstate \in [Conns -> WaiterStates]
      /\ active \in Int /\ reserved_calls \in Int /\ admitted_calls \in Nat /\ not_before \in Nat
  BY DEF TypeOK
<1>1. Books(waiters, wstate, active, reserved_calls) /\ Room(active, reserved_calls, admitted_calls)
  BY BooksAreAccounting
<1>2. /\ q \in Seq(Conns) /\ Len(q) = Len(waiters) + 1 /\ Len(waiters) \in Nat
      /\ \A i \in 1..Len(waiters) : q[i] = waiters[i]
      /\ q[Len(waiters) + 1] = c
  BY <1>0, AppendProperties, LenProperties
<1>3. ws \in [Conns -> WaiterStates] /\ \A d \in Conns : ws[d] = IF d = c THEN "queued" ELSE wstate[d]
  BY <1>0 DEF WaiterStates
<1>o. OfferAvailable(q, ws, active, reserved_calls, admitted_calls, not_before)
  BY DEF Enqueue
<1> HIDE DEF ws, q
<1>4. c \notin Members(waiters)
  BY <1>1 DEF Books, In
<1>5. \A i \in 1..Len(waiters) : waiters[i] # c
  BY <1>4 DEF Members
<1>6. /\ In(ws, {"offered", "leased"}) = In(wstate, {"offered", "leased"})
      /\ In(ws, {"offered"}) = In(wstate, {"offered"})
      /\ In(ws, {"queued"}) = In(wstate, {"queued"}) \cup {c}
  BY <1>3 DEF In
<1>7. Members(q) = Members(waiters) \cup {c}
  <2>1. 1..Len(q) = (1..Len(waiters)) \cup {Len(waiters) + 1}
    BY <1>2
  <2> QED
    BY <2>1, <1>2 DEF Members
<1>8. \A i, j \in 1..Len(q) : q[i] = q[j] => i = j
  <2>1. \A i, j \in 1..Len(waiters) : waiters[i] = waiters[j] => i = j
    BY <1>1 DEF Books
  <2>2. \A i \in 1..Len(q) : i \in 1..Len(waiters) \/ i = Len(waiters) + 1
    BY <1>2
  <2> QED
    BY <2>1, <2>2, <1>2, <1>5
<1>9. Books(q, ws, active, reserved_calls)
  BY <1>1, <1>6, <1>7, <1>8 DEF Books
<1>10. Kept(ws)
  BY <1>0, <1>1, <1>2, <1>3, <1>9, <1>o, OfferKeepsBooks
<1> QED
  BY <1>10 DEF ws

\* A connection that goes gives back what its waiter held.
LEMMA DisconnectKeeps ==
  ASSUME TypeOK, Accounting, CapacityKept, NEW c \in Conns, Disconnect(c)
  PROVE  Kept([wstate EXCEPT ![c] = "none"])
<1> DEFINE ws == [wstate EXCEPT ![c] = "none"]
           q == IF wstate[c] = "queued" THEN Without(waiters, c) ELSE waiters
           act == IF wstate[c] \in {"offered", "leased"} THEN active - 1 ELSE active
           res == IF wstate[c] = "offered" THEN reserved_calls - 1 ELSE reserved_calls
           H == In(wstate, {"offered", "leased"})
           O == In(wstate, {"offered"})
<1>0. /\ waiters \in Seq(Conns) /\ wstate \in [Conns -> WaiterStates]
      /\ active \in Int /\ reserved_calls \in Int /\ admitted_calls \in Nat /\ not_before \in Nat
  BY DEF TypeOK
<1>1. Books(waiters, wstate, active, reserved_calls) /\ Room(active, reserved_calls, admitted_calls)
  BY BooksAreAccounting
<1>2. q \in Seq(Conns) /\ act \in Int /\ res \in Int
  BY <1>0, WithoutType
<1>3. ws \in [Conns -> WaiterStates] /\ \A d \in Conns : ws[d] = IF d = c THEN "none" ELSE wstate[d]
  BY <1>0 DEF WaiterStates
<1>o. OfferAvailable(q, ws, act, res, admitted_calls, not_before)
  BY DEF Disconnect
<1>4. Room(act, res, admitted_calls)
  BY <1>0, <1>1, BrokerAssumption DEF Room
<1> HIDE DEF ws
<1>5. /\ In(ws, {"offered", "leased"}) = H \ {c}
      /\ In(ws, {"offered"}) = O \ {c}
      /\ In(ws, {"queued"}) = In(wstate, {"queued"}) \ {c}
  BY <1>3 DEF In
<1>6. act = Cardinality(H \ {c}) /\ res = Cardinality(O \ {c})
  <2>1. H \in SUBSET Conns /\ O \in SUBSET Conns
    BY DEF In
  <2>2. /\ c \in H => Cardinality(H \ {c}) = Cardinality(H) - 1
        /\ c \in O => Cardinality(O \ {c}) = Cardinality(O) - 1
    BY <2>1, CountOneMore
  <2>3. (c \notin H => H \ {c} = H) /\ (c \notin O => O \ {c} = O)
    OBVIOUS
  <2>4. (c \in H <=> wstate[c] \in {"offered", "leased"}) /\ (c \in O <=> wstate[c] = "offered")
    BY DEF In
  <2>5. active = Cardinality(H) /\ reserved_calls = Cardinality(O)
    BY <1>1 DEF Books
  <2> HIDE DEF H, O
  <2> QED
    BY <2>2, <2>3, <2>4, <2>5
<1>7. Members(q) = In(wstate, {"queued"}) \ {c} /\ \A i, j \in 1..Len(q) : q[i] = q[j] => i = j
  <2>1. /\ Members(waiters) = In(wstate, {"queued"})
        /\ \A i, j \in 1..Len(waiters) : waiters[i] = waiters[j] => i = j
    BY <1>1 DEF Books
  <2>2. CASE wstate[c] = "queued"
    <3>1. c \in Members(waiters)
      BY <2>1, <2>2 DEF In
    <3>2. /\ Members(Without(waiters, c)) = Members(waiters) \ {c}
          /\ \A i, j \in 1..Len(Without(waiters, c)) : Without(waiters, c)[i] = Without(waiters, c)[j] => i = j
      BY <1>0, <2>1, <3>1, WithoutMembers
    <3>3. q = Without(waiters, c)
      BY <2>2
    <3> HIDE DEF q
    <3> QED
      BY <2>1, <3>2, <3>3
  <2>3. CASE wstate[c] # "queued"
    <3>1. q = waiters
      BY <2>3
    <3>2. c \notin In(wstate, {"queued"})
      BY <2>3 DEF In
    <3> HIDE DEF q
    <3> QED
      BY <2>1, <3>1, <3>2
  <2> QED
    BY <2>2, <2>3
<1> HIDE DEF q, act, res, H, O
<1>8. Books(q, ws, act, res)
  BY <1>5, <1>6, <1>7 DEF Books
<1>9. Kept(ws)
  BY <1>0, <1>2, <1>3, <1>4, <1>8, <1>o, OfferKeepsBooks
<1> QED
  BY <1>9 DEF ws

\* A reservation that is confirmed becomes an admitted call.
LEMMA ConfirmKeeps ==
  ASSUME TypeOK, Accounting, CapacityKept, NEW c \in Conns, wstate[c] = "offered", Confirm(c)
  PROVE  Kept([wstate EXCEPT ![c] = "leased"])
<1> DEFINE ws == [wstate EXCEPT ![c] = "leased"]
           gate == IF Interval > 0 THEN Greatest(not_before, Interval) ELSE not_before
           O == In(wstate, {"offered"})
<1>0. /\ waiters \in Seq(Conns) /\ wstate \in [Conns -> WaiterStates]
      /\ active \in Int /\ reserved_calls \in Int /\ admitted_calls \in Nat /\ not_before \in Nat
  BY DEF TypeOK
<1>1. Books(waiters, wstate, active, reserved_calls) /\ Room(active, reserved_calls, admitted_calls)
  BY BooksAreAccounting
<1>2. gate \in Nat /\ reserved_calls - 1 \in Int /\ admitted_calls + 1 \in Nat
  BY <1>0, BrokerAssumption DEF Greatest
<1>3. ws \in [Conns -> WaiterStates] /\ \A d \in Conns : ws[d] = IF d = c THEN "leased" ELSE wstate[d]
  BY <1>0 DEF WaiterStates
<1>o. OfferAvailable(waiters, ws, active, reserved_calls - 1, admitted_calls + 1, gate)
  BY DEF Confirm
<1>4. Room(active, reserved_calls - 1, admitted_calls + 1)
  BY <1>0, <1>1, BrokerAssumption DEF Room
<1> HIDE DEF ws, gate
<1>5. /\ In(ws, {"offered", "leased"}) = In(wstate, {"offered", "leased"})
      /\ In(ws, {"offered"}) = O \ {c}
      /\ In(ws, {"queued"}) = In(wstate, {"queued"})
      /\ c \in O /\ O \in SUBSET Conns
  BY <1>3 DEF In
<1>6. Cardinality(O \ {c}) = Cardinality(O) - 1
  BY <1>5, CountOneMore
<1>7. Books(waiters, ws, active, reserved_calls - 1)
  BY <1>1, <1>5, <1>6 DEF Books
<1>8. Kept(ws)
  BY <1>0, <1>2, <1>3, <1>4, <1>7, <1>o, OfferKeepsBooks
<1> QED
  BY <1>8 DEF ws

\* A cooldown report and the timer make offers from the books as they are.
LEMMA RetryKeeps ==
  ASSUME TypeOK, Accounting, CapacityKept, NEW gate \in Nat,
         OfferAvailable(waiters, wstate, active, reserved_calls, admitted_calls, gate)
  PROVE  Kept(wstate)
<1>0. /\ waiters \in Seq(Conns) /\ wstate \in [Conns -> WaiterStates]
      /\ active \in Int /\ reserved_calls \in Int /\ admitted_calls \in Nat
  BY DEF TypeOK
<1>1. Books(waiters, wstate, active, reserved_calls) /\ Room(active, reserved_calls, admitted_calls)
  BY BooksAreAccounting
<1> QED
  BY <1>0, <1>1, OfferKeepsBooks

----------------------------------------------------------------------------
(***************************************************************************)
(* The inductive invariant.                                                *)
(***************************************************************************)

\* A broker operation that begins with ws, and ends with handlers that fit
\* ws, ends with handlers that fit: only a queued waiter is moved by
\* _offer_available, and its handler awaits the outcome.
LEMMA KeptFits ==
  ASSUME TypeOK', NEW ws, Kept(ws), \A d \in Conns : Fits(hst'[d], ws[d])
  PROVE  Accounting' /\ CapacityKept' /\ HandlerWaiter'
<1>1. ASSUME NEW d \in Conns PROVE Fits(hst'[d], wstate'[d])
  <2>1. hst'[d] \in HandlerStates /\ Fits(hst'[d], ws[d])
    BY DEF TypeOK
  <2>2. \/ wstate'[d] = ws[d]
        \/ ws[d] = "queued" /\ wstate'[d] \in {"offered", "terminal"}
    BY DEF Kept, After
  <2> QED
    BY <2>1, <2>2 DEF Fits, HandlerStates
<1> QED
  BY <1>1 DEF HandlerWaiter, Kept

\* The books are right at the start.
LEMMA AccountingInit == Init => AccountingInv
<1> SUFFICES ASSUME Init PROVE AccountingInv
  OBVIOUS
<1>1. TypeOK
  BY InitType
<1>2. /\ {c \in Conns : Holds(c)} = {}
      /\ {c \in Conns : wstate[c] = "offered"} = {}
      /\ {c \in Conns : wstate[c] = "queued"} = {}
  BY DEF Init, Holds
<1>3. Len(waiters) = 0 /\ Members(waiters) = {}
  BY DEF Init, Members
<1>4. Accounting
  <2>1. active = 0 /\ reserved_calls = 0
    BY DEF Init
  <2>2. Cardinality({}) = 0
    BY FS_EmptySet
  <2>3. \A i, j \in 1..Len(waiters) : waiters[i] = waiters[j] => i = j
    BY <1>3
  <2> QED
    BY <2>1, <2>2, <2>3, <1>2, <1>3 DEF Accounting
<1>5. CapacityKept
  BY BrokerAssumption DEF CapacityKept, Init
<1>6. HandlerWaiter
  BY DEF HandlerWaiter, Fits, Init
<1> QED
  BY <1>1, <1>4, <1>5, <1>6 DEF AccountingInv

\* The broker's handlers.
LEMMA HandlerKeeps ==
  ASSUME AccountingInv, TypeOK', NEW c \in Conns, Handler(c)
  PROVE  Accounting' /\ CapacityKept' /\ HandlerWaiter'
<1>0. /\ TypeOK /\ Accounting /\ CapacityKept
      /\ \A d \in Conns : Fits(hst[d], wstate[d])
      /\ hst \in [Conns -> HandlerStates] /\ wstate \in [Conns -> WaiterStates]
      /\ not_before \in Nat
  BY DEF AccountingInv, HandlerWaiter, TypeOK
<1> DEFINE Set(w) == [wstate EXCEPT ![c] = w]
\* The handler moves on to h and leaves its waiter, before any offer, in w.
<1>1. ASSUME NEW w, NEW h, Kept(Set(w)), hst' = [hst EXCEPT ![c] = h], Fits(h, w)
      PROVE  Accounting' /\ CapacityKept' /\ HandlerWaiter'
  <2>1. \A d \in Conns : Fits(hst'[d], Set(w)[d])
    BY <1>0, <1>1
  <2> QED
    BY <2>1, <1>1, KeptFits
\* The handler moves on to h, the broker's state stays.
<1>2. ASSUME NEW h, hst' = [hst EXCEPT ![c] = h], Fits(h, wstate[c]), UNCHANGED state
      PROVE  Accounting' /\ CapacityKept' /\ HandlerWaiter'
  BY <1>0, <1>2 DEF state, Accounting, Holds, CapacityKept, HandlerWaiter
\* The handler returns and its waiter with it.
<1>3. ASSUME NEW last, Disconnect(c), HandlerGone(c, last)
      PROVE  Accounting' /\ CapacityKept' /\ HandlerWaiter'
  <2>1. Kept(Set("none"))
    BY <1>0, <1>3, DisconnectKeeps
  <2>2. hst' = [hst EXCEPT ![c] = "none"] /\ Fits("none", "none")
    BY <1>3 DEF HandlerGone, Fits
  <2> HIDE DEF Set
  <2> QED
    BY <2>1, <2>2, <1>1
<1>a. CASE HandleRequest(c)
  <2>1. hst[c] = "request" /\ Enqueue(c) /\ hst' = [hst EXCEPT ![c] = "outcome"]
    BY <1>a DEF HandleRequest, Reads
  <2>2. wstate[c] = "none"
    BY <1>0, <2>1 DEF Fits
  <2>3. Kept(Set("queued")) /\ Fits("outcome", "queued")
    BY <1>0, <2>1, <2>2, EnqueueKeeps DEF Fits
  <2> HIDE DEF Set
  <2> QED
    BY <2>1, <2>3, <1>1
<1>b. CASE HandleUnauthorized(c)
  <2>1. hst[c] = "request" /\ hst' = [hst EXCEPT ![c] = "none"] /\ UNCHANGED state
    BY <1>b DEF HandleUnauthorized, Reads, HandlerGone
  <2>2. Fits("none", wstate[c])
    BY <1>0, <2>1 DEF Fits
  <2> QED
    BY <2>1, <2>2, <1>2
<1>c. CASE SendOffer(c)
  <2>1. wstate[c] = "offered" /\ hst' = [hst EXCEPT ![c] = "ack"] /\ UNCHANGED state
    BY <1>c DEF SendOffer
  <2>2. Fits("ack", wstate[c])
    BY <2>1 DEF Fits
  <2> QED
    BY <2>1, <2>2, <1>2
<1>d. CASE SendCallCap(c)
  BY <1>3, <1>d DEF SendCallCap
<1>e. CASE HandleAccept(c)
  <2>1. hst[c] = "ack" /\ hst' = [hst EXCEPT ![c] = "acquired"] /\ UNCHANGED state
    BY <1>e DEF HandleAccept, Reads
  <2>2. Fits("acquired", wstate[c])
    BY <1>0, <2>1 DEF Fits
  <2> QED
    BY <2>1, <2>2, <1>2
<1>f. CASE HandleAcquired(c)
  <2>1. hst[c] = "acquired" /\ Confirm(c) /\ hst' = [hst EXCEPT ![c] = "release"]
    BY <1>f DEF HandleAcquired, Reads
  <2>2. wstate[c] = "offered"
    BY <1>0, <2>1 DEF Fits
  <2>3. Kept(Set("leased")) /\ Fits("release", "leased")
    BY <1>0, <2>1, <2>2, ConfirmKeeps DEF Fits
  <2> HIDE DEF Set
  <2> QED
    BY <2>1, <2>3, <1>1
<1>g. CASE HandleCooldown(c)
  <2>1. PICK d \in 1..MaxCooldown : Cooldown(d)
    BY <1>g DEF HandleCooldown
  <2>2. hst' = hst
    BY <1>g DEF HandleCooldown
  <2>3. Greatest(not_before, Least(d, MaxCooldown)) \in Nat
    BY <1>0, BrokerAssumption DEF Greatest, Least
  <2>4. Kept(wstate)
    BY <1>0, <2>1, <2>3, RetryKeeps DEF Cooldown
  <2> QED
    BY <1>0, <2>2, <2>4, KeptFits
<1>h. CASE HandleRelease(c)
  <2>1. Disconnect(c) /\ hst' = [hst EXCEPT ![c] = "request"]
    BY <1>h DEF HandleRelease
  <2>2. Kept(Set("none")) /\ Fits("request", "none")
    BY <1>0, <2>1, DisconnectKeeps DEF Fits
  <2> HIDE DEF Set
  <2> QED
    BY <2>1, <2>2, <1>1
<1>i. CASE HandlerEof(c)
  BY <1>3, <1>i DEF HandlerEof
<1>j. CASE HandlerCancelled(c)
  BY <1>3, <1>j DEF HandlerCancelled
<1> QED
  BY <1>a, <1>b, <1>c, <1>d, <1>e, <1>f, <1>g, <1>h, <1>i, <1>j DEF Handler

\* The children do not touch the broker's state; one that connects starts a
\* handler that has no waiter yet.
LEMMA ChildKeeps ==
  ASSUME AccountingInv, NEW c \in Conns, Child(c)
  PROVE  Accounting' /\ CapacityKept' /\ HandlerWaiter'
<1>1. UNCHANGED state
  BY DEF Child, Acquire, GetOffer, GetReady, GetConfirmed, AcquireFails, ProviderReturns,
     ProviderOverloaded, GetCooldownApplied, FeedbackFails, IdleExpires
<1>2. \/ hst' = hst
      \/ hst[c] = "none" /\ hst' = [hst EXCEPT ![c] = "request"]
  BY DEF Child, Acquire, GetOffer, GetReady, GetConfirmed, AcquireFails, ProviderReturns,
     ProviderOverloaded, GetCooldownApplied, FeedbackFails, IdleExpires
<1>3. Accounting' /\ CapacityKept'
  BY <1>1 DEF AccountingInv, state, Accounting, Holds, CapacityKept
<1>4. HandlerWaiter'
  BY <1>1, <1>2 DEF AccountingInv, TypeOK, HandlerWaiter, Fits, state
<1> QED
  BY <1>3, <1>4

\* Every step keeps the books.
LEMMA AccountingNext == AccountingInv /\ [Next]_vars => AccountingInv'
<1> SUFFICES ASSUME AccountingInv, [Next]_vars PROVE AccountingInv'
  OBVIOUS
<1>0. TypeOK'
  BY NextType DEF AccountingInv
<1> SUFFICES Accounting' /\ CapacityKept' /\ HandlerWaiter'
  BY <1>0 DEF AccountingInv
\* Neither the counters, nor the waiters, nor the handlers change.
<1>1. ASSUME UNCHANGED <<waiters, active, reserved_calls, admitted_calls, wstate, hst>>
      PROVE  Accounting' /\ CapacityKept' /\ HandlerWaiter'
  BY <1>1 DEF AccountingInv, Accounting, Holds, CapacityKept, HandlerWaiter
<1>2. CASE \E c \in Conns : Handler(c) \/ Child(c)
  BY <1>0, <1>2, HandlerKeeps, ChildKeeps
<1>3. ASSUME NEW p \in Controllers, ControllerClose(p) \/ ChildCrash(p)
      PROVE  Accounting' /\ CapacityKept' /\ HandlerWaiter'
  BY <1>1, <1>3 DEF ControllerClose, ChildCrash, state
<1>4. CASE WakeFires
  <2>1. hst' = hst /\ \A d \in Conns : Fits(hst[d], wstate[d])
    BY <1>4 DEF WakeFires, AccountingInv, HandlerWaiter
  <2>2. Kept(wstate)
    BY <1>4, RetryKeeps DEF WakeFires, AccountingInv, TypeOK
  <2> QED
    BY <1>0, <2>1, <2>2, KeptFits
<1>5. CASE Shutdown
  BY <1>1, <1>5 DEF Shutdown
<1>6. CASE Tick
  BY <1>1, <1>6 DEF Tick
<1>7. CASE UNCHANGED vars
  BY <1>1, <1>7 DEF vars, state
<1> QED
  BY <1>2, <1>3, <1>4, <1>5, <1>6, <1>7 DEF Next

\* For every group of children, however they crash, reuse connections or give
\* up in the middle of the handshake: active and reserved_calls count exactly
\* the offered and leased waiters, the queue holds each queued waiter once,
\* and neither max_in_flight nor max_calls is overbooked.
THEOREM AccountingCorrect == Spec => [](Accounting /\ CapacityKept)
<1>1. AccountingInv => Accounting /\ CapacityKept
  BY DEF AccountingInv
<1> QED
  BY <1>1, AccountingInit, AccountingNext, PTL DEF Spec


----------------------------------------------------------------------------
(***************************************************************************)
(* No lost wakeup.  QueueServed is inductive: every operation ends in      *)
(* _offer_available, which leaves it true whatever it was before.          *)
(***************************************************************************)

\* After the offers of one pass, something blocks the next one.
LEMMA OffersExhaust ==
  ASSUME NEW q \in Seq(Conns), NEW act \in Int, NEW res \in Nat, NEW adm \in Nat,
         ~Blocked(q, act, res, adm)
  PROVE  LET k == OfferCount(q, act, res, adm)
         IN  Blocked(SubSeq(q, k + 1, Len(q)), act + k, res + k, adm)
<1> DEFINE k == OfferCount(q, act, res, adm)
           rest == SubSeq(q, k + 1, Len(q))
<1>1. k \in 1..Len(q) /\ Len(q) \in Nat
  BY OfferCountRange, LenProperties
<1>2. MaxInFlight \in Nat /\ Interval \in Nat /\ (MaxCalls # NoCap => MaxCalls \in Nat)
  BY BrokerAssumption
<1>3. CASE Interval > 0
  BY <1>1, <1>3 DEF Blocked
<1>4. CASE Interval = 0 /\ k = Len(q)
  <2>1. rest = <<>>
    BY <1>1, <1>4, SubSeqEmpty
  <2> QED
    BY <2>1 DEF Blocked
<1>5. CASE Interval = 0 /\ k # Len(q)
  <2>1. \/ k = MaxInFlight - act
        \/ MaxCalls # NoCap /\ k = MaxCalls - adm - res
    BY <1>2, <1>5 DEF OfferCount, Least
  <2> HIDE DEF k, rest
  <2>2. \/ act + k >= MaxInFlight
        \/ MaxCalls # NoCap /\ adm + (res + k) >= MaxCalls
    BY <2>1, <1>1, <1>2
  <2>3. Blocked(rest, act + k, res + k, adm)
    BY <2>2 DEF Blocked, CapReserved
  <2> QED
    BY <2>3 DEF k, rest
<1> QED
  BY <1>2, <1>3, <1>4, <1>5

\* One pass of _offer_available leaves the queue served, whatever it was before.
LEMMA OfferServes ==
  ASSUME NEW q \in Seq(Conns), NEW ws \in [Conns -> WaiterStates],
         NEW act \in Int, NEW res \in Nat, NEW adm \in Nat, NEW gate \in Nat,
         closed \in BOOLEAN, closed' = closed,
         OfferAvailable(q, ws, act, res, adm, gate)
  PROVE  QueueServed'
<1>1. CASE ~closed /\ CapReached(adm)
  <2>1. waiters' = <<>> /\ wake' = NoTimer
    BY <1>1 DEF OfferAvailable
  <2> QED
    BY <2>1 DEF QueueServed, Blocked
<1>2. CASE /\ closed \/ ~CapReached(adm)
           /\ Blocked(q, act, res, adm) \/ gate > 0
  <2>1. /\ waiters' = q /\ active' = act /\ reserved_calls' = res /\ admitted_calls' = adm
        /\ not_before' = gate /\ wake' = IF Blocked(q, act, res, adm) THEN NoTimer ELSE gate
    BY <1>2 DEF OfferAvailable
  <2>2. Blocked(waiters, active, reserved_calls, admitted_calls)' <=> Blocked(q, act, res, adm)
    BY <2>1 DEF Blocked, CapReserved
  <2> QED
    BY <2>1, <2>2 DEF QueueServed
<1>3. CASE ~CapReached(adm) /\ ~Blocked(q, act, res, adm) /\ gate = 0
  <2> DEFINE k == OfferCount(q, act, res, adm)
  <2>1. /\ waiters' = SubSeq(q, k + 1, Len(q)) /\ active' = act + k
        /\ reserved_calls' = res + k /\ admitted_calls' = adm /\ wake' = NoTimer
    BY <1>3 DEF OfferAvailable
  <2>2. Blocked(SubSeq(q, k + 1, Len(q)), act + k, res + k, adm)
    BY <1>3, OffersExhaust
  <2> HIDE DEF k
  <2>3. Blocked(waiters, active, reserved_calls, admitted_calls)'
    BY <2>1, <2>2 DEF Blocked, CapReserved
  <2> QED
    BY <2>1, <2>3 DEF QueueServed
<1> QED
  BY <1>1, <1>2, <1>3 DEF OfferAvailable

\* The reservations of an offered waiter can be taken back.
LEMMA Reservations ==
  ASSUME AccountingInv
  PROVE  /\ reserved_calls \in Nat
         /\ \A c \in Conns : wstate[c] = "offered" => reserved_calls > 0
<1> DEFINE O == {c \in Conns : wstate[c] = "offered"}
<1>1. O \in SUBSET Conns /\ reserved_calls = Cardinality(O)
  BY DEF AccountingInv, Accounting
<1>2. IsFiniteSet(O) /\ Cardinality(O) \in Nat
  BY <1>1, CountOneMore
<1>3. ASSUME NEW c \in O PROVE Cardinality(O) > 0
  <2>1. O # {}
    BY <1>3
  <2>2. Cardinality(O) # 0
    BY <2>1, <1>2, FS_EmptySet
  <2> QED
    BY <2>2, <1>2
<1> QED
  BY <1>1, <1>2, <1>3

\* Where the broker's state comes from: a step ends in _offer_available on
\* reservations that are there, or leaves the queue and the counters alone.
\* What a step may do to the gate and to the budget is said along with it.
Operation(adm, gate) ==
  \E q \in Seq(Conns), ws \in [Conns -> WaiterStates], act \in Int, res \in Nat :
    /\ OfferAvailable(q, ws, act, res, adm, gate)
    /\ res <= reserved_calls

\* A step of a handler is one operation of the broker or leaves its state alone.
LEMMA HandlerOperation ==
  ASSUME AccountingInv, NEW c \in Conns, Handler(c)
  PROVE  /\ closed' = closed
         /\ \/ UNCHANGED <<state, since_confirm>>
            \/ /\ since_confirm' = since_confirm
               /\ \E gate \in Nat : gate >= not_before /\ Operation(admitted_calls, gate)
            \/ /\ since_confirm' = 0 /\ reserved_calls > 0
               /\ \E gate \in Nat :
                    /\ gate >= Interval
                    /\ \E q \in Seq(Conns), ws \in [Conns -> WaiterStates], act \in Int :
                         OfferAvailable(q, ws, act, reserved_calls - 1, admitted_calls + 1, gate)
<1>0. /\ waiters \in Seq(Conns) /\ wstate \in [Conns -> WaiterStates] /\ active \in Int
      /\ reserved_calls \in Nat /\ admitted_calls \in Nat /\ not_before \in Nat
      /\ \A d \in Conns : wstate[d] = "offered" => reserved_calls > 0
      /\ Interval \in Nat /\ MaxCooldown \in Nat
  BY Reservations, BrokerAssumption DEF AccountingInv, TypeOK
<1>1. closed' = closed
  BY DEF Handler, HandleRequest, HandleUnauthorized, SendOffer, SendCallCap, HandleAccept,
     HandleAcquired, HandleCooldown, HandleRelease, HandlerEof, HandlerCancelled
<1>2. ASSUME Enqueue(c)
      PROVE  \E gate \in Nat : gate >= not_before /\ Operation(admitted_calls, gate)
  <2>1. Append(waiters, c) \in Seq(Conns) /\ [wstate EXCEPT ![c] = "queued"] \in [Conns -> WaiterStates]
    BY <1>0, AppendProperties DEF WaiterStates
  <2>2. not_before >= not_before /\ reserved_calls <= reserved_calls
    BY <1>0
  <2>3. Operation(admitted_calls, not_before)
    BY <1>0, <1>2, <2>1, <2>2 DEF Enqueue, Operation
  <2> QED
    BY <1>0, <2>2, <2>3
<1>3. ASSUME Disconnect(c)
      PROVE  \E gate \in Nat : gate >= not_before /\ Operation(admitted_calls, gate)
  <2> DEFINE q == IF wstate[c] = "queued" THEN Without(waiters, c) ELSE waiters
             ws == [wstate EXCEPT ![c] = "none"]
             act == IF wstate[c] \in {"offered", "leased"} THEN active - 1 ELSE active
             res == IF wstate[c] = "offered" THEN reserved_calls - 1 ELSE reserved_calls
  <2>1. q \in Seq(Conns) /\ act \in Int
    BY <1>0, WithoutType
  <2>2. ws \in [Conns -> WaiterStates]
    BY <1>0 DEF WaiterStates
  <2>3. res \in Nat /\ res <= reserved_calls /\ not_before >= not_before
    BY <1>0
  <2>4. OfferAvailable(q, ws, act, res, admitted_calls, not_before)
    BY <1>3 DEF Disconnect
  <2> HIDE DEF q, ws, act, res
  <2>5. Operation(admitted_calls, not_before)
    BY <2>1, <2>2, <2>3, <2>4 DEF Operation
  <2> QED
    BY <1>0, <2>3, <2>5
<1>a. CASE HandleRequest(c)
  BY <1>1, <1>2, <1>a DEF HandleRequest, ghost
<1>b. CASE HandleUnauthorized(c)
  BY <1>1, <1>b DEF HandleUnauthorized, ghost
<1>c. CASE SendOffer(c)
  BY <1>1, <1>c DEF SendOffer, ghost
<1>d. CASE SendCallCap(c)
  BY <1>1, <1>3, <1>d DEF SendCallCap, ghost
<1>e. CASE HandleAccept(c)
  BY <1>1, <1>e DEF HandleAccept, ghost
<1>f. CASE HandleAcquired(c)
  <2>1. hst[c] = "acquired" /\ Confirm(c) /\ since_confirm' = 0
    BY <1>f DEF HandleAcquired, Reads
  <2>2. wstate[c] = "offered"
    BY <2>1 DEF AccountingInv, HandlerWaiter, Fits
  <2> DEFINE gate == IF Interval > 0 THEN Greatest(not_before, Interval) ELSE not_before
             ws == [wstate EXCEPT ![c] = "leased"]
  <2>3. gate \in Nat /\ gate >= Interval
    BY <1>0 DEF Greatest
  <2>4. ws \in [Conns -> WaiterStates]
    BY <1>0 DEF WaiterStates
  <2>5. OfferAvailable(waiters, ws, active, reserved_calls - 1, admitted_calls + 1, gate)
    BY <2>1 DEF Confirm
  <2> HIDE DEF gate, ws
  <2>6. \E qq \in Seq(Conns), vs \in [Conns -> WaiterStates], act \in Int :
          OfferAvailable(qq, vs, act, reserved_calls - 1, admitted_calls + 1, gate)
    BY <1>0, <2>4, <2>5
  <2> QED
    BY <1>0, <1>1, <2>1, <2>2, <2>3, <2>6
<1>g. CASE HandleCooldown(c)
  <2>1. PICK d \in 1..MaxCooldown : Cooldown(d)
    BY <1>g DEF HandleCooldown
  <2> DEFINE gate == Greatest(not_before, Least(d, MaxCooldown))
  <2>2. gate \in Nat /\ gate >= not_before /\ reserved_calls <= reserved_calls
    BY <1>0 DEF Greatest, Least
  <2>3. OfferAvailable(waiters, wstate, active, reserved_calls, admitted_calls, gate)
    BY <2>1 DEF Cooldown
  <2>4. since_confirm' = since_confirm
    BY <1>g DEF HandleCooldown, ghost
  <2> HIDE DEF gate
  <2>5. Operation(admitted_calls, gate)
    BY <1>0, <2>2, <2>3 DEF Operation
  <2> QED
    BY <1>1, <2>2, <2>4, <2>5
<1>h. CASE HandleRelease(c)
  BY <1>1, <1>3, <1>h DEF HandleRelease, ghost
<1>i. CASE HandlerEof(c)
  BY <1>1, <1>3, <1>i DEF HandlerEof, ghost
<1>j. CASE HandlerCancelled(c)
  BY <1>1, <1>3, <1>j DEF HandlerCancelled, ghost
<1> QED
  BY <1>a, <1>b, <1>c, <1>d, <1>e, <1>f, <1>g, <1>h, <1>i, <1>j DEF Handler

\* Every step leaves the queue served.
LEMMA QueueServedNext == AccountingInv /\ QueueServed /\ [Next]_vars => QueueServed'
<1> SUFFICES ASSUME AccountingInv, QueueServed, [Next]_vars PROVE QueueServed'
  OBVIOUS
<1>0. /\ TypeOK /\ waiters \in Seq(Conns) /\ wstate \in [Conns -> WaiterStates] /\ active \in Int
      /\ reserved_calls \in Nat /\ admitted_calls \in Nat /\ not_before \in Nat
      /\ closed \in BOOLEAN /\ wake \in Nat \cup {NoTimer}
  BY Reservations DEF AccountingInv, TypeOK
<1>1. ASSUME UNCHANGED <<state, closed>> PROVE QueueServed'
  BY <1>1 DEF state, QueueServed, Blocked, CapReserved
<1>2. ASSUME NEW adm \in Nat, NEW gate \in Nat, Operation(adm, gate), closed' = closed
      PROVE  QueueServed'
  BY <1>0, <1>2, OfferServes DEF Operation
<1>3. ASSUME NEW c \in Conns, Handler(c) PROVE QueueServed'
  <2>1. closed' = closed
    BY <1>3, HandlerOperation
  <2>2. CASE UNCHANGED state
    BY <1>1, <2>1, <2>2
  <2>3. CASE \E gate \in Nat : Operation(admitted_calls, gate)
    BY <1>0, <1>2, <2>1, <2>3
  <2>4. CASE reserved_calls > 0 /\ \E gate \in Nat :
          \E q \in Seq(Conns), ws \in [Conns -> WaiterStates], act \in Int :
             OfferAvailable(q, ws, act, reserved_calls - 1, admitted_calls + 1, gate)
    <3>1. reserved_calls - 1 \in Nat /\ admitted_calls + 1 \in Nat
      BY <1>0, <2>4
    <3> QED
      BY <1>0, <2>1, <2>4, <3>1, OfferServes
  <2> QED
    BY <1>3, <2>2, <2>3, <2>4, HandlerOperation
<1>4. ASSUME NEW c \in Conns, Child(c) PROVE QueueServed'
  BY <1>1, <1>4 DEF Child, Acquire, GetOffer, GetReady, GetConfirmed, AcquireFails,
     ProviderReturns, ProviderOverloaded, GetCooldownApplied, FeedbackFails, IdleExpires
<1>5. ASSUME NEW p \in Controllers, ControllerClose(p) \/ ChildCrash(p) PROVE QueueServed'
  BY <1>1, <1>5 DEF ControllerClose, ChildCrash
<1>6. CASE WakeFires
  <2>1. /\ OfferAvailable(waiters, wstate, active, reserved_calls, admitted_calls, not_before)
        /\ closed' = closed
    BY <1>6 DEF WakeFires
  <2> QED
    BY <1>0, <2>1, OfferServes
<1>7. CASE Shutdown
  BY <1>7 DEF Shutdown, QueueServed, Blocked
<1>8. CASE Tick
  <2>1. Blocked(waiters, active, reserved_calls, admitted_calls)' <=>
        Blocked(waiters, active, reserved_calls, admitted_calls)
    BY <1>8 DEF Tick, Blocked, CapReserved
  <2>2. not_before' = Greatest(not_before - 1, 0) /\ wake' = IF wake > 0 THEN wake - 1 ELSE wake
    BY <1>8 DEF Tick
  <2>3. CASE Blocked(waiters, active, reserved_calls, admitted_calls)
    <3>1. wake = NoTimer
      BY <2>3 DEF QueueServed
    <3>2. wake' = NoTimer
      BY <2>2, <3>1 DEF NoTimer
    <3> QED
      BY <2>1, <2>3, <3>2 DEF QueueServed
  <2>4. CASE ~Blocked(waiters, active, reserved_calls, admitted_calls)
    <3>1. wake = not_before
      BY <2>4 DEF QueueServed
    <3>2. wake' = not_before'
      BY <1>0, <2>2, <3>1 DEF Greatest
    <3> QED
      BY <2>1, <2>4, <3>2 DEF QueueServed
  <2> QED
    BY <2>3, <2>4
<1>9. CASE UNCHANGED vars
  BY <1>1, <1>9 DEF vars
<1> QED
  BY <1>3, <1>4, <1>5, <1>6, <1>7, <1>8, <1>9 DEF Next

\* Whatever the order of offers, returned offers, confirmations, cooldown
\* reports and crashes: while somebody is queued and only the gate is in the
\* way, the timer of _offer_available is armed for the time the gate opens.
THEOREM WakeupsKept == Spec => []QueueServed
<1>1. Init => QueueServed
  BY DEF Init, QueueServed, Blocked
<1> QED
  BY <1>1, AccountingInit, AccountingNext, QueueServedNext, PTL DEF Spec

----------------------------------------------------------------------------
(***************************************************************************)
(* Pacing.  An offer is made when the gate is open, and the confirmation   *)
(* of the one before moved the gate; a confirmation may come much later    *)
(* than its offer, but no other offer is made in between.  The invariant   *)
(* says both, the second conjunct through Accounting.                      *)
(***************************************************************************)

Spaced ==
  Interval > 0 =>
    /\ not_before + since_confirm >= Interval
    /\ reserved_calls > 0 => reserved_calls = 1 /\ since_confirm >= Interval

\* What _offer_available does to the gate and to the reservations.
LEMMA OfferPaces ==
  ASSUME NEW q \in Seq(Conns), NEW ws, NEW act \in Int, NEW res \in Nat, NEW adm \in Nat,
         NEW gate \in Nat, Interval > 0, OfferAvailable(q, ws, act, res, adm, gate)
  PROVE  \/ not_before' = gate /\ reserved_calls' = res
         \/ gate = 0 /\ not_before' = Interval /\ res = 0 /\ reserved_calls' = 1
<1>1. CASE ~closed /\ CapReached(adm)
  BY <1>1 DEF OfferAvailable
<1>2. CASE /\ closed \/ ~CapReached(adm)
           /\ Blocked(q, act, res, adm) \/ gate > 0
  BY <1>2 DEF OfferAvailable
<1>3. CASE ~CapReached(adm) /\ ~Blocked(q, act, res, adm) /\ gate = 0
  <2>1. not_before' = Interval /\ reserved_calls' = res + OfferCount(q, act, res, adm)
    BY <1>3 DEF OfferAvailable
  <2>2. OfferCount(q, act, res, adm) = 1
    BY DEF OfferCount
  <2>3. res = 0
    BY <1>3 DEF Blocked
  <2> QED
    BY <1>3, <2>1, <2>2, <2>3
<1> QED
  BY <1>1, <1>2, <1>3 DEF OfferAvailable

\* Every step keeps the admissions spaced.
LEMMA SpacedNext == AccountingInv /\ Spaced /\ [Next]_vars => Spaced'
<1> SUFFICES ASSUME AccountingInv, Spaced, [Next]_vars, Interval > 0 PROVE Spaced'
  BY DEF Spaced
<1>0. /\ waiters \in Seq(Conns) /\ wstate \in [Conns -> WaiterStates] /\ active \in Int
      /\ reserved_calls \in Nat /\ admitted_calls \in Nat /\ not_before \in Nat
      /\ since_confirm \in 0..Interval /\ Interval \in Nat
  BY Reservations, BrokerAssumption DEF AccountingInv, TypeOK
<1>s. /\ not_before + since_confirm >= Interval
      /\ reserved_calls > 0 => reserved_calls = 1 /\ since_confirm >= Interval
  BY DEF Spaced
<1>1. ASSUME UNCHANGED <<not_before, since_confirm, reserved_calls>> PROVE Spaced'
  BY <1>1 DEF Spaced
<1>2. ASSUME NEW gate \in Nat, gate >= not_before, Operation(admitted_calls, gate),
             since_confirm' = since_confirm
      PROVE  Spaced'
  <2>1. PICK res \in Nat :
          /\ res <= reserved_calls
          /\ \/ not_before' = gate /\ reserved_calls' = res
             \/ gate = 0 /\ not_before' = Interval /\ res = 0 /\ reserved_calls' = 1
    BY <1>0, <1>2, OfferPaces DEF Operation
  <2> QED
    BY <1>0, <1>s, <1>2, <2>1 DEF Spaced
<1>3. ASSUME NEW c \in Conns, Handler(c) PROVE Spaced'
  <2>1. CASE UNCHANGED <<state, since_confirm>>
    BY <1>1, <2>1 DEF state
  <2>2. CASE /\ since_confirm' = since_confirm
             /\ \E gate \in Nat : gate >= not_before /\ Operation(admitted_calls, gate)
    BY <1>2, <2>2
  <2>3. CASE /\ since_confirm' = 0 /\ reserved_calls > 0
             /\ \E gate \in Nat :
                  /\ gate >= Interval
                  /\ \E q \in Seq(Conns), ws \in [Conns -> WaiterStates], act \in Int :
                       OfferAvailable(q, ws, act, reserved_calls - 1, admitted_calls + 1, gate)
    <3>1. PICK gate \in Nat :
            /\ gate >= Interval
            /\ \E q \in Seq(Conns), ws \in [Conns -> WaiterStates], act \in Int :
                 OfferAvailable(q, ws, act, reserved_calls - 1, admitted_calls + 1, gate)
      BY <2>3
    <3>2. reserved_calls - 1 \in Nat /\ reserved_calls = 1 /\ admitted_calls + 1 \in Nat
      BY <1>0, <1>s, <2>3
    <3>3. \/ not_before' = gate /\ reserved_calls' = reserved_calls - 1
          \/ gate = 0
      BY <3>1, <3>2, OfferPaces
    <3> QED
      BY <1>0, <2>3, <3>1, <3>2, <3>3 DEF Spaced
  <2> QED
    BY <1>3, <2>1, <2>2, <2>3, HandlerOperation
<1>4. ASSUME NEW c \in Conns, Child(c) PROVE Spaced'
  <2>1. UNCHANGED <<not_before, since_confirm, reserved_calls>>
    BY <1>4 DEF Child, Acquire, GetOffer, GetReady, GetConfirmed, AcquireFails, ProviderReturns,
       ProviderOverloaded, GetCooldownApplied, FeedbackFails, IdleExpires, state, ghost
  <2> QED
    BY <1>1, <2>1
<1>5. ASSUME NEW p \in Controllers, ControllerClose(p) \/ ChildCrash(p) PROVE Spaced'
  BY <1>1, <1>5 DEF ControllerClose, ChildCrash, state, ghost
<1>6. CASE WakeFires
  <2>1. /\ OfferAvailable(waiters, wstate, active, reserved_calls, admitted_calls, not_before)
        /\ since_confirm' = since_confirm
    BY <1>6 DEF WakeFires, ghost
  <2>2. not_before >= not_before /\ reserved_calls <= reserved_calls
    BY <1>0
  <2>3. Operation(admitted_calls, not_before)
    BY <1>0, <2>1, <2>2 DEF Operation
  <2> QED
    BY <1>0, <1>2, <2>1, <2>2, <2>3
<1>7. CASE Shutdown
  BY <1>1, <1>7 DEF Shutdown, ghost
<1>8. CASE Tick
  <2>1. /\ not_before' = Greatest(not_before - 1, 0) /\ reserved_calls' = reserved_calls
        /\ since_confirm' = Least(since_confirm + 1, Interval)
    BY <1>8 DEF Tick
  <2> QED
    BY <1>0, <1>s, <2>1 DEF Spaced, Greatest, Least
<1>9. CASE UNCHANGED vars
  BY <1>1, <1>9 DEF vars, state, ghost
<1> QED
  BY <1>3, <1>4, <1>5, <1>6, <1>7, <1>8, <1>9 DEF Next

\* A step that commits an admission finds a reservation.
LEMMA CommitsAreSpaced ==
  ASSUME AccountingInv, Spaced, [Next]_vars, admitted_calls' # admitted_calls
  PROVE  since_confirm >= Interval
<1>0. Interval \in Nat /\ since_confirm \in 0..Interval
  BY BrokerAssumption DEF AccountingInv, TypeOK
<1>1. ASSUME NEW c \in Conns, Handler(c) PROVE reserved_calls > 0
  <2>1. \A gate : ~Operation(admitted_calls, gate)
    BY DEF Operation, OfferAvailable
  <2> QED
    BY <1>1, <2>1, HandlerOperation DEF state
<1>2. \E c \in Conns : Handler(c)
  BY DEF Next, Child, Acquire, GetOffer, GetReady, GetConfirmed, AcquireFails, ProviderReturns,
     ProviderOverloaded, GetCooldownApplied, FeedbackFails, IdleExpires, ControllerClose,
     ChildCrash, WakeFires, OfferAvailable, Shutdown, Tick, vars, state
<1>3. reserved_calls > 0
  BY <1>1, <1>2
<1> QED
  BY <1>0, <1>3 DEF Spaced

\* Two committed admissions are at least one pacing interval apart, for any
\* interval, any cooldown, any number of slots and children, and however long
\* a child takes to acknowledge its offer.
THEOREM AdmissionsSpaced == Spec => PacedAdmissions
<1>1. Init => Spaced
  BY BrokerAssumption DEF Init, Spaced
<1>2. AccountingInv /\ Spaced /\ [Next]_vars
        => [admitted_calls' # admitted_calls => since_confirm >= Interval]_vars
  BY CommitsAreSpaced
<1> QED
  BY <1>1, <1>2, AccountingInit, AccountingNext, SpacedNext, PTL DEF Spec, PacedAdmissions

----------------------------------------------------------------------------
(***************************************************************************)
(* Proof that the broker implements the permit pool: every operation of    *)
(* its state is a client arriving, leaving or coming out, followed by one  *)
(* pass of _offer_available over the line; everything else stutters.       *)
(*                                                                         *)
(* The bound on the slots is not a fact about one pass: it comes from the  *)
(* counters being the sets they stand for (AccountingInv), before and      *)
(* after the step.                                                         *)
(***************************************************************************)

Inside(ws) == In(ws, {"offered", "leased"})

\* The clients inside are the waiters that are offered or leased a slot.
LEMMA InsideIsHolds ==
  /\ {c \in Conns : Holds(c)} = Inside(wstate)
  /\ {c \in Conns : Holds(c)}' = Inside(wstate')
BY DEF Inside, In, Holds

\* The pool counts as the broker does.
LEMMA SameCount == \A S : Permits!Cardinality(S) = Cardinality(S)
BY DEF Permits!Cardinality, Cardinality

\* One pass of _offer_available over a line of queued waiters serves it from
\* the front, provided the slots are not overbooked afterwards.
LEMMA OfferServesLine ==
  ASSUME AccountingInv',
         NEW q \in Seq(Conns), NEW ws \in [Conns -> WaiterStates],
         NEW act \in Int, NEW res \in Int, NEW adm \in Nat, NEW gate \in Nat,
         \A c \in Members(q) : ws[c] = "queued",
         OfferAvailable(q, ws, act, res, adm, gate)
  PROVE  Permits!Serve(q, Inside(ws))
<1>1. Cardinality(Inside(wstate')) <= MaxInFlight
  BY InsideIsHolds DEF AccountingInv, Accounting, CapacityKept
<1>2. Len(q) \in Nat /\ \A i \in 1..Len(q) : q[i] \in Conns /\ q[i] \in Members(q)
  BY LenProperties, ElementOfSeq DEF Members
<1> SUFFICES \E k \in 0..Len(q) :
               /\ waiters' = SubSeq(q, k + 1, Len(q))
               /\ \E admitted \in SUBSET {q[i] : i \in 1..k} :
                    Inside(wstate') = Inside(ws) \cup admitted
  BY <1>1, InsideIsHolds, SameCount DEF Permits!Serve
\* Everybody is turned away.
<1>3. CASE ~closed /\ CapReached(adm)
  <2>1. /\ waiters' = <<>>
        /\ wstate' = [c \in Conns |-> IF c \in Members(q) THEN "terminal" ELSE ws[c]]
    BY <1>3 DEF OfferAvailable
  <2>2. Inside(wstate') = Inside(ws) \cup {}
    BY <2>1 DEF Inside, In
  <2>3. SubSeq(q, Len(q) + 1, Len(q)) = <<>>
    BY <1>2, SubSeqEmpty
  <2>4. Len(q) \in 0..Len(q) /\ {} \in SUBSET {q[i] : i \in 1..Len(q)}
    BY <1>2
  <2> QED
    BY <2>1, <2>2, <2>3, <2>4
\* Nobody is served.
<1>4. CASE /\ closed \/ ~CapReached(adm)
           /\ Blocked(q, act, res, adm) \/ gate > 0
  <2>1. waiters' = q /\ wstate' = ws
    BY <1>4 DEF OfferAvailable
  <2>2. SubSeq(q, 0 + 1, Len(q)) = q
    BY SubSeqFull
  <2>3. 0 \in 0..Len(q) /\ {} \in SUBSET {q[i] : i \in 1..0}
    BY <1>2
  <2>4. Inside(wstate') = Inside(ws) \cup {}
    BY <2>1
  <2> QED
    BY <2>1, <2>2, <2>3, <2>4
\* The first k waiters are offered a slot.
<1>5. CASE ~CapReached(adm) /\ ~Blocked(q, act, res, adm) /\ gate = 0
  <2> DEFINE k == OfferCount(q, act, res, adm)
             offers == {q[i] : i \in 1..k}
  <2>1. k \in 1..Len(q)
    BY <1>5, OfferCountRange
  <2>2. /\ waiters' = SubSeq(q, k + 1, Len(q))
        /\ wstate' = [c \in Conns |-> IF c \in offers THEN "offered" ELSE ws[c]]
    BY <1>5 DEF OfferAvailable
  <2> HIDE DEF k
  <2>3. k \in 0..Len(q) /\ offers \subseteq Conns
    BY <2>1, <1>2
  <2>4. Inside(wstate') = Inside(ws) \cup offers
    BY <2>2, <2>3 DEF Inside, In
  <2> QED
    BY <2>2, <2>3, <2>4
<1> QED
  BY <1>3, <1>4, <1>5 DEF OfferAvailable

----------------------------------------------------------------------------
(***************************************************************************)
(* The operations of the broker's state.                                   *)
(***************************************************************************)

\* What the operations start from.
LEMMA LineIsQueued ==
  ASSUME AccountingInv
  PROVE  /\ waiters \in Seq(Conns) /\ wstate \in [Conns -> WaiterStates]
         /\ active \in Int /\ reserved_calls \in Int
         /\ admitted_calls \in Nat /\ not_before \in Nat
         /\ \A c \in Conns : c \in Members(waiters) <=> wstate[c] = "queued"
         /\ Members(waiters) \subseteq Conns
         /\ Members(waiters) = Permits!InLine
         /\ \A i, j \in 1..Len(waiters) : waiters[i] = waiters[j] => i = j
<1>1. waiters \in Seq(Conns)
  BY DEF AccountingInv, TypeOK
<1>2. Members(waiters) \subseteq Conns
  BY <1>1, ElementOfSeq DEF Members
<1>3. Members(waiters) = Permits!InLine
  BY DEF Members, Permits!InLine, Permits!Members
<1>4. \A c \in Conns : c \in Members(waiters) <=> wstate[c] = "queued"
  BY DEF AccountingInv, Accounting
<1> QED
  BY <1>1, <1>2, <1>3, <1>4 DEF AccountingInv, TypeOK, Accounting

\* A request is an arrival at the pool.
LEMMA EnqueueArrives ==
  ASSUME AccountingInv, AccountingInv', NEW c \in Conns, wstate[c] = "none", Enqueue(c)
  PROVE  Permits!Next
<1> DEFINE ws == [wstate EXCEPT ![c] = "queued"]
           q == Append(waiters, c)
<1>1. ws \in [Conns -> WaiterStates] /\ \A d \in Conns : ws[d] = IF d = c THEN "queued" ELSE wstate[d]
  BY LineIsQueued DEF WaiterStates
<1>2. /\ q \in Seq(Conns) /\ Len(q) = Len(waiters) + 1 /\ Len(waiters) \in Nat
      /\ \A i \in 1..Len(waiters) : q[i] = waiters[i]
      /\ q[Len(waiters) + 1] = c
  BY LineIsQueued, AppendProperties, LenProperties
<1>3. OfferAvailable(q, ws, active, reserved_calls, admitted_calls, not_before)
  BY DEF Enqueue
<1> HIDE DEF q
<1>4. \A d \in Members(q) : d = c \/ d \in Members(waiters)
  BY <1>2 DEF Members
<1>5. \A d \in Members(q) : ws[d] = "queued"
  BY <1>1, <1>4, LineIsQueued
<1>6. Inside(ws) = Inside(wstate)
  BY <1>1 DEF Inside, In
<1> HIDE DEF ws
<1>7. Permits!Serve(q, Inside(wstate))
  BY <1>1, <1>2, <1>3, <1>5, <1>6, LineIsQueued, OfferServesLine
<1>8. c \notin Permits!InLine
  BY LineIsQueued
<1>9. c \notin Inside(wstate)
  BY DEF Inside, In
<1>10. Permits!Arrive(c)
  BY <1>7, <1>8, <1>9, InsideIsHolds DEF Permits!Arrive, q
<1> QED
  BY <1>10 DEF Permits!Next

\* A connection that goes leaves the line or comes out.
LEMMA DisconnectLeaves ==
  ASSUME AccountingInv, AccountingInv', NEW c \in Conns, Disconnect(c)
  PROVE  Permits!Next
<1> DEFINE ws == [wstate EXCEPT ![c] = "none"]
           q == IF wstate[c] = "queued" THEN Without(waiters, c) ELSE waiters
           act == IF wstate[c] \in {"offered", "leased"} THEN active - 1 ELSE active
           res == IF wstate[c] = "offered" THEN reserved_calls - 1 ELSE reserved_calls
<1>1. ws \in [Conns -> WaiterStates] /\ \A d \in Conns : ws[d] = IF d = c THEN "none" ELSE wstate[d]
  BY LineIsQueued DEF WaiterStates
<1>2. q \in Seq(Conns) /\ act \in Int /\ res \in Int
  BY LineIsQueued, WithoutType
<1>3. OfferAvailable(q, ws, act, res, admitted_calls, not_before)
  BY DEF Disconnect
<1>4. \A d \in Members(q) : d # c /\ d \in Members(waiters)
  <2>1. CASE wstate[c] = "queued"
    <3>1. c \in Members(waiters) /\ q = Without(waiters, c)
      BY <2>1, LineIsQueued
    <3> HIDE DEF q
    <3> QED
      BY <3>1, LineIsQueued, WithoutMembers
  <2>2. CASE wstate[c] # "queued"
    <3>1. c \notin Members(waiters) /\ q = waiters
      BY <2>2, LineIsQueued
    <3> HIDE DEF q
    <3> QED
      BY <3>1
  <2> QED
    BY <2>1, <2>2
<1>5. \A d \in Members(q) : ws[d] = "queued"
  <2> HIDE DEF q, ws
  <2> QED
    BY <1>1, <1>4, LineIsQueued
<1>6. Inside(ws) = Inside(wstate) \ {c}
  BY <1>1 DEF Inside, In
<1> HIDE DEF ws, q, act, res
<1>7. Permits!Serve(q, Inside(wstate) \ {c})
  BY <1>1, <1>2, <1>3, <1>5, <1>6, LineIsQueued, OfferServesLine
<1>8. CASE wstate[c] = "queued"
  <2>1. q = Permits!Without(waiters, c)
    BY <1>8 DEF q, Without, Permits!Without, Members, Permits!Members
  <2>2. Inside(wstate) \ {c} = Inside(wstate)
    BY <1>8 DEF Inside, In
  <2>3. c \in Permits!InLine
    BY <1>8, LineIsQueued
  <2>4. Permits!Leave(c)
    BY <1>7, <2>1, <2>2, <2>3, InsideIsHolds DEF Permits!Leave
  <2> QED
    BY <2>4 DEF Permits!Next
<1>9. CASE wstate[c] \in {"offered", "leased"}
  <2>1. q = waiters
    BY <1>9 DEF q
  <2>2. c \in Inside(wstate)
    BY <1>9 DEF Inside, In
  <2>3. Permits!ComeOut(c)
    BY <1>7, <2>1, <2>2, InsideIsHolds DEF Permits!ComeOut
  <2> QED
    BY <2>3 DEF Permits!Next
<1>10. CASE wstate[c] \notin {"queued", "offered", "leased"}
  <2>1. q = waiters /\ Inside(wstate) \ {c} = Inside(wstate)
    BY <1>10 DEF q, Inside, In
  <2>2. Permits!Serve(waiters, {d \in Conns : Holds(d)})
    BY <1>7, <2>1, InsideIsHolds
  <2> QED
    BY <2>2 DEF Permits!Next
<1> QED
  BY <1>8, <1>9, <1>10

\* A confirmation, a cooldown report and the timer only serve the line.
LEMMA RetryServes ==
  ASSUME AccountingInv, AccountingInv', NEW ws \in [Conns -> WaiterStates],
         Inside(ws) = Inside(wstate), \A d \in Members(waiters) : ws[d] = "queued",
         NEW res \in Int, NEW adm \in Nat, NEW gate \in Nat,
         OfferAvailable(waiters, ws, active, res, adm, gate)
  PROVE  Permits!Next
<1>1. Permits!Serve(waiters, Inside(wstate))
  BY LineIsQueued, OfferServesLine
<1> QED
  BY <1>1, InsideIsHolds DEF Permits!Next

\* A confirmation serves the line once more.
LEMMA ConfirmServes ==
  ASSUME AccountingInv, AccountingInv', NEW c \in Conns, wstate[c] = "offered", Confirm(c)
  PROVE  Permits!Next
<1> DEFINE ws == [wstate EXCEPT ![c] = "leased"]
           gate == IF Interval > 0 THEN Greatest(not_before, Interval) ELSE not_before
<1>1. ws \in [Conns -> WaiterStates] /\ \A d \in Conns : ws[d] = IF d = c THEN "leased" ELSE wstate[d]
  BY LineIsQueued DEF WaiterStates
<1>2. gate \in Nat /\ reserved_calls - 1 \in Int /\ admitted_calls + 1 \in Nat
  BY LineIsQueued, BrokerAssumption DEF Greatest
<1>3. OfferAvailable(waiters, ws, active, reserved_calls - 1, admitted_calls + 1, gate)
  BY DEF Confirm
<1>4. Inside(ws) = Inside(wstate)
  BY <1>1 DEF Inside, In
<1>5. \A d \in Members(waiters) : ws[d] = "queued"
  BY <1>1, LineIsQueued
<1> HIDE DEF ws, gate
<1> QED
  BY <1>1, <1>2, <1>3, <1>4, <1>5, RetryServes

\* So does the timer.
LEMMA TimerServes ==
  ASSUME AccountingInv, AccountingInv', NEW gate \in Nat,
         OfferAvailable(waiters, wstate, active, reserved_calls, admitted_calls, gate)
  PROVE  Permits!Next
BY LineIsQueued, RetryServes

----------------------------------------------------------------------------
\* Nothing of the pool changes.
LEMMA PoolStutters ==
  ASSUME UNCHANGED <<waiters, wstate>>
  PROVE  UNCHANGED Permits!pool
BY DEF Permits!pool, Holds

\* Every step of a handler is a step of the pool or leaves it alone.
LEMMA HandlerServes ==
  ASSUME AccountingInv, AccountingInv', NEW c \in Conns, Handler(c)
  PROVE  [Permits!Next]_(Permits!pool)
<1>0. /\ \A d \in Conns : Fits(hst[d], wstate[d])
      /\ not_before \in Nat
  BY DEF AccountingInv, HandlerWaiter, TypeOK
<1>1. CASE HandleRequest(c)
  <2>1. wstate[c] = "none" /\ Enqueue(c)
    BY <1>0, <1>1 DEF HandleRequest, Reads, Fits
  <2> QED
    BY <2>1, EnqueueArrives
<1>2. CASE SendCallCap(c) \/ HandleRelease(c) \/ HandlerEof(c) \/ HandlerCancelled(c)
  <2>1. Disconnect(c)
    BY <1>2 DEF SendCallCap, HandleRelease, HandlerEof, HandlerCancelled
  <2> QED
    BY <2>1, DisconnectLeaves
<1>3. CASE HandleAcquired(c)
  <2>1. wstate[c] = "offered" /\ Confirm(c)
    BY <1>0, <1>3 DEF HandleAcquired, Reads, Fits
  <2> QED
    BY <2>1, ConfirmServes
<1>4. CASE HandleCooldown(c)
  <2>1. PICK d \in 1..MaxCooldown : Cooldown(d)
    BY <1>4 DEF HandleCooldown
  <2>2. Greatest(not_before, Least(d, MaxCooldown)) \in Nat
    BY <1>0, BrokerAssumption DEF Greatest, Least
  <2> QED
    BY <2>1, <2>2, TimerServes DEF Cooldown
<1>5. CASE HandleUnauthorized(c) \/ SendOffer(c) \/ HandleAccept(c)
  <2>1. UNCHANGED <<waiters, wstate>>
    BY <1>5 DEF HandleUnauthorized, SendOffer, HandleAccept, state
  <2> QED
    BY <2>1, PoolStutters
<1> QED
  BY <1>1, <1>2, <1>3, <1>4, <1>5 DEF Handler

\* So is every step of the broker and its children.
LEMMA StepServes ==
  ASSUME AccountingInv, AccountingInv', [Next]_vars
  PROVE  [Permits!Next]_(Permits!pool)
<1>1. CASE \E c \in Conns : Handler(c)
  BY <1>1, HandlerServes
<1>2. CASE WakeFires
  BY <1>2, LineIsQueued, TimerServes DEF WakeFires
<1>3. CASE (\E c \in Conns : Child(c)) \/ (\E p \in Controllers : ControllerClose(p) \/ ChildCrash(p))
  <2>1. UNCHANGED state
    BY <1>3 DEF Child, Acquire, GetOffer, GetReady, GetConfirmed, AcquireFails, ProviderReturns,
       ProviderOverloaded, GetCooldownApplied, FeedbackFails, IdleExpires, ControllerClose, ChildCrash
  <2> QED
    BY <2>1, PoolStutters DEF state
<1>4. CASE Shutdown \/ Tick \/ UNCHANGED vars
  <2>1. UNCHANGED <<waiters, wstate>>
    BY <1>4 DEF Shutdown, Tick, vars, state
  <2> QED
    BY <2>1, PoolStutters
<1> QED
  BY <1>1, <1>2, <1>3, <1>4 DEF Next

\* For every number of children and slots, the broker is a permit pool:
\* _offer_available lets waiters in from the front of the queue only, at most
\* max_in_flight of them are inside, and each is inside until its handler
\* disconnects it, whatever crashes and reused connections come in between.
THEOREM PoolImplemented == Spec => ImplementsPool
<1>1. Init => Permits!Init
  <2> SUFFICES ASSUME Init PROVE Permits!Init
    OBVIOUS
  <2>1. waiters = <<>> /\ Inside(wstate) = {}
    BY DEF Init, Inside, In
  <2> QED
    BY <2>1, InsideIsHolds DEF Permits!Init
<1>2. AccountingInv /\ AccountingInv' /\ [Next]_vars => [Permits!Next]_(Permits!pool)
  BY StepServes
<1> QED
  BY <1>1, <1>2, AccountingInit, AccountingNext, PTL DEF Spec, ImplementsPool, Permits!Spec

----------------------------------------------------------------------------
(***************************************************************************)
(* The conversation of each child with the broker: which messages are in   *)
(* flight at each stage, and what follows for the leases, the answers and  *)
(* the call budget.                                                        *)
(***************************************************************************)

----------------------------------------------------------------------------
(***************************************************************************)
(* The stages of a conversation.                                           *)
(***************************************************************************)

\* While the broker runs, what the child does, what the handler awaits and
\* what is under way in the two directions belong to one of these stages.
Stage(cs, h, up, down) ==
  \/ cs = "requested" /\ h = "release"  /\ up = <<"release", "request">> /\ down = <<>>
  \/ cs = "requested" /\ h = "request"  /\ up = <<"request">>  /\ down = <<>>
  \/ cs = "requested" /\ h = "outcome"  /\ up = <<>>           /\ down = <<>>
  \/ cs = "requested" /\ h = "ack"      /\ up = <<>>           /\ down = <<"offered">>
  \/ cs = "requested" /\ h = "none"     /\ up = <<>>           /\ down = <<"unauthorized", "eof">>
  \/ cs = "requested" /\ h = "none"     /\ up = <<>>           /\ down = <<"call_cap", "eof">>
  \/ cs = "accepted"  /\ h = "ack"      /\ up = <<"accept">>   /\ down = <<>>
  \/ cs = "accepted"  /\ h = "acquired" /\ up = <<>>           /\ down = <<"ready">>
  \/ cs = "acquiring" /\ h = "acquired" /\ up = <<"acquired">> /\ down = <<>>
  \/ cs = "acquiring" /\ h = "release"  /\ up = <<>>           /\ down = <<"confirmed">>
  \/ cs = "running"   /\ h = "release"  /\ up = <<>>           /\ down = <<>>
  \/ cs = "feedback"  /\ h = "release"  /\ up = <<"cooldown">> /\ down = <<>>
  \/ cs = "feedback"  /\ h = "release"  /\ up = <<>>           /\ down = <<"cooldown_applied">>
  \/ cs = "idle"      /\ h = "release"  /\ up = <<"release">>  /\ down = <<>>
  \/ cs = "idle"      /\ h = "request"  /\ up = <<>>           /\ down = <<>>

\* After _shutdown a child that is still there reads at most one answer, to
\* the step it is in, before end of file.
Severed(cs, down) ==
  down = <<"eof">> \/ \E m \in Expected(cs) : down = <<m, "eof">>

\* One connection: a handler that is gone reads nothing, a child that is gone
\* reads nothing, and a child that is there is in one of the stages.
Sound(cl, cs, h, up, down) ==
  /\ h = "none" => up = <<>>
  /\ cs = "none" => h = "none" /\ down = <<>>
  /\ cs = "closed" => h # "none" /\ down = <<>>
  /\ cs \notin {"none", "closed"} /\ ~cl => Stage(cs, h, up, down)
  /\ cs \notin {"none", "closed"} /\ cl => Severed(cs, down)

Conversations == \A c \in Conns : Sound(closed, cst[c], hst[c], c2s[c], s2c[c])

\* What the handler finds when it reads.
LEMMA ServerReads ==
  ASSUME NEW cs, NEW h, NEW up, NEW down, Stage(cs, h, up, down)
  PROVE  /\ h = "request" /\ up # <<>> => cs = "requested" /\ up = <<"request">> /\ down = <<>>
         /\ h = "outcome" => cs = "requested" /\ up = <<>> /\ down = <<>>
         /\ h = "ack" /\ up # <<>> => cs = "accepted" /\ up = <<"accept">> /\ down = <<>>
         /\ h = "acquired" /\ up # <<>> => cs = "acquiring" /\ up = <<"acquired">> /\ down = <<>>
         /\ h = "release" /\ up # <<>> /\ Head(up) = "cooldown" =>
              cs = "feedback" /\ up = <<"cooldown">> /\ down = <<>>
         /\ h = "release" /\ up # <<>> /\ Head(up) = "release" =>
              /\ down = <<>>
              /\ \/ cs = "idle" /\ up = <<"release">>
                 \/ cs = "requested" /\ up = <<"release", "request">>
         /\ "eof" \notin Members(up)
<1>1. \A a, b : Head(<<a>>) = a /\ Head(<<a, b>>) = a
  OBVIOUS
<1>2. "eof" \notin Members(up)
  <2>1. \/ up = <<>> \/ up = <<"request">> \/ up = <<"accept">> \/ up = <<"acquired">>
        \/ up = <<"cooldown">> \/ up = <<"release">> \/ up = <<"release", "request">>
    BY DEF Stage
  <2>2. /\ Members(<<"request">>) = {"request"} /\ Members(<<"accept">>) = {"accept"}
        /\ Members(<<"acquired">>) = {"acquired"} /\ Members(<<"cooldown">>) = {"cooldown"}
        /\ Members(<<"release">>) = {"release"} /\ Members(<<>>) = {}
        /\ Members(<<"release", "request">>) = {"release", "request"}
    BY ShortMembers
  <2> QED
    BY <2>1, <2>2
<1>3. /\ h = "request" /\ up # <<>> => cs = "requested" /\ up = <<"request">> /\ down = <<>>
      /\ h = "outcome" => cs = "requested" /\ up = <<>> /\ down = <<>>
      /\ h = "ack" /\ up # <<>> => cs = "accepted" /\ up = <<"accept">> /\ down = <<>>
      /\ h = "acquired" /\ up # <<>> => cs = "acquiring" /\ up = <<"acquired">> /\ down = <<>>
  BY DEF Stage
<1>4. ASSUME h = "release", up # <<>>
      PROVE  \/ cs = "feedback" /\ up = <<"cooldown">> /\ down = <<>>
             \/ cs = "idle" /\ up = <<"release">> /\ down = <<>>
             \/ cs = "requested" /\ up = <<"release", "request">> /\ down = <<>>
  BY <1>4 DEF Stage
<1> QED
  BY <1>1, <1>2, <1>3, <1>4

\* What the child finds when it reads.
LEMMA ChildReads ==
  ASSUME NEW cs, NEW h, NEW up, NEW down, Stage(cs, h, up, down)
  PROVE  /\ cs = "requested" /\ down # <<>> /\ Head(down) = "offered" =>
              h = "ack" /\ up = <<>> /\ down = <<"offered">>
         /\ cs = "accepted" /\ down # <<>> => h = "acquired" /\ up = <<>> /\ down = <<"ready">>
         /\ cs = "acquiring" /\ down # <<>> => h = "release" /\ up = <<>> /\ down = <<"confirmed">>
         /\ cs = "feedback" /\ down # <<>> => h = "release" /\ up = <<>> /\ down = <<"cooldown_applied">>
         /\ cs = "running" => h = "release" /\ up = <<>> /\ down = <<>>
         /\ cs = "idle" => /\ down = <<>>
                           /\ \/ h = "release" /\ up = <<"release">>
                              \/ h = "request" /\ up = <<>>
         /\ cs \in {"running", "feedback"} => h = "release"
         /\ \/ down = <<>>
            \/ \E m \in Expected(cs) : down = <<m>>
            \/ h = "none" /\ \E m \in Expected(cs) : down = <<m, "eof">>
<1>1. \A a, b : Head(<<a>>) = a /\ Head(<<a, b>>) = a
  OBVIOUS
<1>2. cs = "requested" /\ down # <<>> =>
        \/ h = "ack" /\ up = <<>> /\ down = <<"offered">>
        \/ down = <<"unauthorized", "eof">>
        \/ down = <<"call_cap", "eof">>
  BY DEF Stage
<1>3. cs = "requested" /\ down # <<>> /\ Head(down) = "offered" =>
        h = "ack" /\ up = <<>> /\ down = <<"offered">>
  BY <1>1, <1>2
<1>4. /\ cs = "accepted" /\ down # <<>> => h = "acquired" /\ up = <<>> /\ down = <<"ready">>
      /\ cs = "acquiring" /\ down # <<>> => h = "release" /\ up = <<>> /\ down = <<"confirmed">>
      /\ cs = "feedback" /\ down # <<>> => h = "release" /\ up = <<>> /\ down = <<"cooldown_applied">>
      /\ cs = "running" => h = "release" /\ up = <<>> /\ down = <<>>
      /\ cs \in {"running", "feedback"} => h = "release"
  BY DEF Stage
<1>5. cs = "idle" => /\ down = <<>>
                     /\ \/ h = "release" /\ up = <<"release">>
                        \/ h = "request" /\ up = <<>>
  BY DEF Stage
<1>6. \/ down = <<>>
      \/ \E m \in Expected(cs) : down = <<m>>
      \/ h = "none" /\ \E m \in Expected(cs) : down = <<m, "eof">>
  <2>1. /\ cs = "requested" => /\ "offered" \in Expected(cs) /\ "call_cap" \in Expected(cs)
                               /\ "unauthorized" \in Expected(cs)
        /\ cs = "accepted" => "ready" \in Expected(cs)
        /\ cs = "acquiring" => "confirmed" \in Expected(cs)
        /\ cs = "feedback" => "cooldown_applied" \in Expected(cs)
    BY DEF Expected
  <2>2. cs = "requested" => \/ down = <<>> \/ down = <<"offered">>
                            \/ down = <<"unauthorized", "eof">> /\ h = "none"
                            \/ down = <<"call_cap", "eof">> /\ h = "none"
    BY DEF Stage
  <2>3. cs \in {"requested", "accepted", "acquiring", "feedback", "running", "idle"}
    BY DEF Stage
  <2> DEFINE One(m) == m \in Expected(cs) /\ down = <<m>>
             Two(m) == m \in Expected(cs) /\ down = <<m, "eof">>
  <2>4. (\E m : One(m)) => \E m \in Expected(cs) : down = <<m>>
    OBVIOUS
  <2>5. (\E m : Two(m)) => \E m \in Expected(cs) : down = <<m, "eof">>
    OBVIOUS
  <2>6. /\ cs = "requested" /\ down = <<"offered">> => One("offered")
        /\ cs = "accepted" /\ down = <<"ready">> => One("ready")
        /\ cs = "acquiring" /\ down = <<"confirmed">> => One("confirmed")
        /\ cs = "feedback" /\ down = <<"cooldown_applied">> => One("cooldown_applied")
    BY <2>1
  <2>7. /\ cs = "requested" /\ down = <<"unauthorized", "eof">> => Two("unauthorized")
        /\ cs = "requested" /\ down = <<"call_cap", "eof">> => Two("call_cap")
    BY <2>1
  <2> HIDE DEF One, Two
  <2>8. down = <<>> \/ (\E m : One(m)) \/ (h = "none" /\ \E m : Two(m))
    BY <2>2, <2>3, <2>6, <2>7, <1>4, <1>5
  <2> QED
    BY <2>4, <2>5, <2>8
<1> QED
  BY <1>3, <1>4, <1>5, <1>6

\* Where the conversation may stand.
LEMMA Stages ==
  ASSUME NEW cs, NEW h, NEW up, NEW down, down = <<>>
  PROVE  /\ cs = "requested" /\ h = "release"  /\ up = <<"release", "request">> => Stage(cs, h, up, down)
         /\ cs = "requested" /\ h = "request"  /\ up = <<"request">> => Stage(cs, h, up, down)
         /\ cs = "requested" /\ h = "outcome"  /\ up = <<>> => Stage(cs, h, up, down)
         /\ cs = "accepted"  /\ h = "ack"      /\ up = <<"accept">> => Stage(cs, h, up, down)
         /\ cs = "acquiring" /\ h = "acquired" /\ up = <<"acquired">> => Stage(cs, h, up, down)
         /\ cs = "running"   /\ h = "release"  /\ up = <<>> => Stage(cs, h, up, down)
         /\ cs = "feedback"  /\ h = "release"  /\ up = <<"cooldown">> => Stage(cs, h, up, down)
         /\ cs = "idle"      /\ h = "release"  /\ up = <<"release">> => Stage(cs, h, up, down)
         /\ cs = "idle"      /\ h = "request"  /\ up = <<>> => Stage(cs, h, up, down)
  BY Zenon DEF Stage

\* Where the conversation may stand when an answer is under way.
LEMMA AnsweredStages ==
  ASSUME NEW cs, NEW h, NEW up, NEW down, up = <<>>
  PROVE  /\ cs = "requested" /\ h = "ack"      /\ down = <<"offered">> => Stage(cs, h, up, down)
         /\ cs = "requested" /\ h = "none"     /\ down = <<"unauthorized", "eof">> => Stage(cs, h, up, down)
         /\ cs = "requested" /\ h = "none"     /\ down = <<"call_cap", "eof">> => Stage(cs, h, up, down)
         /\ cs = "accepted"  /\ h = "acquired" /\ down = <<"ready">> => Stage(cs, h, up, down)
         /\ cs = "acquiring" /\ h = "release"  /\ down = <<"confirmed">> => Stage(cs, h, up, down)
         /\ cs = "feedback"  /\ h = "release"  /\ down = <<"cooldown_applied">> => Stage(cs, h, up, down)
  BY Zenon DEF Stage

\* A step on one connection leaves the other conversations as they are.
LEMMA OneConversation ==
  ASSUME Conversations, NEW c \in Conns, closed' = closed,
         \A d \in Conns \ {c} : /\ cst'[d] = cst[d] /\ hst'[d] = hst[d]
                                /\ c2s'[d] = c2s[d] /\ s2c'[d] = s2c[d],
         Sound(closed, cst'[c], hst'[c], c2s'[c], s2c'[c])
  PROVE  Conversations'
<1>1. ASSUME NEW d \in Conns PROVE Sound(closed', cst'[d], hst'[d], c2s'[d], s2c'[d])
  <2>1. CASE d = c
    BY <2>1
  <2>2. CASE d # c
    <3>1. Sound(closed, cst[d], hst[d], c2s[d], s2c[d])
      BY DEF Conversations
    <3> QED
      BY <3>1, <2>2
  <2> QED
    BY <2>1, <2>2
<1> QED
  BY <1>1 DEF Conversations

\* The broker's handlers.
LEMMA HandlerConversation ==
  ASSUME TypeOK, Conversations, NEW c \in Conns, Handler(c)
  PROVE  Conversations'
<1> DEFINE Live == cst[c] \notin {"none", "closed"}
           New == Sound(closed, cst'[c], hst'[c], c2s'[c], s2c'[c])
<1>0. /\ hst \in [Conns -> HandlerStates] /\ cst \in [Conns -> ClientStates]
      /\ c2s \in [Conns -> Seq(ToServer)] /\ s2c \in [Conns -> Seq(ToClient)]
  BY DEF TypeOK
<1>1. Sound(closed, cst[c], hst[c], c2s[c], s2c[c])
  BY DEF Conversations
<1>2. \A a : Tail(<<a>>) = <<>>
  OBVIOUS
<1>3. \A a, b : Tail(<<a, b>>) = <<b>>
  OBVIOUS
\* Where a handler that has not returned can stand.
<1>4. /\ hst[c] # "none" => cst[c] # "none"
      /\ cst[c] = "closed" => s2c[c] = <<>>
      /\ ~closed /\ Live => Stage(cst[c], hst[c], c2s[c], s2c[c])
  BY <1>1 DEF Sound
\* The handler moves on.
<1>5. ASSUME ~closed, hst[c] # "none", NEW h, h # "none", hst' = [hst EXCEPT ![c] = h], cst' = cst,
             cst[c] = "closed" => s2c'[c] = s2c[c], Live => Stage(cst[c], h, c2s'[c], s2c'[c])
      PROVE  New
  <2>1. hst'[c] = h /\ cst'[c] = cst[c]
    BY <1>0, <1>5
  <2> QED
    BY <2>1, <1>4, <1>5 DEF Sound
\* The handler returns, the child being there or gone.
<1>6. ASSUME NEW last, HandlerGone(c, last), hst[c] # "none",
             ~closed /\ Live => Stage(cst[c], "none", <<>>, s2c[c] \o last),
             closed /\ Live => Severed(cst[c], s2c[c] \o last)
      PROVE  New
  <2>1. hst'[c] = "none" /\ c2s'[c] = <<>>
    BY <1>0, <1>6 DEF HandlerGone
  <2>2. /\ cst'[c] = IF cst[c] = "closed" THEN "none" ELSE cst[c]
        /\ s2c'[c] = IF cst[c] = "closed" THEN <<>> ELSE s2c[c] \o last
    BY <1>0, <1>6 DEF HandlerGone
  <2> QED
    BY <2>1, <2>2, <1>4, <1>6 DEF Sound
\* What Take and Reply leave in the sockets of c.
<1>7. ASSUME Take(c) PROVE c2s'[c] = Tail(c2s[c])
  BY <1>0, <1>7 DEF Take
<1>8. ASSUME NEW m, Reply(c, <<m>>) PROVE s2c'[c] = IF cst[c] = "closed" THEN s2c[c] ELSE s2c[c] \o <<m>>
  BY <1>0, <1>8 DEF Reply
<1>9. \A m : <<>> \o <<m>> = <<m>>
  OBVIOUS
<1>10. \A m, n : <<>> \o <<m, n>> = <<m, n>>
  OBVIOUS
\* The other connections.
<1>11. ASSUME New PROVE Conversations'
  <2>1. closed' = closed
    BY DEF Handler, HandleRequest, HandleUnauthorized, SendOffer, SendCallCap, HandleAccept,
       HandleAcquired, HandleCooldown, HandleRelease, HandlerEof, HandlerCancelled
  <2>2. \A d \in Conns \ {c} : cst'[d] = cst[d] /\ hst'[d] = hst[d]
    BY <1>0 DEF Handler, HandleRequest, HandleUnauthorized, SendOffer, SendCallCap, HandleAccept,
       HandleAcquired, HandleCooldown, HandleRelease, HandlerEof, HandlerCancelled, HandlerGone
  <2>3. \A d \in Conns \ {c} : c2s'[d] = c2s[d] /\ s2c'[d] = s2c[d]
    BY <1>0 DEF Handler, HandleRequest, HandleUnauthorized, SendOffer, SendCallCap, HandleAccept,
       HandleAcquired, HandleCooldown, HandleRelease, HandlerEof, HandlerCancelled, HandlerGone,
       Take, Reply
  <2> HIDE DEF New
  <2>4. New
    BY <1>11
  <2> QED
    BY <2>1, <2>2, <2>3, <2>4, OneConversation DEF New
<1> SUFFICES New
  BY <1>11
<1> HIDE DEF New
<1>a. CASE HandleRequest(c)
  <2>1. hst[c] = "request" /\ ~closed /\ c2s[c] # <<>> /\ Take(c) /\ s2c' = s2c /\ cst' = cst
        /\ hst' = [hst EXCEPT ![c] = "outcome"]
    BY <1>a DEF HandleRequest, Reads
  <2>2. Live => cst[c] = "requested" /\ c2s[c] = <<"request">> /\ s2c[c] = <<>>
    BY <2>1, <1>4, ServerReads
  <2>3. Live => Stage(cst[c], "outcome", c2s'[c], s2c'[c])
    BY <2>1, <2>2, <1>2, <1>7, Stages
  <2> QED
    BY <2>1, <2>3, <1>5
<1>b. CASE HandleUnauthorized(c)
  <2>1. hst[c] = "request" /\ ~closed /\ c2s[c] # <<>> /\ HandlerGone(c, <<"unauthorized", "eof">>)
    BY <1>b DEF HandleUnauthorized, Reads
  <2>2. Live => cst[c] = "requested" /\ s2c[c] = <<>>
    BY <2>1, <1>4, ServerReads
  <2>3. Live => Stage(cst[c], "none", <<>>, s2c[c] \o <<"unauthorized", "eof">>)
    BY <2>2, <1>10, AnsweredStages
  <2> QED
    BY <2>1, <2>3, <1>6
<1>c. CASE SendOffer(c)
  <2>1. hst[c] = "outcome" /\ ~closed /\ Reply(c, <<"offered">>) /\ c2s' = c2s /\ cst' = cst
        /\ hst' = [hst EXCEPT ![c] = "ack"]
    BY <1>c DEF SendOffer
  <2>2. Live => cst[c] = "requested" /\ c2s[c] = <<>> /\ s2c[c] = <<>>
    BY <2>1, <1>4, ServerReads
  <2>3. Live => Stage(cst[c], "ack", c2s'[c], s2c'[c])
    BY <2>1, <2>2, <1>8, <1>9, AnsweredStages
  <2> QED
    BY <2>1, <2>3, <1>5, <1>8
<1>d. CASE SendCallCap(c)
  <2>1. hst[c] = "outcome" /\ ~closed /\ HandlerGone(c, <<"call_cap", "eof">>)
    BY <1>d DEF SendCallCap
  <2>2. Live => cst[c] = "requested" /\ s2c[c] = <<>>
    BY <2>1, <1>4, ServerReads
  <2>3. Live => Stage(cst[c], "none", <<>>, s2c[c] \o <<"call_cap", "eof">>)
    BY <2>2, <1>10, AnsweredStages
  <2> QED
    BY <2>1, <2>3, <1>6
<1>e. CASE HandleAccept(c)
  <2>1. hst[c] = "ack" /\ ~closed /\ c2s[c] # <<>> /\ Take(c) /\ Reply(c, <<"ready">>) /\ cst' = cst
        /\ hst' = [hst EXCEPT ![c] = "acquired"]
    BY <1>e DEF HandleAccept, Reads
  <2>2. Live => cst[c] = "accepted" /\ c2s[c] = <<"accept">> /\ s2c[c] = <<>>
    BY <2>1, <1>4, ServerReads
  <2>3. Live => Stage(cst[c], "acquired", c2s'[c], s2c'[c])
    BY <2>1, <2>2, <1>2, <1>7, <1>8, <1>9, AnsweredStages
  <2> QED
    BY <2>1, <2>3, <1>5, <1>8
<1>f. CASE HandleAcquired(c)
  <2>1. hst[c] = "acquired" /\ ~closed /\ c2s[c] # <<>> /\ Take(c) /\ Reply(c, <<"confirmed">>)
        /\ cst' = cst /\ hst' = [hst EXCEPT ![c] = "release"]
    BY <1>f DEF HandleAcquired, Reads
  <2>2. Live => cst[c] = "acquiring" /\ c2s[c] = <<"acquired">> /\ s2c[c] = <<>>
    BY <2>1, <1>4, ServerReads
  <2>3. Live => Stage(cst[c], "release", c2s'[c], s2c'[c])
    BY <2>1, <2>2, <1>2, <1>7, <1>8, <1>9, AnsweredStages
  <2> QED
    BY <2>1, <2>3, <1>5, <1>8
<1>g. CASE HandleCooldown(c)
  <2>1. hst[c] = "release" /\ ~closed /\ c2s[c] # <<>> /\ Head(c2s[c]) = "cooldown" /\ Take(c)
        /\ Reply(c, <<"cooldown_applied">>) /\ cst' = cst /\ hst' = [hst EXCEPT ![c] = "release"]
    BY <1>g, <1>0 DEF HandleCooldown, Reads
  <2>2. Live => cst[c] = "feedback" /\ c2s[c] = <<"cooldown">> /\ s2c[c] = <<>>
    BY <2>1, <1>4, ServerReads
  <2>3. Live => Stage(cst[c], "release", c2s'[c], s2c'[c])
    BY <2>1, <2>2, <1>2, <1>7, <1>8, <1>9, AnsweredStages
  <2> QED
    BY <2>1, <2>3, <1>5, <1>8
<1>h. CASE HandleRelease(c)
  <2>1. hst[c] = "release" /\ ~closed /\ c2s[c] # <<>> /\ Head(c2s[c]) = "release" /\ Take(c)
        /\ s2c' = s2c /\ cst' = cst /\ hst' = [hst EXCEPT ![c] = "request"]
    BY <1>h DEF HandleRelease, Reads
  <2>2. Live => /\ s2c[c] = <<>>
                /\ \/ cst[c] = "idle" /\ c2s[c] = <<"release">>
                   \/ cst[c] = "requested" /\ c2s[c] = <<"release", "request">>
    BY <2>1, <1>4, ServerReads
  <2>3. c2s[c] = <<"release">> => c2s'[c] = <<>>
    BY <2>1, <1>2, <1>7
  <2>4. c2s[c] = <<"release", "request">> => c2s'[c] = <<"request">>
    BY <2>1, <1>3, <1>7
  <2>5. Live => Stage(cst[c], "request", c2s'[c], s2c'[c])
    BY <2>1, <2>2, <2>3, <2>4, Stages
  <2> QED
    BY <2>1, <2>5, <1>5
<1>i. CASE HandlerEof(c)
  <2>1. hst[c] # "none" /\ ~closed /\ HandlerGone(c, <<>>) /\ "eof" \in Members(c2s[c])
    BY <1>i DEF HandlerEof
  <2>2. ~Live
    BY <2>1, <1>4, ServerReads
  <2> QED
    BY <2>1, <2>2, <1>6
<1>j. CASE HandlerCancelled(c)
  <2>1. closed /\ hst[c] # "none" /\ HandlerGone(c, <<>>)
    BY <1>j DEF HandlerCancelled
  <2>2. s2c[c] \o <<>> = s2c[c]
    BY <1>0, ConcatEmptySeq
  <2>3. Live => Severed(cst[c], s2c[c])
    BY <1>1, <2>1 DEF Sound
  <2> QED
    BY <2>1, <2>2, <2>3, <1>6
<1> QED
  BY <1>a, <1>b, <1>c, <1>d, <1>e, <1>f, <1>g, <1>h, <1>i, <1>j DEF Handler

\* Closing connections, in whatever stage they are and whether or not what
\* was sent on them is delivered.
LEMMA CloseConversations ==
  ASSUME TypeOK, Conversations, NEW cs, CloseAll(cs), UNCHANGED <<closed, hst>>
  PROVE  Conversations'
<1> SUFFICES ASSUME NEW d \in Conns PROVE Sound(closed, cst'[d], hst[d], c2s'[d], s2c'[d])
  BY DEF Conversations
<1>1. Sound(closed, cst[d], hst[d], c2s[d], s2c[d])
  BY DEF Conversations
<1>2. /\ cst'[d] = IF d \notin cs \/ cst[d] = "none" THEN cst[d]
                   ELSE IF hst[d] = "none" THEN "none" ELSE "closed"
      /\ s2c'[d] = IF d \in cs THEN <<>> ELSE s2c[d]
  BY DEF CloseAll
<1>3. d \notin cs \/ cst[d] \in {"none", "closed"} \/ hst[d] = "none" => c2s'[d] = c2s[d]
  BY DEF CloseAll
<1>4. CASE d \notin cs
  BY <1>1, <1>2, <1>3, <1>4
<1>5. CASE d \in cs
  BY <1>1, <1>2, <1>3, <1>5 DEF Sound
<1> QED
  BY <1>4, <1>5

\* An answer read after _shutdown is followed by end of file.
LEMMA SeveredReads ==
  ASSUME NEW cs, NEW down, Severed(cs, down), down # <<>>, Head(down) # "eof"
  PROVE  SubSeq(down, 2, Len(down)) = <<"eof">>
<1>1. \A a : Head(<<a>>) = a
  OBVIOUS
<1>2. down # <<"eof">>
  BY <1>1
<1>3. PICK m \in Expected(cs) : down = <<m, "eof">>
  BY <1>2 DEF Severed
<1> QED
  BY <1>3, ShortReads

\* What a child may read after _shutdown depends on its step only.
LEMMA SeveredSteps ==
  ASSUME NEW cs, NEW cs2, NEW down, Expected(cs) \subseteq Expected(cs2)
  PROVE  (Severed(cs, down) => Severed(cs2, down)) /\ (down = <<"eof">> => Severed(cs, down))
  BY DEF Severed

\* The steps of a child that leave its connection open or close it.
LEMMA ChildConversation ==
  ASSUME TypeOK, Conversations, NEW c \in Conns, Child(c)
  PROVE  Conversations'
<1> DEFINE Live == cst[c] \notin {"none", "closed"}
           New == Sound(closed, cst'[c], hst'[c], c2s'[c], s2c'[c])
<1>0. /\ hst \in [Conns -> HandlerStates] /\ cst \in [Conns -> ClientStates]
      /\ c2s \in [Conns -> Seq(ToServer)] /\ s2c \in [Conns -> Seq(ToClient)]
  BY DEF TypeOK
<1>1. Sound(closed, cst[c], hst[c], c2s[c], s2c[c])
  BY DEF Conversations
<1>2. closed' = closed
  BY DEF Child, Acquire, GetOffer, GetReady, GetConfirmed, AcquireFails, ProviderReturns,
     ProviderOverloaded, GetCooldownApplied, FeedbackFails, IdleExpires
<1>3. /\ hst[c] = "none" => c2s[c] = <<>>
      /\ Live /\ ~closed => Stage(cst[c], hst[c], c2s[c], s2c[c])
      /\ Live /\ closed => Severed(cst[c], s2c[c])
  BY <1>1 DEF Sound
\* The child goes on to k after it has read n answers and sent ms.
<1>4. ASSUME NEW n \in {0, 1}, NEW ms, NEW k, k \notin {"none", "closed"}, Live,
             Send(c, n, ms), cst' = [cst EXCEPT ![c] = k], hst' = hst,
             ~closed /\ hst[c] # "none" =>
               Stage(k, hst[c], c2s[c] \o ms, SubSeq(s2c[c], n + 1, Len(s2c[c]))),
             ~closed => hst[c] # "none",
             closed => Severed(k, SubSeq(s2c[c], n + 1, Len(s2c[c])))
      PROVE  Conversations'
  <2>1. cst'[c] = k /\ s2c'[c] = SubSeq(s2c[c], n + 1, Len(s2c[c]))
    BY <1>0, <1>4 DEF Send
  <2>2. c2s'[c] = IF hst[c] = "none" THEN c2s[c] ELSE c2s[c] \o ms
    BY <1>0, <1>4 DEF Send
  <2>3. New
    BY <2>1, <2>2, <1>3, <1>4 DEF Sound
  <2>4. \A d \in Conns \ {c} : cst'[d] = cst[d] /\ hst'[d] = hst[d] /\ c2s'[d] = c2s[d] /\ s2c'[d] = s2c[d]
    BY <1>0, <1>4 DEF Send
  <2> QED
    BY <1>2, <2>3, <2>4, OneConversation
<1>5. SubSeq(s2c[c], 0 + 1, Len(s2c[c])) = s2c[c]
  BY <1>0, SubSeqFull
<1>6. SubSeq(s2c[c], 1 + 1, Len(s2c[c])) = SubSeq(s2c[c], 2, Len(s2c[c]))
  OBVIOUS
<1>7. \A a : <<>> \o <<a>> = <<a>>
  OBVIOUS
<1>8. \A a : SubSeq(<<a>>, 2, Len(<<a>>)) = <<>>
  BY ShortReads
<1> HIDE DEF New
\* After _shutdown, an answer that is not end of file is the last one.
<1>9. ASSUME closed, Live, NEW m, m # "eof", s2c[c] # <<>>, Head(s2c[c]) = m, NEW k
      PROVE  Severed(k, SubSeq(s2c[c], 1 + 1, Len(s2c[c])))
  <2>1. SubSeq(s2c[c], 2, Len(s2c[c])) = <<"eof">>
    BY <1>3, <1>9, SeveredReads
  <2> QED
    BY <1>6, <2>1 DEF Severed
\* The connection is released after n answers were read.
<1>10. ASSUME NEW n \in {0, 1}, ReleaseConnection(c, n), Live, hst' = hst,
              ~closed => /\ hst[c] = "release" /\ c2s[c] = <<>>
                         /\ SubSeq(s2c[c], n + 1, Len(s2c[c])) = <<>>,
              closed => Severed("idle", SubSeq(s2c[c], n + 1, Len(s2c[c])))
       PROVE  Conversations'
  <2>1. CASE Send(c, n, <<"release">>) /\ cst' = [cst EXCEPT ![c] = "idle"]
    <3>1. ~closed => Stage("idle", hst[c], c2s[c] \o <<"release">>, SubSeq(s2c[c], n + 1, Len(s2c[c])))
      BY <1>7, <1>10, Stages
    <3>2. ~closed => hst[c] # "none"
      BY <1>10
    <3>3. "idle" \notin {"none", "closed"}
      OBVIOUS
    <3> QED
      BY <2>1, <3>1, <3>2, <3>3, <1>4, <1>10
  <2>2. CASE /\ s2c' = [s2c EXCEPT ![c] = <<>>]
             /\ c2s' = IF hst[c] = "none" THEN c2s ELSE [c2s EXCEPT ![c] = @ \o <<"release", "eof">>]
             /\ cst' = [cst EXCEPT ![c] = IF hst[c] = "none" THEN "none" ELSE "closed"]
    <3>1. /\ s2c'[c] = <<>> /\ hst'[c] = hst[c]
          /\ hst[c] = "none" => c2s'[c] = c2s[c]
          /\ cst'[c] = IF hst[c] = "none" THEN "none" ELSE "closed"
      BY <2>2, <1>0, <1>10
    <3>2. New
      BY <3>1, <1>3 DEF New, Sound
    <3>3. \A d \in Conns \ {c} : cst'[d] = cst[d] /\ hst'[d] = hst[d] /\ c2s'[d] = c2s[d] /\ s2c'[d] = s2c[d]
      BY <2>2, <1>0, <1>10
    <3> QED
      BY <1>2, <3>2, <3>3, OneConversation DEF New
  <2> QED
    BY <2>1, <2>2, <1>10 DEF ReleaseConnection
<1>a. CASE Acquire(c)
  <2>1. CASE cst[c] = "idle" /\ Send(c, 0, <<"request">>) /\ hst' = hst
    <3>1. cst' = [cst EXCEPT ![c] = "requested"] /\ Live
      BY <1>a, <2>1 DEF Acquire
    <3>2. ~closed => /\ s2c[c] = <<>>
                     /\ \/ hst[c] = "release" /\ c2s[c] = <<"release">>
                        \/ hst[c] = "request" /\ c2s[c] = <<>>
      BY <2>1, <3>1, <1>3, ChildReads
    <3>3. <<"release">> \o <<"request">> = <<"release", "request">>
      BY ShortWrites
    <3>4. ~closed => Stage("requested", hst[c], c2s[c] \o <<"request">>, s2c[c])
      <4>1. CASE ~closed /\ hst[c] = "release" /\ c2s[c] = <<"release">>
        BY <4>1, <3>2, <3>3, Stages
      <4>2. CASE ~closed /\ hst[c] = "request" /\ c2s[c] = <<>>
        BY <4>2, <3>2, <1>7, Stages
      <4> QED
        BY <4>1, <4>2, <3>2
    <3>5. closed => Severed("requested", s2c[c])
      <4>1. Expected("idle") \subseteq Expected("requested")
        BY DEF Expected
      <4>2. closed => Severed("idle", s2c[c])
        BY <2>1, <3>1, <1>3
      <4> QED
        BY <4>1, <4>2, SeveredSteps
    <3>6. ~closed => hst[c] # "none"
      BY <3>2
    <3>7. "requested" \notin {"none", "closed"} /\ 0 \in {0, 1}
      OBVIOUS
    <3> QED
      BY <2>1, <3>1, <3>4, <3>5, <3>6, <3>7, <1>4, <1>5
  <2>2. CASE /\ ~closed /\ cst[c] = "none" /\ hst[c] = "none"
             /\ hst' = [hst EXCEPT ![c] = "request"]
             /\ c2s' = [c2s EXCEPT ![c] = <<"request">>]
             /\ s2c' = [s2c EXCEPT ![c] = <<>>]
    <3>1. cst' = [cst EXCEPT ![c] = "requested"]
      BY <1>a DEF Acquire
    <3>2. cst'[c] = "requested" /\ hst'[c] = "request" /\ c2s'[c] = <<"request">> /\ s2c'[c] = <<>>
      BY <2>2, <3>1, <1>0
    <3>3. Stage(cst'[c], hst'[c], c2s'[c], s2c'[c])
      BY <3>2, Stages
    <3>4. New
      BY <2>2, <3>2, <3>3 DEF New, Sound
    <3>5. \A d \in Conns \ {c} : cst'[d] = cst[d] /\ hst'[d] = hst[d] /\ c2s'[d] = c2s[d] /\ s2c'[d] = s2c[d]
      BY <2>2, <3>1, <1>0
    <3> QED
      BY <1>2, <3>4, <3>5, OneConversation DEF New
  <2> QED
    BY <2>1, <2>2, <1>a DEF Acquire
<1>b. CASE GetOffer(c)
  <2>1. /\ cst[c] = "requested" /\ s2c[c] # <<>> /\ Head(s2c[c]) = "offered" /\ Live
        /\ Send(c, 1, <<"accept">>) /\ cst' = [cst EXCEPT ![c] = "accepted"] /\ hst' = hst
    BY <1>b DEF GetOffer, Answer
  <2>2. ~closed => hst[c] = "ack" /\ c2s[c] = <<>> /\ s2c[c] = <<"offered">>
    BY <2>1, <1>3, ChildReads
  <2>3. ~closed => Stage("accepted", hst[c], c2s[c] \o <<"accept">>, SubSeq(s2c[c], 1 + 1, Len(s2c[c])))
    BY <2>2, <1>6, <1>7, <1>8, Stages
  <2>4. "accepted" \notin {"none", "closed"} /\ 1 \in {0, 1} /\ (~closed => hst[c] # "none")
    BY <2>2
  <2> QED
    BY <2>1, <2>3, <2>4, <1>4, <1>9
<1>c. CASE GetReady(c)
  <2>1. /\ cst[c] = "accepted" /\ s2c[c] # <<>> /\ Head(s2c[c]) = "ready" /\ Live
        /\ Send(c, 1, <<"acquired">>) /\ cst' = [cst EXCEPT ![c] = "acquiring"] /\ hst' = hst
    BY <1>c DEF GetReady, Answer
  <2>2. ~closed => hst[c] = "acquired" /\ c2s[c] = <<>> /\ s2c[c] = <<"ready">>
    BY <2>1, <1>3, ChildReads
  <2>3. ~closed => Stage("acquiring", hst[c], c2s[c] \o <<"acquired">>, SubSeq(s2c[c], 1 + 1, Len(s2c[c])))
    BY <2>2, <1>6, <1>7, <1>8, Stages
  <2>4. "acquiring" \notin {"none", "closed"} /\ 1 \in {0, 1} /\ (~closed => hst[c] # "none")
    BY <2>2
  <2> QED
    BY <2>1, <2>3, <2>4, <1>4, <1>9
<1>d. CASE GetConfirmed(c)
  <2>1. /\ cst[c] = "acquiring" /\ s2c[c] # <<>> /\ Head(s2c[c]) = "confirmed" /\ Live
        /\ Send(c, 1, <<>>) /\ cst' = [cst EXCEPT ![c] = "running"] /\ hst' = hst
    BY <1>d DEF GetConfirmed, Answer
  <2>2. ~closed => hst[c] = "release" /\ c2s[c] = <<>> /\ s2c[c] = <<"confirmed">>
    BY <2>1, <1>3, ChildReads
  <2>3. ~closed => Stage("running", hst[c], c2s[c] \o <<>>, SubSeq(s2c[c], 1 + 1, Len(s2c[c])))
    BY <2>2, <1>6, <1>8, ShortWrites, Stages
  <2>4. "running" \notin {"none", "closed"} /\ 1 \in {0, 1} /\ (~closed => hst[c] # "none")
    BY <2>2
  <2> QED
    BY <2>1, <2>3, <2>4, <1>4, <1>9
<1>e. CASE ProviderReturns(c)
  <2>1. cst[c] = "running" /\ ReleaseConnection(c, 0) /\ hst' = hst /\ Live
    BY <1>e DEF ProviderReturns
  <2>2. ~closed => hst[c] = "release" /\ c2s[c] = <<>> /\ s2c[c] = <<>>
    BY <2>1, <1>3, ChildReads
  <2>3. closed => Severed("idle", s2c[c])
    <3>1. Expected("running") \subseteq Expected("idle")
      BY DEF Expected
    <3> QED
      BY <2>1, <3>1, <1>3, SeveredSteps
  <2>4. 0 \in {0, 1}
    OBVIOUS
  <2> QED
    BY <2>1, <2>2, <2>3, <2>4, <1>5, <1>10
<1>f. CASE ProviderOverloaded(c)
  <2>1. /\ cst[c] = "running" /\ Live
        /\ Send(c, 0, <<"cooldown">>) /\ cst' = [cst EXCEPT ![c] = "feedback"] /\ hst' = hst
    BY <1>f DEF ProviderOverloaded
  <2>2. ~closed => hst[c] = "release" /\ c2s[c] = <<>> /\ s2c[c] = <<>>
    BY <2>1, <1>3, ChildReads
  <2>3. ~closed => Stage("feedback", hst[c], c2s[c] \o <<"cooldown">>, s2c[c])
    BY <2>2, <1>7, Stages
  <2>4. closed => Severed("feedback", s2c[c])
    <3>1. Expected("running") \subseteq Expected("feedback")
      BY DEF Expected
    <3> QED
      BY <2>1, <3>1, <1>3, SeveredSteps
  <2>5. "feedback" \notin {"none", "closed"} /\ 0 \in {0, 1} /\ (~closed => hst[c] # "none")
    BY <2>2
  <2> QED
    BY <2>1, <2>3, <2>4, <2>5, <1>4, <1>5
<1>g. CASE GetCooldownApplied(c)
  <2>1. /\ cst[c] = "feedback" /\ s2c[c] # <<>> /\ Head(s2c[c]) = "cooldown_applied" /\ Live
        /\ ReleaseConnection(c, 1) /\ hst' = hst
    BY <1>g DEF GetCooldownApplied, Answer
  <2>2. ~closed => hst[c] = "release" /\ c2s[c] = <<>> /\ s2c[c] = <<"cooldown_applied">>
    BY <2>1, <1>3, ChildReads
  <2>3. ~closed => SubSeq(s2c[c], 1 + 1, Len(s2c[c])) = <<>>
    BY <2>2, <1>6, <1>8
  <2>4. 1 \in {0, 1} /\ "cooldown_applied" # "eof"
    OBVIOUS
  <2> QED
    BY <2>1, <2>2, <2>3, <2>4, <1>9, <1>10
<1>h. CASE AcquireFails(c) \/ FeedbackFails(c) \/ IdleExpires(c)
  <2>1. CloseAll({c}) /\ UNCHANGED <<closed, hst>>
    BY <1>h DEF AcquireFails, FeedbackFails, IdleExpires
  <2> QED
    BY <2>1, CloseConversations
<1> QED
  BY <1>a, <1>b, <1>c, <1>d, <1>e, <1>f, <1>g, <1>h DEF Child

\* _shutdown ends every conversation with end of file.
LEMMA ShutdownConversation ==
  ASSUME TypeOK, Conversations, Shutdown
  PROVE  Conversations'
<1> SUFFICES ASSUME NEW d \in Conns PROVE Sound(TRUE, cst[d], hst[d], c2s[d], s2c'[d])
  BY DEF Conversations, Shutdown
<1>1. Sound(closed, cst[d], hst[d], c2s[d], s2c[d]) /\ ~closed
  BY DEF Conversations, Shutdown
<1>2. s2c'[d] = IF hst[d] = "none" \/ cst[d] = "closed" THEN s2c[d] ELSE Append(s2c[d], "eof")
  BY DEF Shutdown
<1>3. CASE cst[d] \in {"none", "closed"}
  BY <1>1, <1>2, <1>3 DEF Sound
<1>4. CASE cst[d] \notin {"none", "closed"}
  <2>1. Stage(cst[d], hst[d], c2s[d], s2c[d])
    BY <1>1, <1>4 DEF Sound
  <2>2. hst[d] = "none" => \E m \in Expected(cst[d]) : s2c[d] = <<m, "eof">>
    <3>1. hst[d] = "none" => s2c[d] = <<"unauthorized", "eof">> \/ s2c[d] = <<"call_cap", "eof">>
      BY <2>1 DEF Stage
    <3>2. hst[d] = "none" => cst[d] = "requested"
      BY <2>1 DEF Stage
    <3>3. cst[d] = "requested" => "unauthorized" \in Expected(cst[d]) /\ "call_cap" \in Expected(cst[d])
      BY DEF Expected
    <3> QED
      BY <3>1, <3>2, <3>3
  <2>3. CASE hst[d] = "none"
    BY <1>2, <1>4, <2>2, <2>3, <1>1 DEF Sound, Severed
  <2>4. CASE hst[d] # "none" /\ s2c[d] = <<>>
    <3>1. s2c'[d] = <<"eof">>
      BY <1>2, <1>4, <2>4, ShortWrites
    <3> QED
      BY <3>1, <1>4, <2>4 DEF Sound, Severed
  <2>5. CASE hst[d] # "none" /\ \E m \in Expected(cst[d]) : s2c[d] = <<m>>
    <3>1. PICK m \in Expected(cst[d]) : s2c[d] = <<m>>
      BY <2>5
    <3>2. s2c'[d] = Append(<<m>>, "eof")
      BY <1>2, <1>4, <2>5, <3>1
    <3>3. s2c'[d] = <<m, "eof">>
      BY <3>2, AppendSecond
    <3> QED
      BY <3>3, <1>4, <2>5 DEF Sound, Severed
  <2>6. s2c[d] = <<>> \/ (\E m \in Expected(cst[d]) : s2c[d] = <<m>>) \/ hst[d] = "none"
    BY <2>1, ChildReads
  <2> QED
    BY <2>3, <2>4, <2>5, <2>6
<1> QED
  BY <1>3, <1>4

\* Nobody is connected when the broker starts.
LEMMA ConversationsInit == Init => Conversations
  BY DEF Init, Conversations, Sound

\* Every step of the system leaves every connection in one of the stages.
LEMMA ConversationsNext == TypeOK /\ Conversations /\ [Next]_vars => Conversations'
<1> SUFFICES ASSUME TypeOK, Conversations, [Next]_vars PROVE Conversations'
  OBVIOUS
<1>1. CASE \E c \in Conns : Handler(c) \/ Child(c)
  BY <1>1, HandlerConversation, ChildConversation
<1>2. ASSUME NEW p \in Controllers, ControllerClose(p) \/ ChildCrash(p) PROVE Conversations'
  BY <1>2, CloseConversations DEF ControllerClose, ChildCrash
<1>3. CASE Shutdown
  BY <1>3, ShutdownConversation
<1>4. CASE WakeFires \/ Tick \/ UNCHANGED vars
  <2>1. UNCHANGED <<closed, cst, hst, c2s, s2c>>
    BY <1>4 DEF WakeFires, Tick, vars, net
  <2> QED
    BY <2>1 DEF Conversations
<1> QED
  BY <1>1, <1>2, <1>3, <1>4 DEF Next

----------------------------------------------------------------------------
(***************************************************************************)
(* Leases and answers.                                                     *)
(***************************************************************************)

\* While the broker runs, a child inside a provider call is in a stage where
\* its handler awaits the release, and the handler's waiter is then leased.
LEMMA CallsAreLeased ==
  ASSUME AccountingInv, Conversations
  PROVE  InFlightBounded
<1> SUFFICES ASSUME ~closed
             PROVE  /\ \A c \in Conns : Calling(c) => wstate[c] = "leased"
                    /\ Cardinality({c \in Conns : Calling(c)}) <= MaxInFlight
  BY DEF InFlightBounded
<1>1. ASSUME NEW c \in Conns, Calling(c) PROVE wstate[c] = "leased"
  <2>1. cst[c] \in {"running", "feedback"}
    BY <1>1 DEF Calling
  <2>2. Stage(cst[c], hst[c], c2s[c], s2c[c])
    BY <2>1 DEF Conversations, Sound
  <2>3. hst[c] = "release"
    BY <2>1, <2>2, ChildReads
  <2> QED
    BY <2>3 DEF AccountingInv, HandlerWaiter, Fits
<1> DEFINE H == {c \in Conns : Holds(c)}
           K == {c \in Conns : Calling(c)}
<1>2. K \subseteq H /\ H \subseteq Conns
  BY <1>1 DEF Holds
<1>3. IsFiniteSet(H)
  BY <1>2, BrokerAssumption, FS_Subset
<1>4. Cardinality(K) <= Cardinality(H)
  BY <1>2, <1>3, FS_Subset
<1>5. active = Cardinality(H) /\ active <= MaxInFlight
  BY DEF AccountingInv, Accounting, CapacityKept
<1>6. Cardinality(K) \in Nat /\ Cardinality(H) \in Nat /\ MaxInFlight \in Nat
  BY <1>2, <1>3, FS_Subset, FS_CardinalityType, BrokerAssumption
<1> QED
  BY <1>1, <1>4, <1>5, <1>6

\* In every stage, and after _shutdown, the first unread answer is one the
\* child waits for.
LEMMA AnswersAreExpected ==
  ASSUME TypeOK, Conversations
  PROVE  AnswersMatch
<1> SUFFICES ASSUME NEW c \in Conns, s2c[c] # <<>> PROVE Head(s2c[c]) \in Expected(cst[c])
  BY DEF AnswersMatch
<1>1. Sound(closed, cst[c], hst[c], c2s[c], s2c[c])
  BY DEF Conversations
<1>2. cst[c] \notin {"none", "closed"}
  BY <1>1 DEF Sound
<1>3. "eof" \in Expected(cst[c])
  BY DEF Expected
<1>4. \A a : Head(<<a>>) = a
  OBVIOUS
<1>5. \A a, b : Head(<<a, b>>) = a
  OBVIOUS
<1>6. \/ s2c[c] = <<"eof">>
      \/ \E m \in Expected(cst[c]) : s2c[c] = <<m>>
      \/ \E m \in Expected(cst[c]) : s2c[c] = <<m, "eof">>
  BY <1>1, <1>2, ChildReads DEF Sound, Severed
<1>7. CASE s2c[c] = <<"eof">>
  BY <1>3, <1>4, <1>7
<1>8. CASE \E m \in Expected(cst[c]) : s2c[c] = <<m>>
  BY <1>4, <1>8
<1>9. CASE \E m \in Expected(cst[c]) : s2c[c] = <<m, "eof">>
  BY <1>5, <1>9
<1> QED
  BY <1>6, <1>7, <1>8, <1>9

\* For every group of children, through crashes, reused connections, failed
\* feedback and lost data: while the broker runs, whoever is inside a provider
\* call holds a lease, so no more than max_in_flight calls run at once.
THEOREM LeasesCorrect == Spec => []InFlightBounded
<1>1. Init => AccountingInv /\ Conversations
  BY AccountingInit, ConversationsInit
<1>2. AccountingInv /\ Conversations /\ [Next]_vars => AccountingInv' /\ Conversations'
  BY AccountingNext, ConversationsNext DEF AccountingInv
<1>3. AccountingInv /\ Conversations => InFlightBounded
  BY CallsAreLeased
<1> QED
  BY <1>1, <1>2, <1>3, PTL DEF Spec

\* A pooled connection never carries an answer from the attempt before: what a
\* child reads first is always an answer to the step it is in.
THEOREM AnswersCorrect == Spec => []AnswersMatch
<1>1. Init => TypeOK /\ Conversations
  BY InitType, ConversationsInit
<1>2. TypeOK /\ Conversations /\ [Next]_vars => TypeOK' /\ Conversations'
  BY NextType, ConversationsNext
<1>3. TypeOK /\ Conversations => AnswersMatch
  BY AnswersAreExpected
<1> QED
  BY <1>1, <1>2, <1>3, PTL DEF Spec

----------------------------------------------------------------------------
(***************************************************************************)
(* The call budget.                                                        *)
(***************************************************************************)

\* Children whose confirmed admission is still on its way to them.
Unread == {c \in Conns : "confirmed" \in Members(s2c[c])}

\* Every committed admission pays for one provider call, started or about to
\* start; the waiters that were rejected, and the answers that say so, are
\* there only when every call of the budget is committed.
BudgetBooks ==
  /\ dispatched + Cardinality(Unread) <= admitted_calls
  /\ \A c \in Conns : wstate[c] = "terminal" => admitted_calls = MaxCalls
  /\ \A c \in Conns : "call_cap" \in Members(s2c[c]) => admitted_calls = MaxCalls

\* Only a spent budget rejects waiters.
LEMMA OfferRejects ==
  ASSUME NEW q, NEW ws \in [Conns -> WaiterStates], NEW act, NEW res, NEW adm, NEW gate,
         OfferAvailable(q, ws, act, res, adm, gate)
  PROVE  /\ admitted_calls' = adm
         /\ \A d \in Conns : wstate'[d] = "terminal" => ws[d] = "terminal" \/ CapReached(adm)
<1>1. admitted_calls' = adm
  BY DEF OfferAvailable
<1>2. ASSUME NEW d \in Conns, wstate'[d] = "terminal", ~CapReached(adm) PROVE ws[d] = "terminal"
  <2>1. \/ wstate' = ws
        \/ \E k : wstate' = [c \in Conns |-> IF c \in {q[i] : i \in 1..k} THEN "offered" ELSE ws[c]]
    BY <1>2 DEF OfferAvailable
  <2> QED
    BY <1>2, <2>1
<1> QED
  BY <1>1, <1>2

\* What the broker's operations do to the budget: admissions are only added,
\* and nobody is rejected before the budget is spent.
BudgetMoves ==
  /\ admitted_calls' >= admitted_calls
  /\ \A d \in Conns : wstate'[d] = "terminal" => wstate[d] = "terminal" \/ CapReached(admitted_calls')

\* enqueue, disconnect, confirm and cooldown move the budget that way.
LEMMA OperationsBudget ==
  ASSUME TypeOK, NEW c \in Conns
  PROVE  /\ Enqueue(c) => BudgetMoves
         /\ Disconnect(c) => BudgetMoves
         /\ Confirm(c) => BudgetMoves /\ admitted_calls' = admitted_calls + 1
         /\ \A d \in 1..MaxCooldown : Cooldown(d) => BudgetMoves
         /\ UNCHANGED <<admitted_calls, wstate>> => BudgetMoves
<1>0. wstate \in [Conns -> WaiterStates] /\ admitted_calls \in Nat
  BY DEF TypeOK
<1> DEFINE Set(w) == [wstate EXCEPT ![c] = w]
<1>1. ASSUME NEW w \in WaiterStates, w # "terminal"
      PROVE  /\ Set(w) \in [Conns -> WaiterStates]
             /\ \A d \in Conns : Set(w)[d] = "terminal" => wstate[d] = "terminal"
  BY <1>0, <1>1
<1>2. "queued" \in WaiterStates /\ "none" \in WaiterStates /\ "leased" \in WaiterStates
  BY DEF WaiterStates
<1> HIDE DEF Set
<1>3. ASSUME NEW w \in WaiterStates, w # "terminal", NEW q, NEW act, NEW res, NEW adm, NEW gate,
             OfferAvailable(q, Set(w), act, res, adm, gate), adm >= admitted_calls
      PROVE  BudgetMoves /\ admitted_calls' = adm
  BY <1>1, <1>3, OfferRejects DEF BudgetMoves
<1>4. ASSUME Enqueue(c) PROVE BudgetMoves
  <2>1. OfferAvailable(Append(waiters, c), Set("queued"), active, reserved_calls, admitted_calls, not_before)
    BY <1>4 DEF Enqueue, Set
  <2> QED
    BY <2>1, <1>0, <1>2, <1>3
<1>5. ASSUME Disconnect(c) PROVE BudgetMoves
  <2>1. \E q, act, res : OfferAvailable(q, Set("none"), act, res, admitted_calls, not_before)
    BY <1>5 DEF Disconnect, Set
  <2> QED
    BY <2>1, <1>0, <1>2, <1>3
<1>6. ASSUME Confirm(c) PROVE BudgetMoves /\ admitted_calls' = admitted_calls + 1
  <2>1. \E gate : OfferAvailable(waiters, Set("leased"), active, reserved_calls - 1, admitted_calls + 1, gate)
    BY <1>6 DEF Confirm, Set
  <2> QED
    BY <2>1, <1>0, <1>2, <1>3
<1>7. ASSUME NEW q, NEW act, NEW res, NEW gate, OfferAvailable(q, wstate, act, res, admitted_calls, gate)
      PROVE  BudgetMoves
  BY <1>0, <1>7, OfferRejects DEF BudgetMoves
<1>8. ASSUME UNCHANGED <<admitted_calls, wstate>> PROVE BudgetMoves
  BY <1>0, <1>8 DEF BudgetMoves
<1> QED
  BY <1>4, <1>5, <1>6, <1>7, <1>8 DEF Cooldown

\* A spent budget stays spent.
LEMMA BudgetStaysSpent ==
  ASSUME AccountingInv, AccountingInv', admitted_calls' >= admitted_calls
  PROVE  admitted_calls = MaxCalls \/ CapReached(admitted_calls') => admitted_calls' = MaxCalls
<1>1. admitted_calls \in Nat /\ admitted_calls' \in Nat /\ reserved_calls' \in Int
  BY DEF AccountingInv, TypeOK
<1>2. reserved_calls' \in Nat
  <2>1. {c \in Conns : wstate'[c] = "offered"} \in SUBSET Conns
    OBVIOUS
  <2> QED
    BY <2>1, CountOneMore DEF AccountingInv, Accounting
<1>3. MaxCalls # NoCap => MaxCalls \in Nat /\ admitted_calls' + reserved_calls' <= MaxCalls
  BY BrokerAssumption DEF AccountingInv, CapacityKept
<1>4. admitted_calls = MaxCalls => MaxCalls # NoCap
  BY <1>1, BrokerAssumption
<1> QED
  BY <1>1, <1>2, <1>3, <1>4 DEF CapReached

\* Nobody gets a new confirmation or a new rejection.
Quiet == \A d \in Conns, m \in {"confirmed", "call_cap"} : m \in Members(s2c'[d]) => m \in Members(s2c[d])

\* A step that sends neither kind of answer and starts no call keeps the books.
LEMMA QuietBudget ==
  ASSUME AccountingInv, AccountingInv', BudgetBooks, BudgetMoves, Quiet, dispatched' = dispatched
  PROVE  BudgetBooks'
<1>1. dispatched \in Nat /\ admitted_calls \in Nat /\ admitted_calls' \in Nat
  BY DEF AccountingInv, TypeOK
<1>2. Unread' \subseteq Unread /\ Unread \in SUBSET Conns /\ Unread' \in SUBSET Conns
  BY DEF Unread, Quiet
<1>3. Cardinality(Unread') <= Cardinality(Unread) /\ Cardinality(Unread) \in Nat /\ Cardinality(Unread') \in Nat
  BY <1>2, CountOneMore, FS_Subset
<1>4. dispatched' + Cardinality(Unread') <= admitted_calls'
  BY <1>1, <1>3 DEF BudgetBooks, BudgetMoves
<1>5. ASSUME NEW d \in Conns, wstate'[d] = "terminal" \/ "call_cap" \in Members(s2c'[d])
      PROVE  admitted_calls' = MaxCalls
  <2>1. admitted_calls = MaxCalls \/ CapReached(admitted_calls')
    BY <1>5 DEF BudgetBooks, BudgetMoves, Quiet
  <2> QED
    BY <2>1, BudgetStaysSpent DEF BudgetMoves
<1> QED
  BY <1>4, <1>5 DEF BudgetBooks

\* A confirmation is sent when its admission is committed, and a rejection
\* when the budget is spent.
LEMMA HandlerBudget ==
  ASSUME AccountingInv, AccountingInv', BudgetBooks, NEW c \in Conns, Handler(c)
  PROVE  BudgetBooks'
<1>0. TypeOK /\ s2c \in [Conns -> Seq(ToClient)] /\ s2c' \in [Conns -> Seq(ToClient)]
      /\ admitted_calls \in Nat /\ dispatched \in Nat /\ admitted_calls' \in Nat
  BY DEF AccountingInv, TypeOK
<1>1. /\ Enqueue(c) => BudgetMoves
      /\ Disconnect(c) => BudgetMoves
      /\ Confirm(c) => BudgetMoves /\ admitted_calls' = admitted_calls + 1
      /\ \A d \in 1..MaxCooldown : Cooldown(d) => BudgetMoves
      /\ UNCHANGED <<admitted_calls, wstate>> => BudgetMoves
  BY <1>0, OperationsBudget
\* What a reply adds to the messages of c.
<1>2. ASSUME NEW m \in ToClient, Reply(c, <<m>>)
      PROVE  /\ Members(s2c'[c]) \subseteq Members(s2c[c]) \cup {m}
             /\ \A d \in Conns \ {c} : s2c'[d] = s2c[d]
  <2>1. <<m>> \in Seq(ToClient)
    OBVIOUS
  <2>2. Members(s2c[c] \o <<m>>) \subseteq Members(s2c[c]) \cup {m}
    <3>1. Members(<<m>>) = {m}
      BY ShortMembers
    <3>2. Members(s2c[c] \o <<m>>) \subseteq Members(s2c[c]) \cup Members(<<m>>)
      BY <1>0, <2>1, MembersSent
    <3> QED
      BY <3>1, <3>2
  <2> QED
    BY <1>0, <1>2, <2>2 DEF Reply
<1>3. ASSUME NEW last \in Seq(ToClient), HandlerGone(c, last)
      PROVE  /\ Members(s2c'[c]) \subseteq Members(s2c[c]) \cup Members(last)
             /\ \A d \in Conns \ {c} : s2c'[d] = s2c[d]
  <2>1. Members(s2c[c] \o last) \subseteq Members(s2c[c]) \cup Members(last)
    BY <1>0, <1>3, MembersSent
  <2>2. Members(<<>>) = {}
    BY ShortMembers
  <2>3. s2c'[c] = <<>> \/ s2c'[c] = s2c[c] \o last
    BY <1>0, <1>3 DEF HandlerGone
  <2>4. \A d \in Conns \ {c} : s2c'[d] = s2c[d]
    BY <1>0, <1>3 DEF HandlerGone
  <2> QED
    BY <2>1, <2>2, <2>3, <2>4
<1>4. ASSUME NEW M, "confirmed" \notin M, "call_cap" \notin M,
             Members(s2c'[c]) \subseteq Members(s2c[c]) \cup M, \A d \in Conns \ {c} : s2c'[d] = s2c[d]
      PROVE  Quiet
  BY <1>4 DEF Quiet
<1>5. s2c' = s2c => Quiet
  BY DEF Quiet
<1>6. {"offered", "ready", "confirmed", "cooldown_applied"} \subseteq ToClient
  BY DEF ToClient
<1>a. CASE HandleRequest(c)
  BY <1>a, <1>1, <1>5, QuietBudget DEF HandleRequest, ghost
<1>b. CASE HandleUnauthorized(c)
  <2>1. Members(<<"unauthorized", "eof">>) = {"unauthorized", "eof"}
    BY ShortMembers
  <2>2. <<"unauthorized", "eof">> \in Seq(ToClient)
    BY DEF ToClient
  <2>3. HandlerGone(c, <<"unauthorized", "eof">>) /\ BudgetMoves /\ dispatched' = dispatched
    BY <1>b, <1>1 DEF HandleUnauthorized, state, ghost
  <2>4. Quiet
    BY <2>1, <2>2, <2>3, <1>3, <1>4
  <2> QED
    BY <2>3, <2>4, QuietBudget
<1>c. CASE SendOffer(c)
  <2>1. Reply(c, <<"offered">>) /\ BudgetMoves /\ dispatched' = dispatched
    BY <1>c, <1>1 DEF SendOffer, state, ghost
  <2>2. /\ Members(s2c'[c]) \subseteq Members(s2c[c]) \cup {"offered"}
        /\ \A d \in Conns \ {c} : s2c'[d] = s2c[d]
    BY <2>1, <1>2, <1>6
  <2>3. Quiet
    BY <2>2, <1>4
  <2> QED
    BY <2>1, <2>3, QuietBudget
<1>d. CASE SendCallCap(c)
  <2>1. Members(<<"call_cap", "eof">>) = {"call_cap", "eof"}
    BY ShortMembers
  <2>2. <<"call_cap", "eof">> \in Seq(ToClient)
    BY DEF ToClient
  <2>3. /\ HandlerGone(c, <<"call_cap", "eof">>) /\ BudgetMoves /\ dispatched' = dispatched
        /\ wstate[c] = "terminal"
    BY <1>d, <1>1 DEF SendCallCap, ghost
  <2>4. /\ Members(s2c'[c]) \subseteq Members(s2c[c]) \cup {"call_cap", "eof"}
        /\ \A d \in Conns \ {c} : s2c'[d] = s2c[d]
    BY <2>1, <2>2, <2>3, <1>3
  <2>5. admitted_calls' = MaxCalls
    BY <2>3, BudgetStaysSpent DEF BudgetBooks, BudgetMoves
  <2>6. Unread' \subseteq Unread /\ Unread \in SUBSET Conns /\ Unread' \in SUBSET Conns
    BY <2>4 DEF Unread
  <2>7. Cardinality(Unread') <= Cardinality(Unread) /\ Cardinality(Unread) \in Nat /\ Cardinality(Unread') \in Nat
    BY <2>6, CountOneMore, FS_Subset
  <2>8. dispatched' + Cardinality(Unread') <= admitted_calls'
    BY <1>0, <2>3, <2>7 DEF BudgetBooks, BudgetMoves
  <2> QED
    BY <2>5, <2>8 DEF BudgetBooks
<1>e. CASE HandleAccept(c)
  <2>1. Reply(c, <<"ready">>) /\ BudgetMoves /\ dispatched' = dispatched
    BY <1>e, <1>1 DEF HandleAccept, state, ghost
  <2>2. /\ Members(s2c'[c]) \subseteq Members(s2c[c]) \cup {"ready"}
        /\ \A d \in Conns \ {c} : s2c'[d] = s2c[d]
    BY <2>1, <1>2, <1>6
  <2>3. Quiet
    BY <2>2, <1>4
  <2> QED
    BY <2>1, <2>3, QuietBudget
<1>f. CASE HandleAcquired(c)
  <2>1. /\ Reply(c, <<"confirmed">>) /\ BudgetMoves /\ dispatched' = dispatched
        /\ admitted_calls' = admitted_calls + 1
    BY <1>f, <1>1 DEF HandleAcquired
  <2>2. /\ Members(s2c'[c]) \subseteq Members(s2c[c]) \cup {"confirmed"}
        /\ \A d \in Conns \ {c} : s2c'[d] = s2c[d]
    BY <2>1, <1>2, <1>6
  <2>3. /\ Unread' \subseteq Unread \cup {c} /\ Unread \in SUBSET Conns
        /\ Unread' \in SUBSET Conns /\ Unread \cup {c} \in SUBSET Conns
    BY <2>2 DEF Unread
  <2>4. Cardinality(Unread') <= Cardinality(Unread) + 1
    <3>1. Cardinality(Unread') <= Cardinality(Unread \cup {c})
      BY <2>3, CountOneMore, FS_Subset
    <3>2. c \in Unread => Unread \cup {c} = Unread
      OBVIOUS
    <3>3. /\ Cardinality(Unread') \in Nat /\ Cardinality(Unread) \in Nat
          /\ Cardinality(Unread \cup {c}) \in Nat
          /\ c \notin Unread => Cardinality(Unread \cup {c}) = Cardinality(Unread) + 1
      BY <2>3, CountOneMore
    <3> QED
      BY <3>1, <3>2, <3>3
  <2>5. Cardinality(Unread') \in Nat /\ Cardinality(Unread) \in Nat
    BY <2>3, CountOneMore
  <2>6. dispatched' + Cardinality(Unread') <= admitted_calls'
    BY <1>0, <2>1, <2>4, <2>5 DEF BudgetBooks
  <2>7. ASSUME NEW d \in Conns, wstate'[d] = "terminal" \/ "call_cap" \in Members(s2c'[d])
        PROVE  admitted_calls' = MaxCalls
    <3>1. admitted_calls = MaxCalls \/ CapReached(admitted_calls')
      BY <2>1, <2>2, <2>7 DEF BudgetBooks, BudgetMoves
    <3> QED
      BY <2>1, <3>1, BudgetStaysSpent DEF BudgetMoves
  <2> QED
    BY <2>6, <2>7 DEF BudgetBooks
<1>g. CASE HandleCooldown(c)
  <2>1. Reply(c, <<"cooldown_applied">>) /\ BudgetMoves /\ dispatched' = dispatched
    BY <1>g, <1>1 DEF HandleCooldown, ghost
  <2>2. /\ Members(s2c'[c]) \subseteq Members(s2c[c]) \cup {"cooldown_applied"}
        /\ \A d \in Conns \ {c} : s2c'[d] = s2c[d]
    BY <2>1, <1>2, <1>6
  <2>3. Quiet
    BY <2>2, <1>4
  <2> QED
    BY <2>1, <2>3, QuietBudget
<1>h. CASE HandleRelease(c)
  BY <1>h, <1>1, <1>5, QuietBudget DEF HandleRelease, ghost
<1>i. CASE HandlerEof(c) \/ HandlerCancelled(c)
  <2>1. HandlerGone(c, <<>>) /\ BudgetMoves /\ dispatched' = dispatched
    BY <1>i, <1>1 DEF HandlerEof, HandlerCancelled, ghost
  <2>2. Members(<<>>) = {}
    BY ShortMembers
  <2>3. <<>> \in Seq(ToClient)
    OBVIOUS
  <2> QED
    BY <2>1, <2>2, <2>3, <1>3, <1>4, QuietBudget
<1> QED
  BY <1>a, <1>b, <1>c, <1>d, <1>e, <1>f, <1>g, <1>h, <1>i DEF Handler

\* A provider call starts when its confirmation is read, and only once.
LEMMA ChildBudget ==
  ASSUME AccountingInv, AccountingInv', Conversations, BudgetBooks, NEW c \in Conns, Child(c)
  PROVE  BudgetBooks'
<1>0. TypeOK /\ s2c \in [Conns -> Seq(ToClient)] /\ dispatched \in Nat /\ admitted_calls \in Nat
  BY DEF AccountingInv, TypeOK
<1>1. BudgetMoves
  <2>1. UNCHANGED <<admitted_calls, wstate>>
    BY DEF Child, Acquire, GetOffer, GetReady, GetConfirmed, AcquireFails, ProviderReturns,
       ProviderOverloaded, GetCooldownApplied, FeedbackFails, IdleExpires, state
  <2> QED
    BY <1>0, <2>1, OperationsBudget
\* A child only ever reads: no message appears in its socket.
<1>2. /\ Members(SubSeq(s2c[c], 0 + 1, Len(s2c[c]))) \subseteq Members(s2c[c])
      /\ Members(SubSeq(s2c[c], 1 + 1, Len(s2c[c]))) \subseteq Members(s2c[c])
  BY <1>0, MembersRead
<1>3. Members(<<>>) = {}
  BY ShortMembers
<1>4. ASSUME NEW n \in {0, 1}, s2c' = [s2c EXCEPT ![c] = SubSeq(@, n + 1, Len(@))] PROVE Quiet
  BY <1>0, <1>2, <1>4 DEF Quiet
<1>5. s2c' = [s2c EXCEPT ![c] = <<>>] => Quiet
  BY <1>0, <1>3 DEF Quiet
<1>6. CloseAll({c}) => Quiet
  BY <1>0, <1>3 DEF Quiet, CloseAll
<1>7. Quiet
  <2>1. 0 \in {0, 1} /\ 1 \in {0, 1}
    OBVIOUS
  <2> QED
    BY <1>4, <1>5, <1>6, <2>1 DEF Child, Acquire, GetOffer, GetReady, GetConfirmed, AcquireFails,
       ProviderReturns, ProviderOverloaded, GetCooldownApplied, FeedbackFails, IdleExpires,
       ReleaseConnection, Send
<1>8. CASE GetConfirmed(c)
  <2>1. /\ cst[c] = "acquiring" /\ s2c[c] # <<>> /\ Head(s2c[c]) = "confirmed"
        /\ s2c' = [s2c EXCEPT ![c] = SubSeq(@, 1 + 1, Len(@))]
        /\ dispatched' = dispatched + 1 /\ admitted_calls' = admitted_calls /\ wstate' = wstate
    BY <1>8 DEF GetConfirmed, Answer, Send, state
  <2>2. s2c'[c] = SubSeq(s2c[c], 2, Len(s2c[c])) /\ \A d \in Conns \ {c} : s2c'[d] = s2c[d]
    BY <1>0, <2>1
  <2>3. Sound(closed, cst[c], hst[c], c2s[c], s2c[c])
    BY DEF Conversations
  <2>4. "confirmed" \notin Members(s2c'[c])
    <3>1. CASE closed
      <4>1. Severed(cst[c], s2c[c])
        BY <2>1, <2>3, <3>1 DEF Sound
      <4>2. s2c'[c] = <<"eof">>
        BY <2>1, <2>2, <4>1, SeveredReads
      <4>3. Members(<<"eof">>) = {"eof"}
        BY ShortMembers
      <4> QED
        BY <4>2, <4>3
    <3>2. CASE ~closed
      <4>1. s2c[c] = <<"confirmed">>
        BY <2>1, <2>3, <3>2, ChildReads DEF Sound
      <4>2. s2c'[c] = <<>>
        BY <2>2, <4>1, ShortReads
      <4> QED
        BY <4>2, <1>3
    <3> QED
      BY <3>1, <3>2
  <2>5. c \in Unread
    <3>1. Head(s2c[c]) = s2c[c][1] /\ Len(s2c[c]) \in Nat /\ Len(s2c[c]) # 0
      BY <1>0, <2>1, HeadTailProperties, EmptySeq, LenProperties
    <3>2. 1 \in 1..Len(s2c[c])
      BY <3>1
    <3> QED
      BY <2>1, <3>1, <3>2 DEF Unread, Members
  <2>6. Unread' = Unread \ {c} /\ Unread \in SUBSET Conns
    BY <2>2, <2>4 DEF Unread
  <2>7. Cardinality(Unread') = Cardinality(Unread) - 1 /\ Cardinality(Unread) \in Nat
    BY <2>5, <2>6, CountOneMore
  <2>8. dispatched' + Cardinality(Unread') <= admitted_calls'
    BY <1>0, <2>1, <2>7 DEF BudgetBooks
  <2> QED
    BY <1>7, <2>1, <2>8 DEF BudgetBooks, Quiet
<1>9. CASE ~GetConfirmed(c)
  <2>1. dispatched' = dispatched
    BY <1>9 DEF Child, Acquire, GetOffer, GetReady, AcquireFails, ProviderReturns,
       ProviderOverloaded, GetCooldownApplied, FeedbackFails, IdleExpires, ghost
  <2> QED
    BY <2>1, <1>1, <1>7, QuietBudget
<1> QED
  BY <1>8, <1>9

\* The broker starts with nothing committed and nothing sent.
LEMMA BudgetInit == Init => BudgetBooks
<1> SUFFICES ASSUME Init PROVE BudgetBooks
  OBVIOUS
<1>1. Members(<<>>) = {}
  BY ShortMembers
<1>2. Unread = {}
  BY <1>1 DEF Unread, Init
<1>3. Cardinality(Unread) = 0
  BY <1>2, FS_EmptySet
<1> QED
  BY <1>1, <1>3 DEF BudgetBooks, Init

\* Every step of the system keeps the books of the budget.
LEMMA BudgetNext ==
  AccountingInv /\ AccountingInv' /\ Conversations /\ BudgetBooks /\ [Next]_vars => BudgetBooks'
<1> SUFFICES ASSUME AccountingInv, AccountingInv', Conversations, BudgetBooks, [Next]_vars
             PROVE  BudgetBooks'
  OBVIOUS
<1>0. TypeOK /\ s2c \in [Conns -> Seq(ToClient)] /\ wstate \in [Conns -> WaiterStates]
      /\ admitted_calls \in Nat
  BY DEF AccountingInv, TypeOK
<1>1. Members(<<>>) = {}
  BY ShortMembers
<1>2. UNCHANGED <<admitted_calls, wstate>> => BudgetMoves
  BY <1>0 DEF BudgetMoves
<1>3. s2c' = s2c => Quiet
  BY DEF Quiet
<1>4. CASE \E c \in Conns : Handler(c) \/ Child(c)
  BY <1>4, HandlerBudget, ChildBudget
<1>5. ASSUME NEW p \in Controllers, ControllerClose(p) \/ ChildCrash(p) PROVE BudgetBooks'
  <2>1. UNCHANGED <<admitted_calls, wstate, dispatched>>
    BY <1>5 DEF ControllerClose, ChildCrash, state, ghost
  <2>2. \E cs : CloseAll(cs)
    BY <1>5 DEF ControllerClose, ChildCrash
  <2>3. Quiet
    BY <1>1, <2>2 DEF Quiet, CloseAll
  <2> QED
    BY <1>2, <2>1, <2>3, QuietBudget
<1>6. CASE WakeFires
  <2>1. BudgetMoves
    BY <1>0, <1>6, OfferRejects DEF WakeFires, BudgetMoves
  <2>2. s2c' = s2c /\ dispatched' = dispatched
    BY <1>6 DEF WakeFires, net, ghost
  <2> QED
    BY <1>3, <2>1, <2>2, QuietBudget
<1>7. CASE Shutdown
  <2>1. UNCHANGED <<admitted_calls, wstate, dispatched>>
    BY <1>7 DEF Shutdown, ghost
  <2>2. ASSUME NEW d \in Conns PROVE Members(s2c'[d]) \subseteq Members(s2c[d]) \cup {"eof"}
    <3>1. "eof" \in ToClient /\ <<"eof">> \in Seq(ToClient) /\ s2c[d] \in Seq(ToClient)
      BY <1>0 DEF ToClient
    <3>2. Append(s2c[d], "eof") = s2c[d] \o <<"eof">>
      BY <3>1, AppendIsConcat
    <3>3. Members(s2c[d] \o <<"eof">>) \subseteq Members(s2c[d]) \cup Members(<<"eof">>)
      BY <3>1, MembersSent
    <3>4. Members(<<"eof">>) = {"eof"}
      BY ShortMembers
    <3>5. s2c'[d] = s2c[d] \/ s2c'[d] = Append(s2c[d], "eof")
      BY <1>7 DEF Shutdown
    <3> QED
      BY <3>2, <3>3, <3>4, <3>5
  <2>3. Quiet
    BY <2>2 DEF Quiet
  <2> QED
    BY <1>2, <2>1, <2>3, QuietBudget
<1>8. CASE Tick \/ UNCHANGED vars
  <2>1. UNCHANGED <<admitted_calls, wstate, dispatched, s2c>>
    BY <1>8 DEF Tick, vars, state, net, ghost
  <2> QED
    BY <1>2, <1>3, <2>1, QuietBudget
<1> QED
  BY <1>4, <1>5, <1>6, <1>7, <1>8 DEF Next

\* For every group of children, however they crash between the commitment of
\* an admission and the call it pays for: max_calls is never overbooked, no
\* provider call starts without a committed admission of its own, and nobody
\* is told call_cap before every call of the budget is committed.
THEOREM BudgetCorrect == Spec => []BudgetExact
<1> DEFINE Inv == AccountingInv /\ Conversations /\ BudgetBooks
<1>1. Init => Inv
  BY AccountingInit, ConversationsInit, BudgetInit
<1>2. Inv /\ [Next]_vars => Inv'
  BY AccountingNext, ConversationsNext, BudgetNext DEF AccountingInv
<1>3. Inv => BudgetExact
  <2> SUFFICES ASSUME Inv PROVE dispatched <= admitted_calls
    BY DEF BudgetExact, BudgetBooks, AccountingInv
  <2>1. dispatched \in Nat /\ admitted_calls \in Nat
    BY DEF AccountingInv, TypeOK
  <2>2. Unread \in SUBSET Conns
    BY DEF Unread
  <2>3. Cardinality(Unread) \in Nat
    BY <2>2, CountOneMore
  <2> QED
    BY <2>1, <2>3 DEF BudgetBooks
<1> QED
  BY <1>1, <1>2, <1>3, PTL DEF Spec

=============================================================================
