------------------------------- MODULE Broker -------------------------------
(***************************************************************************)
(* The parent-owned admission broker (unifiedllm/broker_admission.py) and  *)
(* the controllers of the child processes that ask it for capacity.        *)
(*                                                                         *)
(* One connection carries one lease at a time.  The child sends request,   *)
(* accept, acquired, [cooldown], release; the broker's handler answers     *)
(* offered (or call_cap, or unauthorized), ready, confirmed and            *)
(* cooldown_applied.  End of file, in either direction, is a message of    *)
(* its own: TCP delivers it after the data sent before it.                 *)
(*                                                                         *)
(* The broker's state is touched by its event loop only, so everything     *)
(* between two awaits of a handler is one action.  Time is relative:       *)
(* not_before is the time that is left until the gate opens, wake the time *)
(* left until the timer fires.                                             *)
(***************************************************************************)
EXTENDS Integers, Sequences, FiniteSets, Queues

CONSTANTS
  Conns,        \* connections; an identity is reused once both ends are gone
  Controllers,  \* child-process controllers
  Owner,        \* the controller that opens each connection
  Authorized,   \* controllers that hold this broker's token and group
  MaxInFlight,  \* max_in_flight
  MaxCalls,     \* max_calls, or NoCap
  NoCap,        \* max_calls=None
  Interval,     \* 1 / requests_per_second, 0 when there is no pacing
  MaxCooldown,  \* max_cooldown, 0 when cooldown is not configured
  MaxAttempts   \* bound of the model: acquisitions started

ASSUME BrokerAssumption ==
  /\ IsFiniteSet(Conns)
  /\ Owner \in [Conns -> Controllers]
  /\ Authorized \subseteq Controllers
  /\ MaxInFlight \in Nat \ {0}
  /\ NoCap \notin Nat
  /\ MaxCalls \in (Nat \ {0}) \cup {NoCap}
  /\ Interval \in Nat
  /\ MaxCooldown \in Nat
  /\ MaxAttempts \in Nat

VARIABLES
  \* _BrokerState
  waiters, active, reserved_calls, admitted_calls, not_before, wake, closed,
  wstate,        \* _BrokerWaiter.state of the connection's current waiter
  hst,           \* what the connection's handler awaits
  \* the children
  cst,           \* state of the attempt that uses the connection
  ctl_closed,    \* BrokerAdmissionController._closed
  \* the sockets
  c2s, s2c,
  \* history and bounds
  attempts,      \* acquisitions started
  dispatched,    \* provider calls started
  since_confirm  \* time since the last committed admission, up to Interval

state == <<waiters, active, reserved_calls, admitted_calls, not_before, wake, wstate>>
net   == <<c2s, s2c>>
ghost == <<attempts, dispatched, since_confirm>>
vars  == <<state, closed, hst, cst, ctl_closed, net, ghost>>

NoTimer == -1

WaiterStates  == {"none", "queued", "offered", "leased", "terminal"}
HandlerStates == {"none", "request", "outcome", "ack", "acquired", "release"}
ClientStates  == {"none", "idle", "requested", "accepted", "acquiring",
                  "running", "feedback", "closed"}
ToServer == {"request", "accept", "acquired", "cooldown", "release", "eof"}
ToClient == {"offered", "call_cap", "unauthorized", "ready", "confirmed",
             "cooldown_applied", "eof"}

Least(a, b)    == IF a <= b THEN a ELSE b
Greatest(a, b) == IF a >= b THEN a ELSE b

----------------------------------------------------------------------------
(***************************************************************************)
(* _BrokerState                                                            *)
(***************************************************************************)

CapReached(adm)    == MaxCalls # NoCap /\ adm >= MaxCalls
CapReserved(adm, res) == MaxCalls # NoCap /\ adm + res >= MaxCalls

\* Mutant: the budget is checked once, not for every offer of the loop.
OfferCountIgnoresBudget(q, act, res, adm) ==
  IF Interval > 0 THEN 1 ELSE Least(Len(q), MaxInFlight - act)

\* How many waiters the loop of _offer_available takes from the queue when
\* the gate is open: a paced broker stops after one offer, because the offer
\* it made is outstanding.
OfferCount(q, act, res, adm) ==
  LET free == IF MaxCalls = NoCap
              THEN MaxInFlight - act
              ELSE Least(MaxInFlight - act, MaxCalls - adm - res)
  IN  IF Interval > 0 THEN 1 ELSE Least(Len(q), free)

\* Nothing can be offered whatever the time is.
Blocked(q, act, res, adm) ==
  \/ closed
  \/ q = <<>>
  \/ CapReserved(adm, res)
  \/ act >= MaxInFlight
  \/ Interval > 0 /\ res > 0

\* _offer_available on the given queue, waiter states and counters.  It
\* cancels the timer first; then it rejects everybody, or returns, or arms
\* the timer, or makes offers.
OfferAvailable(q, ws, act, res, adm, gate) ==
  /\ admitted_calls' = adm
  /\ \/ /\ ~closed /\ CapReached(adm)
        /\ waiters' = <<>>
        /\ wstate' = [c \in Conns |-> IF c \in Members(q) THEN "terminal" ELSE ws[c]]
        /\ active' = act
        /\ reserved_calls' = res
        /\ not_before' = gate
        /\ wake' = NoTimer
     \/ /\ closed \/ ~CapReached(adm)
        /\ Blocked(q, act, res, adm) \/ gate > 0
        /\ waiters' = q
        /\ wstate' = ws
        /\ active' = act
        /\ reserved_calls' = res
        /\ not_before' = gate
        /\ wake' = IF Blocked(q, act, res, adm) THEN NoTimer ELSE gate
     \/ /\ ~CapReached(adm)
        /\ ~Blocked(q, act, res, adm) /\ gate = 0
        /\ LET k == OfferCount(q, act, res, adm)
               offers == {q[i] : i \in 1..k}
           IN  /\ waiters' = SubSeq(q, k + 1, Len(q))
               /\ wstate' = [c \in Conns |-> IF c \in offers THEN "offered" ELSE ws[c]]
               /\ active' = act + k
               /\ reserved_calls' = res + k
        /\ not_before' = Interval
        /\ wake' = NoTimer

\* Mutant: the new waiter goes to the front.
EnqueueFront(c) ==
  OfferAvailable(<<c>> \o waiters, [wstate EXCEPT ![c] = "queued"],
                 active, reserved_calls, admitted_calls, not_before)

\* enqueue: the new waiter goes to the back.
Enqueue(c) ==
  OfferAvailable(Append(waiters, c), [wstate EXCEPT ![c] = "queued"],
                 active, reserved_calls, admitted_calls, not_before)

\* Mutant: a returned offer keeps its reservation.
DisconnectKeepsReservation(c) ==
  OfferAvailable(
    IF wstate[c] = "queued" THEN Without(waiters, c) ELSE waiters,
    [wstate EXCEPT ![c] = "none"],
    IF wstate[c] \in {"offered", "leased"} THEN active - 1 ELSE active,
    reserved_calls, admitted_calls, not_before)

\* Mutant: the returned slot is not offered to the queue.
DisconnectWithoutOffer(c) ==
  /\ waiters' = IF wstate[c] = "queued" THEN Without(waiters, c) ELSE waiters
  /\ wstate' = [wstate EXCEPT ![c] = "none"]
  /\ active' = IF wstate[c] \in {"offered", "leased"} THEN active - 1 ELSE active
  /\ reserved_calls' = IF wstate[c] = "offered" THEN reserved_calls - 1 ELSE reserved_calls
  /\ UNCHANGED <<admitted_calls, not_before, wake>>

\* disconnect: a queued client leaves the queue, an offer or a lease gives
\* its slot back.  The handler drops the waiter.
Disconnect(c) ==
  OfferAvailable(
    IF wstate[c] = "queued" THEN Without(waiters, c) ELSE waiters,
    [wstate EXCEPT ![c] = "none"],
    IF wstate[c] \in {"offered", "leased"} THEN active - 1 ELSE active,
    IF wstate[c] = "offered" THEN reserved_calls - 1 ELSE reserved_calls,
    admitted_calls, not_before)

\* Mutant: only offers are spaced, not confirmed admissions.
ConfirmUnspaced(c) ==
  OfferAvailable(waiters, [wstate EXCEPT ![c] = "leased"], active,
                 reserved_calls - 1, admitted_calls + 1, not_before)

\* confirm: the offer becomes a lease and is counted against the budget.
Confirm(c) ==
  OfferAvailable(waiters, [wstate EXCEPT ![c] = "leased"], active,
                 reserved_calls - 1, admitted_calls + 1,
                 IF Interval > 0 THEN Greatest(not_before, Interval) ELSE not_before)

\* Mutant: the gate moves but the armed timer does not.
CooldownKeepsTimer(d) ==
  /\ not_before' = Greatest(not_before, Least(d, MaxCooldown))
  /\ UNCHANGED <<waiters, active, reserved_calls, admitted_calls, wake, wstate>>

\* cooldown: the gate only ever moves later.
Cooldown(d) ==
  OfferAvailable(waiters, wstate, active, reserved_calls, admitted_calls,
                 Greatest(not_before, Least(d, MaxCooldown)))

----------------------------------------------------------------------------
(***************************************************************************)
(* Sockets.  Data for an end that is gone is lost.                         *)
(***************************************************************************)

Reply(c, ms) == s2c' = IF cst[c] = "closed" THEN s2c ELSE [s2c EXCEPT ![c] = @ \o ms]
Take(c)      == c2s' = [c2s EXCEPT ![c] = Tail(@)]

\* The child sends ms after it has read the first n answers.
Send(c, n, ms) ==
  /\ s2c' = [s2c EXCEPT ![c] = SubSeq(@, n + 1, Len(@))]
  /\ c2s' = IF hst[c] = "none" THEN c2s ELSE [c2s EXCEPT ![c] = @ \o ms]

\* The children close the connections in cs.  What they sent is delivered
\* first, unless the operating system resets the connection.
CloseAll(cs) ==
  /\ cst' = [c \in Conns |-> IF c \notin cs \/ cst[c] = "none" THEN cst[c]
                             ELSE IF hst[c] = "none" THEN "none" ELSE "closed"]
  /\ \E lost \in SUBSET cs :
       c2s' = [c \in Conns |->
                 IF c \in cs /\ cst[c] \notin {"none", "closed"} /\ hst[c] # "none"
                 THEN IF c \in lost THEN <<"eof">> ELSE Append(c2s[c], "eof")
                 ELSE c2s[c]]
  /\ s2c' = [c \in Conns |-> IF c \in cs THEN <<>> ELSE s2c[c]]

\* The handler returns and closes its end.
HandlerGone(c, last) ==
  /\ hst' = [hst EXCEPT ![c] = "none"]
  /\ c2s' = [c2s EXCEPT ![c] = <<>>]
  /\ cst' = [cst EXCEPT ![c] = IF @ = "closed" THEN "none" ELSE @]
  /\ s2c' = [s2c EXCEPT ![c] = IF cst[c] = "closed" THEN <<>> ELSE @ \o last]

----------------------------------------------------------------------------
(***************************************************************************)
(* The broker's handlers, one action per stretch between two awaits.       *)
(***************************************************************************)

Reads(c, pc, m) ==
  /\ hst[c] = pc
  /\ ~closed
  /\ c2s[c] # <<>> /\ Head(c2s[c]) = m

HandleRequest(c) ==
  /\ Reads(c, "request", "request")
  /\ Owner[c] \in Authorized
  /\ Enqueue(c)
  /\ Take(c)
  /\ hst' = [hst EXCEPT ![c] = "outcome"]
  /\ UNCHANGED <<closed, cst, ctl_closed, s2c, ghost>>

HandleUnauthorized(c) ==
  /\ Reads(c, "request", "request")
  /\ Owner[c] \notin Authorized
  /\ HandlerGone(c, <<"unauthorized", "eof">>)
  /\ UNCHANGED <<state, closed, ctl_closed, ghost>>

\* The waiter's future is done: the offer is sent.
SendOffer(c) ==
  /\ hst[c] = "outcome" /\ ~closed
  /\ wstate[c] = "offered"
  /\ Reply(c, <<"offered">>)
  /\ hst' = [hst EXCEPT ![c] = "ack"]
  /\ UNCHANGED <<state, closed, cst, ctl_closed, c2s, ghost>>

\* The waiter's future is done: the budget is spent, the handler returns.
SendCallCap(c) ==
  /\ hst[c] = "outcome" /\ ~closed
  /\ wstate[c] = "terminal"
  /\ Disconnect(c)
  /\ HandlerGone(c, <<"call_cap", "eof">>)
  /\ UNCHANGED <<closed, ctl_closed, ghost>>

HandleAccept(c) ==
  /\ Reads(c, "ack", "accept")
  /\ Take(c)
  /\ Reply(c, <<"ready">>)
  /\ hst' = [hst EXCEPT ![c] = "acquired"]
  /\ UNCHANGED <<state, closed, cst, ctl_closed, ghost>>

HandleAcquired(c) ==
  /\ Reads(c, "acquired", "acquired")
  /\ Confirm(c)
  /\ Take(c)
  /\ Reply(c, <<"confirmed">>)
  /\ hst' = [hst EXCEPT ![c] = "release"]
  /\ since_confirm' = 0
  /\ UNCHANGED <<closed, cst, ctl_closed, attempts, dispatched>>

HandleCooldown(c) ==
  /\ Reads(c, "release", "cooldown")
  /\ \E d \in 1..MaxCooldown : Cooldown(d)
  /\ Take(c)
  /\ Reply(c, <<"cooldown_applied">>)
  /\ UNCHANGED <<closed, hst, cst, ctl_closed, ghost>>

\* The lease ends; the connection waits for the next request.
HandleRelease(c) ==
  /\ Reads(c, "release", "release")
  /\ Disconnect(c)
  /\ Take(c)
  /\ hst' = [hst EXCEPT ![c] = "request"]
  /\ UNCHANGED <<closed, cst, ctl_closed, s2c, ghost>>

\* Mutant: end of file is not taken for a release.
HandlerEofUnlessLeased(c) ==
  /\ hst[c] \notin {"none", "release"} /\ ~closed
  /\ "eof" \in Members(c2s[c])
  /\ Disconnect(c)
  /\ HandlerGone(c, <<>>)
  /\ UNCHANGED <<closed, ctl_closed, ghost>>

\* The handler reads end of file, or a read or write fails because the child
\* is gone; finally returns what the waiter held.
HandlerEof(c) ==
  /\ hst[c] # "none" /\ ~closed
  /\ "eof" \in Members(c2s[c])
  /\ Disconnect(c)
  /\ HandlerGone(c, <<>>)
  /\ UNCHANGED <<closed, ctl_closed, ghost>>

\* The pacing timer of _offer_available.
WakeFires ==
  /\ wake = 0
  /\ OfferAvailable(waiters, wstate, active, reserved_calls, admitted_calls, not_before)
  /\ UNCHANGED <<closed, hst, cst, ctl_closed, net, ghost>>

\* _shutdown: no more offers, every connection is closed, every handler is
\* cancelled at the await it stands at.
Shutdown ==
  /\ ~closed
  /\ closed' = TRUE
  /\ wake' = NoTimer
  /\ s2c' = [c \in Conns |-> IF hst[c] = "none" \/ cst[c] = "closed" THEN s2c[c]
                             ELSE Append(s2c[c], "eof")]
  /\ UNCHANGED <<waiters, active, reserved_calls, admitted_calls, not_before,
                 wstate, hst, cst, ctl_closed, c2s, ghost>>

HandlerCancelled(c) ==
  /\ closed /\ hst[c] # "none"
  /\ Disconnect(c)
  /\ HandlerGone(c, <<>>)
  /\ UNCHANGED <<closed, ctl_closed, ghost>>

----------------------------------------------------------------------------
(***************************************************************************)
(* The children.                                                           *)
(***************************************************************************)

Pool(p) == {c \in Conns : Owner[c] = p /\ cst[c] = "idle"}

\* acquire: a pooled connection if there is one, else a new one.
Acquire(c) ==
  /\ attempts < MaxAttempts
  /\ ~ctl_closed[Owner[c]]
  /\ \/ /\ cst[c] = "idle"
        /\ Send(c, 0, <<"request">>)
        /\ UNCHANGED hst
     \/ /\ Pool(Owner[c]) = {}
        /\ ~closed
        /\ cst[c] = "none" /\ hst[c] = "none"
        /\ hst' = [hst EXCEPT ![c] = "request"]
        /\ c2s' = [c2s EXCEPT ![c] = <<"request">>]
        /\ s2c' = [s2c EXCEPT ![c] = <<>>]
  /\ cst' = [cst EXCEPT ![c] = "requested"]
  /\ attempts' = attempts + 1
  /\ UNCHANGED <<state, closed, ctl_closed, dispatched, since_confirm>>

Answer(c, from, m) ==
  /\ cst[c] = from
  /\ s2c[c] # <<>> /\ Head(s2c[c]) = m

GetOffer(c) ==
  /\ Answer(c, "requested", "offered")
  /\ Send(c, 1, <<"accept">>)
  /\ cst' = [cst EXCEPT ![c] = "accepted"]
  /\ UNCHANGED <<state, closed, hst, ctl_closed, ghost>>

GetReady(c) ==
  /\ Answer(c, "accepted", "ready")
  /\ Send(c, 1, <<"acquired">>)
  /\ cst' = [cst EXCEPT ![c] = "acquiring"]
  /\ UNCHANGED <<state, closed, hst, ctl_closed, ghost>>

\* The permit is returned and the provider attempt starts.
GetConfirmed(c) ==
  /\ Answer(c, "acquiring", "confirmed")
  /\ Send(c, 1, <<>>)
  /\ cst' = [cst EXCEPT ![c] = "running"]
  /\ dispatched' = dispatched + 1
  /\ UNCHANGED <<state, closed, hst, ctl_closed, attempts, since_confirm>>

\* acquire fails: any other answer, end of file, the queue deadline, a
\* cancellation, or an observer that raises.  finally closes the writer.
AcquireFails(c) ==
  /\ cst[c] \in {"requested", "accepted", "acquiring"}
  /\ CloseAll({c})
  /\ UNCHANGED <<state, closed, hst, ctl_closed, ghost>>

\* _release_connection: release is sent, and the connection is pooled unless
\* the pool is full or the controller is closed.
ReleaseConnection(c, n) ==
  \/ /\ ~ctl_closed[Owner[c]] /\ Cardinality(Pool(Owner[c])) < MaxInFlight
     /\ Send(c, n, <<"release">>)
     /\ cst' = [cst EXCEPT ![c] = "idle"]
  \/ /\ ctl_closed[Owner[c]] \/ Cardinality(Pool(Owner[c])) >= MaxInFlight
     /\ s2c' = [s2c EXCEPT ![c] = <<>>]
     /\ c2s' = IF hst[c] = "none" THEN c2s
               ELSE [c2s EXCEPT ![c] = @ \o <<"release", "eof">>]
     /\ cst' = [cst EXCEPT ![c] = IF hst[c] = "none" THEN "none" ELSE "closed"]

\* The provider attempt ends without a cooldown to report.
ProviderReturns(c) ==
  /\ cst[c] = "running"
  /\ ReleaseConnection(c, 0)
  /\ UNCHANGED <<state, closed, hst, ctl_closed, ghost>>

\* Mutant: the lease is released together with the report.
ProviderOverloadedReleases(c) ==
  /\ cst[c] = "running"
  /\ MaxCooldown > 0
  /\ Send(c, 0, <<"cooldown", "release">>)
  /\ cst' = [cst EXCEPT ![c] = "feedback"]
  /\ UNCHANGED <<state, closed, hst, ctl_closed, ghost>>

\* The provider answers overload with Retry-After: the permit reports it.
ProviderOverloaded(c) ==
  /\ cst[c] = "running"
  /\ MaxCooldown > 0
  /\ Send(c, 0, <<"cooldown">>)
  /\ cst' = [cst EXCEPT ![c] = "feedback"]
  /\ UNCHANGED <<state, closed, hst, ctl_closed, ghost>>

GetCooldownApplied(c) ==
  /\ Answer(c, "feedback", "cooldown_applied")
  /\ ReleaseConnection(c, 1)
  /\ UNCHANGED <<state, closed, hst, ctl_closed, ghost>>

\* Mutant: the connection is pooled although an answer may be on its way.
FeedbackFailsPooled(c) ==
  /\ cst[c] = "feedback"
  /\ ReleaseConnection(c, 0)
  /\ UNCHANGED <<state, closed, hst, ctl_closed, ghost>>

\* The feedback deadline passes, the task is cancelled, the answer is
\* another one: the socket may hold an unread answer and is not reused.
FeedbackFails(c) ==
  /\ cst[c] = "feedback"
  /\ CloseAll({c})
  /\ UNCHANGED <<state, closed, hst, ctl_closed, ghost>>

IdleExpires(c) ==
  /\ cst[c] = "idle"
  /\ CloseAll({c})
  /\ UNCHANGED <<state, closed, hst, ctl_closed, ghost>>

\* close(): the pooled connections are closed, active permits close later.
ControllerClose(p) ==
  /\ ~ctl_closed[p]
  /\ ctl_closed' = [ctl_closed EXCEPT ![p] = TRUE]
  /\ CloseAll(Pool(p))
  /\ UNCHANGED <<state, closed, hst, ghost>>

\* The child process exits abruptly; a new child may take its place.
ChildCrash(p) ==
  /\ \E c \in Conns : Owner[c] = p /\ cst[c] \notin {"none", "closed"}
  /\ ctl_closed' = [ctl_closed EXCEPT ![p] = FALSE]
  /\ CloseAll({c \in Conns : Owner[c] = p})
  /\ UNCHANGED <<state, closed, hst, ghost>>

----------------------------------------------------------------------------
\* One unit of time passes.
Tick ==
  /\ not_before > 0 \/ since_confirm < Interval \/ wake > 0
  /\ not_before' = Greatest(not_before - 1, 0)
  /\ wake' = IF wake > 0 THEN wake - 1 ELSE wake
  /\ since_confirm' = Least(since_confirm + 1, Interval)
  /\ UNCHANGED <<waiters, active, reserved_calls, admitted_calls, wstate,
                 closed, hst, cst, ctl_closed, net, attempts, dispatched>>

Init ==
  /\ waiters = <<>> /\ active = 0 /\ reserved_calls = 0 /\ admitted_calls = 0
  /\ not_before = 0 /\ wake = NoTimer /\ closed = FALSE
  /\ wstate = [c \in Conns |-> "none"]
  /\ hst = [c \in Conns |-> "none"]
  /\ cst = [c \in Conns |-> "none"]
  /\ ctl_closed = [p \in Controllers |-> FALSE]
  /\ c2s = [c \in Conns |-> <<>>] /\ s2c = [c \in Conns |-> <<>>]
  /\ attempts = 0 /\ dispatched = 0 /\ since_confirm = Interval

Handler(c) ==
  \/ HandleRequest(c) \/ HandleUnauthorized(c) \/ SendOffer(c) \/ SendCallCap(c)
  \/ HandleAccept(c) \/ HandleAcquired(c) \/ HandleCooldown(c) \/ HandleRelease(c)
  \/ HandlerEof(c) \/ HandlerCancelled(c)

Child(c) ==
  \/ Acquire(c) \/ GetOffer(c) \/ GetReady(c) \/ GetConfirmed(c) \/ AcquireFails(c)
  \/ ProviderReturns(c) \/ ProviderOverloaded(c) \/ GetCooldownApplied(c)
  \/ FeedbackFails(c) \/ IdleExpires(c)

Next ==
  \/ \E c \in Conns : Handler(c) \/ Child(c)
  \/ \E p \in Controllers : ControllerClose(p) \/ ChildCrash(p)
  \/ WakeFires \/ Shutdown \/ Tick

Spec == Init /\ [][Next]_vars

\* The scheduling assumed for liveness: the broker's loop runs its handlers
\* and its timer, time passes, a child reads the answers it waits for, and a
\* provider attempt ends.  Crashes, deadlines, closing and new attempts are
\* never forced.
ChildProceeds(c) ==
  GetOffer(c) \/ GetReady(c) \/ GetConfirmed(c) \/ ProviderReturns(c) \/ GetCooldownApplied(c)

Fairness ==
  /\ \A c \in Conns : WF_vars(Handler(c)) /\ WF_vars(ChildProceeds(c))
  /\ WF_vars(WakeFires) /\ WF_vars(Tick)

FairSpec == Spec /\ Fairness

----------------------------------------------------------------------------
(***************************************************************************)
(* Properties                                                              *)
(***************************************************************************)

Holds(c) == wstate[c] \in {"offered", "leased"}
Calling(c) == cst[c] \in {"running", "feedback"}

\* Every variable has its type.
TypeOK ==
  /\ waiters \in Seq(Conns)
  /\ active \in Int /\ reserved_calls \in Int /\ admitted_calls \in Nat
  /\ not_before \in Nat /\ wake \in Nat \cup {NoTimer} /\ closed \in BOOLEAN
  /\ wstate \in [Conns -> WaiterStates]
  /\ hst \in [Conns -> HandlerStates]
  /\ cst \in [Conns -> ClientStates]
  /\ ctl_closed \in [Controllers -> BOOLEAN]
  /\ c2s \in [Conns -> Seq(ToServer)] /\ s2c \in [Conns -> Seq(ToClient)]
  /\ attempts \in Nat /\ dispatched \in Nat /\ since_confirm \in 0..Interval

\* The counters are the sets they stand for, whatever the order of offers,
\* disconnects, confirmations and crashes: active counts the offered and
\* leased waiters, reserved_calls the offered ones, and the queue holds each
\* queued waiter once.  The underflow errors of _decrement_active and
\* confirm are therefore unreachable.
Accounting ==
  /\ active = Cardinality({c \in Conns : Holds(c)})
  /\ reserved_calls = Cardinality({c \in Conns : wstate[c] = "offered"})
  /\ Members(waiters) = {c \in Conns : wstate[c] = "queued"}
  /\ \A i, j \in 1..Len(waiters) : waiters[i] = waiters[j] => i = j

\* Slots and budget are never overbooked, however many offers one pass makes:
\* offered and leased slots fit max_in_flight, and committed admissions and
\* outstanding offers together fit max_calls.
CapacityKept ==
  /\ active <= MaxInFlight
  /\ MaxCalls # NoCap => admitted_calls + reserved_calls <= MaxCalls

\* The call budget is exact: capacity is never overbooked, no provider call
\* starts without a committed admission of its own, and a child is turned away
\* with call_cap only when every call of the budget is committed, never
\* because of an offer that may still be returned.
BudgetExact ==
  /\ CapacityKept
  /\ dispatched <= admitted_calls
  /\ \A c \in Conns : "call_cap" \in Members(s2c[c]) => admitted_calls = MaxCalls

\* While the broker runs, a child that is inside a provider call holds a
\* lease, so at most max_in_flight provider calls run at once, through
\* crashes, reused connections and failed feedback.
InFlightBounded ==
  ~closed => /\ \A c \in Conns : Calling(c) => wstate[c] = "leased"
             /\ Cardinality({c \in Conns : Calling(c)}) <= MaxInFlight

\* No lost wakeup: when capacity, budget and pacing allow an offer and
\* somebody is queued, only the gate is in the way and the timer is armed
\* for exactly the time it opens.  Otherwise no timer is armed.
QueueServed ==
  /\ ~Blocked(waiters, active, reserved_calls, admitted_calls)
       => wake = not_before
  /\ Blocked(waiters, active, reserved_calls, admitted_calls) => wake = NoTimer

\* A connection is reused only when it holds no unread answer, and every
\* answer a child reads belongs to the step it waits in.
Expected(st) ==
  CASE st = "requested" -> {"offered", "call_cap", "unauthorized", "eof"}
    [] st = "accepted"  -> {"ready", "eof"}
    [] st = "acquiring" -> {"confirmed", "eof"}
    [] st = "feedback"  -> {"cooldown_applied", "eof"}
    [] OTHER            -> {"eof"}

AnswersMatch ==
  /\ TypeOK
  /\ \A c \in Conns : s2c[c] # <<>> => Head(s2c[c]) \in Expected(cst[c])

\* Committed admissions are at least one pacing interval apart, however
\* slow the handshake of an earlier offer was.
PacedAdmissions ==
  [][admitted_calls' # admitted_calls => since_confirm >= Interval]_vars

\* The broker is a permit pool: offers are made in arrival order, at most
\* max_in_flight connections hold an offer or a lease, and nobody is offered
\* a slot while a waiter that was ahead stays queued.
Permits == INSTANCE PermitPool
            WITH Clients <- Conns, Slots <- MaxInFlight, line <- waiters,
                 inside <- {c \in Conns : Holds(c)}

ImplementsPool == Permits!Spec

\* Everybody in the queue gets an answer or leaves.
QueuedLeaves ==
  \A c \in Conns : wstate[c] = "queued" ~> wstate[c] # "queued"

\* A connection closed by its child, crash included, gives its slot back.
LeaseReclaimed ==
  \A c \in Conns : cst[c] = "closed" ~> ~Holds(c)

=============================================================================
