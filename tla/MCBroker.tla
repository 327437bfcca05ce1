------------------------------ MODULE MCBroker ------------------------------
\* Small instances of the admission broker.
EXTENDS Broker, TLC

CONSTANTS c1, c2, c3, p1, p2

\* One child with two connections, so that its pool is used, and a second
\* child with one.
MCConns == {c1, c2, c3}
MCControllers == {p1, p2}
MCOwner == (c1 :> p1) @@ (c2 :> p1) @@ (c3 :> p2)

MCSymmetry == Permutations({c1, c2})
=============================================================================
