---------------------------- MODULE MCDelegator -----------------------------
(* Instances of Delegator for TLC. *)
EXTENDS Delegator

CONSTANTS k1, k2, w1, w2

MCTwoKeys == {k1, k2}
MCOneKey == {k1}
MCWorker == {w1, w2}
MCJobType == {0, 1}

\* Both workers take every type, w2 by saying so with an empty HELLO.
MCHellosAll == [w \in MCWorker |-> IF w = w1 THEN {<<0, 2>>} ELSE {<<>>}]
\* w1 takes every type, w2 only type 1.
MCHellosSplit == [w \in MCWorker |-> IF w = w1 THEN {<<0, 2>>} ELSE {<<1, 2>>}]
=============================================================================
