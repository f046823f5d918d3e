---------------------------- MODULE MCMembership ----------------------------
(* Instances of Membership for TLC. *)
EXTENDS Membership

CONSTANTS w1, w2

MCOne == {w1}
MCTwo == {w1, w2}
\* A worker that comes back once.
MCComesBack == [w \in MCOne |-> 2]
MCHelloOnce == [w \in MCTwo |-> 1]
=============================================================================
