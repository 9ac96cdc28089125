---------------------------- MODULE MCUserRemoval -----------------------------
(***************************************************************************)
(* Instances of UserRemoval for TLC.                                       *)
(***************************************************************************)
EXTENDS UserRemoval

CONSTANTS a1, a2, u1, u2, ns1, ns2

\* One user with two applications.
OneOwner == [a \in Apps |-> u1]
OneNamespace == [u \in Users |-> ns1]

AllHandlers == Ops

===============================================================================
