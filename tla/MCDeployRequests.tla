--------------------------- MODULE MCDeployRequests ---------------------------
(***************************************************************************)
(* Instances of DeployRequests for TLC.  Every application belongs to the  *)
(* one user the rows of this module need.                                  *)
(***************************************************************************)
EXTENDS DeployRequests, TLC

CONSTANTS u1, ns1

MCOwner == [a \in Apps |-> u1]
MCNamespaceOf == [u \in Users |-> ns1]

\* -1 stands for every negative count, MaxReplicas + 1 for every one above the limit.
MCInputs == -1..(MaxReplicas + 1)
FewerInputs == -1..MaxReplicas

AllHandlers == Ops

\* A user's scale request only saves its copy, as an update does.
AllButRequestScale == Ops \ {"requestScale"}

\* Threads are interchangeable; applications are issued in any order.
Symmetry == Permutations(Requests)

\* No guard and no property of the overlapping run reads running.
WithoutRunning == <<rows, issued, users, objects, namespaces, req>>

===============================================================================
