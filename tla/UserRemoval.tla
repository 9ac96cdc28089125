----------------------------- MODULE UserRemoval ------------------------------
(***************************************************************************)
(* An admin deletes a user account: the objects of each of the user's      *)
(* applications, then the user's namespace, then the rows, then the user.  *)
(* It works on the list of applications read when it starts.  The module   *)
(* composes it with the handlers of DeployRequests, which share the tables *)
(* and the cluster with it and know nothing of it.                         *)
(***************************************************************************)
EXTENDS DeployRequests

CONSTANT
  Overlap        \* BOOLEAN: other requests arrive while a user is deleted

VARIABLE
  rem            \* the deletion in progress, or Idle

rvars == <<vars, rem>>

\* calls: the delete calls still to make; left: the rows still to remove.
Removal == [user   : Users,
            step   : {"objects", "rows", "user"},
            calls  : SUBSET (Apps \X Kinds),
            left   : SUBSET Apps,
            failed : BOOLEAN]

ASSUME RemovalAssumption == Overlap \in BOOLEAN /\ Idle \notin Removal

RemovalTypeOK == TypeOK /\ rem \in Removal \cup {Idle}

RemovalInit == Init /\ rem = Idle

-------------------------------------------------------------------------------
OwnApps(u) == {a \in Apps : Owner[a] = u /\ rows[a] # Absent}

Removing(step) == rem # Idle /\ rem.step = step

Quiet == \A r \in Requests : req[r] = Idle

StartRemoval(u) ==
  /\ rem = Idle
  /\ u \in users
  /\ Overlap \/ Quiet
  /\ rem' = [user |-> u, step |-> "objects",
             calls |-> {c \in OwnApps(u) \X Kinds : c[2] \in rows[c[1]].names},
             left |-> OwnApps(u), failed |-> FALSE]
  /\ UNCHANGED vars

\* One delete call.  The calls touch different objects: their order is free.
RemoveOwnObject ==
  /\ Removing("objects")
  /\ \E c \in rem.calls :
       /\ RemoveObject(c[1], c[2])
       /\ rem' = [rem EXCEPT !.calls = @ \ {c}]
  /\ UNCHANGED <<rows, issued, users, namespaces, req>>

\* A delete call that raises is logged, not counted as an error.
OwnObjectStays ==
  /\ Removing("objects")
  /\ \E c \in rem.calls : rem' = [rem EXCEPT !.calls = @ \ {c}]
  /\ UNCHANGED vars

\* No client for the cluster: the application is skipped and the error counted.
ClusterUnreachable ==
  /\ Removing("objects")
  /\ \E a \in rem.left :
       rem' = [rem EXCEPT !.calls = {c \in @ : c[1] # a}, !.failed = TRUE]
  /\ UNCHANGED vars

\* Faulty variant: the errors of the object deletions are not looked at.
RemoveNamespaceAnyway ==
  LET ns == NamespaceOf[rem.user] IN
  /\ Removing("objects")
  /\ rem.calls = {}
  /\ \/ namespaces' = [namespaces EXCEPT ![ns] = IF @ = "live" THEN "terminating" ELSE @]
     \/ UNCHANGED namespaces
  /\ rem' = [rem EXCEPT !.step = "rows", !.failed = FALSE]
  /\ UNCHANGED <<rows, issued, users, objects, running, req>>

\* Then the namespace: a deletion that is accepted takes effect later.  Any error
\* so far ends the request here, before the database is touched.
RemoveNamespace ==
  LET ns == NamespaceOf[rem.user] IN
  /\ Removing("objects")
  /\ rem.calls = {}
  /\ namespaces' = [namespaces EXCEPT ![ns] = IF @ = "live" THEN "terminating" ELSE @]
  /\ rem' = IF rem.failed THEN Idle ELSE [rem EXCEPT !.step = "rows"]
  /\ UNCHANGED <<rows, issued, users, objects, running, req>>

NamespaceStays ==
  /\ Removing("objects")
  /\ rem.calls = {}
  /\ rem' = Idle
  /\ UNCHANGED vars

\* A row somebody else removed in the meantime is an error.
RemoveOwnRow ==
  /\ Removing("rows")
  /\ \E a \in rem.left :
       /\ rows' = [rows EXCEPT ![a] = Absent]
       /\ rem' = [rem EXCEPT !.left = @ \ {a}, !.failed = @ \/ rows[a] = Absent]
  /\ UNCHANGED <<issued, users, cluster, req>>

\* Faulty variant: the account is deleted although rows could not be.
RowsRemovedAnyway ==
  /\ Removing("rows")
  /\ rem' = [rem EXCEPT !.step = "user", !.left = {}]
  /\ UNCHANGED vars

RowsRemoved ==
  /\ Removing("rows")
  /\ rem.left = {}
  /\ rem' = IF rem.failed THEN Idle ELSE [rem EXCEPT !.step = "user"]
  /\ UNCHANGED vars

RemoveUser ==
  /\ Removing("user")
  /\ users' = users \ {rem.user}
  /\ rem' = Idle
  /\ UNCHANGED <<rows, issued, cluster, req>>

\* Kubernetes: a namespace goes with everything in it.
NamespaceGone(ns) ==
  /\ namespaces[ns] = "terminating"
  /\ namespaces' = [namespaces EXCEPT ![ns] = "none"]
  /\ objects' = [a \in Apps |-> IF NamespaceOfApp(a) = ns THEN {} ELSE objects[a]]
  /\ running' = [a \in Apps |-> IF NamespaceOfApp(a) = ns THEN 0 ELSE running[a]]
  /\ UNCHANGED <<rows, issued, users, req, rem>>

ServerStops ==
  /\ Crashes
  /\ rem # Idle \/ ~Quiet
  /\ req' = [r \in Requests |-> Idle]
  /\ rem' = Idle
  /\ UNCHANGED <<rows, issued, users, cluster>>

-------------------------------------------------------------------------------
RemovalStep ==
  \/ RemoveOwnObject \/ OwnObjectStays \/ ClusterUnreachable
  \/ RemoveNamespace \/ NamespaceStays
  \/ RemoveOwnRow \/ RowsRemoved \/ RemoveUser

\* Uploads and requests wait for the deletion unless they may overlap it.
OtherArrives ==
  /\ Overlap \/ rem = Idle
  /\ (\E a \in Apps : CreateApplication(a)) \/ (\E r \in Requests : Arrival(r))
  /\ UNCHANGED rem

OtherStep == (\E r \in Requests : HandlerStep(r)) /\ UNCHANGED rem

RemovalNext ==
  \/ OtherArrives
  \/ OtherStep
  \/ \E u \in Users : StartRemoval(u)
  \/ RemovalStep
  \/ \E ns \in Namespaces : NamespaceGone(ns)
  \/ ServerStops

RemovalSpec == RemovalInit /\ [][RemovalNext]_rvars

-------------------------------------------------------------------------------
\* "Don tat ca ung dung va namespace cua nguoi dung nay ... roi moi xoa tai
\* khoan": an account that is gone has no rows, and its namespace is gone or on
\* its way out, taking with it whatever a failed delete call left behind.
RemovedUserOwnsNothing ==
  \A u \in Users \ users :
    /\ OwnApps(u) = {}
    /\ namespaces[NamespaceOf[u]] # "live"
    /\ \A a \in Apps : Owner[a] = u /\ objects[a] # {}
         => namespaces[NamespaceOf[u]] = "terminating"

\* What a deletion relies on from step to step when nothing else arrives.
RemovalInProgress ==
  /\ Quiet
  /\ rem.user \in users
  /\ OwnApps(rem.user) \subseteq rem.left
  /\ \A a \in rem.left : Owner[a] = rem.user
  /\ rem.step # "objects" => namespaces[NamespaceOf[rem.user]] # "live"
  /\ rem.step = "user" => rem.left = {}

\* Nothing is done for a user who is gone: no request, no row, no namespace.
GoneUsers ==
  /\ \A r \in Requests : req[r] # Idle => Owner[req[r].app] \in users
  /\ \A u \in Users \ users : OwnApps(u) = {} /\ namespaces[NamespaceOf[u]] # "live"

\* Objects exist in a namespace only.
ObjectsInNamespace ==
  \A a \in Apps : objects[a] # {} => namespaces[NamespaceOfApp(a)] # "none"

\* The account goes only when its rows and its namespace have, and no request can
\* bring one of them back.
RemovalIInv ==
  /\ IInv
  /\ RemovalTypeOK
  /\ rem # Idle => RemovalInProgress
  /\ GoneUsers
  /\ ObjectsInNamespace

\* A failed cleanup can be repeated: deleting a user removes a row, which is all
\* that knows the names of its objects, only once nothing can be left behind.
RowsGoLast ==
  [][\A a \in Apps :
       rem # Idle /\ rows[a] # Absent /\ rows'[a] = Absent
         => namespaces[NamespaceOfApp(a)] # "live"]_rvars

===============================================================================
