------------------------- MODULE DeployRequestsProofs -------------------------
(***************************************************************************)
(* The theorems about deployment requests and the deletion of accounts,    *)
(* for any number of users, applications and threads.  In three parts,     *)
(* each with its inductive invariant:                                      *)
(*   - whatever requests overlap, with or without crashes and lost         *)
(*     replies: rows stay consistent and are never resurrected;            *)
(*   - no two requests on one application at a time (SerialSpec): what     *)
(*     is in the cluster, against what the rows say;                       *)
(*   - the deletion of an account (RemovalSpec), as long as no request     *)
(*     arrives meanwhile: rows go last, and nothing stays behind.          *)
(***************************************************************************)
EXTENDS UserRemoval, TLAPS

-------------------------------------------------------------------------------
(***************************************************************************)
(* For any number of applications and of overlapping requests: TypeOK,     *)
(* RowsConsistent and NoResurrection hold of every behaviour of            *)
(* DeployRequests.                                                         *)
(*                                                                         *)
(* The inductive invariant is IInv.  RowsConsistent alone is not           *)
(* inductive: a request writes back a row computed from its copy, so the   *)
(* copy must be known to satisfy what the handler checked when it loaded   *)
(* it (InProgress).                                                        *)
(***************************************************************************)

RowsPart ==
  /\ rows \in [Apps -> Row \cup {Absent}]
  /\ \A a \in Apps : rows[a] # Absent => RowOK(rows[a])

RequestOK(q) == RowOK(q.copy) /\ InProgress(q)

RequestsPart ==
  /\ req \in [Requests -> Request \cup {Idle}]
  /\ \A r \in Requests : req[r] # Idle => RequestOK(req[r])

ClusterPart ==
  /\ issued \in SUBSET Apps
  /\ users \in SUBSET Users
  /\ objects \in [Apps -> SUBSET Kinds]
  /\ running \in [Apps -> Nat]
  /\ namespaces \in [Namespaces -> NamespaceStates]

\* The invariant, sorted by the variables an action changes.
LEMMA Parts == IInv <=> RowsPart /\ RequestsPart /\ ClusterPart
BY DEF IInv, TypeOK, RowsConsistent, RowsPart, RequestsPart, RequestOK, ClusterPart

LEMMA PartsNext == RowsPart' /\ RequestsPart' /\ ClusterPart' => IInv'
BY DEF IInv, TypeOK, RowsConsistent, RowsPart, RequestsPart, RequestOK, ClusterPart

\* The request of a busy thread, and its parts.
LEMMA BusyThread ==
  ASSUME RequestsPart, NEW r \in Requests, req[r] # Idle
  PROVE  /\ req[r] \in Request
         /\ req[r].copy \in Row
         /\ req[r].app \in Apps
         /\ RequestOK(req[r])
BY DEF RequestsPart, Request

\* Writing a consistent row keeps the table consistent: updateApplication.
LEMMA WriteKeepsRows ==
  ASSUME RowsPart, RequestsPart, NEW r \in Requests, req[r] # Idle,
         NEW row \in Row, RowOK(row), WriteBack(r, row)
  PROVE  RowsPart'
BY BusyThread DEF WriteBack, RowsPart

\* A thread takes on a new state; the others keep theirs.
LEMMA RequestMoves ==
  ASSUME RequestsPart, NEW r \in Requests, NEW q \in Request \cup {Idle},
         q # Idle => RequestOK(q), req' = [req EXCEPT ![r] = q]
  PROVE  RequestsPart'
BY DEF RequestsPart

LEMMA EndKeepsRequests ==
  ASSUME RequestsPart, NEW r \in Requests, End(r)
  PROVE  RequestsPart'
BY RequestMoves DEF End

\* A step label changes; what the step requires is already known.
LEMMA GotoKeepsRequests ==
  ASSUME RequestsPart, NEW r \in Requests, req[r] # Idle,
         NEW step \in Steps, step \notin {"create", "scale"},
         step = "saveName" => req[r].step = "create", Goto(r, step)
  PROVE  RequestsPart'
<1> DEFINE q == [req[r] EXCEPT !.step = step]
<1>1. req' = [req EXCEPT ![r] = q]
  BY DEF Goto
<1>2. q \in Request
  BY BusyThread DEF Request
<1>3. /\ q.op = req[r].op /\ q.copy = req[r].copy /\ q.want = req[r].want
      /\ q.todo = req[r].todo /\ q.step = step
  BY BusyThread DEF Request
<1>4. RequestOK(q)
  <2> HIDE DEF q
  <2> QED BY BusyThread, <1>3 DEF RequestOK, InProgress
<1> QED BY <1>1, <1>2, <1>4, RequestMoves

\* A handler starts with the row as its copy: nothing else changes.
LEMMA BeginKeeps ==
  ASSUME IInv, NEW r \in Requests, NEW a \in Apps, NEW op \in Ops, NEW step \in Steps,
         NEW todo \in SUBSET Kinds, NEW want \in Int,
         Begin(r, a, op, step, todo, want),
         InProgress([op |-> op, step |-> step, app |-> a, copy |-> rows[a],
                     todo |-> todo, want |-> want])
  PROVE  IInv'
<1> DEFINE q == [op |-> op, step |-> step, app |-> a, copy |-> rows[a],
                 todo |-> todo, want |-> want]
<1>1. RowsPart /\ RequestsPart /\ ClusterPart
  BY Parts
<1>2. rows[a] \in Row /\ RowOK(rows[a])
  BY <1>1 DEF RowsPart, Begin
<1>3. q \in Request /\ RequestOK(q)
  BY <1>2 DEF Request, RequestOK
<1>4. RequestsPart'
  BY <1>1, <1>3, RequestMoves DEF Begin
<1>5. RowsPart' /\ ClusterPart'
  BY <1>1 DEF Begin, RowsPart, ClusterPart, cluster
<1> QED BY <1>4, <1>5, PartsNext

-------------------------------------------------------------------------------
(* One lemma per kind of step                                                *)

LEMMA ArrivalKeeps ==
  ASSUME IInv, NEW r \in Requests, Arrival(r)
  PROVE  IInv'
<1> USE ConstantsAssumption DEF Ops, Steps, Replicas
<1>1. PICK a \in Apps :
        \/ \E n \in ReplicaInputs :
             StartProcess(r, a, n) \/ StartScale(r, a, n)
               \/ StartUpdate(r, a, n) \/ StartScaleRequest(r, a, n)
        \/ StartReject(r, a)
        \/ StartUserDelete(r, a)
        \/ StartAdminDelete(r, a)
  BY DEF Arrival
<1>2. rows[a] # Absent => rows[a] \in Row /\ RowOK(rows[a]) /\ rows[a].names \in SUBSET Kinds
  BY Parts DEF RowsPart, Row
<1>3. {} \in SUBSET Kinds /\ 0 \in Int
  OBVIOUS
<1>4. ASSUME NEW n \in ReplicaInputs, StartProcess(r, a, n) PROVE IInv'
  <2>1. n \in Int
    OBVIOUS
  <2>2. CASE rows[a].status = "ERROR" /\ "deployment" \in rows[a].names
    <3>1. Begin(r, a, "process", "delete", rows[a].names, n)
      BY <1>4, <2>2 DEF StartProcess
    <3> QED BY <3>1, <1>2, <1>4, <2>1, BeginKeeps DEF StartProcess, InProgress
  <2>3. CASE ~(rows[a].status = "ERROR" /\ "deployment" \in rows[a].names)
    <3>1. Begin(r, a, "process", "prepare", {}, n)
      BY <1>4, <2>3 DEF StartProcess
    <3> QED BY <3>1, <1>3, <2>1, BeginKeeps DEF InProgress
  <2> QED BY <2>2, <2>3
<1>5. ASSUME NEW n \in ReplicaInputs, StartScale(r, a, n) PROVE IInv'
  <2>1. Begin(r, a, "scale", "scale", {}, n) /\ n \in Int
    BY <1>5 DEF StartScale
  <2>2. InProgress([op |-> "scale", step |-> "scale", app |-> a, copy |-> rows[a],
                    todo |-> {}, want |-> n])
    BY <1>5 DEF StartScale, InProgress
  <2> QED BY <1>3, <2>1, <2>2, BeginKeeps
<1>6. ASSUME NEW n \in ReplicaInputs, StartUpdate(r, a, n) PROVE IInv'
  <2>1. Begin(r, a, "update", "save", {}, n) /\ n \in Int
    BY <1>6 DEF StartUpdate
  <2>2. InProgress([op |-> "update", step |-> "save", app |-> a, copy |-> rows[a],
                    todo |-> {}, want |-> n])
    BY <1>6 DEF StartUpdate, InProgress
  <2> QED BY <1>3, <2>1, <2>2, BeginKeeps
<1>7. ASSUME NEW n \in ReplicaInputs, StartScaleRequest(r, a, n) PROVE IInv'
  <2>1. Begin(r, a, "requestScale", "save", {}, n) /\ n \in Int
    BY <1>7 DEF StartScaleRequest
  <2>2. InProgress([op |-> "requestScale", step |-> "save", app |-> a, copy |-> rows[a],
                    todo |-> {}, want |-> n])
    BY <1>7 DEF StartScaleRequest, InProgress
  <2> QED BY <1>3, <2>1, <2>2, BeginKeeps
<1>8. CASE StartReject(r, a)
  BY <1>3, <1>8, BeginKeeps DEF StartReject, InProgress
<1>9. CASE StartUserDelete(r, a)
  BY <1>3, <1>9, BeginKeeps DEF StartUserDelete, InProgress
<1>10. CASE StartAdminDelete(r, a)
  <2>1. CASE "deployment" \in rows[a].names
    <3>1. Begin(r, a, "adminDelete", "delete", rows[a].names, 0)
      BY <1>10, <2>1 DEF StartAdminDelete
    <3> QED BY <3>1, <1>2, <1>3, <1>10, BeginKeeps DEF StartAdminDelete, InProgress
  <2>2. CASE "deployment" \notin rows[a].names
    <3>1. Begin(r, a, "adminDelete", "removeRow", {}, 0)
      BY <1>10, <2>2 DEF StartAdminDelete
    <3> QED BY <3>1, <1>3, BeginKeeps DEF InProgress
  <2> QED BY <2>1, <2>2
<1> QED BY <1>1, <1>4, <1>5, <1>6, <1>7, <1>8, <1>9, <1>10

\* Deleting the objects a row names.
LEMMA DeletionKeeps ==
  ASSUME IInv, NEW r \in Requests,
         DeletionDone(r) \/ DeleteObject(r) \/ DeleteFails(r)
  PROVE  IInv'
<1> USE DEF cluster
<1>1. RowsPart /\ RequestsPart /\ ClusterPart
  BY Parts
<1>2. req[r] # Idle /\ req[r].step = "delete"
  BY DEF DeletionDone, DeleteObject, DeleteFails, At
<1>3. RowsPart'
  BY <1>1 DEF RowsPart, DeletionDone, DeleteObject, DeleteFails
<1>4. CASE DeletionDone(r)
  <2>1. Goto(r, "prepare") \/ Goto(r, "removeRow") \/ End(r)
    BY <1>4 DEF DeletionDone, AfterDeletion
  <2>2. RequestsPart'
    BY <1>1, <1>2, <2>1, GotoKeepsRequests, EndKeepsRequests DEF Steps
  <2>3. ClusterPart'
    BY <1>1, <1>4 DEF DeletionDone, ClusterPart
  <2> QED BY <1>3, <2>2, <2>3, PartsNext
<1>5. ASSUME NEW k \in Kinds, req' = [req EXCEPT ![r].todo = @ \ {k}] PROVE RequestsPart'
  <2> DEFINE q == [req[r] EXCEPT !.todo = @ \ {k}]
  <2>1. req' = [req EXCEPT ![r] = q]
    BY <1>5
  <2>2. q \in Request
    BY <1>1, <1>2, BusyThread DEF Request
  <2>3. q.op = req[r].op /\ q.copy = req[r].copy /\ q.want = req[r].want /\ q.step = "delete"
    BY <1>1, <1>2, BusyThread DEF Request
  <2>4. RequestOK(q)
    <3> HIDE DEF q
    <3> QED BY <1>1, <1>2, <2>3, BusyThread DEF RequestOK, InProgress
  <2> QED BY <1>1, <2>1, <2>2, <2>4, RequestMoves
<1>6. NextToDelete(req[r].todo) \in Kinds
  BY DEF NextToDelete, Kinds
<1>7. CASE DeleteObject(r)
  <2>1. RequestsPart'
    BY <1>5, <1>6, <1>7 DEF DeleteObject
  <2>2. objects' \in [Apps -> SUBSET Kinds] /\ running' \in [Apps -> Nat]
    BY <1>1, <1>2, <1>6, <1>7, BusyThread, ConstantsAssumption
    DEF DeleteObject, RemoveObject, ClusterPart, Replicas
  <2>3. ClusterPart'
    BY <1>1, <1>7, <2>2 DEF DeleteObject, ClusterPart
  <2> QED BY <1>3, <2>1, <2>3, PartsNext
<1>8. CASE DeleteFails(r)
  <2>1. RequestsPart'
    BY <1>5, <1>6, <1>8 DEF DeleteFails
  <2>2. ClusterPart'
    BY <1>1, <1>8 DEF DeleteFails, ClusterPart
  <2> QED BY <1>3, <2>1, <2>2, PartsNext
<1> QED BY <1>4, <1>7, <1>8

\* A step that saves a consistent row and leaves the cluster alone.
LEMMA SavingStep ==
  ASSUME IInv, NEW r \in Requests, req[r] # Idle, NEW row \in Row, RowOK(row),
         WriteBack(r, row), RequestsPart', UNCHANGED <<issued, users, cluster>>
  PROVE  IInv'
<1>1. RowsPart'
  BY Parts, WriteKeepsRows
<1>2. ClusterPart'
  BY Parts DEF ClusterPart, cluster
<1> QED BY <1>1, <1>2, PartsNext

\* A step that moves the request only.
LEMMA SilentStep ==
  ASSUME IInv, RequestsPart', UNCHANGED <<rows, issued, users, cluster>>
  PROVE  IInv'
<1>1. RowsPart' /\ ClusterPart'
  BY Parts DEF RowsPart, ClusterPart, cluster
<1> QED BY <1>1, PartsNext

\* A step of a request that changes the cluster only.
LEMMA ClusterStep ==
  ASSUME IInv, RequestsPart', UNCHANGED <<rows, issued, users>>,
         objects' \in [Apps -> SUBSET Kinds], running' \in [Apps -> Nat],
         namespaces' \in [Namespaces -> NamespaceStates]
  PROVE  IInv'
<1>1. RowsPart' /\ ClusterPart'
  BY Parts DEF RowsPart, ClusterPart
<1> QED BY <1>1, PartsNext

\* The effect of each creating or scaling call on the cluster, whether or not
\* its answer arrives.
LEMMA NamespaceTyped ==
  ASSUME IInv, NEW r \in Requests, req[r] # Idle, EnsureNamespaceEffect(r)
  PROVE  /\ objects' \in [Apps -> SUBSET Kinds]
         /\ running' \in [Apps -> Nat]
         /\ namespaces' \in [Namespaces -> NamespaceStates]
BY Parts DEF EnsureNamespaceEffect, ClusterPart, NamespaceStates

LEMMA CreateTyped ==
  ASSUME IInv, NEW r \in Requests, req[r] # Idle, CreateEffect(r)
  PROVE  /\ objects' \in [Apps -> SUBSET Kinds]
         /\ running' \in [Apps -> Nat]
         /\ namespaces' \in [Namespaces -> NamespaceStates]
<1>1. req[r].app \in Apps /\ req[r].want \in Int
  BY Parts, BusyThread DEF Request
<1>2. AtLeastOne(req[r].want) \in Nat
  BY <1>1, ConstantsAssumption DEF AtLeastOne, Replicas
<1>3. NextToCreate(req[r].todo) \in Kinds
  BY DEF NextToCreate, Kinds
<1> QED BY <1>1, <1>2, <1>3, Parts DEF CreateEffect, ClusterPart

LEMMA ScaleTyped ==
  ASSUME IInv, NEW r \in Requests, At(r, "scale"), ScaleEffect(r)
  PROVE  /\ objects' \in [Apps -> SUBSET Kinds]
         /\ running' \in [Apps -> Nat]
         /\ namespaces' \in [Namespaces -> NamespaceStates]
<1>1. req[r].app \in Apps /\ req[r].want \in Nat
  BY Parts, BusyThread DEF At, RequestOK, InProgress, Request, Replicas
<1> QED BY <1>1, Parts DEF ScaleEffect, ClusterPart

\* The steps of a deployment.
LEMMA ProcessKeeps ==
  ASSUME IInv, NEW r \in Requests,
         \/ Prepare(r) \/ PrepareRefused(r) \/ EnsureNamespace(r)
         \/ CheckImage(r) \/ ImageInvalid(r) \/ CreateObject(r) \/ SaveName(r)
         \/ AwaitReady(r) \/ GetUrl(r) \/ Finish(r) \/ Fail(r)
  PROVE  IInv'
<1>1. RowsPart /\ RequestsPart /\ ClusterPart
  BY Parts
<1>2. req[r] # Idle
  BY DEF Prepare, PrepareRefused, EnsureNamespace, CheckImage, ImageInvalid,
         CreateObject, SaveName, AwaitReady, GetUrl, Finish, Fail, At
<1>3. req[r] \in Request /\ req[r].copy \in Row /\ RowOK(req[r].copy)
  BY <1>1, <1>2, BusyThread DEF RequestOK
<1>4. CASE Prepare(r)
  <2>1. RequestsPart'
    BY <1>1, <1>2, <1>4, GotoKeepsRequests DEF Prepare, Steps
  <2> QED BY <1>2, <1>3, <1>4, <2>1, SavingStep DEF Prepare
<1>5. CASE PrepareRefused(r)
  BY <1>1, <1>5, EndKeepsRequests, SilentStep DEF PrepareRefused
<1>6. CASE EnsureNamespace(r)
  <2>1. RequestsPart'
    BY <1>1, <1>2, <1>6, GotoKeepsRequests DEF EnsureNamespace, Steps
  <2> QED BY <1>2, <1>6, <2>1, NamespaceTyped, ClusterStep DEF EnsureNamespace
<1>7. CASE CheckImage(r)
  <2> DEFINE q == [req[r] EXCEPT !.step = "create", !.todo = Kinds]
  <2>1. q \in Request
    BY <1>3 DEF Request, Steps
  <2>2. /\ q.op = req[r].op /\ q.copy = req[r].copy /\ q.want = req[r].want
        /\ q.todo = Kinds /\ q.step = "create"
    BY <1>3 DEF Request
  <2>3. RequestOK(q)
    <3> HIDE DEF q
    <3> QED BY <1>1, <1>2, <2>2, BusyThread DEF RequestOK, InProgress
  <2>4. RequestsPart'
    BY <1>1, <1>7, <2>1, <2>3, RequestMoves DEF CheckImage
  <2> QED BY <1>2, <1>3, <1>7, <2>4, SavingStep DEF CheckImage
<1>8. CASE ImageInvalid(r)
  <2>1. RequestsPart'
    BY <1>1, <1>8, EndKeepsRequests DEF ImageInvalid
  <2> QED BY <1>2, <1>3, <1>8, <2>1, SavingStep DEF ImageInvalid
<1>9. CASE CreateObject(r)
  <2>1. RequestsPart'
    BY <1>1, <1>2, <1>9, GotoKeepsRequests DEF CreateObject, At, Steps
  <2> QED BY <1>2, <1>9, <2>1, CreateTyped, ClusterStep DEF CreateObject
<1>10. CASE SaveName(r)
  <2> DEFINE k    == NextToCreate(req[r].todo)
             rest == req[r].todo \ {k}
             row  == [req[r].copy EXCEPT !.names = @ \cup {k}]
             next == IF rest = {} THEN "await" ELSE "create"
             q    == [req[r] EXCEPT !.copy = row, !.todo = rest, !.step = next]
  <2>1. WriteBack(r, row) /\ req' = [req EXCEPT ![r] = q]
    BY <1>10 DEF SaveName
  <2>2. k \in Kinds /\ rest \in SUBSET Kinds
    BY <1>3 DEF NextToCreate, Kinds, Request
  <2>3. Kinds \ req[r].todo \subseteq req[r].copy.names
    BY <1>1, <1>2, <1>10, BusyThread DEF SaveName, At, RequestOK, InProgress
  <2>4. /\ row \in Row /\ row.status = req[r].copy.status
        /\ row.names = req[r].copy.names \cup {k}
        /\ row.replicas = req[r].copy.replicas
    <3> HIDE DEF k
    <3> QED BY <1>3, <2>2 DEF Row
  <2>5. RowOK(row)
    <3>1. NamesInOrder(row)
      BY <1>3, <2>3, <2>4 DEF RowOK, NamesInOrder, NextToCreate, Kinds
    <3>2. RunningIsNamed(row) /\ PausedMeansZero(row)
      BY <1>3, <2>2, <2>4 DEF RowOK, RunningIsNamed, PausedMeansZero, Row
    <3> QED BY <3>1, <3>2 DEF RowOK
  <2>6. /\ q \in Request /\ q.op = req[r].op /\ q.copy = row /\ q.want = req[r].want
        /\ q.todo = rest /\ q.step = next
    <3> HIDE DEF row, rest
    <3> QED BY <1>3, <2>2, <2>4 DEF Request, Steps
  <2>7. RequestOK(q)
    <3>1. Kinds \ rest \subseteq row.names
      BY <2>3, <2>4
    <3> HIDE DEF q, row, rest, k
    <3> QED BY <1>1, <1>2, <2>4, <2>5, <2>6, <3>1, BusyThread DEF RequestOK, InProgress
  <2>8. RequestsPart'
    <3> HIDE DEF q
    <3> QED BY <1>1, <2>1, <2>6, <2>7, RequestMoves
  <2>9. UNCHANGED <<issued, users, cluster>>
    BY <1>10 DEF SaveName
  <2> HIDE DEF row
  <2> QED BY <1>2, <2>1, <2>4, <2>5, <2>8, <2>9, SavingStep
<1>11. CASE AwaitReady(r)
  <2>1. RequestsPart'
    BY <1>1, <1>2, <1>11, GotoKeepsRequests DEF AwaitReady, Steps
  <2> QED BY <1>2, <1>3, <1>11, <2>1, SavingStep DEF AwaitReady
<1>12. CASE GetUrl(r)
  BY <1>1, <1>2, <1>12, GotoKeepsRequests, SilentStep DEF GetUrl, Steps
<1>13. CASE Finish(r)
  <2> DEFINE row == [req[r].copy EXCEPT !.status = "RUNNING", !.names = Kinds,
                                        !.replicas = SetReplicas(req[r].want)]
  <2>1. SetReplicas(req[r].want) \in Nat
    BY <1>3, ConstantsAssumption DEF SetReplicas, Replicas, Request
  <2>2. row \in Row /\ row.status = "RUNNING" /\ row.names = Kinds
    BY <1>3, <2>1 DEF Row, Statuses
  <2>3. RowOK(row)
    BY <2>2 DEF RowOK, NamesInOrder, RunningIsNamed, PausedMeansZero, Kinds
  <2>4. RequestsPart'
    BY <1>1, <1>13, EndKeepsRequests DEF Finish
  <2> QED BY <1>2, <1>13, <2>2, <2>3, <2>4, SavingStep DEF Finish
<1>14. CASE Fail(r)
  <2> DEFINE row == [req[r].copy EXCEPT !.status = "ERROR"]
  <2>1. row \in Row /\ row.status = "ERROR" /\ row.names = req[r].copy.names
    BY <1>3 DEF Row, Statuses
  <2>2. RowOK(row)
    BY <1>3, <2>1 DEF RowOK, NamesInOrder, RunningIsNamed, PausedMeansZero
  <2>3. RequestsPart'
    BY <1>1, <1>14, EndKeepsRequests DEF Fail
  <2> QED BY <1>2, <1>14, <2>1, <2>2, <2>3, SavingStep DEF Fail
<1> QED BY <1>4, <1>5, <1>6, <1>7, <1>8, <1>9, <1>10, <1>11, <1>12, <1>13, <1>14

\* The requests that save one changed column, the scale, and the removal.
LEMMA SaveKeeps ==
  ASSUME IInv, NEW r \in Requests,
         \/ ScaleObject(r) \/ SaveScale(r) \/ SaveUpdate(r) \/ SaveReject(r)
         \/ SaveScaleRequest(r) \/ SaveUserDelete(r) \/ RemoveRow(r)
  PROVE  IInv'
<1> USE ConstantsAssumption
<1>1. RowsPart /\ RequestsPart /\ ClusterPart
  BY Parts
<1>2. req[r] # Idle
  BY DEF ScaleObject, SaveScale, SaveUpdate, SaveReject, SaveScaleRequest,
         SaveUserDelete, RemoveRow, Saves, At
<1>3. /\ req[r] \in Request /\ req[r].copy \in Row /\ req[r].app \in Apps
      /\ RowOK(req[r].copy) /\ InProgress(req[r])
  BY <1>1, <1>2, BusyThread DEF RequestOK
<1>4. CASE ScaleObject(r)
  <2>1. RequestsPart'
    BY <1>1, <1>2, <1>4, GotoKeepsRequests DEF ScaleObject, Steps
  <2> QED BY <1>4, <2>1, ScaleTyped, ClusterStep DEF ScaleObject
<1>5. CASE SaveScale(r)
  <2> DEFINE status == IF req[r].want = 0 THEN "PAUSED" ELSE "RUNNING"
             row == [req[r].copy EXCEPT !.status = status,
                                        !.replicas = req[r].want,
                                        !.requested = None]
  <2>1. req[r].want \in Nat /\ req[r].copy.names = Kinds
    BY <1>3, <1>5 DEF SaveScale, Saves, InProgress, RowOK, RunningIsNamed, Replicas
  <2>2. /\ row \in Row /\ row.status = status /\ row.names = Kinds
        /\ row.replicas = req[r].want
    BY <1>3, <2>1 DEF Row, Statuses
  <2>3. RowOK(row)
    <3> HIDE DEF row
    <3> QED BY <2>2 DEF RowOK, NamesInOrder, RunningIsNamed, PausedMeansZero, Kinds
  <2>4. RequestsPart'
    BY <1>1, <1>5, EndKeepsRequests DEF SaveScale
  <2> QED BY <1>2, <1>5, <2>2, <2>3, <2>4, SavingStep DEF SaveScale
<1>6. CASE SaveUpdate(r)
  <2> DEFINE row == [req[r].copy EXCEPT !.replicas = SetReplicas(req[r].want)]
  <2>1. SetReplicas(req[r].want) \in Nat
    BY <1>3 DEF SetReplicas, Replicas, Request
  <2>2. row \in Row /\ row.status = req[r].copy.status /\ row.names = req[r].copy.names
    BY <1>3, <2>1 DEF Row
  <2>3. RowOK(row)
    BY <1>3, <1>6, <2>2
    DEF RowOK, NamesInOrder, RunningIsNamed, PausedMeansZero, InProgress, SaveUpdate, Saves
  <2>4. RequestsPart'
    BY <1>1, <1>6, EndKeepsRequests DEF SaveUpdate
  <2>5. CASE WriteBack(r, row)
    BY <1>2, <1>6, <2>2, <2>3, <2>4, <2>5, SavingStep DEF SaveUpdate
  <2>6. CASE UNCHANGED rows
    BY <1>6, <2>4, <2>6, SilentStep DEF SaveUpdate
  <2> QED BY <1>6, <2>5, <2>6 DEF SaveUpdate
<1>7. CASE SaveReject(r)
  <2> DEFINE row == [req[r].copy EXCEPT !.status = "REJECTED"]
  <2>1. row \in Row /\ row.status = "REJECTED" /\ row.names = req[r].copy.names
    BY <1>3 DEF Row, Statuses
  <2>2. RowOK(row)
    BY <1>3, <2>1 DEF RowOK, NamesInOrder, RunningIsNamed, PausedMeansZero
  <2>3. RequestsPart'
    BY <1>1, <1>7, EndKeepsRequests DEF SaveReject
  <2> QED BY <1>2, <1>7, <2>1, <2>2, <2>3, SavingStep DEF SaveReject
<1>8. CASE SaveScaleRequest(r)
  <2> DEFINE row == [req[r].copy EXCEPT !.requested = req[r].want]
  <2>1. req[r].want \in 0..MaxRequested
    BY <1>3, <1>8 DEF SaveScaleRequest, Saves, InProgress
  <2>2. /\ row \in Row /\ row.status = req[r].copy.status
        /\ row.names = req[r].copy.names /\ row.replicas = req[r].copy.replicas
    BY <1>3, <2>1 DEF Row
  <2>3. RowOK(row)
    BY <1>3, <2>2 DEF RowOK, NamesInOrder, RunningIsNamed, PausedMeansZero
  <2>4. RequestsPart'
    BY <1>1, <1>8, EndKeepsRequests DEF SaveScaleRequest
  <2>5. CASE WriteBack(r, row)
    BY <1>2, <1>8, <2>2, <2>3, <2>4, <2>5, SavingStep DEF SaveScaleRequest
  <2>6. CASE UNCHANGED rows
    BY <1>8, <2>4, <2>6, SilentStep DEF SaveScaleRequest
  <2> QED BY <1>8, <2>5, <2>6 DEF SaveScaleRequest
<1>9. CASE SaveUserDelete(r)
  <2> DEFINE row == [req[r].copy EXCEPT !.status = "DELETED"]
             q   == [req[r] EXCEPT !.step = "delete", !.todo = req[r].copy.names]
  <2>1. row \in Row /\ row.status = "DELETED" /\ row.names = req[r].copy.names
    BY <1>3 DEF Row, Statuses
  <2>2. RowOK(row)
    BY <1>3, <2>1 DEF RowOK, NamesInOrder, RunningIsNamed, PausedMeansZero
  <2>3. req[r].copy.names \in SUBSET Kinds
    BY <1>3 DEF Row
  <2>4. /\ q \in Request /\ q.op = req[r].op /\ q.copy = req[r].copy
        /\ q.want = req[r].want /\ q.step = "delete"
    BY <1>3, <2>3 DEF Request, Steps
  <2>5. RequestOK(q)
    <3> HIDE DEF q
    <3> QED BY <1>3, <2>4 DEF RequestOK, InProgress
  <2>6. RequestsPart'
    BY <1>1, <1>9, <2>4, <2>5, RequestMoves DEF SaveUserDelete
  <2> QED BY <1>2, <1>9, <2>1, <2>2, <2>6, SavingStep DEF SaveUserDelete
<1>10. CASE RemoveRow(r)
  <2>1. RowsPart'
    BY <1>1, <1>3, <1>10 DEF RemoveRow, WriteBack, RowsPart
  <2>2. RequestsPart'
    BY <1>1, <1>10, EndKeepsRequests DEF RemoveRow
  <2>3. ClusterPart'
    BY <1>1, <1>10 DEF RemoveRow, ClusterPart, cluster
  <2> QED BY <2>1, <2>2, <2>3, PartsNext
<1> QED BY <1>4, <1>5, <1>6, <1>7, <1>8, <1>9, <1>10

\* Failures of a request, of a call, of an answer.
LEMMA FailureKeeps ==
  ASSUME IInv, NEW r \in Requests, StaleUpdate(r) \/ CallFails(r) \/ ReplyLost(r)
  PROVE  IInv'
<1>1. RowsPart /\ RequestsPart /\ ClusterPart
  BY Parts
<1>2. req[r] # Idle
  BY DEF StaleUpdate, CallFails, ReplyLost, At
<1>3. ASSUME CallRaises(r) PROVE RequestsPart'
  <2>1. CASE End(r)
    BY <1>1, <2>1, EndKeepsRequests
  <2>2. CASE req[r].op = "process" /\ Raise(r)
    <3> DEFINE q == [req[r] EXCEPT !.step = "fail", !.todo = {}, !.want = 0]
    <3>1. /\ q \in Request /\ q.op = "process" /\ q.copy = req[r].copy /\ q.step = "fail"
      <4>1. req[r] \in Request /\ 0 \in Int /\ {} \in SUBSET Kinds
        BY <1>1, <1>2, BusyThread, ConstantsAssumption
      <4> QED BY <2>2, <4>1 DEF Request, Steps
    <3>2. RequestOK(q)
      <4> HIDE DEF q
      <4> QED BY <1>1, <1>2, <3>1, BusyThread DEF RequestOK, InProgress
    <3> QED BY <1>1, <2>2, <3>1, <3>2, RequestMoves DEF Raise
  <2> QED BY <1>3, <2>1, <2>2 DEF CallRaises
<1>4. CASE StaleUpdate(r)
  BY <1>1, <1>4, EndKeepsRequests, SilentStep DEF StaleUpdate
<1>5. CASE CallFails(r)
  BY <1>3, <1>5, SilentStep DEF CallFails
<1>6. CASE ReplyLost(r)
  <2>1. RequestsPart'
    BY <1>3, <1>6 DEF ReplyLost
  <2>2. /\ objects' \in [Apps -> SUBSET Kinds]
        /\ running' \in [Apps -> Nat]
        /\ namespaces' \in [Namespaces -> NamespaceStates]
    BY <1>2, <1>6, NamespaceTyped, CreateTyped, ScaleTyped DEF ReplyLost
  <2> QED BY <1>6, <2>1, <2>2, ClusterStep DEF ReplyLost
<1> QED BY <1>4, <1>5, <1>6

LEMMA CreateKeeps ==
  ASSUME IInv, NEW a \in Apps, CreateApplication(a)
  PROVE  IInv'
<1> DEFINE row == [status |-> "PENDING", names |-> {}, replicas |-> 1, requested |-> None]
<1>1. row \in Row /\ RowOK(row)
  BY ConstantsAssumption
  DEF Row, Statuses, Replicas, RowOK, NamesInOrder, RunningIsNamed, PausedMeansZero
<1>2. RowsPart'
  BY <1>1, Parts DEF CreateApplication, RowsPart
<1>3. RequestsPart' /\ ClusterPart'
  BY Parts DEF CreateApplication, RequestsPart, ClusterPart, cluster
<1> QED BY <1>2, <1>3, PartsNext

LEMMA CrashKeeps ==
  ASSUME IInv, Crash
  PROVE  IInv'
<1>1. RequestsPart'
  BY DEF Crash, RequestsPart
<1> QED BY <1>1, SilentStep DEF Crash

-------------------------------------------------------------------------------
(* The theorems                                                              *)

LEMMA InitIInv == Init => IInv
BY ConstantsAssumption
DEF Init, IInv, TypeOK, RowsConsistent, Replicas, NamespaceStates

LEMMA NextIInv == IInv /\ [Next]_vars => IInv'
<1> SUFFICES ASSUME IInv, [Next]_vars PROVE IInv'
  OBVIOUS
<1>1. ASSUME NEW a \in Apps, CreateApplication(a) PROVE IInv'
  BY <1>1, CreateKeeps
<1>2. ASSUME NEW r \in Requests, Arrival(r) PROVE IInv'
  BY <1>2, ArrivalKeeps
<1>3. ASSUME NEW r \in Requests, HandlerStep(r) PROVE IInv'
  BY <1>3, DeletionKeeps, ProcessKeeps, SaveKeeps, FailureKeeps DEF HandlerStep
<1>4. CASE Crash
  BY <1>4, CrashKeeps
<1>5. CASE UNCHANGED vars
  BY <1>5 DEF vars, IInv, TypeOK, RowsConsistent
<1> QED BY <1>1, <1>2, <1>3, <1>4, <1>5 DEF Next

\* IInv holds in every reachable state: what a request checked when it loaded
\* its copy is still true of that copy at each of its later steps.
THEOREM Invariance == Spec => []IInv
<1>1. Init => IInv
  BY InitIInv
<1>2. IInv /\ [Next]_vars => IInv'
  BY NextIInv
<1> QED BY <1>1, <1>2, PTL DEF Spec

\* Every variable keeps its type: no handler stores a replica count, a status
\* or a name outside its range.
THEOREM TypeCorrect == Spec => []TypeOK
<1>1. IInv => TypeOK
  BY DEF IInv
<1> QED BY <1>1, Invariance, PTL

\* Any overlap of handlers leaves each row consistent in itself: names in
\* creation order, RUNNING and PAUSED fully named, PAUSED with zero replicas.
THEOREM RowsStayConsistent == Spec => []RowsConsistent
<1>1. IInv => RowsConsistent
  BY DEF IInv
<1> QED BY <1>1, Invariance, PTL

\* A row that is written back was there: only uploading inserts a row, and it
\* takes an id that was never issued.
LEMMA NoRowReturns == IInv /\ [Next]_vars => StaysRemoved
<1> SUFFICES ASSUME IInv, [Next]_vars, NEW b \in issued, rows[b] = Absent
             PROVE  rows'[b] = Absent
  BY DEF StaysRemoved
<1>1. b \in Apps /\ rows \in [Apps -> Row \cup {Absent}]
  BY DEF IInv, TypeOK
<1>2. ASSUME NEW r \in Requests, NEW row, WriteBack(r, row) PROVE rows'[b] = Absent
  BY <1>1, <1>2 DEF WriteBack
<1>3. ASSUME NEW a \in Apps, CreateApplication(a) PROVE rows'[b] = Absent
  BY <1>1, <1>3 DEF CreateApplication
<1>4. ASSUME NEW r \in Requests, Arrival(r) PROVE rows'[b] = Absent
  BY <1>4 DEF Arrival, StartProcess, StartScale, StartUpdate, StartScaleRequest,
              StartReject, StartUserDelete, StartAdminDelete, Begin
<1>5. ASSUME NEW r \in Requests, HandlerStep(r) PROVE rows'[b] = Absent
  <2>1. CASE \/ Prepare(r) \/ CheckImage(r) \/ ImageInvalid(r) \/ AwaitReady(r)
             \/ Finish(r) \/ Fail(r) \/ SaveScale(r) \/ SaveReject(r)
             \/ SaveUserDelete(r) \/ RemoveRow(r)
    BY <1>2, <2>1 DEF Prepare, CheckImage, ImageInvalid, AwaitReady, Finish, Fail,
                      SaveScale, SaveReject, SaveUserDelete, RemoveRow
  <2>2. CASE SaveName(r)
    BY <1>2, <2>2 DEF SaveName
  <2>3. CASE SaveUpdate(r) \/ SaveScaleRequest(r)
    BY <1>2, <2>3 DEF SaveUpdate, SaveScaleRequest
  <2>4. CASE \/ DeletionDone(r) \/ DeleteObject(r) \/ DeleteFails(r)
             \/ PrepareRefused(r) \/ EnsureNamespace(r) \/ CreateObject(r)
             \/ GetUrl(r) \/ ScaleObject(r)
             \/ StaleUpdate(r) \/ CallFails(r) \/ ReplyLost(r)
    BY <2>4 DEF DeletionDone, DeleteObject, DeleteFails, PrepareRefused,
                EnsureNamespace, CreateObject, GetUrl, ScaleObject, StaleUpdate,
                CallFails, ReplyLost
  <2> QED BY <1>5, <2>1, <2>2, <2>3, <2>4 DEF HandlerStep
<1>6. CASE Crash
  BY <1>6 DEF Crash
<1>7. CASE UNCHANGED vars
  BY <1>7 DEF vars
<1> QED BY <1>3, <1>4, <1>5, <1>6, <1>7 DEF Next

\* A removed record stays removed, whatever requests still hold a copy of it.
THEOREM RemovedForGood == Spec => NoResurrection
<1>1. IInv /\ [Next]_vars => StaysRemoved
  BY NoRowReturns
<1> QED BY <1>1, Invariance, PTL DEF Spec, NoResurrection

-------------------------------------------------------------------------------
(***************************************************************************)
(* For any number of applications and threads, as long as no two requests  *)
(* work on one application at a time: a crash or a lost reply leaves at    *)
(* most one object per application unnamed, and the status moves only      *)
(* along the edges of AppLifecycle; without crashes and lost replies every *)
(* object is named, and the status says what is in the cluster.            *)
(*                                                                         *)
(* The inductive invariant is SerialIInv.  It says of a request that its   *)
(* copy is still the row (Held), and how far it has come with the cluster  *)
(* (During); of an application whose requests are over it says what the    *)
(* properties say (AtRest).                                                *)
(***************************************************************************)

\* The assumption: nothing in the code sees to it, an admin who waits does.
OneAtATime ==
  \A s, t \in Requests :
    req[s] # Idle /\ req[t] # Idle /\ req[s].app = req[t].app => s = t

Reliable == ~Crashes /\ ~LostReplies

Deploying == {"create", "saveName", "await", "url", "finish"}

\* The handler a step belongs to, and the status its guard saw.
StepFits(q) ==
  /\ q.step \in Deploying \cup {"prepare", "namespace", "image", "fail"} => q.op = "process"
  /\ q.step = "delete" => q.op \in {"process", "userDelete", "adminDelete"}
  /\ q.step = "removeRow" => q.op = "adminDelete"
  /\ q.op = "process" => q.copy.status \in {"PENDING", "ERROR"}
  /\ q.op = "process" /\ q.step = "delete" => q.copy.status = "ERROR"
  /\ q.op = "reject" => q.copy.status = "PENDING"
  /\ q.op = "userDelete" => q.copy.status # "DELETED"
  /\ q.step \in {"create", "saveName"} =>
       q.todo \in {Kinds, {"service", "ingress"}, {"ingress"}}

\* The copy of a request is the row, but for the status that a user's deletion has saved.
Held(q, row) ==
  /\ row # Absent
  /\ StepFits(q)
  /\ IF q.op = "userDelete" /\ q.step = "delete"
     THEN row = [q.copy EXCEPT !.status = "DELETED"]
     ELSE row = q.copy

\* What is not named can only be the object that comes after those that are.
Stray(row, objs) == objs \ row.names \subseteq {NextToCreate(Kinds \ row.names)}

\* What a row says about the cluster.
Matches(row, objs, run) ==
  /\ row.status \in {"RUNNING", "PAUSED"} => objs = Kinds
  /\ row.status = "RUNNING" => run = IF row.replicas = 0 THEN 1 ELSE row.replicas
  /\ row.status = "PAUSED" => run = 0
  /\ row.status \in {"PENDING", "REJECTED"} => objs = {}

AtRest(row, objs, run) == objs \subseteq row.names /\ Matches(row, objs, run)

\* Where a request has changed the cluster and not yet the status.
Ahead(q) ==
  \/ q.step \in Deploying \cup {"fail"}
  \/ q.op = "scale" /\ q.step = "save"
  \/ q.op = "adminDelete"

\* How far a request has come, where every call that takes effect is answered.
During(q, row, objs, run) ==
  /\ ~Ahead(q) => Matches(row, objs, run)
  /\ q.step # "saveName" => objs \subseteq row.names
  /\ q.step \in {"create", "saveName"} =>
       /\ Kinds \ q.todo \subseteq objs
       /\ "deployment" \notin q.todo => run = AtLeastOne(q.want)
  /\ q.step = "saveName" =>
       /\ NextToCreate(q.todo) \in objs
       /\ objs \subseteq row.names \cup {NextToCreate(q.todo)}
       /\ "deployment" \in q.todo => run = AtLeastOne(q.want)
  /\ q.step \in {"await", "url", "finish"} => objs = Kinds /\ run = AtLeastOne(q.want)
  /\ q.op = "scale" /\ q.step = "save" => objs = Kinds /\ run = q.want

SerialIInv ==
  /\ IInv
  /\ \A a \in Apps : a \notin issued => rows[a] = Absent /\ objects[a] = {}
  /\ \A r \in Requests : req[r] # Idle => Held(req[r], rows[req[r].app])
  /\ \A a \in Apps : rows[a] # Absent => Stray(rows[a], objects[a])
  /\ Reliable =>
       /\ \A r \in Requests : req[r] # Idle =>
            During(req[r], rows[req[r].app], objects[req[r].app], running[req[r].app])
       /\ \A a \in Apps : rows[a] # Absent /\ ~Busy(a) =>
            AtRest(rows[a], objects[a], running[a])

-------------------------------------------------------------------------------
(* One request and its application                                           *)

\* What is known of a busy thread.
LEMMA Working ==
  ASSUME SerialIInv, NEW r \in Requests, req[r] # Idle
  PROVE  LET q == req[r]
             row == rows[q.app]
         IN  /\ q \in Request /\ q.app \in Apps /\ q.copy \in Row /\ row \in Row
             /\ RowOK(q.copy) /\ RowOK(row) /\ InProgress(q) /\ Held(q, row)
             /\ objects[q.app] \in SUBSET Kinds /\ Stray(row, objects[q.app])
             /\ Reliable => During(q, row, objects[q.app], running[q.app])
<1>1. req[r] \in Request /\ req[r].app \in Apps /\ req[r].copy \in Row
  BY DEF SerialIInv, IInv, TypeOK, Request
<1>2. Held(req[r], rows[req[r].app]) /\ rows[req[r].app] # Absent
  BY DEF SerialIInv, Held
<1>3. RowOK(req[r].copy) /\ InProgress(req[r])
  BY DEF SerialIInv, IInv, RowsConsistent
<1>4. rows[req[r].app] \in Row /\ RowOK(rows[req[r].app])
  BY <1>1, <1>2 DEF SerialIInv, IInv, TypeOK, RowsConsistent
<1>5. objects[req[r].app] \in SUBSET Kinds /\ Stray(rows[req[r].app], objects[req[r].app])
  BY <1>1, <1>2 DEF SerialIInv, IInv, TypeOK
<1>6. Reliable => During(req[r], rows[req[r].app], objects[req[r].app], running[req[r].app])
  BY DEF SerialIInv
<1> QED
  BY <1>1, <1>2, <1>3, <1>4, <1>5, <1>6

\* A step of a thread is one of its own state and of its application.
Becomes(r, q1, row1, objs1, run1) ==
  /\ \A t \in Requests : req'[t] = IF t = r THEN q1 ELSE req[t]
  /\ \A b \in Apps :
       /\ rows'[b] = IF b = req[r].app THEN row1 ELSE rows[b]
       /\ objects'[b] = IF b = req[r].app THEN objs1 ELSE objects[b]
       /\ running'[b] = IF b = req[r].app THEN run1 ELSE running[b]
  /\ issued' = issued

\* What has to hold of them afterwards.
Fine(q1, row1, objs1, run1) ==
  /\ row1 = Absent => q1 = Idle
  /\ row1 # Absent => Stray(row1, objs1)
  /\ q1 # Idle => Held(q1, row1)
  /\ Reliable /\ q1 # Idle => During(q1, row1, objs1, run1)
  /\ Reliable /\ q1 = Idle /\ row1 # Absent => AtRest(row1, objs1, run1)

LEMMA StepKeeps ==
  ASSUME SerialIInv, OneAtATime, IInv', NEW r \in Requests, req[r] # Idle,
         NEW q1, NEW row1, NEW objs1, NEW run1, q1 # Idle => q1.app = req[r].app,
         Becomes(r, q1, row1, objs1, run1), Fine(q1, row1, objs1, run1)
  PROVE  SerialIInv'
<1> DEFINE a == req[r].app
<1>1. a \in Apps /\ rows[a] # Absent /\ a \in issued
  BY Working DEF SerialIInv, Held
<1>2. \A t \in Requests : t # r /\ req[t] # Idle => req[t].app # a /\ req[t].app \in Apps
  BY Working DEF OneAtATime
<1>3. \A b \in Apps : b \notin issued' => rows'[b] = Absent /\ objects'[b] = {}
  BY <1>1 DEF Becomes, SerialIInv
<1>4. ASSUME NEW t \in Requests, req'[t] # Idle PROVE Held(req'[t], rows'[req'[t].app])
  <2>1. CASE t = r
    BY <1>1, <1>4, <2>1 DEF Becomes, Fine
  <2>2. CASE t # r
    BY <1>2, <1>4, <2>2 DEF Becomes, SerialIInv
  <2> QED
    BY <2>1, <2>2
<1>5. ASSUME NEW b \in Apps, rows'[b] # Absent PROVE Stray(rows'[b], objects'[b])
  <2>1. CASE b = a
    BY <1>1, <1>5, <2>1 DEF Becomes, Fine
  <2>2. CASE b # a
    BY <1>5, <2>2 DEF Becomes, SerialIInv
  <2> QED
    BY <2>1, <2>2
<1>6. ASSUME Reliable, NEW t \in Requests, req'[t] # Idle
      PROVE  During(req'[t], rows'[req'[t].app], objects'[req'[t].app], running'[req'[t].app])
  <2>1. CASE t = r
    BY <1>1, <1>6, <2>1 DEF Becomes, Fine
  <2>2. CASE t # r
    BY <1>2, <1>6, <2>2 DEF Becomes, SerialIInv
  <2> QED
    BY <2>1, <2>2
<1>7. ASSUME Reliable, NEW b \in Apps, rows'[b] # Absent, ~Busy(b)'
      PROVE  AtRest(rows'[b], objects'[b], running'[b])
  <2>1. CASE b = a
    <3>1. q1 = Idle
      BY <1>7, <2>1 DEF Becomes, Busy
    <3> QED
      BY <1>1, <1>7, <2>1, <3>1 DEF Becomes, Fine
  <2>2. CASE b # a
    <3>1. ~Busy(b)
      BY <1>7, <2>2 DEF Becomes, Busy
    <3> QED
      BY <1>7, <2>2, <3>1 DEF Becomes, SerialIInv
  <2> QED
    BY <2>1, <2>2
<1> QED
  BY <1>3, <1>4, <1>5, <1>6, <1>7 DEF SerialIInv

\* A thread's new state, in the forms the actions give it.
LEMMA ThreadIs ==
  ASSUME SerialIInv, NEW r \in Requests, NEW q1, req' = [req EXCEPT ![r] = q1]
  PROVE  \A t \in Requests : req'[t] = IF t = r THEN q1 ELSE req[t]
BY DEF SerialIInv, IInv, TypeOK

LEMMA GotoIs ==
  ASSUME SerialIInv, NEW r \in Requests, req[r] # Idle, NEW step \in Steps, Goto(r, step)
  PROVE  \E q1 \in Request :
           /\ req' = [req EXCEPT ![r] = q1]
           /\ q1.op = req[r].op /\ q1.app = req[r].app /\ q1.copy = req[r].copy
           /\ q1.todo = req[r].todo /\ q1.want = req[r].want /\ q1.step = step
<1> DEFINE q1 == [req[r] EXCEPT !.step = step]
<1>1. /\ q1 \in Request
      /\ q1.op = req[r].op /\ q1.app = req[r].app /\ q1.copy = req[r].copy
      /\ q1.todo = req[r].todo /\ q1.want = req[r].want /\ q1.step = step
  BY Working DEF Request
<1>2. req' = [req EXCEPT ![r] = q1]
  BY DEF Goto
<1> HIDE DEF q1
<1> QED
  BY <1>1, <1>2

\* Saving the copy as it is changes no row: it is the row.
LEMMA SavedUnchanged ==
  ASSUME SerialIInv, NEW r \in Requests, req[r] # Idle, req[r].step # "delete",
         WriteBack(r, req[r].copy)
  PROVE  \A b \in Apps : rows'[b] = rows[b]
BY Working DEF WriteBack, Held, SerialIInv, IInv, TypeOK

\* A step that leaves rows and cluster as they are.
LEMMA QuietStep ==
  ASSUME SerialIInv, OneAtATime, IInv', NEW r \in Requests, req[r] # Idle,
         NEW q1, req' = [req EXCEPT ![r] = q1], q1 # Idle => q1.app = req[r].app,
         \A b \in Apps : rows'[b] = rows[b], UNCHANGED <<issued, objects, running>>,
         q1 # Idle => Held(q1, rows[req[r].app]),
         Reliable /\ q1 # Idle =>
           During(q1, rows[req[r].app], objects[req[r].app], running[req[r].app]),
         Reliable /\ q1 = Idle =>
           AtRest(rows[req[r].app], objects[req[r].app], running[req[r].app])
  PROVE  SerialIInv'
<1> DEFINE a == req[r].app
<1>1. rows[a] # Absent /\ Stray(rows[a], objects[a])
  BY Working DEF Held
<1>2. Becomes(r, q1, rows[a], objects[a], running[a])
  <2>1. \A t \in Requests : req'[t] = IF t = r THEN q1 ELSE req[t]
    BY ThreadIs
  <2>2. /\ \A b \in Apps : rows'[b] = IF b = a THEN rows[a] ELSE rows[b]
        /\ \A b \in Apps : objects'[b] = IF b = a THEN objects[a] ELSE objects[b]
        /\ \A b \in Apps : running'[b] = IF b = a THEN running[a] ELSE running[b]
    OBVIOUS
  <2> QED
    BY <2>1, <2>2 DEF Becomes
<1>3. Fine(q1, rows[a], objects[a], running[a])
  BY <1>1 DEF Fine
<1> QED
  BY <1>2, <1>3, StepKeeps

\* A step that saves a row.
LEMMA SaveStep ==
  ASSUME SerialIInv, OneAtATime, IInv', NEW r \in Requests, req[r] # Idle,
         NEW q1, req' = [req EXCEPT ![r] = q1], q1 # Idle => q1.app = req[r].app,
         NEW row1, WriteBack(r, row1), UNCHANGED <<issued, objects, running>>,
         Fine(q1, row1, objects[req[r].app], running[req[r].app])
  PROVE  SerialIInv'
<1> DEFINE a == req[r].app
<1>1. Becomes(r, q1, row1, objects[a], running[a])
  <2>1. \A t \in Requests : req'[t] = IF t = r THEN q1 ELSE req[t]
    BY ThreadIs
  <2>2. \A b \in Apps : rows'[b] = IF b = a THEN row1 ELSE rows[b]
    BY DEF WriteBack, SerialIInv, IInv, TypeOK
  <2>3. /\ \A b \in Apps : objects'[b] = IF b = a THEN objects[a] ELSE objects[b]
        /\ \A b \in Apps : running'[b] = IF b = a THEN running[a] ELSE running[b]
    OBVIOUS
  <2> QED
    BY <2>1, <2>2, <2>3 DEF Becomes
<1> QED
  BY <1>1, StepKeeps

\* A request that has not got ahead of its row may end at any time.
LEMMA MayEnd ==
  ASSUME NEW q, NEW row, NEW objs, NEW run, During(q, row, objs, run),
         ~Ahead(q)
  PROVE  AtRest(row, objs, run)
BY DEF During, AtRest, Ahead, Deploying

-------------------------------------------------------------------------------
(* One lemma per kind of step                                                *)

\* A request goes on, or ends, with rows and cluster as they are.
LEMMA DeletionDoneKeeps ==
  ASSUME SerialIInv, OneAtATime, IInv', NEW r \in Requests, DeletionDone(r)
  PROVE  SerialIInv'
<1> DEFINE q == req[r]
           row == rows[q.app]
<1>1. req[r] # Idle /\ q.step = "delete" /\ UNCHANGED <<rows, issued, cluster>>
  BY DEF DeletionDone, At
<1>2. /\ q \in Request /\ Held(q, row) /\ row \in Row /\ q.copy \in Row
      /\ Reliable => During(q, row, objects[q.app], running[q.app])
  BY <1>1, Working
<1>3. q.op \in {"process", "userDelete", "adminDelete"}
  BY <1>1, <1>2 DEF Held, StepFits
<1>4. CASE q.op = "process"
  <2>1. PICK q1 \in Request :
           /\ req' = [req EXCEPT ![r] = q1]
           /\ q1.op = q.op /\ q1.app = q.app /\ q1.copy = q.copy
           /\ q1.todo = q.todo /\ q1.want = q.want /\ q1.step = "prepare"
    BY <1>1, <1>4, GotoIs DEF DeletionDone, AfterDeletion, Steps
  <2>2. q1 # Idle
    BY ConstantsAssumption
  <2>3. Held(q1, row)
    BY <1>1, <1>2, <1>4, <2>1 DEF Held, StepFits, Deploying
  <2>4. Reliable => During(q1, row, objects[q.app], running[q.app])
    BY <1>1, <1>2, <1>4, <2>1 DEF During, Ahead, Deploying
  <2> QED
    BY <1>1, <2>1, <2>2, <2>3, <2>4, QuietStep DEF cluster
<1>5. CASE q.op = "adminDelete"
  <2>1. PICK q1 \in Request :
           /\ req' = [req EXCEPT ![r] = q1]
           /\ q1.op = q.op /\ q1.app = q.app /\ q1.copy = q.copy
           /\ q1.todo = q.todo /\ q1.want = q.want /\ q1.step = "removeRow"
    BY <1>1, <1>5, GotoIs DEF DeletionDone, AfterDeletion, Steps
  <2>2. q1 # Idle
    BY ConstantsAssumption
  <2>3. Held(q1, row)
    BY <1>1, <1>2, <1>5, <2>1 DEF Held, StepFits, Deploying
  <2>4. Reliable => During(q1, row, objects[q.app], running[q.app])
    BY <1>1, <1>2, <1>5, <2>1 DEF During, Ahead, Deploying
  <2> QED
    BY <1>1, <2>1, <2>2, <2>3, <2>4, QuietStep DEF cluster
<1>6. CASE q.op = "userDelete"
  <2>1. req' = [req EXCEPT ![r] = Idle]
    BY <1>6 DEF DeletionDone, AfterDeletion, End
  <2>2. ~Ahead(q)
    BY <1>1, <1>6 DEF Ahead, Deploying
  <2>3. Reliable => AtRest(row, objects[q.app], running[q.app])
    BY <1>2, <2>2, MayEnd
  <2> QED
    BY <1>1, <2>1, <2>3, QuietStep DEF cluster
<1> QED
  BY <1>3, <1>4, <1>5, <1>6

\* One object is deleted, or the call that deletes it fails.
LEMMA DeleteKeeps ==
  ASSUME SerialIInv, OneAtATime, IInv', NEW r \in Requests, DeleteObject(r) \/ DeleteFails(r)
  PROVE  SerialIInv'
<1> DEFINE q == req[r]
           row == rows[q.app]
           k == NextToDelete(q.todo)
           q1 == [q EXCEPT !.todo = @ \ {k}]
<1>1. /\ req[r] # Idle /\ q.step = "delete" /\ UNCHANGED <<rows, issued>>
      /\ req' = [req EXCEPT ![r] = q1]
  BY DEF DeleteObject, DeleteFails, At
<1>2. /\ q \in Request /\ q.app \in Apps /\ Held(q, row) /\ row \in Row /\ q.copy \in Row
      /\ Stray(row, objects[q.app])
      /\ Reliable => During(q, row, objects[q.app], running[q.app])
  BY <1>1, Working
<1>3. /\ q1 \in Request /\ q1.op = q.op /\ q1.app = q.app /\ q1.copy = q.copy
      /\ q1.want = q.want /\ q1.step = "delete"
  BY <1>1, <1>2 DEF Request
<1>4. q1 # Idle
  BY <1>3, ConstantsAssumption
<1> HIDE DEF q1
<1>5. Held(q1, row)
  BY <1>1, <1>2, <1>3 DEF Held, StepFits, Deploying
<1>6. Ahead(q) \/ row.status \in {"ERROR", "DELETED"}
  BY <1>1, <1>2 DEF Held, StepFits, Ahead, Row
<1>7. ASSUME NEW objs, NEW run, objs \subseteq objects[q.app]
      PROVE  Fine(q1, row, objs, run)
  <2>1. row # Absent /\ Stray(row, objs)
    BY <1>2, <1>7 DEF Stray, Held
  <2>2. ASSUME Reliable PROVE During(q1, row, objs, run)
    BY <1>1, <1>2, <1>3, <1>6, <1>7, <2>2 DEF During, Ahead, Deploying, Matches
  <2> QED
    BY <1>4, <1>5, <2>1, <2>2 DEF Fine
<1>8. CASE DeleteObject(r)
  <2> DEFINE objs == objects[q.app] \ {k}
             run == IF k = "deployment" THEN 0 ELSE running[q.app]
  <2>1. Becomes(r, q1, row, objs, run)
    BY <1>1, <1>2, <1>8, ThreadIs
    DEF Becomes, DeleteObject, RemoveObject, SerialIInv, IInv, TypeOK
  <2>2. Fine(q1, row, objs, run)
    BY <1>7
  <2> HIDE DEF objs, run
  <2> QED
    BY <1>1, <1>3, <2>1, <2>2, StepKeeps
<1>9. CASE DeleteFails(r)
  <2>1. Becomes(r, q1, row, objects[q.app], running[q.app])
    BY <1>1, <1>9, ThreadIs DEF Becomes, DeleteFails, cluster
  <2>2. Fine(q1, row, objects[q.app], running[q.app])
    BY <1>7
  <2> QED
    BY <1>1, <1>3, <2>1, <2>2, StepKeeps
<1> QED
  BY <1>8, <1>9

\* A step of a deployment that only says what comes next.
LEMMA GoesOn ==
  ASSUME SerialIInv, OneAtATime, IInv', NEW r \in Requests, NEW step \in Steps,
         <<req[r].step, step>> \in {<<"prepare", "namespace">>, <<"namespace", "image">>,
                                   <<"await", "url">>, <<"url", "finish">>},
         req[r] # Idle, Goto(r, step), WriteBack(r, req[r].copy) \/ UNCHANGED rows,
         UNCHANGED <<issued, objects, running>>
  PROVE  SerialIInv'
<1> DEFINE q == req[r]
           row == rows[q.app]
<1>1. /\ Held(q, row) /\ q.step # "delete"
      /\ Reliable => During(q, row, objects[q.app], running[q.app])
  BY Working
<1>2. \A b \in Apps : rows'[b] = rows[b]
  BY <1>1, SavedUnchanged
<1>3. PICK q1 \in Request :
         /\ req' = [req EXCEPT ![r] = q1]
         /\ q1.op = q.op /\ q1.app = q.app /\ q1.copy = q.copy
         /\ q1.todo = q.todo /\ q1.want = q.want /\ q1.step = step
  BY GotoIs
<1>4. q1 # Idle
  BY ConstantsAssumption
<1>5. Held(q1, row)
  BY <1>1, <1>3 DEF Held, StepFits, Deploying
<1>6. ASSUME Reliable PROVE During(q1, row, objects[q.app], running[q.app])
  <2>1. Ahead(q1) <=> Ahead(q)
    BY <1>1, <1>3 DEF Ahead, Deploying, Held, StepFits
  <2> QED
    BY <1>1, <1>3, <1>6, <2>1 DEF During
<1> QED
  BY <1>2, <1>3, <1>4, <1>5, <1>6, QuietStep

\* A request that has not got ahead of its row ends.
LEMMA EndsEarly ==
  ASSUME SerialIInv, OneAtATime, IInv', NEW r \in Requests, req[r] # Idle, End(r),
         req[r].step \in {"prepare", "image", "scale"} \/ req[r].op = "userDelete",
         (req[r].step # "delete" /\ WriteBack(r, req[r].copy)) \/ UNCHANGED rows,
         UNCHANGED <<issued, objects, running>>
  PROVE  SerialIInv'
<1> DEFINE q == req[r]
           row == rows[q.app]
<1>1. /\ Held(q, row) /\ InProgress(q)
      /\ Reliable => During(q, row, objects[q.app], running[q.app])
  BY Working
<1>2. \A b \in Apps : rows'[b] = rows[b]
  BY <1>1, SavedUnchanged
<1>3. ~Ahead(q)
  BY <1>1 DEF Ahead, Deploying, Held, StepFits, InProgress
<1>4. Reliable => AtRest(row, objects[q.app], running[q.app])
  BY <1>1, <1>3, MayEnd
<1> QED
  BY <1>2, <1>4, QuietStep DEF End

LEMMA CheckImageKeeps ==
  ASSUME SerialIInv, OneAtATime, IInv', NEW r \in Requests, CheckImage(r)
  PROVE  SerialIInv'
<1> DEFINE q == req[r]
           row == rows[q.app]
           q1 == [q EXCEPT !.step = "create", !.todo = Kinds]
<1>1. req[r] # Idle /\ q.step = "image" /\ UNCHANGED <<issued, objects, running>>
  BY DEF CheckImage, At, cluster
<1>2. /\ q \in Request /\ Held(q, row)
      /\ Reliable => During(q, row, objects[q.app], running[q.app])
  BY <1>1, Working
<1>3. \A b \in Apps : rows'[b] = rows[b]
  BY <1>1, SavedUnchanged DEF CheckImage
<1>4. req' = [req EXCEPT ![r] = q1]
  BY DEF CheckImage
<1>5. /\ q1 \in Request /\ q1.op = q.op /\ q1.app = q.app /\ q1.copy = q.copy
      /\ q1.want = q.want /\ q1.step = "create" /\ q1.todo = Kinds
  BY <1>2 DEF Request, Steps
<1> HIDE DEF q1
<1>6. Held(q1, row)
  BY <1>1, <1>2, <1>5 DEF Held, StepFits, Deploying
<1>7. ASSUME Reliable PROVE During(q1, row, objects[q.app], running[q.app])
  <2>1. Ahead(q1) /\ "deployment" \in Kinds
    BY <1>5 DEF Ahead, Deploying, Kinds
  <2> QED
    BY <1>1, <1>2, <1>5, <1>6, <1>7, <2>1 DEF During, Held, StepFits, Deploying
<1> QED
  BY <1>1, <1>3, <1>4, <1>5, <1>6, <1>7, QuietStep, ConstantsAssumption

\* The next object is named already, or the next to be named.
LEMMA CreatedNext ==
  ASSUME SerialIInv, NEW r \in Requests, req[r] # Idle, req[r].step = "create"
  PROVE  Stray(rows[req[r].app], objects[req[r].app] \cup {NextToCreate(req[r].todo)})
<1> DEFINE q == req[r]
           row == rows[q.app]
           k == NextToCreate(q.todo)
<1>1. /\ Held(q, row) /\ RowOK(row) /\ InProgress(q) /\ row.names \subseteq Kinds
      /\ row = q.copy /\ objects[q.app] \in SUBSET Kinds /\ Stray(row, objects[q.app])
  BY Working DEF Held, Row
<1>2. q.todo \in {Kinds, {"service", "ingress"}, {"ingress"}} /\ Kinds \ q.todo \subseteq row.names
  BY <1>1 DEF Held, StepFits, InProgress
<1>3. k \in row.names \/ k = NextToCreate(Kinds \ row.names)
  BY <1>1, <1>2 DEF NextToCreate, Kinds, RowOK, NamesInOrder
<1> HIDE DEF k
<1>4. Stray(row, objects[q.app] \cup {k})
  BY <1>1, <1>3 DEF Stray
<1> QED
  BY <1>4 DEF k

LEMMA CreateObjectKeeps ==
  ASSUME SerialIInv, OneAtATime, IInv', NEW r \in Requests, CreateObject(r)
  PROVE  SerialIInv'
<1> DEFINE q == req[r]
           a == q.app
           row == rows[a]
           k == NextToCreate(q.todo)
           objs1 == objects[a] \cup {k}
           run1 == IF k = "deployment" THEN AtLeastOne(q.want) ELSE running[a]
<1>1. req[r] # Idle /\ q.step = "create" /\ k \notin objects[a]
  BY DEF CreateObject, CreateEffect, At
<1>2. /\ q \in Request /\ a \in Apps /\ Held(q, row) /\ RowOK(row) /\ InProgress(q)
      /\ row \in Row /\ row = q.copy /\ objects[a] \in SUBSET Kinds
      /\ Stray(row, objects[a])
      /\ Reliable => During(q, row, objects[a], running[a])
  BY <1>1, Working DEF Held
<1>3. PICK q1 \in Request :
         /\ req' = [req EXCEPT ![r] = q1]
         /\ q1.op = q.op /\ q1.app = a /\ q1.copy = q.copy
         /\ q1.todo = q.todo /\ q1.want = q.want /\ q1.step = "saveName"
  BY <1>1, GotoIs DEF CreateObject, Steps
<1>4. q1 # Idle
  BY ConstantsAssumption
<1>5. Becomes(r, q1, row, objs1, run1)
  <2>1. \A t \in Requests : req'[t] = IF t = r THEN q1 ELSE req[t]
    BY <1>3, ThreadIs
  <2>2. /\ rows' = rows /\ issued' = issued
        /\ \A b \in Apps : objects'[b] = IF b = a THEN objs1 ELSE objects[b]
        /\ \A b \in Apps : running'[b] = IF b = a THEN run1 ELSE running[b]
    BY <1>2 DEF CreateObject, CreateEffect, SerialIInv, IInv, TypeOK
  <2> HIDE DEF objs1, run1
  <2> QED
    BY <2>1, <2>2 DEF Becomes
<1>6. q.todo \in {Kinds, {"service", "ingress"}, {"ingress"}} /\ Kinds \ q.todo \subseteq row.names
  BY <1>1, <1>2 DEF Held, StepFits, InProgress
<1>7. Stray(row, objs1)
  BY <1>1, CreatedNext
<1>8. Held(q1, row)
  BY <1>1, <1>2, <1>3 DEF Held, StepFits, Deploying
<1>9. ASSUME Reliable PROVE During(q1, row, objs1, run1)
  <2>1. During(q, row, objects[a], running[a])
    BY <1>2, <1>9
  <2>2. /\ Ahead(q1) /\ objects[a] \subseteq row.names
        /\ Kinds \ q.todo \subseteq objects[a]
        /\ "deployment" \notin q.todo => running[a] = AtLeastOne(q.want)
    BY <1>1, <1>3, <2>1 DEF During, Ahead, Deploying
  <2>3. /\ "deployment" \in q.todo => k = "deployment"
        /\ "deployment" \notin q.todo => k # "deployment"
    BY <1>6 DEF NextToCreate, Kinds
  <2>4. /\ Kinds \ q1.todo \subseteq objs1 /\ objs1 \subseteq row.names \cup {k} /\ k \in objs1
        /\ run1 = AtLeastOne(q1.want) /\ k = NextToCreate(q1.todo)
    BY <1>3, <2>2, <2>3
  <2> HIDE DEF k, objs1, run1
  <2>5. q1.op = "process"
    BY <1>1, <1>2, <1>3 DEF Held, StepFits, Deploying
  <2> QED
    BY <1>3, <2>2, <2>4, <2>5 DEF During
<1>10. Fine(q1, row, objs1, run1)
  BY <1>2, <1>4, <1>7, <1>8, <1>9 DEF Fine, Held
<1> HIDE DEF objs1, run1
<1> QED
  BY <1>1, <1>3, <1>5, <1>10, StepKeeps

\* The object just created is named.
LEMMA SaveNameKeeps ==
  ASSUME SerialIInv, OneAtATime, IInv', NEW r \in Requests, SaveName(r)
  PROVE  SerialIInv'
<1> DEFINE q == req[r]
           a == q.app
           row == rows[a]
           k == NextToCreate(q.todo)
           rest == q.todo \ {k}
           row1 == [q.copy EXCEPT !.names = @ \cup {k}]
           next == IF rest = {} THEN "await" ELSE "create"
           q1 == [q EXCEPT !.copy = row1, !.todo = rest, !.step = next]
<1>1. /\ req[r] # Idle /\ q.step = "saveName" /\ UNCHANGED <<issued, objects, running>>
      /\ WriteBack(r, row1) /\ req' = [req EXCEPT ![r] = q1]
  BY DEF SaveName, At, cluster
<1>2. /\ q \in Request /\ a \in Apps /\ Held(q, row) /\ RowOK(row) /\ InProgress(q)
      /\ row \in Row /\ row = q.copy /\ objects[a] \in SUBSET Kinds
      /\ Stray(row, objects[a]) /\ q.op = "process" /\ row.status \in {"PENDING", "ERROR"}
      /\ Reliable => During(q, row, objects[a], running[a])
  BY <1>1, Working DEF Held, StepFits, Deploying
<1>3. q.todo \in {Kinds, {"service", "ingress"}, {"ingress"}} /\ Kinds \ q.todo \subseteq row.names
  BY <1>1, <1>2 DEF Held, StepFits, InProgress
<1>4. /\ rest \in {{"service", "ingress"}, {"ingress"}, {}}
      /\ k \in Kinds /\ k \in q.todo /\ "deployment" \notin rest
      /\ k \in row.names \/ k = NextToCreate(Kinds \ row.names)
  <2>1. row.names \subseteq Kinds
    BY <1>2 DEF Row
  <2> QED
    BY <1>2, <1>3, <2>1 DEF NextToCreate, Kinds, RowOK, NamesInOrder
<1>5. /\ row1 \in Row /\ row1.names = row.names \cup {k} /\ row1.status = row.status
      /\ row1 # Absent
  BY <1>2, <1>4, ConstantsAssumption DEF Row
<1> HIDE DEF row1
<1>6. /\ q1 \in Request /\ q1.op = "process" /\ q1.app = a /\ q1.copy = row1
      /\ q1.want = q.want /\ q1.step = next /\ q1.todo = rest
  BY <1>2, <1>3, <1>5 DEF Request, Steps
<1> HIDE DEF q1
<1>7. next \in {"await", "create"} /\ (next = "create" => rest # {}) /\ (next = "await" => rest = {})
  OBVIOUS
<1>8. Held(q1, row1)
  BY <1>2, <1>4, <1>5, <1>6, <1>7 DEF Held, StepFits, Deploying
<1> HIDE DEF next
<1>9. Stray(row1, objects[a])
  BY <1>2, <1>4, <1>5 DEF Stray
<1>10. ASSUME Reliable PROVE During(q1, row1, objects[a], running[a])
  <2>1. During(q, row, objects[a], running[a])
    BY <1>2, <1>10
  <2>2. /\ objects[a] \subseteq row1.names /\ Kinds \ q.todo \subseteq objects[a] /\ k \in objects[a]
        /\ running[a] = AtLeastOne(q.want)
    BY <1>1, <1>5, <2>1 DEF During
  <2>3. Kinds \ rest \subseteq objects[a] /\ (rest = {} => objects[a] = Kinds)
    BY <1>2, <2>2
  <2>4. Ahead(q1)
    BY <1>6, <1>7 DEF Ahead, Deploying
  <2> HIDE DEF rest, k
  <2> QED
    BY <1>4, <1>6, <1>7, <2>2, <2>3, <2>4 DEF During
<1>11. q1 # Idle
  BY <1>6, ConstantsAssumption
<1>12. Fine(q1, row1, objects[a], running[a])
  BY <1>5, <1>8, <1>9, <1>10, <1>11 DEF Fine
<1> QED
  BY <1>1, <1>6, <1>12, SaveStep

\* A request saves its row and ends.
LEMMA SavesAndEnds ==
  ASSUME SerialIInv, OneAtATime, IInv', NEW r \in Requests, req[r] # Idle, End(r),
         NEW row1, row1 # Absent, WriteBack(r, row1), UNCHANGED <<issued, objects, running>>,
         Stray(row1, objects[req[r].app]),
         Reliable => AtRest(row1, objects[req[r].app], running[req[r].app])
  PROVE  SerialIInv'
<1>1. Fine(Idle, row1, objects[req[r].app], running[req[r].app])
  BY DEF Fine
<1> QED
  BY <1>1, SaveStep DEF End

LEMMA FinishKeeps ==
  ASSUME SerialIInv, OneAtATime, IInv', NEW r \in Requests, Finish(r)
  PROVE  SerialIInv'
<1> DEFINE q == req[r]
           objs == objects[q.app]
           row1 == [q.copy EXCEPT !.status = "RUNNING", !.names = Kinds,
                                  !.replicas = SetReplicas(q.want)]
<1>1. /\ req[r] # Idle /\ q.step = "finish" /\ UNCHANGED <<issued, objects, running>>
      /\ WriteBack(r, row1) /\ End(r)
  BY DEF Finish, At, cluster
<1>2. /\ q \in Request /\ q.copy \in Row /\ objs \in SUBSET Kinds
      /\ Reliable => During(q, rows[q.app], objs, running[q.app])
  BY <1>1, Working
<1>3. SetReplicas(q.want) \in Nat
  BY <1>2, ConstantsAssumption DEF Request, SetReplicas, Replicas
<1>4. /\ row1 \in Row /\ row1.status = "RUNNING" /\ row1.names = Kinds
      /\ row1.replicas = SetReplicas(q.want)
  BY <1>2, <1>3 DEF Row, Statuses
<1> HIDE DEF row1
<1>5. Stray(row1, objs)
  BY <1>2, <1>4 DEF Stray
<1>6. ASSUME Reliable PROVE AtRest(row1, objs, running[q.app])
  <2>1. objs = Kinds /\ running[q.app] = AtLeastOne(q.want)
    BY <1>1, <1>2, <1>6 DEF During
  <2>2. AtLeastOne(q.want) = IF SetReplicas(q.want) = 0 THEN 1 ELSE SetReplicas(q.want)
    BY <1>2, ConstantsAssumption DEF AtLeastOne, SetReplicas, Request
  <2> QED
    BY <1>4, <2>1, <2>2 DEF AtRest, Matches
<1> QED
  BY <1>1, <1>4, <1>5, <1>6, SavesAndEnds, ConstantsAssumption

LEMMA FailKeeps ==
  ASSUME SerialIInv, OneAtATime, IInv', NEW r \in Requests, Fail(r)
  PROVE  SerialIInv'
<1> DEFINE q == req[r]
           objs == objects[q.app]
           row1 == [q.copy EXCEPT !.status = "ERROR"]
<1>1. /\ req[r] # Idle /\ q.step = "fail" /\ UNCHANGED <<issued, objects, running>>
      /\ WriteBack(r, row1) /\ End(r)
  BY DEF Fail, At, cluster
<1>2. /\ q \in Request /\ q.copy \in Row /\ Stray(q.copy, objs) /\ q.copy = rows[q.app]
      /\ Reliable => During(q, q.copy, objs, running[q.app])
  BY <1>1, Working DEF Held
<1>3. row1 \in Row /\ row1.status = "ERROR" /\ row1.names = q.copy.names
  BY <1>2 DEF Row, Statuses
<1> HIDE DEF row1
<1>4. Stray(row1, objs)
  BY <1>2, <1>3 DEF Stray
<1>5. ASSUME Reliable PROVE AtRest(row1, objs, running[q.app])
  BY <1>1, <1>2, <1>3, <1>5 DEF AtRest, Matches, During
<1> QED
  BY <1>1, <1>3, <1>4, <1>5, SavesAndEnds, ConstantsAssumption

\* A request that saves a changed row without having touched the cluster.
LEMMA SaveRowKeeps ==
  ASSUME SerialIInv, OneAtATime, IInv', NEW r \in Requests,
         SaveUpdate(r) \/ SaveReject(r) \/ SaveScaleRequest(r)
  PROVE  SerialIInv'
<1> DEFINE q == req[r]
           objs == objects[q.app]
<1>1. /\ req[r] # Idle /\ q.step = "save" /\ UNCHANGED <<issued, objects, running>> /\ End(r)
      /\ q.op \in {"update", "reject", "requestScale"}
  BY DEF SaveUpdate, SaveReject, SaveScaleRequest, Saves, At, cluster
<1>2. /\ q \in Request /\ q.copy \in Row /\ Stray(q.copy, objs) /\ q.copy = rows[q.app]
      /\ Held(q, q.copy) /\ InProgress(q)
      /\ Reliable => During(q, q.copy, objs, running[q.app])
  BY <1>1, Working DEF Held
<1>3. ~Ahead(q)
  BY <1>1 DEF Ahead, Deploying
<1>4. Reliable => AtRest(q.copy, objs, running[q.app])
  BY <1>2, <1>3, MayEnd
<1>5. ASSUME NEW row1 \in Row, WriteBack(r, row1), row1.names = q.copy.names,
             AtRest(q.copy, objs, running[q.app]) => Matches(row1, objs, running[q.app])
      PROVE  SerialIInv'
  <2>1. Stray(row1, objs)
    BY <1>2, <1>5 DEF Stray
  <2>2. Reliable => AtRest(row1, objs, running[q.app])
    BY <1>4, <1>5 DEF AtRest
  <2> QED
    BY <1>1, <1>5, <2>1, <2>2, SavesAndEnds, ConstantsAssumption
<1>6. CASE UNCHANGED rows
  BY <1>1, <1>2, <1>4, <1>6, QuietStep DEF End
<1>7. CASE SaveUpdate(r)
  <2> DEFINE row1 == [q.copy EXCEPT !.replicas = SetReplicas(q.want)]
  <2>1. WriteBack(r, row1) \/ UNCHANGED rows
    BY <1>7 DEF SaveUpdate
  <2>2. SetReplicas(q.want) \in Nat
    BY <1>2, ConstantsAssumption DEF Request, SetReplicas, Replicas
  <2>3. row1 \in Row /\ row1.names = q.copy.names /\ row1.status = q.copy.status
    BY <1>2, <2>2 DEF Row
  <2> HIDE DEF row1
  <2>4. q.copy.status \in {"PENDING", "ERROR"}
    BY <1>2, <1>7 DEF InProgress, SaveUpdate, Saves
  <2>5. AtRest(q.copy, objs, running[q.app]) => Matches(row1, objs, running[q.app])
    BY <2>3, <2>4 DEF AtRest, Matches
  <2> QED
    BY <1>5, <1>6, <2>1, <2>3, <2>5
<1>8. CASE SaveReject(r)
  <2> DEFINE row1 == [q.copy EXCEPT !.status = "REJECTED"]
  <2>1. WriteBack(r, row1)
    BY <1>8 DEF SaveReject
  <2>2. row1 \in Row /\ row1.names = q.copy.names /\ row1.status = "REJECTED"
    BY <1>2 DEF Row, Statuses
  <2> HIDE DEF row1
  <2>3. q.copy.status = "PENDING"
    BY <1>2, <1>8 DEF Held, StepFits, SaveReject, Saves
  <2>4. AtRest(q.copy, objs, running[q.app]) => Matches(row1, objs, running[q.app])
    BY <2>2, <2>3 DEF AtRest, Matches
  <2> QED
    BY <1>5, <2>1, <2>2, <2>4
<1>9. CASE SaveScaleRequest(r)
  <2> DEFINE row1 == [q.copy EXCEPT !.requested = q.want]
  <2>1. WriteBack(r, row1) \/ UNCHANGED rows
    BY <1>9 DEF SaveScaleRequest
  <2>2. q.want \in 0..MaxRequested
    BY <1>2, <1>9 DEF InProgress, SaveScaleRequest, Saves
  <2>3. /\ row1 \in Row /\ row1.names = q.copy.names /\ row1.status = q.copy.status
        /\ row1.replicas = q.copy.replicas
    BY <1>2, <2>2 DEF Row
  <2> HIDE DEF row1
  <2>4. AtRest(q.copy, objs, running[q.app]) => Matches(row1, objs, running[q.app])
    BY <2>3 DEF AtRest, Matches
  <2> QED
    BY <1>5, <1>6, <2>1, <2>3, <2>4
<1> QED
  BY <1>7, <1>8, <1>9

LEMMA ScaleObjectKeeps ==
  ASSUME SerialIInv, OneAtATime, IInv', NEW r \in Requests, ScaleObject(r)
  PROVE  SerialIInv'
<1> DEFINE q == req[r]
           a == q.app
           row == rows[a]
<1>1. req[r] # Idle /\ q.step = "scale"
  BY DEF ScaleObject, At
<1>2. /\ q \in Request /\ a \in Apps /\ Held(q, row) /\ InProgress(q) /\ row = q.copy
      /\ Stray(row, objects[a]) /\ q.op = "scale"
      /\ Reliable => During(q, row, objects[a], running[a])
  BY <1>1, Working DEF Held, InProgress
<1>3. PICK q1 \in Request :
         /\ req' = [req EXCEPT ![r] = q1]
         /\ q1.op = q.op /\ q1.app = a /\ q1.copy = q.copy
         /\ q1.todo = q.todo /\ q1.want = q.want /\ q1.step = "save"
  BY <1>1, GotoIs DEF ScaleObject, Steps
<1>4. q1 # Idle
  BY ConstantsAssumption
<1>5. Becomes(r, q1, row, objects[a], q.want)
  <2>1. \A t \in Requests : req'[t] = IF t = r THEN q1 ELSE req[t]
    BY <1>3, ThreadIs
  <2>2. /\ rows' = rows /\ issued' = issued /\ objects' = objects
        /\ \A b \in Apps : running'[b] = IF b = a THEN q.want ELSE running[b]
    BY <1>2 DEF ScaleObject, ScaleEffect, SerialIInv, IInv, TypeOK
  <2> QED
    BY <2>1, <2>2 DEF Becomes
<1>6. Held(q1, row)
  BY <1>2, <1>3 DEF Held, StepFits, Deploying
<1>7. ASSUME Reliable PROVE During(q1, row, objects[a], q.want)
  <2>1. ~Ahead(q) /\ Ahead(q1)
    BY <1>1, <1>2, <1>3 DEF Ahead, Deploying
  <2>2. objects[a] = Kinds /\ objects[a] \subseteq row.names
    BY <1>1, <1>2, <1>7, <2>1 DEF During, Matches, InProgress
  <2> QED
    BY <1>3, <2>1, <2>2 DEF During
<1>8. Fine(q1, row, objects[a], q.want)
  BY <1>2, <1>4, <1>6, <1>7 DEF Fine, Held
<1> QED
  BY <1>1, <1>3, <1>5, <1>8, StepKeeps

LEMMA SaveScaleKeeps ==
  ASSUME SerialIInv, OneAtATime, IInv', NEW r \in Requests, SaveScale(r)
  PROVE  SerialIInv'
<1> DEFINE q == req[r]
           objs == objects[q.app]
           st == IF q.want = 0 THEN "PAUSED" ELSE "RUNNING"
           row1 == [q.copy EXCEPT !.status = st, !.replicas = q.want, !.requested = None]
<1>1. /\ req[r] # Idle /\ q.step = "save" /\ q.op = "scale"
      /\ UNCHANGED <<issued, objects, running>> /\ WriteBack(r, row1) /\ End(r)
  BY DEF SaveScale, Saves, At, cluster
<1>2. /\ q \in Request /\ q.copy \in Row /\ RowOK(q.copy) /\ InProgress(q)
      /\ objs \in SUBSET Kinds
      /\ Reliable => During(q, rows[q.app], objs, running[q.app])
  BY <1>1, Working
<1>3. q.want \in Nat /\ q.copy.names = Kinds
  BY <1>1, <1>2 DEF InProgress, RowOK, RunningIsNamed, Replicas
<1>4. st \in Statuses
  BY DEF Statuses
<1>5. row1 \in Row /\ row1.status = st /\ row1.names = Kinds /\ row1.replicas = q.want
  BY <1>2, <1>3, <1>4 DEF Row
<1> HIDE DEF row1
<1>6. Stray(row1, objs)
  BY <1>2, <1>5 DEF Stray
<1>7. ASSUME Reliable PROVE AtRest(row1, objs, running[q.app])
  <2>1. objs = Kinds /\ running[q.app] = q.want
    BY <1>1, <1>2, <1>7 DEF During
  <2> QED
    BY <1>5, <2>1 DEF AtRest, Matches
<1> QED
  BY <1>1, <1>5, <1>6, <1>7, SavesAndEnds, ConstantsAssumption

\* A user's deletion marks the row before it deletes the objects.
LEMMA SaveUserDeleteKeeps ==
  ASSUME SerialIInv, OneAtATime, IInv', NEW r \in Requests, SaveUserDelete(r)
  PROVE  SerialIInv'
<1> DEFINE q == req[r]
           a == q.app
           row1 == [q.copy EXCEPT !.status = "DELETED"]
           q1 == [q EXCEPT !.step = "delete", !.todo = q.copy.names]
<1>1. /\ req[r] # Idle /\ q.step = "save" /\ q.op = "userDelete"
      /\ UNCHANGED <<issued, objects, running>>
      /\ WriteBack(r, row1) /\ req' = [req EXCEPT ![r] = q1]
  BY DEF SaveUserDelete, Saves, At, cluster
<1>2. /\ q \in Request /\ q.copy \in Row /\ q.copy = rows[a] /\ Held(q, q.copy)
      /\ Stray(q.copy, objects[a])
      /\ Reliable => During(q, q.copy, objects[a], running[a])
  BY <1>1, Working DEF Held
<1>3. row1 \in Row /\ row1.status = "DELETED" /\ row1.names = q.copy.names
  BY <1>2 DEF Row, Statuses
<1>4. /\ q1 \in Request /\ q1.op = q.op /\ q1.app = a /\ q1.copy = q.copy
      /\ q1.step = "delete"
  BY <1>2 DEF Request, Steps, Row
<1> HIDE DEF q1
<1>5. Held(q1, row1)
  BY <1>1, <1>2, <1>3, <1>4, ConstantsAssumption DEF Held, StepFits, Deploying
<1> HIDE DEF row1
<1>6. Stray(row1, objects[a])
  BY <1>2, <1>3 DEF Stray
<1>7. ASSUME Reliable PROVE During(q1, row1, objects[a], running[a])
  BY <1>1, <1>2, <1>3, <1>4, <1>7 DEF During, Ahead, Deploying, Matches
<1>8. Fine(q1, row1, objects[a], running[a]) /\ q1 # Idle
  BY <1>3, <1>4, <1>5, <1>6, <1>7, ConstantsAssumption DEF Fine
<1> QED
  BY <1>1, <1>4, <1>8, SaveStep

LEMMA RemoveRowKeeps ==
  ASSUME SerialIInv, OneAtATime, IInv', NEW r \in Requests, RemoveRow(r)
  PROVE  SerialIInv'
<1>1. Fine(Idle, Absent, objects[req[r].app], running[req[r].app])
  BY DEF Fine
<1> QED
  BY <1>1, SaveStep DEF RemoveRow, At, End, cluster

\* A raising call of a deployment leads to its error handler.
LEMMA RaiseIs ==
  ASSUME SerialIInv, NEW r \in Requests, req[r] # Idle, Raise(r), req[r].op = "process",
         req[r].step \in {"namespace", "create", "await", "url"}
  PROVE  \E q1 \in Request :
           /\ req' = [req EXCEPT ![r] = q1]
           /\ q1.app = req[r].app /\ q1.op = "process" /\ q1.step = "fail"
           /\ Held(q1, rows[req[r].app])
<1> DEFINE q == req[r]
           q1 == [q EXCEPT !.step = "fail", !.todo = {}, !.want = 0]
<1>1. q \in Request /\ Held(q, rows[q.app])
  BY Working
<1>2. /\ q1 \in Request /\ q1.app = q.app /\ q1.op = "process" /\ q1.step = "fail"
      /\ q1.copy = q.copy
  <2>1. 0 \in Int /\ {} \in SUBSET Kinds /\ "fail" \in Steps
    BY ConstantsAssumption DEF Steps
  <2> QED
    BY <1>1, <2>1 DEF Request
<1>3. req' = [req EXCEPT ![r] = q1]
  BY DEF Raise
<1> HIDE DEF q1
<1>4. Held(q1, rows[q.app])
  BY <1>1, <1>2 DEF Held, StepFits, Deploying
<1> QED
  BY <1>2, <1>3, <1>4

\* A call fails.
LEMMA CallFailsKeeps ==
  ASSUME SerialIInv, OneAtATime, IInv', NEW r \in Requests, CallFails(r)
  PROVE  SerialIInv'
<1> DEFINE q == req[r]
           row == rows[q.app]
<1>1. /\ req[r] # Idle /\ UNCHANGED <<rows, issued, objects, running>> /\ CallRaises(r)
      /\ q.step \in {"namespace", "create", "await", "url", "scale"}
  BY DEF CallFails, cluster
<1>2. /\ Held(q, row) /\ InProgress(q)
      /\ Reliable => During(q, row, objects[q.app], running[q.app])
  BY <1>1, Working
<1>3. CASE q.op = "process"
  <2>1. q.step # "scale" /\ Raise(r)
    BY <1>1, <1>2, <1>3 DEF InProgress, CallRaises
  <2>2. PICK q1 \in Request :
           /\ req' = [req EXCEPT ![r] = q1]
           /\ q1.app = q.app /\ q1.op = "process" /\ q1.step = "fail" /\ Held(q1, row)
    BY <1>1, <1>3, <2>1, RaiseIs
  <2>3. ASSUME Reliable PROVE During(q1, row, objects[q.app], running[q.app])
    BY <1>1, <1>2, <2>2, <2>3 DEF During, Ahead
  <2> QED
    BY <1>1, <2>2, <2>3, QuietStep, ConstantsAssumption
<1>4. CASE q.op # "process"
  <2>1. q.step = "scale" /\ End(r)
    BY <1>1, <1>2, <1>4 DEF Held, StepFits, Deploying, CallRaises
  <2> QED
    BY <1>1, <2>1, EndsEarly
<1> QED
  BY <1>3, <1>4

\* A call takes effect and its answer is lost: what it created may stay unnamed.
LEMMA ReplyLostKeeps ==
  ASSUME SerialIInv, OneAtATime, IInv', NEW r \in Requests, ReplyLost(r)
  PROVE  SerialIInv'
<1> DEFINE q == req[r]
           a == q.app
           row == rows[a]
<1>1. /\ req[r] # Idle /\ q.step \in {"namespace", "create", "scale"} /\ CallRaises(r)
      /\ UNCHANGED <<rows, issued>> /\ ~Reliable
  BY DEF ReplyLost, At, Reliable
<1>2. /\ Held(q, row) /\ InProgress(q) /\ a \in Apps /\ Stray(row, objects[a])
  BY <1>1, Working
<1>3. ASSUME NEW objs1, NEW run1, Stray(row, objs1),
             \A b \in Apps : objects'[b] = IF b = a THEN objs1 ELSE objects[b],
             \A b \in Apps : running'[b] = IF b = a THEN run1 ELSE running[b]
      PROVE  SerialIInv'
  <2>1. ASSUME NEW q1, req' = [req EXCEPT ![r] = q1],
               q1 # Idle => q1.app = a, q1 # Idle => Held(q1, row)
        PROVE  SerialIInv'
    <3>1. \A t \in Requests : req'[t] = IF t = r THEN q1 ELSE req[t]
      BY <2>1, ThreadIs
    <3>2. Becomes(r, q1, row, objs1, run1)
      BY <1>1, <1>3, <3>1 DEF Becomes
    <3>3. Fine(q1, row, objs1, run1)
      BY <1>1, <1>2, <1>3, <2>1 DEF Fine, Held
    <3> QED
      BY <1>1, <2>1, <3>2, <3>3, StepKeeps
  <2>2. CASE q.op = "process"
    <3>1. q.step # "scale" /\ Raise(r)
      BY <1>1, <1>2, <2>2 DEF InProgress, CallRaises
    <3> QED
      BY <1>1, <2>1, <2>2, <3>1, RaiseIs
  <2>3. CASE q.op # "process"
    BY <1>1, <2>1, <2>3 DEF CallRaises, End
  <2> QED
    BY <2>2, <2>3
<1>4. CASE q.step = "namespace"
  <2>1. UNCHANGED <<objects, running>>
    BY <1>4 DEF ReplyLost, At, EnsureNamespaceEffect
  <2> QED
    BY <1>2, <1>3, <2>1
<1>5. CASE q.step = "create"
  <2> DEFINE k == NextToCreate(q.todo)
             objs1 == objects[a] \cup {k}
             run1 == IF k = "deployment" THEN AtLeastOne(q.want) ELSE running[a]
  <2>1. Stray(row, objs1)
    BY <1>1, <1>5, CreatedNext
  <2>2. CreateEffect(r)
    BY <1>5 DEF ReplyLost, At
  <2>3. /\ \A b \in Apps : objects'[b] = IF b = a THEN objs1 ELSE objects[b]
        /\ \A b \in Apps : running'[b] = IF b = a THEN run1 ELSE running[b]
    BY <1>2, <2>2 DEF CreateEffect, SerialIInv, IInv, TypeOK
  <2> HIDE DEF objs1, run1
  <2> QED
    BY <1>3, <2>1, <2>3
<1>6. CASE q.step = "scale"
  <2>1. ScaleEffect(r)
    BY <1>6 DEF ReplyLost, At
  <2> DEFINE objs1 == objects[a]
             run1 == q.want
  <2>2. /\ \A b \in Apps : objects'[b] = IF b = a THEN objs1 ELSE objects[b]
        /\ \A b \in Apps : running'[b] = IF b = a THEN run1 ELSE running[b]
    BY <1>2, <2>1 DEF ScaleEffect, SerialIInv, IInv, TypeOK
  <2>3. Stray(row, objs1)
    BY <1>2
  <2> HIDE DEF objs1, run1
  <2> QED
    BY <1>3, <2>2, <2>3
<1> QED
  BY <1>1, <1>4, <1>5, <1>6

\* A request starts on an application on which nothing else is at work.
LEMMA StartKeeps ==
  ASSUME SerialIInv, OneAtATime', IInv', NEW r \in Requests, NEW a \in Apps,
         NEW op \in Ops, NEW step \in {"delete", "prepare", "scale", "save", "removeRow"},
         NEW todo \in SUBSET Kinds, NEW want \in Int,
         op = "scale" => step # "save", op = "userDelete" => step # "delete",
         Begin(r, a, op, step, todo, want),
         StepFits([op |-> op, step |-> step, app |-> a, copy |-> rows[a],
                   todo |-> todo, want |-> want])
  PROVE  SerialIInv'
<1> DEFINE q1 == [op |-> op, step |-> step, app |-> a, copy |-> rows[a],
                  todo |-> todo, want |-> want]
<1>1. /\ req[r] = Idle /\ rows[a] # Absent /\ UNCHANGED <<rows, issued, objects, running>>
      /\ req' = [req EXCEPT ![r] = q1]
  BY DEF Begin, cluster
<1>2. rows[a] \in Row /\ step \in Steps
  BY <1>1 DEF SerialIInv, IInv, TypeOK, Steps
<1>3. /\ q1 \in Request /\ q1.op = op /\ q1.app = a /\ q1.copy = rows[a] /\ q1.step = step
      /\ StepFits(q1)
  BY <1>2 DEF Request
<1> HIDE DEF q1
<1>4. q1 # Idle
  BY <1>3, ConstantsAssumption
<1>5. \A t \in Requests : req'[t] = IF t = r THEN q1 ELSE req[t]
  BY <1>1, ThreadIs
<1>6. ~Busy(a)
  BY <1>1, <1>3, <1>4, <1>5 DEF OneAtATime, Busy
<1>7. Held(q1, rows[a])
  BY <1>1, <1>3 DEF Held
<1>8. ASSUME Reliable PROVE During(q1, rows[a], objects[a], running[a])
  <2>1. AtRest(rows[a], objects[a], running[a])
    BY <1>1, <1>6, <1>8 DEF SerialIInv
  <2>2. q1.step \notin {"create", "saveName", "await", "url", "finish"}
    BY <1>3
  <2>3. ~(q1.op = "scale" /\ q1.step = "save")
    BY <1>3
  <2> QED
    BY <2>1, <2>2, <2>3 DEF During, AtRest
<1>9. ASSUME NEW t \in Requests, req'[t] # Idle PROVE Held(req'[t], rows'[req'[t].app])
  BY <1>1, <1>3, <1>5, <1>7, <1>9 DEF SerialIInv
<1>10. ASSUME Reliable, NEW t \in Requests, req'[t] # Idle
       PROVE  During(req'[t], rows'[req'[t].app], objects'[req'[t].app], running'[req'[t].app])
  BY <1>1, <1>3, <1>5, <1>8, <1>10 DEF SerialIInv
<1>11. ASSUME Reliable, NEW b \in Apps, rows'[b] # Absent, ~Busy(b)'
       PROVE  AtRest(rows'[b], objects'[b], running'[b])
  <2>1. ~Busy(b)
    BY <1>1, <1>5, <1>11 DEF Busy
  <2> QED
    BY <1>1, <1>11, <2>1 DEF SerialIInv
<1>12. /\ \A b \in Apps : b \notin issued' => rows'[b] = Absent /\ objects'[b] = {}
       /\ \A b \in Apps : rows'[b] # Absent => Stray(rows'[b], objects'[b])
  BY <1>1 DEF SerialIInv
<1> QED
  BY <1>9, <1>10, <1>11, <1>12 DEF SerialIInv

LEMMA StartsKeep ==
  ASSUME SerialIInv, OneAtATime', IInv', NEW r \in Requests, Arrival(r)
  PROVE  SerialIInv'
<1> USE ConstantsAssumption DEF Ops, Replicas
<1>1. PICK a \in Apps :
        \/ \E n \in ReplicaInputs :
             StartProcess(r, a, n) \/ StartScale(r, a, n)
               \/ StartUpdate(r, a, n) \/ StartScaleRequest(r, a, n)
        \/ StartReject(r, a)
        \/ StartUserDelete(r, a)
        \/ StartAdminDelete(r, a)
  BY DEF Arrival
<1>2. rows[a] # Absent => rows[a] \in Row /\ rows[a].names \in SUBSET Kinds
  BY DEF SerialIInv, IInv, TypeOK, Row
<1>3. {} \in SUBSET Kinds /\ 0 \in Int
  OBVIOUS
<1>4. ASSUME NEW n \in ReplicaInputs, StartProcess(r, a, n) PROVE SerialIInv'
  <2>1. n \in Int
    OBVIOUS
  <2>2. CASE rows[a].status = "ERROR" /\ "deployment" \in rows[a].names
    <3>1. Begin(r, a, "process", "delete", rows[a].names, n)
      BY <1>4, <2>2 DEF StartProcess
    <3> QED BY <3>1, <1>2, <1>4, <2>1, <2>2, StartKeeps DEF StartProcess, StepFits, Deploying
  <2>3. CASE ~(rows[a].status = "ERROR" /\ "deployment" \in rows[a].names)
    <3>1. Begin(r, a, "process", "prepare", {}, n) /\ rows[a].status \in {"PENDING", "ERROR"}
      BY <1>4, <2>3 DEF StartProcess
    <3> QED BY <3>1, <1>3, <2>1, StartKeeps DEF StepFits, Deploying
  <2> QED BY <2>2, <2>3
<1>5. ASSUME NEW n \in ReplicaInputs, StartScale(r, a, n) PROVE SerialIInv'
  BY <1>3, <1>5, StartKeeps DEF StartScale, StepFits, Deploying
<1>6. ASSUME NEW n \in ReplicaInputs, StartUpdate(r, a, n) PROVE SerialIInv'
  BY <1>3, <1>6, StartKeeps DEF StartUpdate, StepFits, Deploying
<1>7. ASSUME NEW n \in ReplicaInputs, StartScaleRequest(r, a, n) PROVE SerialIInv'
  BY <1>3, <1>7, StartKeeps DEF StartScaleRequest, StepFits, Deploying
<1>8. CASE StartReject(r, a)
  BY <1>3, <1>8, StartKeeps DEF StartReject, StepFits, Deploying
<1>9. CASE StartUserDelete(r, a)
  BY <1>3, <1>9, StartKeeps DEF StartUserDelete, StepFits, Deploying
<1>10. CASE StartAdminDelete(r, a)
  <2>1. CASE "deployment" \in rows[a].names
    <3>1. Begin(r, a, "adminDelete", "delete", rows[a].names, 0)
      BY <1>10, <2>1 DEF StartAdminDelete
    <3> QED BY <3>1, <1>2, <1>3, <1>10, StartKeeps DEF StartAdminDelete, StepFits, Deploying
  <2>2. CASE "deployment" \notin rows[a].names
    <3>1. Begin(r, a, "adminDelete", "removeRow", {}, 0)
      BY <1>10, <2>2 DEF StartAdminDelete
    <3> QED BY <3>1, <1>3, StartKeeps DEF StepFits, Deploying
  <2> QED BY <2>1, <2>2
<1> QED BY <1>1, <1>4, <1>5, <1>6, <1>7, <1>8, <1>9, <1>10

\* An uploaded request starts under an id that nothing was created under.
LEMMA UploadKeeps ==
  ASSUME SerialIInv, NEW a \in Apps, CreateApplication(a), IInv'
  PROVE  SerialIInv'
<1> DEFINE row == [status |-> "PENDING", names |-> {}, replicas |-> 1, requested |-> None]
<1>1. /\ a \notin issued /\ rows[a] = Absent /\ objects[a] = {}
      /\ issued' = issued \cup {a} /\ UNCHANGED <<objects, running, req>>
      /\ \A b \in Apps : rows'[b] = IF b = a THEN row ELSE rows[b]
  BY DEF CreateApplication, cluster, SerialIInv, IInv, TypeOK
<1>2. row.status = "PENDING" /\ row.names = {}
  OBVIOUS
<1> HIDE DEF row
<1>3. Stray(row, {}) /\ AtRest(row, {}, running[a])
  BY <1>2 DEF Stray, AtRest, Matches
<1>4. \A t \in Requests : req[t] # Idle => req[t].app # a /\ req[t].app \in Apps
  BY <1>1, Working DEF Held
<1>5. /\ \A b \in Apps : b \notin issued' => rows'[b] = Absent /\ objects'[b] = {}
      /\ \A b \in Apps : rows'[b] # Absent => Stray(rows'[b], objects'[b])
  BY <1>1, <1>3 DEF SerialIInv
<1>6. \A t \in Requests : req'[t] # Idle => Held(req'[t], rows'[req'[t].app])
  BY <1>1, <1>4 DEF SerialIInv
<1>7. ASSUME Reliable, NEW t \in Requests, req'[t] # Idle
      PROVE  During(req'[t], rows'[req'[t].app], objects'[req'[t].app], running'[req'[t].app])
  BY <1>1, <1>4, <1>7 DEF SerialIInv
<1>8. ASSUME Reliable, NEW b \in Apps, rows'[b] # Absent, ~Busy(b)'
      PROVE  AtRest(rows'[b], objects'[b], running'[b])
  BY <1>1, <1>3, <1>8 DEF SerialIInv, Busy
<1> QED
  BY <1>5, <1>6, <1>7, <1>8 DEF SerialIInv

\* After a crash no request is left to work with its copy.
LEMMA RestartKeeps ==
  ASSUME SerialIInv, Crash, IInv'
  PROVE  SerialIInv'
<1>1. /\ ~Reliable /\ UNCHANGED <<rows, issued, objects, running>>
      /\ \A t \in Requests : req'[t] = Idle
  BY DEF Crash, Reliable, cluster
<1> QED
  BY <1>1 DEF SerialIInv, Reliable

-------------------------------------------------------------------------------
(* The invariant                                                             *)

LEMMA InitSerial == Init => SerialIInv
BY InitIInv DEF Init, SerialIInv, Busy

LEMMA HandlerKeeps ==
  ASSUME SerialIInv, OneAtATime, IInv', NEW r \in Requests, HandlerStep(r)
  PROVE  SerialIInv'
<1>1. CASE DeletionDone(r) \/ DeleteObject(r) \/ DeleteFails(r)
  BY <1>1, DeletionDoneKeeps, DeleteKeeps
<1>2. CASE Prepare(r) \/ EnsureNamespace(r) \/ AwaitReady(r) \/ GetUrl(r)
  BY <1>2, GoesOn DEF Prepare, EnsureNamespace, EnsureNamespaceEffect, AwaitReady, GetUrl,
                      At, cluster, Steps
<1>3. CASE PrepareRefused(r) \/ ImageInvalid(r)
  BY <1>3, EndsEarly DEF PrepareRefused, ImageInvalid, At, cluster
<1>4. CASE CheckImage(r) \/ CreateObject(r) \/ SaveName(r) \/ Finish(r) \/ Fail(r)
  BY <1>4, CheckImageKeeps, CreateObjectKeeps, SaveNameKeeps, FinishKeeps, FailKeeps
<1>5. CASE \/ ScaleObject(r) \/ SaveScale(r) \/ SaveUpdate(r) \/ SaveReject(r)
           \/ SaveScaleRequest(r) \/ SaveUserDelete(r) \/ RemoveRow(r)
  BY <1>5, ScaleObjectKeeps, SaveScaleKeeps, SaveRowKeeps, SaveUserDeleteKeeps, RemoveRowKeeps
<1>6. CASE StaleUpdate(r)
  BY <1>6, Working DEF StaleUpdate, Held
<1>7. CASE CallFails(r) \/ ReplyLost(r)
  BY <1>7, CallFailsKeeps, ReplyLostKeeps
<1> QED
  BY <1>1, <1>2, <1>3, <1>4, <1>5, <1>6, <1>7 DEF HandlerStep

LEMMA NextSerial ==
  SerialIInv /\ OneAtATime /\ OneAtATime' /\ [Next]_vars => SerialIInv'
<1> SUFFICES ASSUME SerialIInv, OneAtATime, OneAtATime', [Next]_vars PROVE SerialIInv'
  OBVIOUS
<1>1. IInv'
  BY NextIInv DEF SerialIInv
<1>2. ASSUME NEW a \in Apps, CreateApplication(a) PROVE SerialIInv'
  BY <1>1, <1>2, UploadKeeps
<1>3. ASSUME NEW r \in Requests, Arrival(r) PROVE SerialIInv'
  BY <1>1, <1>3, StartsKeep
<1>4. ASSUME NEW r \in Requests, HandlerStep(r) PROVE SerialIInv'
  BY <1>1, <1>4, HandlerKeeps
<1>5. CASE Crash
  BY <1>1, <1>5, RestartKeeps
<1>6. CASE UNCHANGED vars
  <2>1. UNCHANGED <<rows, issued, objects, running, req>>
    BY <1>6 DEF vars
  <2> QED
    BY <1>1, <2>1 DEF SerialIInv, Busy
<1> QED
  BY <1>2, <1>3, <1>4, <1>5, <1>6 DEF Next

-------------------------------------------------------------------------------
(* Every step is one of AppLifecycle, or none of its                         *)

lifeNow == [a \in Apps |-> Life(a)]

LEMMA Stays ==
  ASSUME UNCHANGED issued, \A b \in Apps : rows'[b] = rows[b]
  PROVE  [Abstract!Next]_lifeNow
<1>1. \A b \in Apps : Life(b)' = Life(b)
  BY DEF Life
<1> QED
  BY <1>1 DEF lifeNow

\* The stage of one application moves along an edge.
LEMMA Moves ==
  ASSUME NEW a \in Apps, \A b \in Apps : b # a => Life(b)' = Life(b),
         NEW to \in Abstract!Stages, Life(a)' = to, <<Life(a), to>> \in Abstract!Edges
  PROVE  [Abstract!Next]_lifeNow
<1>1. lifeNow[a] = Life(a)
  BY DEF lifeNow
<1>2. lifeNow' = [lifeNow EXCEPT ![a] = to]
  BY DEF lifeNow
<1>3. Abstract!Move(a, to)
  BY <1>1, <1>2 DEF Abstract!Move, lifeNow
<1> QED
  BY <1>3 DEF Abstract!Next

\* A request saves a row whose status is the old one, or the end of an edge from it.
LEMMA SaveMoves ==
  ASSUME SerialIInv, NEW r \in Requests, req[r] # Idle, UNCHANGED issued,
         NEW row1, WriteBack(r, row1),
         row1 # Absent => row1.status \in Statuses,
         row1 # Absent => \/ row1.status = rows[req[r].app].status
                          \/ <<rows[req[r].app].status, row1.status>> \in Abstract!Edges
  PROVE  [Abstract!Next]_lifeNow
<1>1. PICK a \in Apps, old \in Statuses :
        a = req[r].app /\ rows[a] # Absent /\ old = rows[a].status /\ a \in issued
  BY Working DEF Held, SerialIInv, Row
<1>2. \A b \in Apps : rows'[b] = IF b = a THEN row1 ELSE rows[b]
  BY <1>1 DEF WriteBack, SerialIInv, IInv, TypeOK
<1>3. Life(a) = old /\ \A b \in Apps : b # a => Life(b)' = Life(b)
  BY <1>1, <1>2 DEF Life
<1>4. CASE row1 = Absent
  <2>1. Life(a)' = "gone"
    BY <1>1, <1>2, <1>4 DEF Life
  <2>2. "gone" \in Abstract!Stages /\ <<old, "gone">> \in Abstract!Edges
    BY <1>1 DEF Abstract!Stages, Abstract!Edges, Statuses
  <2> QED
    BY <1>1, <1>3, <2>1, <2>2, Moves
<1>5. CASE row1 # Absent
  <2>1. Life(a)' = row1.status
    BY <1>1, <1>2, <1>5 DEF Life
  <2>2. row1.status \in Abstract!Stages
    BY <1>5 DEF Abstract!Stages, Statuses
  <2>3. CASE row1.status = old
    <3>1. \A b \in Apps : Life(b)' = Life(b)
      BY <1>3, <2>1, <2>3
    <3> QED
      BY <3>1 DEF lifeNow
  <2>4. CASE <<old, row1.status>> \in Abstract!Edges
    BY <1>1, <1>3, <2>1, <2>2, <2>4, Moves
  <2> QED
    BY <1>1, <1>5, <2>3, <2>4
<1> QED
  BY <1>4, <1>5

LEMMA HandlerMoves ==
  ASSUME SerialIInv, NEW r \in Requests, HandlerStep(r)
  PROVE  [Abstract!Next]_lifeNow
<1> DEFINE q == req[r]
           row == rows[q.app]
<1>1. q # Idle /\ UNCHANGED issued
  BY DEF HandlerStep, DeletionDone, DeleteObject, DeleteFails, Prepare, PrepareRefused,
         EnsureNamespace, CheckImage, ImageInvalid, CreateObject, SaveName, AwaitReady,
         GetUrl, Finish, Fail, ScaleObject, SaveScale, SaveUpdate, SaveReject,
         SaveScaleRequest, SaveUserDelete, RemoveRow, StaleUpdate, CallFails, ReplyLost,
         At, Saves
<1>2. /\ q.copy \in Row /\ q.copy.status \in Statuses /\ Held(q, row) /\ InProgress(q)
      /\ q.copy # Absent
  BY <1>1, Working, ConstantsAssumption DEF Row
<1>3. CASE \/ DeletionDone(r) \/ DeleteObject(r) \/ DeleteFails(r) \/ PrepareRefused(r)
           \/ EnsureNamespace(r) \/ CreateObject(r) \/ GetUrl(r) \/ ScaleObject(r)
           \/ StaleUpdate(r) \/ CallFails(r) \/ ReplyLost(r)
  <2>1. UNCHANGED rows
    BY <1>3 DEF DeletionDone, DeleteObject, DeleteFails, PrepareRefused, EnsureNamespace,
                CreateObject, GetUrl, ScaleObject, StaleUpdate, CallFails, ReplyLost
  <2> QED
    BY <1>1, <2>1, Stays
<1>4. CASE Prepare(r) \/ CheckImage(r) \/ ImageInvalid(r) \/ AwaitReady(r)
  <2>1. WriteBack(r, q.copy) /\ q.step # "delete"
    BY <1>4 DEF Prepare, CheckImage, ImageInvalid, AwaitReady, At
  <2> QED
    BY <1>1, <2>1, SavedUnchanged, Stays
<1>5. q.step # "delete" => row = q.copy
  BY <1>2 DEF Held
<1>6. CASE SaveName(r)
  <2>1. q.copy.names \cup {NextToCreate(q.todo)} \in SUBSET Kinds
    BY <1>2 DEF Row, NextToCreate, Kinds
  <2> DEFINE row1 == [q.copy EXCEPT !.names = @ \cup {NextToCreate(q.todo)}]
  <2>2. WriteBack(r, row1) /\ row1.status = q.copy.status /\ q.step # "delete"
    BY <1>2, <1>6 DEF SaveName, At, Row
  <2> HIDE DEF row1
  <2> QED
    BY <1>1, <1>2, <1>5, <2>2, SaveMoves
<1>7. CASE Finish(r)
  <2> DEFINE row1 == [q.copy EXCEPT !.status = "RUNNING", !.names = Kinds,
                                    !.replicas = SetReplicas(q.want)]
  <2>1. WriteBack(r, row1) /\ row1.status = "RUNNING" /\ q.step = "finish"
    BY <1>2, <1>7 DEF Finish, At, Row
  <2> HIDE DEF row1
  <2>2. q.copy.status \in {"PENDING", "ERROR"}
    BY <1>2, <2>1 DEF Held, StepFits, Deploying
  <2> QED
    BY <1>1, <1>5, <2>1, <2>2, SaveMoves DEF Abstract!Edges, Statuses
<1>8. CASE Fail(r)
  <2> DEFINE row1 == [q.copy EXCEPT !.status = "ERROR"]
  <2>1. WriteBack(r, row1) /\ row1.status = "ERROR" /\ q.step = "fail"
    BY <1>2, <1>8 DEF Fail, At, Row
  <2> HIDE DEF row1
  <2>2. q.copy.status \in {"PENDING", "ERROR"}
    BY <1>2, <2>1 DEF Held, StepFits, Deploying
  <2> QED
    BY <1>1, <1>5, <2>1, <2>2, SaveMoves DEF Abstract!Edges, Statuses
<1>9. CASE SaveScale(r)
  <2> DEFINE st == IF q.want = 0 THEN "PAUSED" ELSE "RUNNING"
             row1 == [q.copy EXCEPT !.status = st, !.replicas = q.want, !.requested = None]
  <2>1. WriteBack(r, row1) /\ row1.status = st /\ q.step = "save" /\ q.op = "scale"
    BY <1>2, <1>9 DEF SaveScale, Saves, At, Row
  <2> HIDE DEF row1
  <2>2. q.copy.status \in {"RUNNING", "PAUSED"}
    BY <1>2, <2>1 DEF InProgress
  <2> QED
    BY <1>1, <1>5, <2>1, <2>2, SaveMoves DEF Abstract!Edges, Statuses
<1>10. CASE SaveUpdate(r)
  <2> DEFINE row1 == [q.copy EXCEPT !.replicas = SetReplicas(q.want)]
  <2>1. /\ WriteBack(r, row1) \/ UNCHANGED rows
        /\ row1.status = q.copy.status /\ q.step # "delete"
    BY <1>2, <1>10 DEF SaveUpdate, Saves, At, Row
  <2> HIDE DEF row1
  <2> QED
    BY <1>1, <1>2, <1>5, <2>1, SaveMoves, Stays
<1>11. CASE SaveReject(r)
  <2> DEFINE row1 == [q.copy EXCEPT !.status = "REJECTED"]
  <2>1. WriteBack(r, row1) /\ row1.status = "REJECTED" /\ q.step = "save" /\ q.op = "reject"
    BY <1>2, <1>11 DEF SaveReject, Saves, At, Row
  <2> HIDE DEF row1
  <2>2. q.copy.status = "PENDING"
    BY <1>2, <2>1 DEF Held, StepFits
  <2> QED
    BY <1>1, <1>5, <2>1, <2>2, SaveMoves DEF Abstract!Edges, Statuses
<1>12. CASE SaveScaleRequest(r)
  <2> DEFINE row1 == [q.copy EXCEPT !.requested = q.want]
  <2>1. /\ WriteBack(r, row1) \/ UNCHANGED rows
        /\ row1.status = q.copy.status /\ q.step # "delete"
    BY <1>2, <1>12 DEF SaveScaleRequest, Saves, At, Row
  <2> HIDE DEF row1
  <2> QED
    BY <1>1, <1>2, <1>5, <2>1, SaveMoves, Stays
<1>13. CASE SaveUserDelete(r)
  <2> DEFINE row1 == [q.copy EXCEPT !.status = "DELETED"]
  <2>1. WriteBack(r, row1) /\ row1.status = "DELETED" /\ q.step = "save" /\ q.op = "userDelete"
    BY <1>2, <1>13 DEF SaveUserDelete, Saves, At, Row
  <2> HIDE DEF row1
  <2>2. q.copy.status \in {"PENDING", "RUNNING", "ERROR", "PAUSED", "REJECTED"}
    BY <1>2, <2>1 DEF Held, StepFits, Statuses
  <2> QED
    BY <1>1, <1>5, <2>1, <2>2, SaveMoves DEF Abstract!Edges, Statuses
<1>14. CASE RemoveRow(r)
  BY <1>1, <1>14, SaveMoves DEF RemoveRow
<1> QED
  BY <1>3, <1>4, <1>6, <1>7, <1>8, <1>9, <1>10, <1>11, <1>12, <1>13, <1>14 DEF HandlerStep

LEMMA NextMoves == SerialIInv /\ [Next]_vars => [Abstract!Next]_lifeNow
<1> SUFFICES ASSUME SerialIInv, [Next]_vars PROVE [Abstract!Next]_lifeNow
  OBVIOUS
<1>1. ASSUME NEW a \in Apps, CreateApplication(a) PROVE [Abstract!Next]_lifeNow
  <2> DEFINE row == [status |-> "PENDING", names |-> {}, replicas |-> 1, requested |-> None]
  <2>1. /\ a \notin issued /\ rows[a] = Absent /\ issued' = issued \cup {a}
        /\ \A b \in Apps : rows'[b] = IF b = a THEN row ELSE rows[b]
    BY <1>1 DEF CreateApplication, SerialIInv, IInv, TypeOK
  <2>2. row # Absent /\ row.status = "PENDING"
    BY ConstantsAssumption DEF Row, Statuses, Replicas
  <2> HIDE DEF row
  <2>3. Life(a) = "none" /\ Life(a)' = "PENDING" /\ \A b \in Apps : b # a => Life(b)' = Life(b)
    BY <2>1, <2>2 DEF Life
  <2>4. "PENDING" \in Abstract!Stages /\ <<"none", "PENDING">> \in Abstract!Edges
    BY DEF Abstract!Stages, Abstract!Edges
  <2> QED
    BY <2>3, <2>4, Moves
<1>2. ASSUME NEW r \in Requests, Arrival(r) PROVE [Abstract!Next]_lifeNow
  <2>1. UNCHANGED <<rows, issued>>
    BY <1>2 DEF Arrival, StartProcess, StartScale, StartUpdate, StartScaleRequest,
                StartReject, StartUserDelete, StartAdminDelete, Begin
  <2> QED
    BY <2>1, Stays
<1>3. ASSUME NEW r \in Requests, HandlerStep(r) PROVE [Abstract!Next]_lifeNow
  BY <1>3, HandlerMoves
<1>4. CASE Crash \/ UNCHANGED vars
  BY <1>4, Stays DEF Crash, vars
<1> QED
  BY <1>1, <1>2, <1>3, <1>4 DEF Next

-------------------------------------------------------------------------------
(* The theorems                                                              *)

SerialSpec == Spec /\ []OneAtATime

\* While requests on an application do not overlap, the copy every request
\* works on is the row itself, and no application has an object unnamed but
\* the one that is created next.
THEOREM SerialInvariance == SerialSpec => []SerialIInv
<1>1. Init => SerialIInv
  BY InitSerial
<1>2. SerialIInv /\ OneAtATime /\ OneAtATime' /\ [Next]_vars => SerialIInv'
  BY NextSerial
<1> QED
  BY <1>1, <1>2, PTL DEF Spec, SerialSpec

\* A crash between a create call and the save of its name, or a lost answer,
\* strands at most one object of an application, whatever is retried later.
THEOREM StrandsAtMostOne == SerialSpec => []AtMostOneUnnamed
<1>1. SerialIInv => AtMostOneUnnamed
  BY DEF SerialIInv, Stray, AtMostOneUnnamed, Unnamed
<1> QED
  BY <1>1, SerialInvariance, PTL

\* Where every call that takes effect is answered and the server does not stop,
\* every object that exists between two requests is named in its row.
THEOREM NothingIsStranded ==
  ASSUME Reliable
  PROVE  SerialSpec => []CreatedIsNamed
<1>1. SerialIInv => CreatedIsNamed
  BY DEF SerialIInv, AtRest, CreatedIsNamed, Unnamed
<1> QED
  BY <1>1, SerialInvariance, PTL

\* Under the same conditions the status of a row says which of its objects
\* exist, and its replica count what the deployment runs.
THEOREM StatusIsTrue ==
  ASSUME Reliable
  PROVE  SerialSpec => []StatusMatchesCluster
<1>1. SerialIInv => StatusMatchesCluster
  BY DEF SerialIInv, AtRest, Matches, StatusMatchesCluster
<1> QED
  BY <1>1, SerialInvariance, PTL

\* The handlers implement AppLifecycle, with crashes and lost replies: the
\* status takes only the edges it promises.
THEOREM LifecycleIsKept == SerialSpec => ImplementsLifecycle
<1>1. Init => lifeNow = [a \in Apps |-> "none"]
  BY DEF Init, lifeNow, Life
<1>2. SerialIInv /\ [Next]_vars => [Abstract!Next]_lifeNow
  BY NextMoves
<1>3. Init => Abstract!Init
  BY <1>1 DEF Abstract!Init, lifeNow
<1> QED
  BY <1>2, <1>3, SerialInvariance, PTL
  DEF Spec, SerialSpec, ImplementsLifecycle, Abstract!Spec, lifeNow

-------------------------------------------------------------------------------
(***************************************************************************)
(* Deleting an account, for any number of users, applications and threads, *)
(* with crashes and lost replies, as long as no request arrives during the *)
(* deletion: rows go only after the namespace, and, where no two users     *)
(* share a namespace, an account that is gone left nothing behind.         *)
(*                                                                         *)
(* The inductive invariant is RemovalIInv.  It takes the handlers of       *)
(* DeployRequests by what they may touch (OnlyItsApp), and IInv from the   *)
(* first part.                                                             *)
(***************************************************************************)

PrivateNamespaces ==
  \A u, v \in Users : NamespaceOf[u] = NamespaceOf[v] => u = v

\* What a handler of DeployRequests may change: the application it works on.
RowsOnlyChange == \A b \in Apps : rows[b] = Absent => rows'[b] = Absent

ObjectsOnlyOf(a) ==
  /\ \A b \in Apps \ {a} : objects'[b] = objects[b]
  /\ objects'[a] \subseteq objects[a] \/ namespaces[NamespaceOfApp(a)] = "live"

NamespaceOnlyOf(a) ==
  \A n \in Namespaces :
    \/ namespaces'[n] = namespaces[n]
    \/ n = NamespaceOfApp(a) /\ namespaces'[n] = "live"

ThreadMoves(r, a) ==
  /\ req' \in [Requests -> Request \cup {Idle}]
  /\ \A t \in Requests \ {r} : req'[t] = req[t]
  /\ req'[r] = Idle \/ req'[r].app = a

OnlyItsApp(r) ==
  LET a == req[r].app IN
  /\ UNCHANGED <<issued, users>>
  /\ RowsOnlyChange
  /\ ObjectsOnlyOf(a)
  /\ NamespaceOnlyOf(a)
  /\ ThreadMoves(r, a)

-------------------------------------------------------------------------------
LEMMA WriteOnlyChanges ==
  ASSUME IInv, NEW r \in Requests, NEW row, WriteBack(r, row)
  PROVE  RowsOnlyChange
BY DEF WriteBack, RowsOnlyChange, IInv, TypeOK

LEMMA RowsOnlyChangeByHandler ==
  ASSUME IInv, NEW r \in Requests, HandlerStep(r)
  PROVE  RowsOnlyChange
<1>1. (\E row : WriteBack(r, row)) \/ rows' = rows
  <2>1. CASE \/ Prepare(r) \/ CheckImage(r) \/ ImageInvalid(r) \/ AwaitReady(r)
             \/ Finish(r) \/ Fail(r) \/ SaveScale(r) \/ SaveReject(r)
             \/ SaveUserDelete(r) \/ RemoveRow(r)
    BY <2>1 DEF Prepare, CheckImage, ImageInvalid, AwaitReady, Finish, Fail,
                SaveScale, SaveReject, SaveUserDelete, RemoveRow
  <2>2. CASE SaveName(r)
    BY <2>2 DEF SaveName
  <2>3. CASE SaveUpdate(r) \/ SaveScaleRequest(r)
    BY <2>3 DEF SaveUpdate, SaveScaleRequest
  <2>4. CASE \/ DeletionDone(r) \/ DeleteObject(r) \/ DeleteFails(r)
             \/ PrepareRefused(r) \/ EnsureNamespace(r) \/ CreateObject(r)
             \/ GetUrl(r) \/ ScaleObject(r)
             \/ StaleUpdate(r) \/ CallFails(r) \/ ReplyLost(r)
    BY <2>4 DEF DeletionDone, DeleteObject, DeleteFails, PrepareRefused,
                EnsureNamespace, CreateObject, GetUrl, ScaleObject, StaleUpdate,
                CallFails, ReplyLost
  <2> QED BY <2>1, <2>2, <2>3, <2>4 DEF HandlerStep
<1> QED BY <1>1, WriteOnlyChanges DEF RowsOnlyChange

LEMMA BusyHandler ==
  ASSUME IInv, NEW r \in Requests, HandlerStep(r)
  PROVE  req[r] # Idle /\ req[r] \in Request /\ req[r].app \in Apps
<1>1. req[r] # Idle
  BY DEF HandlerStep, Prepare, CheckImage, ImageInvalid, AwaitReady, Finish, Fail,
         SaveScale, SaveReject, SaveUserDelete, RemoveRow, SaveName, SaveUpdate,
         SaveScaleRequest, DeletionDone, DeleteObject, DeleteFails, PrepareRefused,
         EnsureNamespace, CreateObject, GetUrl, ScaleObject, StaleUpdate, CallFails,
         ReplyLost, Saves, At
<1> QED BY <1>1, Parts, BusyThread

\* The cluster changes only for the application of the request, and something
\* is created only in a live namespace.
LEMMA ClusterOnlyByHandler ==
  ASSUME IInv, NEW r \in Requests, HandlerStep(r)
  PROVE  ObjectsOnlyOf(req[r].app) /\ NamespaceOnlyOf(req[r].app)
<1> DEFINE a == req[r].app
<1>1. a \in Apps /\ objects \in [Apps -> SUBSET Kinds]
      /\ namespaces \in [Namespaces -> NamespaceStates]
  BY BusyHandler DEF IInv, TypeOK
<1>2. CASE UNCHANGED cluster
  BY <1>2 DEF cluster, ObjectsOnlyOf, NamespaceOnlyOf
<1>3. CASE EnsureNamespaceEffect(r)
  BY <1>1, <1>3 DEF EnsureNamespaceEffect, ObjectsOnlyOf, NamespaceOnlyOf
<1>4. CASE CreateEffect(r)
  BY <1>1, <1>4 DEF CreateEffect, ObjectsOnlyOf, NamespaceOnlyOf
<1>5. CASE ScaleEffect(r)
  BY <1>5 DEF ScaleEffect, ObjectsOnlyOf, NamespaceOnlyOf
<1>6. CASE DeleteObject(r)
  BY <1>1, <1>6 DEF DeleteObject, RemoveObject, ObjectsOnlyOf, NamespaceOnlyOf
<1>7. \/ UNCHANGED cluster \/ EnsureNamespaceEffect(r) \/ CreateEffect(r)
      \/ ScaleEffect(r) \/ DeleteObject(r)
  BY DEF HandlerStep, Prepare, CheckImage, ImageInvalid, AwaitReady, Finish, Fail,
         SaveScale, SaveReject, SaveUserDelete, RemoveRow, SaveName, SaveUpdate,
         SaveScaleRequest, DeletionDone, DeleteFails, PrepareRefused,
         EnsureNamespace, CreateObject, GetUrl, ScaleObject, StaleUpdate, CallFails,
         ReplyLost
<1> QED BY <1>2, <1>3, <1>4, <1>5, <1>6, <1>7

\* A request keeps to the application it was made for.
LEMMA ThreadMovesByHandler ==
  ASSUME IInv, NEW r \in Requests, HandlerStep(r)
  PROVE  ThreadMoves(r, req[r].app)
<1> DEFINE a == req[r].app
<1>1. req[r] \in Request /\ req \in [Requests -> Request \cup {Idle}]
  BY BusyHandler DEF IInv, TypeOK
<1>2. ASSUME NEW q, req' = [req EXCEPT ![r] = q], q = Idle \/ q.app = a
      PROVE  /\ \A t \in Requests \ {r} : req'[t] = req[t]
             /\ req'[r] = Idle \/ req'[r].app = a
  BY <1>1, <1>2
<1>3. \E q : req' = [req EXCEPT ![r] = q] /\ (q = Idle \/ q.app = a)
  <2>1. CASE End(r)
    BY <2>1 DEF End
  <2>2. ASSUME NEW step, Goto(r, step)
        PROVE  \E q : req' = [req EXCEPT ![r] = q] /\ (q = Idle \/ q.app = a)
    <3>1. [req[r] EXCEPT !.step = step].app = a
      BY <1>1 DEF Request
    <3> QED BY <2>2, <3>1 DEF Goto
  <2>3. CASE Raise(r)
    <3>1. [req[r] EXCEPT !.step = "fail", !.todo = {}, !.want = 0].app = a
      BY <1>1 DEF Request
    <3> QED BY <2>3, <3>1 DEF Raise
  <2>4. CASE DeleteObject(r) \/ DeleteFails(r)
    <3>1. PICK k : req' = [req EXCEPT ![r].todo = @ \ {k}]
      BY <2>4 DEF DeleteObject, DeleteFails
    <3>2. [req[r] EXCEPT !.todo = @ \ {k}].app = a
      BY <1>1 DEF Request
    <3> QED BY <3>1, <3>2
  <2>5. CASE CheckImage(r)
    <3>1. [req[r] EXCEPT !.step = "create", !.todo = Kinds].app = a
      BY <1>1 DEF Request
    <3> QED BY <2>5, <3>1 DEF CheckImage
  <2>6. CASE SaveName(r)
    <3>1. PICK row, rest, step :
            req' = [req EXCEPT ![r] = [@ EXCEPT !.copy = row, !.todo = rest, !.step = step]]
      BY <2>6 DEF SaveName
    <3>2. [req[r] EXCEPT !.copy = row, !.todo = rest, !.step = step].app = a
      BY <1>1 DEF Request
    <3> QED BY <3>1, <3>2
  <2>7. CASE SaveUserDelete(r)
    <3>1. [req[r] EXCEPT !.step = "delete", !.todo = req[r].copy.names].app = a
      BY <1>1 DEF Request
    <3> QED BY <2>7, <3>1 DEF SaveUserDelete
  <2>8. CASE \/ Prepare(r) \/ EnsureNamespace(r) \/ CreateObject(r)
             \/ AwaitReady(r) \/ GetUrl(r) \/ ScaleObject(r)
    BY <2>2, <2>8 DEF Prepare, EnsureNamespace, CreateObject, AwaitReady, GetUrl, ScaleObject
  <2>9. CASE \/ PrepareRefused(r) \/ ImageInvalid(r) \/ Finish(r) \/ Fail(r)
             \/ SaveScale(r) \/ SaveUpdate(r) \/ SaveReject(r) \/ SaveScaleRequest(r)
             \/ RemoveRow(r) \/ StaleUpdate(r)
    BY <2>1, <2>9 DEF PrepareRefused, ImageInvalid, Finish, Fail, SaveScale, SaveUpdate,
                      SaveReject, SaveScaleRequest, RemoveRow, StaleUpdate
  <2>10. CASE DeletionDone(r)
    <3>1. End(r) \/ Goto(r, "prepare") \/ Goto(r, "removeRow")
      BY <2>10 DEF DeletionDone, AfterDeletion
    <3> QED BY <2>1, <2>2, <3>1
  <2>11. CASE CallFails(r) \/ ReplyLost(r)
    <3>1. End(r) \/ Raise(r)
      BY <2>11 DEF CallFails, ReplyLost, CallRaises
    <3> QED BY <2>1, <2>3, <3>1
  <2> QED BY <2>4, <2>5, <2>6, <2>7, <2>8, <2>9, <2>10, <2>11 DEF HandlerStep
<1>4. IInv'
  BY DeletionKeeps, ProcessKeeps, SaveKeeps, FailureKeeps DEF HandlerStep
<1> QED BY <1>2, <1>3, <1>4 DEF ThreadMoves, IInv, TypeOK

LEMMA HandlerOnlyItsApp ==
  ASSUME IInv, NEW r \in Requests, HandlerStep(r)
  PROVE  OnlyItsApp(r) /\ IInv'
<1>1. UNCHANGED <<issued, users>>
  BY DEF HandlerStep, Prepare, CheckImage, ImageInvalid, AwaitReady, Finish, Fail,
         SaveScale, SaveReject, SaveUserDelete, RemoveRow, SaveName, SaveUpdate,
         SaveScaleRequest, DeletionDone, DeleteObject, DeleteFails, PrepareRefused,
         EnsureNamespace, CreateObject, GetUrl, ScaleObject, StaleUpdate, CallFails,
         ReplyLost
<1>2. IInv'
  BY DeletionKeeps, ProcessKeeps, SaveKeeps, FailureKeeps DEF HandlerStep
<1> QED BY <1>1, <1>2, RowsOnlyChangeByHandler, ClusterOnlyByHandler, ThreadMovesByHandler
        DEF OnlyItsApp

-------------------------------------------------------------------------------
(* One lemma per kind of step                                                *)

LEMMA OtherStepKeeps ==
  ASSUME PrivateNamespaces, RemovalIInv, OtherStep
  PROVE  RemovalIInv'
<1>1. PICK r \in Requests : HandlerStep(r)
  BY DEF OtherStep
<1> DEFINE a == req[r].app
<1>2. OnlyItsApp(r) /\ IInv' /\ rem' = rem
  BY <1>1, HandlerOnlyItsApp DEF RemovalIInv, OtherStep
<1>3. req[r] # Idle /\ a \in Apps /\ Owner[a] \in users /\ users \subseteq Users
  BY <1>1, BusyHandler DEF RemovalIInv, GoneUsers, IInv, TypeOK
<1>4. rem = Idle
  BY <1>3 DEF RemovalIInv, RemovalInProgress, Quiet
<1>5. RemovalTypeOK'
  BY <1>2 DEF RemovalIInv, RemovalTypeOK, IInv
<1>6. GoneUsers'
  <2>1. ASSUME NEW t \in Requests, req'[t] # Idle PROVE Owner[req'[t].app] \in users'
    BY <1>2, <1>3, <2>1 DEF OnlyItsApp, ThreadMoves, RemovalIInv, GoneUsers
  <2>2. ASSUME NEW u \in Users \ users' PROVE OwnApps(u)' = {}
    BY <1>2, <2>2 DEF OnlyItsApp, RowsOnlyChange, OwnApps, RemovalIInv, GoneUsers
  <2>3. ASSUME NEW u \in Users \ users' PROVE namespaces'[NamespaceOf[u]] # "live"
    <3>1. u \notin users /\ namespaces[NamespaceOf[u]] # "live"
      BY <1>2, <2>3 DEF OnlyItsApp, RemovalIInv, GoneUsers
    <3>2. NamespaceOf[u] \in Namespaces /\ NamespaceOf[u] # NamespaceOfApp(a)
      BY <1>3, <3>1, ConstantsAssumption DEF PrivateNamespaces, NamespaceOfApp
    <3> QED BY <1>2, <3>1, <3>2 DEF OnlyItsApp, NamespaceOnlyOf
  <2> QED BY <2>1, <2>2, <2>3 DEF GoneUsers
<1>7. ObjectsInNamespace'
  <2> SUFFICES ASSUME NEW b \in Apps, objects'[b] # {}
               PROVE  namespaces'[NamespaceOfApp(b)] # "none"
    BY DEF ObjectsInNamespace, NamespaceOfApp
  <2>1. NamespaceOfApp(b) \in Namespaces
    BY ConstantsAssumption DEF NamespaceOfApp
  <2>2. namespaces[NamespaceOfApp(b)] # "none"
    BY <1>2, <1>3 DEF OnlyItsApp, ObjectsOnlyOf, RemovalIInv, ObjectsInNamespace
  <2> QED BY <1>2, <2>1, <2>2 DEF OnlyItsApp, NamespaceOnlyOf
<1> QED BY <1>2, <1>4, <1>5, <1>6, <1>7 DEF RemovalIInv

\* A request is made for an application that has a row, hence an owner.
LEMMA ArrivalLoads ==
  ASSUME NEW r \in Requests, Arrival(r)
  PROVE  /\ UNCHANGED <<rows, issued, users, cluster>>
         /\ \E a \in Apps : \E q : rows[a] # Absent /\ q.app = a /\ req' = [req EXCEPT ![r] = q]
<1>1. PICK a \in Apps :
        \E op, step, todo, want : Begin(r, a, op, step, todo, want)
  BY DEF Arrival, StartProcess, StartScale, StartUpdate, StartScaleRequest,
         StartReject, StartUserDelete, StartAdminDelete
<1> QED BY <1>1 DEF Begin

LEMMA OtherArrivesKeeps ==
  ASSUME ~Overlap, RemovalIInv, OtherArrives
  PROVE  RemovalIInv'
<1>1. rem = Idle /\ rem' = Idle
  BY DEF OtherArrives
<1>2. users \subseteq Users /\ rows \in [Apps -> Row \cup {Absent}]
      /\ req \in [Requests -> Request \cup {Idle}]
  BY DEF RemovalIInv, IInv, TypeOK
<1>3. ASSUME NEW a \in Apps, CreateApplication(a) PROVE RemovalIInv'
  <2>1. IInv'
    BY <1>3, CreateKeeps DEF RemovalIInv
  <2>2. GoneUsers' /\ ObjectsInNamespace'
    <3>1. Owner[a] \in users /\ UNCHANGED <<users, cluster, req>>
          /\ \A b \in Apps \ {a} : rows'[b] = rows[b]
      BY <1>2, <1>3 DEF CreateApplication
    <3> QED BY <3>1 DEF RemovalIInv, GoneUsers, ObjectsInNamespace, OwnApps, cluster,
                        NamespaceOfApp
  <2> QED BY <1>1, <2>1, <2>2 DEF RemovalIInv, RemovalTypeOK, IInv
<1>4. ASSUME NEW r \in Requests, Arrival(r) PROVE RemovalIInv'
  <2>1. IInv'
    BY <1>4, ArrivalKeeps DEF RemovalIInv
  <2>2. UNCHANGED <<rows, issued, users, cluster>>
    BY <1>4, ArrivalLoads
  <2>3. PICK a \in Apps : \E q : rows[a] # Absent /\ q.app = a /\ req' = [req EXCEPT ![r] = q]
    BY <1>4, ArrivalLoads
  <2>4. Owner[a] \in users
    BY <2>3, ConstantsAssumption DEF RemovalIInv, GoneUsers, OwnApps
  <2>5. GoneUsers'
    <3>1. ASSUME NEW t \in Requests, req'[t] # Idle PROVE Owner[req'[t].app] \in users'
      <4>1. PICK q : q.app = a /\ req' = [req EXCEPT ![r] = q]
        BY <2>3
      <4> QED BY <1>2, <2>2, <2>4, <3>1, <4>1 DEF RemovalIInv, GoneUsers
    <3> QED BY <2>2, <3>1 DEF RemovalIInv, GoneUsers, OwnApps, cluster
  <2>6. ObjectsInNamespace'
    BY <2>2 DEF RemovalIInv, ObjectsInNamespace, cluster, NamespaceOfApp
  <2> QED BY <1>1, <2>1, <2>5, <2>6 DEF RemovalIInv, RemovalTypeOK, IInv
<1> QED BY <1>3, <1>4 DEF OtherArrives

LEMMA StartRemovalKeeps ==
  ASSUME ~Overlap, RemovalIInv, NEW u \in Users, StartRemoval(u)
  PROVE  RemovalIInv'
<1>1. UNCHANGED vars /\ u \in users /\ Quiet
  BY DEF StartRemoval
<1>2. /\ rem'.user = u /\ rem'.step = "objects" /\ rem'.left = OwnApps(u)
      /\ rem' \in Removal
  <2>1. OwnApps(u) \in SUBSET Apps
    BY DEF OwnApps
  <2>2. {c \in OwnApps(u) \X Kinds : c[2] \in rows[c[1]].names} \in SUBSET (Apps \X Kinds)
    BY <2>1
  <2> QED BY <2>1, <2>2 DEF StartRemoval, Removal
<1>3. IInv'
  BY <1>1 DEF RemovalIInv, vars, IInv, TypeOK, RowsConsistent
<1>4. GoneUsers' /\ ObjectsInNamespace'
  BY <1>1 DEF RemovalIInv, vars, GoneUsers, ObjectsInNamespace, OwnApps, NamespaceOfApp
<1>5. RemovalInProgress'
  BY <1>1, <1>2 DEF vars, RemovalInProgress, Quiet, OwnApps
<1> QED BY <1>2, <1>3, <1>4, <1>5 DEF RemovalIInv, RemovalTypeOK, IInv

\* A step of the deletion that leaves the tables alone, except for its own place.
LEMMA RemovalMoves ==
  ASSUME RemovalIInv, rem # Idle, IInv', UNCHANGED <<rows, users, req>>,
         GoneUsers', ObjectsInNamespace',
         rem' \in Removal \cup {Idle},
         rem' # Idle =>
           /\ rem'.user = rem.user /\ rem'.left = rem.left
           /\ rem'.step # "objects" => namespaces'[NamespaceOf[rem.user]] # "live"
           /\ rem'.step = "user" => rem.left = {}
  PROVE  RemovalIInv'
<1>1. rem' # Idle => RemovalInProgress'
  BY DEF RemovalIInv, RemovalInProgress, Quiet, OwnApps
<1> QED BY <1>1 DEF RemovalIInv, RemovalTypeOK, IInv

LEMMA ObjectsStepKeeps ==
  ASSUME RemovalIInv, RemoveOwnObject \/ OwnObjectStays \/ ClusterUnreachable
  PROVE  RemovalIInv'
<1>1. rem # Idle /\ rem \in Removal /\ rem.step = "objects"
  BY DEF RemovalIInv, RemovalTypeOK, RemoveOwnObject, OwnObjectStays, ClusterUnreachable,
         Removing
<1>2. UNCHANGED <<rows, issued, users, namespaces, req>>
  BY DEF RemoveOwnObject, OwnObjectStays, ClusterUnreachable, vars
<1>3. rem' \in Removal /\ rem'.user = rem.user /\ rem'.left = rem.left
      /\ rem'.step = "objects"
  <2>1. PICK calls, failed : /\ rem' = [rem EXCEPT !.calls = calls, !.failed = failed]
                             /\ calls \subseteq rem.calls /\ failed \in BOOLEAN
    <3>1. CASE RemoveOwnObject \/ OwnObjectStays
      <4>1. PICK c \in rem.calls : rem' = [rem EXCEPT !.calls = @ \ {c}]
        BY <3>1 DEF RemoveOwnObject, OwnObjectStays
      <4>2. rem' = [rem EXCEPT !.calls = rem.calls \ {c}, !.failed = rem.failed]
        BY <1>1, <4>1 DEF Removal
      <4>3. rem.calls \ {c} \subseteq rem.calls /\ rem.failed \in BOOLEAN
        BY <1>1 DEF Removal
      <4> QED BY <4>2, <4>3
    <3>2. CASE ClusterUnreachable
      <4>1. PICK a \in rem.left :
              rem' = [rem EXCEPT !.calls = {c \in @ : c[1] # a}, !.failed = TRUE]
        BY <3>2 DEF ClusterUnreachable
      <4>2. {c \in rem.calls : c[1] # a} \subseteq rem.calls
        OBVIOUS
      <4> QED BY <1>1, <4>1, <4>2 DEF Removal
    <3> QED BY <3>1, <3>2
  <2> QED BY <1>1, <2>1 DEF Removal
<1>4. /\ objects' \in [Apps -> SUBSET Kinds] /\ running' \in [Apps -> Nat]
      /\ \A b \in Apps : objects'[b] \subseteq objects[b]
  <2>1. objects \in [Apps -> SUBSET Kinds] /\ running \in [Apps -> Nat]
    BY DEF RemovalIInv, IInv, TypeOK
  <2>2. CASE RemoveOwnObject
    <3>1. PICK c \in rem.calls : RemoveObject(c[1], c[2])
      BY <2>2 DEF RemoveOwnObject
    <3>2. c[1] \in Apps
      BY <1>1 DEF Removal
    <3> QED BY <2>1, <3>1, <3>2, ConstantsAssumption DEF RemoveObject, Replicas
  <2>3. CASE OwnObjectStays \/ ClusterUnreachable
    BY <2>1, <2>3 DEF OwnObjectStays, ClusterUnreachable, vars
  <2> QED BY <2>2, <2>3
<1>5. IInv'
  <2>1. RequestsPart' /\ namespaces' \in [Namespaces -> NamespaceStates]
    BY <1>2, Parts DEF RemovalIInv, RequestsPart, ClusterPart
  <2> QED BY <1>2, <1>4, <2>1, ClusterStep DEF RemovalIInv
<1>6. GoneUsers'
  BY <1>2 DEF RemovalIInv, GoneUsers, OwnApps
<1>7. ObjectsInNamespace'
  BY <1>2, <1>4 DEF RemovalIInv, ObjectsInNamespace, NamespaceOfApp
<1> QED BY <1>1, <1>2, <1>3, <1>5, <1>6, <1>7, RemovalMoves

LEMMA NamespaceStepKeeps ==
  ASSUME RemovalIInv, RemoveNamespace \/ NamespaceStays
  PROVE  RemovalIInv'
<1>1. rem # Idle /\ rem \in Removal
  BY DEF RemovalIInv, RemovalTypeOK, RemoveNamespace, NamespaceStays, Removing
<1> DEFINE ns == NamespaceOf[rem.user]
<1>2. UNCHANGED <<rows, issued, users, objects, running, req>>
  BY DEF RemoveNamespace, NamespaceStays, vars
<1>3. ns \in Namespaces /\ namespaces \in [Namespaces -> NamespaceStates]
  BY <1>1, ConstantsAssumption DEF RemovalIInv, IInv, TypeOK, Removal
<1>4. /\ namespaces' \in [Namespaces -> NamespaceStates]
      /\ \A n \in Namespaces : \/ namespaces'[n] = namespaces[n]
                               \/ namespaces'[n] = "terminating"
      /\ RemoveNamespace => namespaces'[ns] # "live"
  BY <1>3 DEF RemoveNamespace, NamespaceStays, vars, NamespaceStates
<1>5. IInv'
  <2>1. RequestsPart' /\ objects' \in [Apps -> SUBSET Kinds] /\ running' \in [Apps -> Nat]
    BY <1>2, Parts DEF RemovalIInv, RequestsPart, ClusterPart
  <2> QED BY <1>2, <1>4, <2>1, ClusterStep DEF RemovalIInv
<1>6. GoneUsers' /\ ObjectsInNamespace'
  BY <1>2, <1>4, ConstantsAssumption
  DEF RemovalIInv, GoneUsers, OwnApps, ObjectsInNamespace, NamespaceOfApp
<1>7. CASE NamespaceStays \/ rem.failed
  <2>1. rem' = Idle
    BY <1>7 DEF NamespaceStays, RemoveNamespace
  <2> QED BY <1>1, <1>2, <1>5, <1>6, <2>1, RemovalMoves
<1>8. CASE RemoveNamespace /\ ~rem.failed
  <2>1. rem' = [rem EXCEPT !.step = "rows"]
    BY <1>8 DEF RemoveNamespace
  <2>2. rem' \in Removal /\ rem'.user = rem.user /\ rem'.left = rem.left /\ rem'.step = "rows"
    BY <1>1, <2>1 DEF Removal
  <2> QED BY <1>1, <1>2, <1>4, <1>5, <1>6, <1>8, <2>2, RemovalMoves
<1> QED BY <1>7, <1>8

LEMMA RowsStepKeeps ==
  ASSUME RemovalIInv, RemoveOwnRow \/ RowsRemoved
  PROVE  RemovalIInv'
<1>1. rem # Idle /\ rem \in Removal /\ rem.step = "rows" /\ RemovalInProgress
  BY DEF RemovalIInv, RemovalTypeOK, RemoveOwnRow, RowsRemoved, Removing
<1>2. UNCHANGED <<issued, users, cluster, req>>
  BY DEF RemoveOwnRow, RowsRemoved, vars, cluster
<1>3. CASE RemoveOwnRow
  <2>1. PICK a \in rem.left :
          /\ rows' = [rows EXCEPT ![a] = Absent]
          /\ rem' = [rem EXCEPT !.left = @ \ {a}, !.failed = @ \/ rows[a] = Absent]
    BY <1>3 DEF RemoveOwnRow
  <2>2. rem' \in Removal /\ rem'.user = rem.user /\ rem'.step = "rows"
        /\ rem'.left = rem.left \ {a} /\ a \in Apps
    BY <1>1, <2>1 DEF Removal
  <2>3. rows \in [Apps -> Row \cup {Absent}]
    BY DEF RemovalIInv, IInv, TypeOK
  <2>4. IInv'
    <3>1. RowsPart'
      BY <2>1, <2>2, Parts DEF RemovalIInv, RowsPart
    <3>2. RequestsPart' /\ ClusterPart'
      BY <1>2, Parts DEF RemovalIInv, RequestsPart, ClusterPart, cluster
    <3> QED BY <3>1, <3>2, PartsNext
  <2>5. \A u \in Users : OwnApps(u)' \subseteq OwnApps(u) \ {a}
    BY <2>1, <2>2, <2>3 DEF OwnApps
  <2>6. GoneUsers'
    BY <1>2, <2>5 DEF RemovalIInv, GoneUsers, cluster
  <2>7. ObjectsInNamespace'
    BY <1>2 DEF RemovalIInv, ObjectsInNamespace, cluster, NamespaceOfApp
  <2>8. OwnApps(rem.user)' \subseteq rem'.left
    BY <1>1, <2>2, <2>5 DEF RemovalInProgress, Removal
  <2>9. RemovalInProgress'
    BY <1>1, <1>2, <2>2, <2>8 DEF RemovalInProgress, Quiet, cluster, OwnApps
  <2> QED BY <2>2, <2>4, <2>6, <2>7, <2>9 DEF RemovalIInv, RemovalTypeOK, IInv
<1>4. CASE RowsRemoved
  <2>1. UNCHANGED vars /\ rem.left = {}
    BY <1>4 DEF RowsRemoved
  <2>2. IInv'
    BY <2>1 DEF RemovalIInv, vars, IInv, TypeOK, RowsConsistent
  <2>3. GoneUsers' /\ ObjectsInNamespace'
    BY <2>1 DEF RemovalIInv, vars, GoneUsers, ObjectsInNamespace, OwnApps, NamespaceOfApp
  <2>4. \/ rem' = Idle
        \/ rem' \in Removal /\ rem'.user = rem.user /\ rem'.left = rem.left
    BY <1>1, <1>4 DEF RowsRemoved, Removal
  <2>5. namespaces'[NamespaceOf[rem.user]] # "live"
    BY <1>1, <2>1 DEF RemovalInProgress, vars
  <2> QED BY <1>1, <2>1, <2>2, <2>3, <2>4, <2>5, RemovalMoves DEF vars
<1> QED BY <1>3, <1>4

\* The user goes: no row is left, the namespace is not live, no request runs.
LEMMA RemoveUserKeeps ==
  ASSUME RemovalIInv, RemoveUser
  PROVE  RemovalIInv'
<1>1. rem # Idle /\ rem.step = "user" /\ RemovalInProgress
  BY DEF RemovalIInv, RemoveUser, Removing
<1>2. OwnApps(rem.user) = {} /\ namespaces[NamespaceOf[rem.user]] # "live" /\ Quiet
  BY <1>1 DEF RemovalInProgress
<1>3. users' = users \ {rem.user} /\ rem' = Idle /\ UNCHANGED <<rows, issued, cluster, req>>
  BY DEF RemoveUser
<1>4. IInv'
  <2>1. RowsPart' /\ RequestsPart' /\ ClusterPart'
    BY <1>3, Parts DEF RemovalIInv, RowsPart, RequestsPart, ClusterPart, cluster
  <2> QED BY <2>1, PartsNext
<1>5. GoneUsers'
  BY <1>2, <1>3 DEF RemovalIInv, GoneUsers, OwnApps, Quiet, cluster
<1>6. ObjectsInNamespace'
  BY <1>3 DEF RemovalIInv, ObjectsInNamespace, cluster, NamespaceOfApp
<1> QED BY <1>3, <1>4, <1>5, <1>6 DEF RemovalIInv, RemovalTypeOK, IInv

LEMMA NamespaceGoneKeeps ==
  ASSUME RemovalIInv, NEW ns \in Namespaces, NamespaceGone(ns)
  PROVE  RemovalIInv'
<1>1. UNCHANGED <<rows, issued, users, req, rem>>
  BY DEF NamespaceGone
<1>2. /\ objects \in [Apps -> SUBSET Kinds] /\ running \in [Apps -> Nat]
      /\ namespaces \in [Namespaces -> NamespaceStates] /\ 0 \in Nat
  BY ConstantsAssumption DEF RemovalIInv, IInv, TypeOK, Replicas
<1>3. namespaces' = [namespaces EXCEPT ![ns] = "none"]
      /\ namespaces' \in [Namespaces -> NamespaceStates]
  BY <1>2 DEF NamespaceGone, NamespaceStates
<1>4. /\ objects' = [a \in Apps |-> IF NamespaceOfApp(a) = ns THEN {} ELSE objects[a]]
      /\ objects' \in [Apps -> SUBSET Kinds]
  BY <1>2 DEF NamespaceGone
<1>5. running' \in [Apps -> Nat]
  BY <1>2 DEF NamespaceGone
<1>6. IInv'
  <2>1. RequestsPart'
    BY <1>1, Parts DEF RemovalIInv, RequestsPart
  <2> QED BY <1>1, <1>3, <1>4, <1>5, <2>1, ClusterStep DEF RemovalIInv
<1>7. \A n \in Namespaces : namespaces[n] # "live" => namespaces'[n] # "live"
  BY <1>2, <1>3
<1>8. GoneUsers'
  BY <1>1, <1>7, ConstantsAssumption DEF RemovalIInv, GoneUsers, OwnApps
<1>9. ObjectsInNamespace'
  <2> SUFFICES ASSUME NEW a \in Apps, objects'[a] # {}
               PROVE  namespaces'[NamespaceOfApp(a)] # "none"
    BY DEF ObjectsInNamespace, NamespaceOfApp
  <2>1. NamespaceOfApp(a) # ns /\ objects[a] # {}
    BY <1>4
  <2>2. NamespaceOfApp(a) \in Namespaces
    BY ConstantsAssumption DEF NamespaceOfApp
  <2> QED BY <1>2, <1>3, <2>1, <2>2 DEF RemovalIInv, ObjectsInNamespace
<1>10. rem # Idle => RemovalInProgress'
  <2> SUFFICES ASSUME rem # Idle PROVE RemovalInProgress'
    OBVIOUS
  <2>1. RemovalInProgress /\ rem.user \in Users
    BY DEF RemovalIInv, RemovalTypeOK, Removal
  <2>2. NamespaceOf[rem.user] \in Namespaces
    BY <2>1, ConstantsAssumption
  <2> QED BY <1>1, <1>7, <2>1, <2>2 DEF RemovalInProgress, Quiet, OwnApps
<1> QED BY <1>1, <1>6, <1>8, <1>9, <1>10 DEF RemovalIInv, RemovalTypeOK, IInv

\* The process stops between two steps: what was removed stays removed.
LEMMA ServerStopsKeeps ==
  ASSUME RemovalIInv, ServerStops
  PROVE  RemovalIInv'
<1>1. /\ req' = [r \in Requests |-> Idle] /\ rem' = Idle
      /\ UNCHANGED <<rows, issued, users, cluster>>
  BY DEF ServerStops
<1>2. IInv'
  <2>1. RequestsPart'
    BY <1>1 DEF RequestsPart
  <2> QED BY <1>1, <2>1, SilentStep DEF RemovalIInv
<1>3. GoneUsers' /\ ObjectsInNamespace'
  BY <1>1 DEF RemovalIInv, GoneUsers, ObjectsInNamespace, OwnApps, cluster, NamespaceOfApp
<1> QED BY <1>1, <1>2, <1>3 DEF RemovalIInv, RemovalTypeOK, IInv

LEMMA NothingChanges ==
  ASSUME RemovalIInv, UNCHANGED rvars
  PROVE  RemovalIInv'
<1>1. UNCHANGED vars /\ rem' = rem
  BY DEF rvars
<1>2. IInv'
  BY <1>1 DEF RemovalIInv, vars, IInv, TypeOK, RowsConsistent
<1>3. GoneUsers' /\ ObjectsInNamespace' /\ (rem # Idle => RemovalInProgress')
  BY <1>1 DEF RemovalIInv, vars, GoneUsers, ObjectsInNamespace, OwnApps, NamespaceOfApp,
              RemovalInProgress, Quiet
<1> QED BY <1>1, <1>2, <1>3 DEF RemovalIInv, RemovalTypeOK, IInv

-------------------------------------------------------------------------------
(* The theorems                                                              *)

LEMMA RemovalInitIInv == RemovalInit => RemovalIInv
<1> SUFFICES ASSUME RemovalInit PROVE RemovalIInv
  OBVIOUS
<1>1. IInv /\ rem = Idle
  BY InitIInv DEF RemovalInit
<1>2. GoneUsers /\ ObjectsInNamespace
  BY DEF RemovalInit, Init, GoneUsers, ObjectsInNamespace
<1> QED BY <1>1, <1>2 DEF RemovalIInv, RemovalTypeOK, IInv

LEMMA RemovalNextIInv ==
  ASSUME ~Overlap, PrivateNamespaces
  PROVE  RemovalIInv /\ [RemovalNext]_rvars => RemovalIInv'
<1> SUFFICES ASSUME RemovalIInv, [RemovalNext]_rvars PROVE RemovalIInv'
  OBVIOUS
<1>1. CASE OtherArrives
  BY <1>1, OtherArrivesKeeps
<1>2. CASE OtherStep
  BY <1>2, OtherStepKeeps
<1>3. ASSUME NEW u \in Users, StartRemoval(u) PROVE RemovalIInv'
  BY <1>3, StartRemovalKeeps
<1>4. CASE RemovalStep
  BY <1>4, ObjectsStepKeeps, NamespaceStepKeeps, RowsStepKeeps, RemoveUserKeeps
  DEF RemovalStep
<1>5. ASSUME NEW ns \in Namespaces, NamespaceGone(ns) PROVE RemovalIInv'
  BY <1>5, NamespaceGoneKeeps
<1>6. CASE ServerStops
  BY <1>6, ServerStopsKeeps
<1>7. CASE UNCHANGED rvars
  BY <1>7, NothingChanges
<1> QED BY <1>1, <1>2, <1>3, <1>4, <1>5, <1>6, <1>7 DEF RemovalNext

\* Whatever fails and wherever the server stops, a deletion in progress still has
\* every remaining row of its user to remove, and nothing works for a user who is
\* gone.
THEOREM RemovalInvariance ==
  ASSUME ~Overlap, PrivateNamespaces
  PROVE  RemovalSpec => []RemovalIInv
<1>1. RemovalInit => RemovalIInv
  BY RemovalInitIInv
<1>2. RemovalIInv /\ [RemovalNext]_rvars => RemovalIInv'
  BY RemovalNextIInv
<1> QED BY <1>1, <1>2, PTL DEF RemovalSpec

\* An account that is gone left no row, no live namespace, and no object that is
\* not going with its namespace.
THEOREM GoneUserOwnsNothing ==
  ASSUME ~Overlap, PrivateNamespaces
  PROVE  RemovalSpec => []RemovedUserOwnsNothing
<1>1. RemovalIInv => RemovedUserOwnsNothing
  <2> SUFFICES ASSUME RemovalIInv, NEW u \in Users \ users
               PROVE  /\ OwnApps(u) = {}
                      /\ namespaces[NamespaceOf[u]] # "live"
                      /\ \A a \in Apps : Owner[a] = u /\ objects[a] # {}
                           => namespaces[NamespaceOf[u]] = "terminating"
    BY DEF RemovedUserOwnsNothing
  <2>1. OwnApps(u) = {} /\ namespaces[NamespaceOf[u]] # "live"
    BY DEF RemovalIInv, GoneUsers
  <2>2. namespaces[NamespaceOf[u]] \in NamespaceStates
    BY ConstantsAssumption DEF RemovalIInv, IInv, TypeOK
  <2>3. ASSUME NEW a \in Apps, Owner[a] = u, objects[a] # {}
        PROVE  namespaces[NamespaceOf[u]] # "none"
    BY <2>3 DEF RemovalIInv, ObjectsInNamespace, NamespaceOfApp
  <2> QED BY <2>1, <2>2, <2>3 DEF NamespaceStates
<1> QED BY <1>1, RemovalInvariance, PTL

\* While an account is deleted only the deletion itself removes a row, and it does
\* so with the namespace on its way out.
LEMMA RowGoesWithNamespace ==
  ASSUME ~Overlap, RemovalIInv, [RemovalNext]_rvars, NEW a \in Apps,
         rem # Idle, rows[a] # Absent, rows'[a] = Absent
  PROVE  namespaces[NamespaceOfApp(a)] # "live"
<1>1. RemovalInProgress /\ rem \in Removal /\ rows \in [Apps -> Row \cup {Absent}]
  BY DEF RemovalIInv, RemovalTypeOK, IInv, TypeOK
<1>2. CASE OtherStep
  <2>1. PICK r \in Requests : HandlerStep(r)
    BY <1>2 DEF OtherStep
  <2>2. req[r] # Idle
    BY <2>1, BusyHandler DEF RemovalIInv
  <2> QED BY <1>1, <2>2 DEF RemovalInProgress, Quiet
<1>3. CASE RemoveOwnRow
  <2>1. PICK b \in rem.left : rows' = [rows EXCEPT ![b] = Absent]
    BY <1>3 DEF RemoveOwnRow
  <2>2. a \in rem.left
    BY <1>1, <2>1
  <2>3. rem.step = "rows"
    BY <1>3 DEF RemoveOwnRow, Removing
  <2> QED BY <1>1, <2>2, <2>3 DEF RemovalInProgress, NamespaceOfApp
<1>4. CASE OtherArrives
  BY <1>4 DEF OtherArrives
<1>5. CASE RemovalStep /\ ~RemoveOwnRow
  <2>1. rows' = rows
    BY <1>5 DEF RemovalStep, RemoveOwnObject, OwnObjectStays, ClusterUnreachable,
                RemoveNamespace, NamespaceStays, RowsRemoved, RemoveUser, vars
  <2> QED BY <2>1
<1>6. CASE \/ \E u \in Users : StartRemoval(u)
           \/ \E ns \in Namespaces : NamespaceGone(ns)
           \/ ServerStops \/ UNCHANGED rvars
  <2>1. rows' = rows
    BY <1>6 DEF StartRemoval, NamespaceGone, ServerStops, rvars, vars
  <2> QED BY <2>1
<1> QED BY <1>2, <1>3, <1>4, <1>5, <1>6 DEF RemovalNext

\* Deleting a user removes a row only once its namespace is going or gone: a
\* deletion that failed before that can be repeated.
THEOREM RowsLast ==
  ASSUME ~Overlap, PrivateNamespaces
  PROVE  RemovalSpec => RowsGoLast
<1>1. RemovalIInv /\ [RemovalNext]_rvars =>
        [\A a \in Apps : rem # Idle /\ rows[a] # Absent /\ rows'[a] = Absent
           => namespaces[NamespaceOfApp(a)] # "live"]_rvars
  BY RowGoesWithNamespace
<1> QED BY <1>1, RemovalInvariance, PTL DEF RemovalSpec, RowsGoLast

===============================================================================
