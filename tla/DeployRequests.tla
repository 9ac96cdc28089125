---------------------------- MODULE DeployRequests ----------------------------
(***************************************************************************)
(* The life of a deployment request (entity Application): the user uploads *)
(* it, an admin processes, retries, edits, rejects, scales and deletes it, *)
(* the user asks for a scale or for its deletion.                          *)
(*                                                                         *)
(* Every HTTP request is a thread.  It loads the row once, works on that   *)
(* copy (the managed JPA entity), makes Kubernetes calls in between, and   *)
(* every save() writes ALL columns of the copy back: the entity has no     *)
(* @Version and no @DynamicUpdate, nothing locks the row, and the session  *)
(* stays open for the whole request.  One action is one database           *)
(* transaction or one Kubernetes call; log lines that re-save the same     *)
(* copy with no call between them are one write.                           *)
(***************************************************************************)
EXTENDS Integers

CONSTANTS
  Apps,          \* ids the database can issue, each at most once
  Requests,      \* threads serving HTTP requests
  Users,
  Owner,         \* Application.userId
  Namespaces,
  NamespaceOf,   \* sanitizeUserNamespace(username)
  MaxReplicas,   \* largest count an admin may scale to (200 in the code)
  MaxRequested,  \* largest count a user may ask for (50 in the code)
  ReplicaInputs, \* counts a request body may carry: any integer; processing and
                 \* updating check no limit, negative or large
  None,          \* SQL null
  Absent,        \* no row with this id
  Idle,          \* a thread that serves nothing
  Handlers,      \* the operations that are called, upload apart
  Crashes,       \* BOOLEAN: the server process may stop at any point
  LostReplies    \* BOOLEAN: a Kubernetes call may take effect and still raise

Statuses == {"PENDING", "RUNNING", "ERROR", "PAUSED", "REJECTED", "DELETED"}

\* k8sDeploymentName, k8sServiceName, k8sIngressName.  The three names are
\* functions of the application id, so a row says only which of them are set.
Kinds == {"deployment", "service", "ingress"}

\* What a scale may ask for.
Replicas == 0..MaxReplicas

Row == [status    : Statuses,
        names     : SUBSET Kinds,
        replicas  : Nat,
        requested : 0..MaxRequested \cup {None}]

Ops == {"process", "scale", "update", "reject", "requestScale",
        "userDelete", "adminDelete"}

Steps == {"delete", "prepare", "namespace", "image", "create", "saveName",
          "await", "url", "finish", "fail", "scale", "save", "removeRow"}

\* A request in progress: the handler, where it is, its copy of the row, the
\* objects it still has to create or delete, and the replica count it was given.
Request == [op   : Ops,
            step : Steps,
            app  : Apps,
            copy : Row,
            todo : SUBSET Kinds,
            want : Int]

NamespaceStates == {"none", "live", "terminating"}

ASSUME ConstantsAssumption ==
  /\ Owner \in [Apps -> Users]
  /\ NamespaceOf \in [Users -> Namespaces]
  /\ MaxReplicas \in Nat \ {0}
  /\ MaxRequested \in 0..MaxReplicas
  /\ ReplicaInputs \subseteq Int
  /\ None \notin Int
  /\ Absent \notin Row
  /\ Idle \notin Request
  /\ Handlers \subseteq Ops
  /\ Crashes \in BOOLEAN
  /\ LostReplies \in BOOLEAN

VARIABLES
  rows,        \* table applications
  issued,      \* ids handed out so far
  users,       \* table users
  objects,     \* what exists in the cluster under the application's names
  running,     \* spec.replicas of the application's deployment
  namespaces,
  req          \* what each thread is doing

vars == <<rows, issued, users, objects, running, namespaces, req>>
cluster == <<objects, running, namespaces>>

TypeOK ==
  /\ rows \in [Apps -> Row \cup {Absent}]
  /\ issued \in SUBSET Apps
  /\ users \in SUBSET Users
  /\ objects \in [Apps -> SUBSET Kinds]
  /\ running \in [Apps -> Nat]
  /\ namespaces \in [Namespaces -> NamespaceStates]
  /\ req \in [Requests -> Request \cup {Idle}]

Init ==
  /\ rows = [a \in Apps |-> Absent]
  /\ issued = {}
  /\ users = Users
  /\ objects = [a \in Apps |-> {}]
  /\ running = [a \in Apps |-> 0]
  /\ namespaces = [n \in Namespaces |-> "none"]
  /\ req = [r \in Requests |-> Idle]

-------------------------------------------------------------------------------
(* Helpers *)

NamespaceOfApp(a) == NamespaceOf[Owner[a]]

\* Application.setReplicas: a negative count becomes 1, zero is kept.
SetReplicas(n) == IF n < 0 THEN 1 ELSE n

\* Faulty variant: the count is passed on as it came.
AtLeastOneDropped(n) == n

\* createDeployment: Math.max(1, replicas).
AtLeastOne(n) == IF n < 1 THEN 1 ELSE n

\* Objects are created deployment first and deleted ingress first.
NextToCreate(S) ==
  IF "deployment" \in S THEN "deployment"
  ELSE IF "service" \in S THEN "service" ELSE "ingress"

NextToDelete(S) ==
  IF "ingress" \in S THEN "ingress"
  ELSE IF "service" \in S THEN "service" ELSE "deployment"

At(r, step) == req[r] # Idle /\ req[r].step = step

Goto(r, step) == req' = [req EXCEPT ![r] = [@ EXCEPT !.step = step]]

End(r) == req' = [req EXCEPT ![r] = Idle]

\* The handler loads the row and keeps a copy of it.
Begin(r, a, op, step, todo, want) ==
  /\ op \in Handlers
  /\ req[r] = Idle
  /\ rows[a] # Absent
  /\ req' = [req EXCEPT ![r] = [op |-> op, step |-> step, app |-> a,
                                copy |-> rows[a], todo |-> todo, want |-> want]]
  /\ UNCHANGED <<rows, issued, users, cluster>>

\* Faulty variant: a row that is gone is inserted again.
WriteBackUpsert(r, row) == rows' = [rows EXCEPT ![req[r].app] = row]

\* updateApplication(copy): one UPDATE of all columns, whatever the row holds now.
WriteBack(r, row) ==
  /\ rows[req[r].app] # Absent
  /\ rows' = [rows EXCEPT ![req[r].app] = row]

-------------------------------------------------------------------------------
(* The user uploads a request *)

CreateApplication(a) ==
  /\ a \notin issued
  /\ Owner[a] \in users
  /\ issued' = issued \cup {a}
  /\ rows' = [rows EXCEPT ![a] = [status |-> "PENDING", names |-> {},
                                  replicas |-> 1, requested |-> None]]
  /\ UNCHANGED <<users, cluster, req>>

-------------------------------------------------------------------------------
(* Deleting the named Kubernetes objects: used by a retry, by the user's     *)
(* delete and by the admin's delete, each with the names of its own copy.    *)

\* What the handler does once deleteApplicationResources has returned or
\* raised: none of the callers tells the two apart.
AfterDeletion(r) ==
  CASE req[r].op = "process"     -> Goto(r, "prepare")
    [] req[r].op = "adminDelete" -> Goto(r, "removeRow")
    [] OTHER                     -> End(r)

DeletionDone(r) ==
  /\ At(r, "delete")
  /\ req[r].todo = {}
  /\ AfterDeletion(r)
  /\ UNCHANGED <<rows, issued, users, cluster>>

RemoveObject(a, k) ==
  /\ objects' = [objects EXCEPT ![a] = @ \ {k}]
  /\ running' = IF k = "deployment" THEN [running EXCEPT ![a] = 0] ELSE running

\* One delete call.  Deleting what does not exist succeeds.
DeleteObject(r) ==
  /\ At(r, "delete")
  /\ req[r].todo # {}
  /\ LET k == NextToDelete(req[r].todo) IN
       /\ RemoveObject(req[r].app, k)
       /\ req' = [req EXCEPT ![r].todo = @ \ {k}]
  /\ UNCHANGED <<rows, issued, users, namespaces>>

\* A delete call that raises is logged and skipped.
DeleteFails(r) ==
  /\ At(r, "delete")
  /\ req[r].todo # {}
  /\ req' = [req EXCEPT ![r].todo = @ \ {NextToDelete(@)}]
  /\ UNCHANGED <<rows, issued, users, cluster>>


-------------------------------------------------------------------------------
(* Processing a request: first deployment from PENDING, retry from ERROR.    *)

\* Faulty variant: processing is not refused by status.
StartProcessAnyStatus(r, a, n) ==
  /\ rows[a] # Absent
  /\ Begin(r, a, "process", "prepare", {}, n)

\* Faulty variant: a retry does not delete what the failed attempt left.
StartProcessNoCleanup(r, a, n) ==
  /\ rows[a] # Absent
  /\ rows[a].status \in {"PENDING", "ERROR"}
  /\ Begin(r, a, "process", "prepare", {}, n)

\* A retry deletes what the row names, provided it names the deployment.
StartProcess(r, a, n) ==
  /\ rows[a] # Absent
  /\ rows[a].status \in {"PENDING", "ERROR"}
  /\ IF rows[a].status = "ERROR" /\ "deployment" \in rows[a].names
       THEN Begin(r, a, "process", "delete", rows[a].names, n)
       ELSE Begin(r, a, "process", "prepare", {}, n)

\* The owner exists and a master is online; the first log lines are saved.
Prepare(r) ==
  /\ At(r, "prepare")
  /\ Owner[req[r].app] \in users
  /\ WriteBack(r, req[r].copy)
  /\ Goto(r, "namespace")
  /\ UNCHANGED <<issued, users, cluster>>

\* No owner, no master, or an unreachable one: answered before anything is saved.
PrepareRefused(r) ==
  /\ At(r, "prepare")
  /\ End(r)
  /\ UNCHANGED <<rows, issued, users, cluster>>

\* A namespace that exists is left alone, also one that is being deleted.
EnsureNamespaceEffect(r) ==
  LET ns == NamespaceOfApp(req[r].app) IN
  /\ namespaces' = [namespaces EXCEPT ![ns] = IF @ = "none" THEN "live" ELSE @]
  /\ UNCHANGED <<objects, running>>

EnsureNamespace(r) ==
  /\ At(r, "namespace")
  /\ EnsureNamespaceEffect(r)
  /\ Goto(r, "image")
  /\ UNCHANGED <<rows, issued, users>>

CheckImage(r) ==
  /\ At(r, "image")
  /\ WriteBack(r, req[r].copy)
  /\ req' = [req EXCEPT ![r] = [@ EXCEPT !.step = "create", !.todo = Kinds]]
  /\ UNCHANGED <<issued, users, cluster>>

\* An image the registry does not know ends the request; the status stays.
ImageInvalid(r) ==
  /\ At(r, "image")
  /\ WriteBack(r, req[r].copy)
  /\ End(r)
  /\ UNCHANGED <<issued, users, cluster>>

\* create() is refused for a name that exists and in a namespace that is not live.
CreateEffect(r) ==
  LET a == req[r].app
      k == NextToCreate(req[r].todo)
  IN /\ namespaces[NamespaceOfApp(a)] = "live"
     /\ k \notin objects[a]
     /\ objects' = [objects EXCEPT ![a] = @ \cup {k}]
     /\ running' = IF k = "deployment"
                     THEN [running EXCEPT ![a] = AtLeastOne(req[r].want)]
                     ELSE running
     /\ UNCHANGED namespaces

CreateObject(r) ==
  /\ At(r, "create")
  /\ CreateEffect(r)
  /\ Goto(r, "saveName")
  /\ UNCHANGED <<rows, issued, users>>

\* Faulty variant: the names are saved at the end only.
SaveNameLate(r) ==
  LET rest == req[r].todo \ {NextToCreate(req[r].todo)}
  IN /\ At(r, "saveName")
     /\ WriteBack(r, req[r].copy)
     /\ req' = [req EXCEPT ![r] = [@ EXCEPT !.todo = rest,
                                     !.step = IF rest = {} THEN "await" ELSE "create"]]
     /\ UNCHANGED <<issued, users, cluster>>

\* The name is saved at once, before the next object is created.
SaveName(r) ==
  LET k    == NextToCreate(req[r].todo)
      rest == req[r].todo \ {k}
      row  == [req[r].copy EXCEPT !.names = @ \cup {k}]
  IN /\ At(r, "saveName")
     /\ WriteBack(r, row)
     /\ req' = [req EXCEPT ![r] = [@ EXCEPT !.copy = row, !.todo = rest,
                                     !.step = IF rest = {} THEN "await" ELSE "create"]]
     /\ UNCHANGED <<issued, users, cluster>>

AwaitReady(r) ==
  /\ At(r, "await")
  /\ "deployment" \in objects[req[r].app]
  /\ WriteBack(r, req[r].copy)
  /\ Goto(r, "url")
  /\ UNCHANGED <<issued, users, cluster>>

GetUrl(r) ==
  /\ At(r, "url")
  /\ "ingress" \in objects[req[r].app]
  /\ Goto(r, "finish")
  /\ UNCHANGED <<rows, issued, users, cluster>>

Finish(r) ==
  /\ At(r, "finish")
  /\ WriteBack(r, [req[r].copy EXCEPT !.status = "RUNNING", !.names = Kinds,
                                      !.replicas = SetReplicas(req[r].want)])
  /\ End(r)
  /\ UNCHANGED <<issued, users, cluster>>

\* Where an exception of the deployment leads.
Raise(r) ==
  req' = [req EXCEPT ![r] = [@ EXCEPT !.step = "fail", !.todo = {}, !.want = 0]]

Fail(r) ==
  /\ At(r, "fail")
  /\ WriteBack(r, [req[r].copy EXCEPT !.status = "ERROR"])
  /\ End(r)
  /\ UNCHANGED <<issued, users, cluster>>

-------------------------------------------------------------------------------
(* Scaling, by the admin                                                     *)

\* Faulty variant: anything that has a deployment can be scaled.
StartScaleAnyStatus(r, a, n) ==
  /\ rows[a] # Absent
  /\ "deployment" \in rows[a].names
  /\ n \in Replicas
  /\ Begin(r, a, "scale", "scale", {}, n)

StartScale(r, a, n) ==
  /\ rows[a] # Absent
  /\ rows[a].status \in {"RUNNING", "PAUSED"}
  /\ "deployment" \in rows[a].names
  /\ n \in Replicas
  /\ Begin(r, a, "scale", "scale", {}, n)

ScaleEffect(r) ==
  /\ "deployment" \in objects[req[r].app]
  /\ running' = [running EXCEPT ![req[r].app] = req[r].want]
  /\ UNCHANGED <<objects, namespaces>>

ScaleObject(r) ==
  /\ At(r, "scale")
  /\ ScaleEffect(r)
  /\ Goto(r, "save")
  /\ UNCHANGED <<rows, issued, users>>

Saves(r, op) == At(r, "save") /\ req[r].op = op

SaveScale(r) ==
  /\ Saves(r, "scale")
  /\ WriteBack(r, [req[r].copy EXCEPT
                     !.status = IF req[r].want = 0 THEN "PAUSED" ELSE "RUNNING",
                     !.replicas = req[r].want,
                     !.requested = None])
  /\ End(r)
  /\ UNCHANGED <<issued, users, cluster>>

-------------------------------------------------------------------------------
(* Requests that only change the row                                         *)

StartUpdate(r, a, n) ==
  /\ rows[a] # Absent
  /\ rows[a].status \in {"PENDING", "ERROR"}
  /\ Begin(r, a, "update", "save", {}, n)

\* Nothing is written when no column of the copy has changed.
SaveUpdate(r) ==
  LET row == [req[r].copy EXCEPT !.replicas = SetReplicas(req[r].want)] IN
  /\ Saves(r, "update")
  /\ \/ WriteBack(r, row)
     \/ row = req[r].copy /\ UNCHANGED rows
  /\ End(r)
  /\ UNCHANGED <<issued, users, cluster>>

StartReject(r, a) ==
  /\ rows[a] # Absent
  /\ rows[a].status = "PENDING"
  /\ Begin(r, a, "reject", "save", {}, 0)

SaveReject(r) ==
  /\ Saves(r, "reject")
  /\ WriteBack(r, [req[r].copy EXCEPT !.status = "REJECTED"])
  /\ End(r)
  /\ UNCHANGED <<issued, users, cluster>>

\* Faulty variant: a user's count is checked against the admin's limit.
StartScaleRequestUnchecked(r, a, n) ==
  /\ rows[a] # Absent
  /\ rows[a].status # "DELETED"
  /\ n \in Replicas
  /\ Begin(r, a, "requestScale", "save", {}, n)

StartScaleRequest(r, a, n) ==
  /\ rows[a] # Absent
  /\ rows[a].status # "DELETED"
  /\ n \in 0..MaxRequested
  /\ Begin(r, a, "requestScale", "save", {}, n)

SaveScaleRequest(r) ==
  /\ Saves(r, "requestScale")
  /\ \/ WriteBack(r, [req[r].copy EXCEPT !.requested = req[r].want])
     \/ req[r].want = req[r].copy.requested /\ UNCHANGED rows
  /\ End(r)
  /\ UNCHANGED <<issued, users, cluster>>

-------------------------------------------------------------------------------
(* Deleting, by the user (the row is kept as DELETED) and by the admin       *)

StartUserDelete(r, a) ==
  /\ rows[a] # Absent
  /\ rows[a].status # "DELETED"
  /\ Begin(r, a, "userDelete", "save", {}, 0)

SaveUserDelete(r) ==
  /\ Saves(r, "userDelete")
  /\ WriteBack(r, [req[r].copy EXCEPT !.status = "DELETED"])
  /\ req' = [req EXCEPT ![r] = [@ EXCEPT !.step = "delete", !.todo = req[r].copy.names]]
  /\ UNCHANGED <<issued, users, cluster>>

StartAdminDelete(r, a) ==
  /\ rows[a] # Absent
  /\ IF "deployment" \in rows[a].names
       THEN Begin(r, a, "adminDelete", "delete", rows[a].names, 0)
       ELSE Begin(r, a, "adminDelete", "removeRow", {}, 0)

RemoveRow(r) ==
  /\ At(r, "removeRow")
  /\ WriteBack(r, Absent)
  /\ End(r)
  /\ UNCHANGED <<issued, users, cluster>>

-------------------------------------------------------------------------------
(* What goes wrong                                                           *)

\* An UPDATE or DELETE that finds no row raises, and the handler ends.
StaleUpdate(r) ==
  /\ req[r] # Idle
  /\ req[r].step \in {"prepare", "image", "saveName", "await", "finish",
                      "fail", "save", "removeRow"}
  /\ rows[req[r].app] = Absent
  /\ End(r)
  /\ UNCHANGED <<rows, issued, users, cluster>>

\* What a raising Kubernetes call means to its handler.
CallRaises(r) == IF req[r].op = "process" THEN Raise(r) ELSE End(r)

\* A call is refused or does not get through, or the deployment is not ready in
\* two minutes.
CallFails(r) ==
  /\ req[r] # Idle
  /\ req[r].step \in {"namespace", "create", "await", "url", "scale"}
  /\ CallRaises(r)
  /\ UNCHANGED <<rows, issued, users, cluster>>

\* A call takes effect and its answer is lost.
ReplyLost(r) ==
  /\ LostReplies
  /\ \/ At(r, "namespace") /\ EnsureNamespaceEffect(r)
     \/ At(r, "create") /\ CreateEffect(r)
     \/ At(r, "scale") /\ ScaleEffect(r)
  /\ CallRaises(r)
  /\ UNCHANGED <<rows, issued, users>>

\* The process stops: every request is gone, rows and cluster stay.
Crash ==
  /\ Crashes
  /\ \E r \in Requests : req[r] # Idle
  /\ req' = [r \in Requests |-> Idle]
  /\ UNCHANGED <<rows, issued, users, cluster>>

-------------------------------------------------------------------------------
Arrival(r) ==
  \E a \in Apps :
    \/ \E n \in ReplicaInputs :
         \/ StartProcess(r, a, n)
         \/ StartScale(r, a, n)
         \/ StartUpdate(r, a, n)
         \/ StartScaleRequest(r, a, n)
    \/ StartReject(r, a)
    \/ StartUserDelete(r, a)
    \/ StartAdminDelete(r, a)

HandlerStep(r) ==
  \/ DeletionDone(r) \/ DeleteObject(r) \/ DeleteFails(r)
  \/ Prepare(r) \/ PrepareRefused(r) \/ EnsureNamespace(r)
  \/ CheckImage(r) \/ ImageInvalid(r) \/ CreateObject(r) \/ SaveName(r)
  \/ AwaitReady(r) \/ GetUrl(r) \/ Finish(r) \/ Fail(r)
  \/ ScaleObject(r) \/ SaveScale(r)
  \/ SaveUpdate(r) \/ SaveReject(r) \/ SaveScaleRequest(r)
  \/ SaveUserDelete(r) \/ RemoveRow(r)
  \/ StaleUpdate(r) \/ CallFails(r) \/ ReplyLost(r)

Next ==
  \/ \E a \in Apps : CreateApplication(a)
  \/ \E r \in Requests : Arrival(r) \/ HandlerStep(r)
  \/ Crash

Spec == Init /\ [][Next]_vars


-------------------------------------------------------------------------------
(* Fairness, used by the serial liveness run only.  A thread that holds a      *)
(* request keeps working on it.  A retried call does not fail for ever, the    *)
(* owner, the master and the image are not missing for ever, and the admin     *)
(* keeps processing what is PENDING or ERROR, asking for one replica.          *)

DeleteOf(r, k) == DeleteObject(r) /\ NextToDelete(req[r].todo) = k
CreateOf(r, k) == CreateObject(r) /\ NextToCreate(req[r].todo) = k

Fairness ==
  \A r \in Requests :
    /\ WF_vars(HandlerStep(r))
    /\ \A a \in Apps : SF_vars(StartProcess(r, a, 1))
    /\ SF_vars(Prepare(r)) /\ SF_vars(EnsureNamespace(r)) /\ SF_vars(CheckImage(r))
    /\ \A k \in Kinds : SF_vars(DeleteOf(r, k)) /\ SF_vars(CreateOf(r, k))
    /\ SF_vars(AwaitReady(r)) /\ SF_vars(GetUrl(r))

FairSpec == Spec /\ Fairness

-------------------------------------------------------------------------------
(* Safety, under any interleaving of requests                                  *)

\* The three names are saved in the order the objects are created in.  The
\* deletions of lines 370, 1268 look only at the deployment's name, so a row
\* that names a service but no deployment would never be cleaned up.
NamesInOrder(row) ==
  /\ "ingress" \in row.names => "service" \in row.names
  /\ "service" \in row.names => "deployment" \in row.names

\* An application shown as RUNNING or PAUSED names all its objects, so that a
\* later scale or delete finds them.
RunningIsNamed(row) == row.status \in {"RUNNING", "PAUSED"} => row.names = Kinds

\* PAUSED is recorded with zero replicas only.
PausedMeansZero(row) == row.status = "PAUSED" => row.replicas = 0

RowOK(row) == NamesInOrder(row) /\ RunningIsNamed(row) /\ PausedMeansZero(row)

\* Whole-row writes of stale copies never mix into an inconsistent row: every
\* row, and every copy a request may still write, is consistent in itself.
RowsConsistent ==
  /\ \A a \in Apps : rows[a] # Absent => RowOK(rows[a])
  /\ \A r \in Requests : req[r] # Idle => RowOK(req[r].copy)

\* What the code relies on from one step of a request to the next, without
\* reading it again: with it, TypeOK and RowsConsistent are inductive.
InProgress(q) ==
  /\ q.op = "scale" => q.want \in Replicas /\ q.copy.status \in {"RUNNING", "PAUSED"}
  /\ q.op = "requestScale" => q.want \in 0..MaxRequested
  /\ q.op = "update" => q.copy.status \in {"PENDING", "ERROR"}
  /\ q.step = "scale" => q.op = "scale"
  /\ q.step \in {"create", "saveName"} => Kinds \ q.todo \subseteq q.copy.names

\* Every check a request made when it started still holds of the copy it works
\* on, and what it has left to create is exactly what its copy does not name.
IInv ==
  /\ TypeOK
  /\ RowsConsistent
  /\ \A r \in Requests : req[r] # Idle => InProgress(req[r])

\* A removed record never comes back, although requests that loaded it before
\* its removal still save their copies.
StaysRemoved == \A a \in issued : rows[a] = Absent => rows'[a] = Absent
NoResurrection == [][StaysRemoved]_vars

-------------------------------------------------------------------------------
(* Safety, when requests on an application do not overlap                      *)

Busy(a) == \E r \in Requests : req[r] # Idle /\ req[r].app = a
Unnamed(a) == objects[a] \ rows[a].names

\* Between two requests every object that exists for an application is named
\* in its row: that is what the retry and both deletes rely on.
CreatedIsNamed ==
  \A a \in Apps : rows[a] # Absent /\ ~Busy(a) => Unnamed(a) = {}

\* A crash or a lost reply strands at most one object per application: no later
\* retry can add a second one to it.
AtMostOneUnnamed ==
  \A a \in Apps : rows[a] # Absent =>
    \A j, k \in Unnamed(a) : j = k

\* What the row says about the cluster: a RUNNING application has all its objects
\* and the recorded number of replicas, one where zero is recorded; a PAUSED one
\* has them and no replica; one never processed, or rejected, has nothing.
StatusMatchesCluster ==
  \A a \in Apps : rows[a] # Absent /\ ~Busy(a) =>
    /\ rows[a].status \in {"RUNNING", "PAUSED"} => objects[a] = Kinds
    /\ rows[a].status = "RUNNING" =>
         running[a] = IF rows[a].replicas = 0 THEN 1 ELSE rows[a].replicas
    /\ rows[a].status = "PAUSED" => running[a] = 0
    /\ rows[a].status \in {"PENDING", "REJECTED"} => objects[a] = {}

\* The status moves only along the edges of AppLifecycle.
Life(a) ==
  IF rows[a] # Absent THEN rows[a].status
  ELSE IF a \in issued THEN "gone" ELSE "none"

Abstract == INSTANCE AppLifecycle WITH life <- [a \in Apps |-> Life(a)]
ImplementsLifecycle == Abstract!Spec

-------------------------------------------------------------------------------
(* Liveness, when requests do not overlap and the server does not stop         *)

\* A request that is PENDING or ERROR is eventually deployed, rejected or
\* deleted, whatever calls fail on the way: a retry can always get over what
\* the failed attempt left behind.
Settles ==
  \A a \in Apps :
    (rows[a] # Absent /\ rows[a].status \in {"PENDING", "ERROR"})
      ~> (rows[a] = Absent \/ rows[a].status \notin {"PENDING", "ERROR"})

-------------------------------------------------------------------------------
(* What comments of the code say and the code does not do                      *)

\* "chi danh dau trang thai DELETED, phan xoa hoan toan do admin thuc hien": a
\* request marked DELETED stays so until the admin removes it.
DeletedStays ==
  [][\A a \in Apps :
       rows[a] # Absent /\ rows[a].status = "DELETED" =>
         rows'[a] = Absent \/ rows'[a].status = "DELETED"]_vars

===============================================================================
