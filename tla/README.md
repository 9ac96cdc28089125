# AutoDeployApp in TLA+

A verification project for this repository: a Spring Boot application with which
users upload container images as *deployment requests*, admins process them onto
one Kubernetes cluster, and admins build and run that cluster over SSH and Ansible
from the browser. Paths are relative to
`src/main/java/com/example/AutoDeployApp/` unless they say otherwise.

## The system's parts

| Component | Code | State it keeps | Operations | Talks to |
|---|---|---|---|---|
| Deployment requests | `controller/AdminController` 332-1310, `controller/ApplicationController`, `service/ApplicationService`, `entity/Application` | table `applications` (status, Kubernetes names, replicas, requested replicas) | upload, process/retry, scale, update, reject, ask for a scale, delete (user), delete (admin) | cluster objects, accounts |
| Account deletion | `AdminController.deleteUser` 148-226 | progress of one deletion | delete the objects, the namespace, the rows, the user | deployment requests, cluster objects |
| Cluster objects | `service/KubernetesService`, `service/K8sWorkloadsService` | none of its own: Deployments, Services, Ingresses, namespaces in Kubernetes | ensure namespace, create, wait, scale, delete | Kubernetes API |
| Accounts and sessions | `service/UserService`, `controller/AuthController`, `config/AdminAccessInterceptor` | tables `users`, `user_activity`; id, name and role in the HTTP session | register, create, login, logout, edit, reset, delete, access check | all pages |
| Server registry and SSH sessions | `service/ServerService`, `controller/ServerAdminController`, `service/ClusterService` | table `servers` (status, role), `CONNECTED_SERVERS` in each HTTP session | create, edit, delete, connect, disconnect, reconnect, check status, install key | SSH; the master look-up of every Kubernetes call |
| Web terminal | `ws/TerminalWebSocketHandler`, the terminal of `servers.js`, `core/wsClient.js` | map of WebSocket id to SSH connection; the client, its timers and retries | open, log in, input, close, reconnect | SSH |
| Ansible over WebSocket | `ws/AnsibleWebSocketHandler`, `ansibleWebSocket.js` | none between messages; one thread per command | install, init structure/config/keys, ping | SSH |
| Playbooks and their runs | `playbook-manager.js`, `service/AnsibleService`, `controller/AnsiblePlaybookController` | files on the controller; cache of execution states by task id; the editor and its pollers | list, read, save, delete, generate, start, poll | SSH |
| Ansible installation and configuration | `service/AnsibleInstallationService`, `controller/AnsibleConfigController`, `ansibleConfig.js` | files on the controller server, one `.bak` per file; the window's editors | check, install, remove, read, save with backup, verify, roll back | SSH |
| Cluster membership | `service/ClusterService`, `controller/ClusterAdminController`, `k8sClusters.js` | role and membership columns of `servers`; the page's tables | assign, remove, change roles, show | server registry, Kubernetes API |
| The machines themselves | the playbooks in `playbook-manager.js` | packages, files and services on each host; the cluster | reset, prepare, init, join, install add-ons | kubeadm, containerd |
| Kubernetes pages | `controller/K8s*Controller`, `service/K8s*Service`, `k8sWorkloads.js`, `k8sStorage.js`, `k8sServiceDiscovery.js`, `k8sConfiguration.js`, `k8sNamespaces.js`, `k8sNodes.js`, `k8sOverview.js`, `k8sEvents.js` | in the browser: lists, request tokens, filters, windows | list, show, filter, scale, restart, roll back, delete | Kubernetes API |
| Pages of servers, requests and projects | `servers.js`, `deploymentRequests.js`, `user.js` | cards and tables, open windows, intervals that poll | the operations of the components above, started from the browser | REST endpoints |
| Windows | `ui/modal.js`, `admin.js`, Bootstrap's `Modal` | instances, transitions, backdrops, the body's scroll lock | show, hide, clean up | every page |
| Names and quantities | `ApplicationService` 165-203, `KubernetesService` 370-467 and 1315-1550, `ClusterAdminController` 514-1134 and 1873-2146 | none | make names of what is typed, add up what nodes and servers report | deployment requests; the Metrics API, SSH |

The browser's files are under `src/main/resources/static/js/modules/` where no other
directory is said; `user.js` is in `src/main/resources/static/`.

What is hard about them:

* **Requests are threads over one unlocked row.** Every handler loads the
  `Application`, spends up to minutes in Kubernetes calls, and each `save` writes
  *all* columns of the copy it loaded: there is no `@Version`, no `@DynamicUpdate`,
  no lock, and the JPA session lasts as long as the request.
* **Two stores without a transaction.** A handler alternates Kubernetes calls and
  row writes. A call may fail, or take effect and lose its answer; the server may
  stop between the two. The row holds the only record of the names, and the clean-up
  of a retry or a deletion trusts it.
* **Cross-component deletion.** Deleting an account walks a list read at its
  start, while other requests change rows, namespace and users.
* **Slow SSH between a read and a write.** `check-status` and `checkAllStatuses`
  overwrite sets and rows they read many seconds earlier.
* **Background threads and polled caches** in the playbook runs: runs that queue for
  threads, break off, or are forgotten by a server that restarts, while a page polls.
* **Answers that come late.** A page has a single thread, but every `await` lets the
  user go on: filters are changed, windows opened for something else and buttons
  pressed again while answers are under way, which may overtake each other and fail.
  Some pages number their requests, most do not.
* **Sockets that open, drop and reconnect by themselves**, while the callbacks and the
  credentials they will use belong to whatever was opened last.
* **Playbooks that stop half way** on some hosts and are run again on what they left.

`PROJECT.json` lists each hazard at the line where it bites.

What makes each component correct:

* *Deployment requests* - the status tells the truth about the cluster, moves only
  along the documented life cycle, each object that exists is named in the row, a
  failed attempt can always be retried to success, a removed row stays removed,
  requests in parallel never mix into an inconsistent row.
* *Account deletion* - an account that is gone left no row, no object and no
  namespace; a deletion that failed can be repeated.
* *Accounts* - two accounts never have one name; a save changes what was asked for and
  brings back nothing that was deleted; what is entered of a session is its account's.
* *Names and quantities* - Kubernetes takes every name, and two things get one name only
  for a reason one can state; percentages are of the nodes and servers that answered.
* *Server registry* - the session's set of connected servers agrees with the
  last thing the admin did to each server; a disabled server stays disabled.
* *Terminal* - one types into the shell of the server in the title, and never
  anything a server takes for a login.
* *Playbook runs* - every poller ends, and shows all of the output before it says so.
* *Ansible* - a run does what its window said; steps are carried out in the order
  asked; no file is emptied unasked.
* *Cluster* - a deployment makes one cluster of all machines whatever it finds on
  them; a repair leaves healthy workers alone; there is one master.
* *Pages* - what is shown belongs to the title, the filter and the name it stands
  under; an older answer does not replace a newer one; nothing waits for what nobody
  asked; once nothing is under way the page shows what is so.

## Modules

`AppLifecycle` is the abstract specification: the graph of an application's status
that the pages, comments and messages promise.

`DeployRequests` is the detailed one. Variables and what they stand for:

| Variable | Code |
|---|---|
| `rows[a]` | the row of `applications` with id `a`, or `Absent`: `status`, `names` (which of the three name columns are set), `replicas`, `requested` |
| `issued` | ids the database has handed out (each at most once) |
| `users` | table `users` |
| `objects[a]`, `running[a]` | which of the Deployment, Service and Ingress of `a` exist; the Deployment's `spec.replicas` |
| `namespaces[n]` | `none`, `live` or `terminating` |
| `req[r]` | the handler a thread is in: operation, step, the managed entity (`copy`), objects left to create or delete, the count asked for |

One action is one database transaction or one Kubernetes call. Several log lines
saved one after another from the same copy, with no call between them, are one
write. The actions follow the handlers:

| Handler | Actions |
|---|---|
| `ApplicationController.upload` | `CreateApplication` |
| `AdminController.processDeploymentRequest` | `StartProcess`, the deletion actions on a retry, `Prepare`/`PrepareRefused`, `EnsureNamespace`, `CheckImage`/`ImageInvalid`, `CreateObject` and `SaveName` three times, `AwaitReady`, `GetUrl`, `Finish`; `Raise` and `Fail` for the catch block |
| `scaleDeploymentRequest` | `StartScale`, `ScaleObject`, `SaveScale` |
| `updateDeploymentRequest` | `StartUpdate`, `SaveUpdate` |
| `rejectDeploymentRequest` | `StartReject`, `SaveReject` |
| `ApplicationController.requestScaleAction` | `StartScaleRequest`, `SaveScaleRequest` |
| `ApplicationController.deleteApplication` | `StartUserDelete`, `SaveUserDelete`, then the deletion actions |
| `deleteDeploymentRequest` | `StartAdminDelete`, the deletion actions, `RemoveRow` |
| `deleteApplicationResources` | `DeleteObject`, `DeleteFails`, `DeletionDone` |
| environment | `StaleUpdate` (an UPDATE or DELETE that matches no row raises), `CallFails`, `ReplyLost`, `Crash` |

`UserRemoval` extends it with `AdminController.deleteUser`: `rem` is the deletion in
progress with the calls and rows left of the list it read, and `failed` says that
its error list is not empty. It composes with all of the handlers above, which share
the tables and the cluster with it. `NamespaceGone` is Kubernetes finishing a
namespace.

`ServerConnection` is the abstract specification of one server as an admin works
with it: known or not, disabled, off, connected, gone.

`ServerRegistry` is the detailed one:

| Variable | Code |
|---|---|
| `rows[i]` | the row of `servers` with id `i`, or `Absent`: `status`, whether `ssh_key_id` is set, the address (host with user name, and port) |
| `issued` | ids the database has handed out |
| `connected[s]` | attribute `CONNECTED_SERVERS` of session `s` |
| `lock[s]` | the thread inside `synchronized (session)` |
| `req[r]` | the handler a thread is in: operation, step, the rows in its persistence context (`loaded`), what it read of the session's set (`seen`), the form |

| Handler | Actions |
|---|---|
| `create` | `CreateServer`, then `Enter` and `Leave` for the session's set |
| `update` (edit form) | `StartEdit`, `SaveEdit`, `Enter`, `Leave` |
| `reconnect` | `StartReconnect`, `SaveReconnect`, `Enter`, `Leave` |
| `disconnect` | `StartDisconnect`, `SaveDisconnect`, `Enter`, `Leave` |
| `shutdown` | `StartShutdown`, `SaveShutdown`, `Enter`, `Leave` |
| `updateMetrics` | `StartMetrics`, `SaveMetrics` |
| `delete` | `DeleteServer` |
| `checkStatusAll` | `StartCheck`, `SaveCheck`, `ListServers`, `Publish`, none of them under the lock |
| errors | `Fails` |

`Accounts` is the table of users and those who are logged in:

| Variable | Code |
|---|---|
| `users[i]`, `issued` | the row of `users` with id `i`, or `Absent`; the ids handed out |
| `session[s]`, `cookie[b]` | `USER_ID`, `USER_USERNAME` and `USER_ROLE` of a session, set one after another; the session a browser names |
| `activity` | table `user_activity`: how many entries there are, and the newest |
| `req[t]` | the handler a thread is in: the row it has loaded, what it was asked for, its session |

| Handler | Actions |
|---|---|
| `AuthController.register`, `AdminController.createUser` | `Register`, `CreateUser`, then `InsertUser` or `InsertRefused` |
| `AdminController.updateUser`, `resetPassword` | `UpdateUser`, `ResetPassword`, then `SaveUser` |
| `AdminController.deleteUser` | `DeleteUser`, `RemoveUser`; what lies between is `UserRemoval` |
| `AuthController.login` | `Login`, `LogLogin`, `SetId`, `SetName`, `SetRole`; `LoginRaises` |
| `AuthController.logout` | `Logout`, `LogLogout`, `Invalidate`; `LogoutRaises` |
| environment | `SessionExpires`, `Restart` |

`K8sNames` has the conversions of `sanitizeStringForK8s` and of the names made from its
results as operators on sequences of characters, one per replacement in the code; its
state is who has registered and uploaded under which names. `ResourceUsage` is one
request for the usage of the cluster: the two calls to Kubernetes and the SSH polls, as
steps between which nodes come, go and are measured, and the parsing and adding up of
quantities as operators.

`MCDeployRequests`, `MCUserRemoval` and `MCServerRegistry` instantiate these for TLC, and
`MCServerParts` the last three, of which each of its behaviours takes one: `part` says
which, and the variables of the others stay as they begin. `DeployRequestsProofs`
(of deployment requests and of the removal of users), `ServerRegistryProofs` and
`ServerPartsProofs` hold the theorems about them, `ClusterPagesProofs` those about the seven
Kubernetes pages, `WaitingPagesProofs` those about the four pages that wait, and
`AssignServersProofs`, `AnsibleProofs` and `AdminPagesProofs` those about the ten pages of
`MCAdminPages`, the cluster the playbooks build among them. The constant `Handlers` of
`DeployRequests` and `ServerRegistry` is the set of operations that are called: a run
may leave one out, the theorems hold for any choice.

Operators commented *Faulty variant* or *(variant)* are not part of a specification:
each is a definition with a plausible bug, kept to show that the property it belongs
to would notice.

### The pages

Each page is a module of its own, with its variables, `Init`, one action per handler,
answer, failure or timer, and its properties. A request is sent, answered by the
server (where what it reads may change meanwhile) and received, in three steps or, if
nothing that matters lies between, in two; what the page keeps between sending and
receiving is a record in `calls`, `loads`, `ops` or the like. What other people do,
and the cluster itself, are actions too. Texts, markup and translations are left out.

| Module | Code | What it models |
|---|---|---|
| `WorkloadTabs` | `k8sWorkloads.js` | the tabs' lists, the one token all requests share, silent reloads, operations that reload and poll until the workload is as wanted |
| `WorkloadDetails` | `k8sWorkloads.js` | the detail window of each kind as a script of sections filled by several answers; output, log and command windows |
| `ResourceTabs` | `k8sStorage.js`, `k8sServiceDiscovery.js` | tabs with a token each, the namespace select, deletions with silent reloads |
| `ConfigurationPage` | `k8sConfiguration.js` | tables without tokens, search, RBAC's four tables, deletions |
| `NamespacesPage` | `k8sNamespaces.js` | the list, deletions that last minutes, details by request id, YAML by name |
| `NodesPage` | `k8sNodes.js` | the merge of two answers into rows shared by all loads; the node window |
| `OverviewPage` | `k8sOverview.js` | five requests per reload and the cells they fill |
| `EventsPage` | `k8sEvents.js` | filters the server knows and filters of the page |
| `RequestsPage` | `deploymentRequests.js`, `core/apiClient.js` | lists, windows, deployments, the interval that polls a log |
| `PlaybookManager` | `playbook-manager.js`, `AnsibleService.java` | the editor, the list and the files, each handler a flow of requests |
| `PlaybookRuns` | the same | thread pool, status cache, pollers, restarts of the server |
| `ClusterBootstrap` | `playbook-manager.js` 500-2070 | the playbooks task by task, and what each task does to a host |
| `AnsibleInstall` | `ansibleConfig.js`, `ansibleWebSocket.js`, `AnsibleWebSocketHandler.java` | status checks with a token, the window, its sockets and runs |
| `AnsibleInit` | the same | the four steps, their sockets, and the run of all with its timers |
| `AnsibleEditors` | `ansibleConfig.js`, `AnsibleConfigController.java` | reading, saving with backup, verifying, rolling back the three files |
| `Terminal` | `servers.js`, `wsClient.js`, `TerminalWebSocketHandler.java` | clients, sockets, retries, the log-in by key then password |
| `ServersPage` | `servers.js` | cards, their operations, the windows to add, edit and reconnect |
| `AssignServers` | `k8sClusters.js` | both tables, and chains of requests that assign, remove and change roles |
| `ClusterPage` | `k8sClusters.js`, `ClusterService.java` | the summary, the version card and the grid |
| `ProjectsPage` | `user.js` | the list with search and pages, the form and its variables |
| `Windows` | `modal.js`, `admin.js`, Bootstrap's `Modal` and `Backdrop` | instances, transitions, backdrops, the scroll lock, the clean-up in the next frame |

`MCWaitingPages`, `MCClusterPages` and `MCAdminPages` check several of them in one run:
`onScreen` is the page one has opened, its module takes the steps, and the variables
of the others keep the value `"unused"`. Only one page is open at a time (each is an
HTML document of its own), so nothing is lost; what the pages share is on the server,
and is changed from elsewhere by actions of each module. Variables of the same name
are one variable, and mean what the page on the screen says. A property of such a
module is what several pages have in common to promise; each conjunct names a
property of a page, which is defined and explained in that page's module.

### Abstractions

* The three object names are functions of the application id, so a row records which
  of them are set and an object is identified by its application and its kind.
* Images, ports, logs, URLs and texts are left out. Whether an image is valid, an
  owner or a master is found, an update changes a column, is a choice.
* ConfigMaps, Secrets, autoscalers and disruption budgets, deleted along with the
  Deployment and never created by these handlers, are left out.
* The user check and the insert of an upload are one action; no handler can delete
  the user between them except an account deletion, whose own window (the list it
  reads) is far longer and is modelled.
* Database failures other than a missing row are left out.
* The Kubernetes pages can delete or scale the same objects by hand. That is an
  admin bypassing the record, and is not modelled.
* SSH is a choice of outcomes: a login by key or password works or does not, a key
  can be installed or cannot. Role, cluster status, metrics and the password's hash
  are columns no guard of these handlers reads; that one of them changed is kept,
  since it decides whether a row is written (`SaveDirty`, `SaveMetrics`).
* An edit sends a whole address or none (the page always sends it whole). The
  metrics of all servers at once (`refreshAllMetrics`) are the same write in a loop.
* Of an account the full name and the tier are left out, which nothing reads; a password
  stands for its hash. A role or status that is none of the known words (a new account
  may be given any) acts as USER or INACTIVE, and is that.
* In `K8sNames` the lengths 50 and 63 are constants, and a character that is neither
  letter, digit, blank nor dash is one like the others. In `ResourceUsage` numbers are
  small and integral: `Thousand` stands for 1000, `Kilo` for 1024 and each prefix is the
  next power. `UsageAssumption` says in which units quantities come: cores and Ki of a
  node, as a kubelet gives them, billionths of a core and Ki of what it uses, as a metrics
  server does, and of a server anything that `free -h` writes; that a node has some of
  each; and that no server uses more memory than it has.
* MySQL, JPA and Kubernetes are external; they are modelled as the code uses them
  (`create` refuses an existing name and a namespace that is not live; `delete` of
  what does not exist succeeds; namespaces go asynchronously).

## Runs

Database ids are issued at most once and there are one or two of them, so everything
may end: `CHECK_DEADLOCK FALSE` stands for the rows removed and nothing left to ask
for. A page on which nobody clicks any more is still, too: the page runs bound clicks
and failures, and end when the last answer is in.

| Run | Question | Bounds |
|---|---|---|
| `serial` | requests on an application do not overlap, calls fail anywhere: `CreatedIsNamed`, `StatusMatchesCluster` | 1 application, 1 thread, counts -1..3 with a limit of 2 |
| `faults` | the same with crashes and lost replies: `TypeOK`, `AtMostOneUnnamed`, `ImplementsLifecycle` | as `serial` |
| `overlap` | two requests on one application in any interleaving: `RowsConsistent`, `NoResurrection` | 1 application, 2 threads, counts 0 and 1, every handler but the user's scale request |
| `settles` | liveness with failing calls: `Settles` | 1 application, 1 thread, counts -1..1 with a limit of 1 |
| `removal` | an account with two applications is deleted, calls fail and the server stops anywhere: `RemovedUserOwnsNothing`, `RowsGoLast` | 2 applications, 1 user, 1 thread |
| `servers` | one request at a time: `TypeOK`, `ConnectedIsEnabled`, `ImplementsConnection` | 2 servers, 2 addresses on one host, 1 session, 1 thread |
| `servers_overlap` | two requests in any interleaving: `NoResurrection`, `LockedUpdatesKept` | 2 servers, 2 addresses on one host, 1 session, 2 threads; create, reconnect, disconnect, shutdown, metrics and delete |
| `server_parts` | accounts, names and the usage of the cluster: `PartsTypeOK`, `NamesAreUnique`, `NamesHold`, `GoneForGood`, `ServedAsAsked`, `UsageHolds` | 3 account ids, 2 names, 2 passwords; overlapping requests: 2 threads, 1 browser, 1 session, 1 entry, ACTIVE; one at a time: 2 browsers, 3 sessions, 3 entries, 1 account with another password, 1 inactive; every name up to 3 of 7 characters, cut at 3, labels at 12; 2 nodes, 2 servers, every unit |
| `waiting_pages` | the pages that wait for something to end, with fairness: `PagesTypeOK`, `WaitsAreAsked`, `EndsAreTrue`, `OvertakenLoses`, `WaitsEnd` | 2 tabs, 2 changes of the cluster, 2 polls; 2 requests, 2 acts, 1 window; 2 runs on 1 thread, 1 restart among the failures; 2 runs of all steps; 1 failure |
| `cluster_pages` | the Kubernetes pages: `PagesTypeOK`, `WindowsMatchTitles`, `SpinnersAreAsked`, `ListsAreTrue`, `OneDeletion`, `OvertakenLoses`, `FailuresAreTold` | 2 names, 3 openings of windows; 2 namespaces; 1 change of the cluster and 2 clicks; 3 namespaces, one of the system's; 2 nodes; 1 failure |
| `admin_pages` | the cluster, Ansible, terminal, servers, projects and windows: `PagesTypeOK`, `DeploysWork`, `NothingUndone`, `ActsOnWhatIsShown`, `BusyIsAsked`, `SettledIsTrue`, `OneMaster` | 1 master and 2 workers, every playbook, 2 clusters made, 1 fault; 2 playbooks, 2 overlapping flows; 2 terminals' servers, 2 clients, 1 retry, 2 drops; 1 card, 2 operations at once: 2 of any kind with 2 loads at once or 1 failure, or 5 of the edit window with 1 failure; 3 projects, 1 on a page; 3 openings of 3 windows; 1 failure |
| `deleted_stays` | a request in flight undoes a user's deletion: its stale whole-row write restores the old status | 1 application, 2 threads |

`deleted_stays` is expected to be violated: it is a finding in `PROJECT.json`, with the
line of the code it disagrees with. The inductive invariants below were checked with the
same instances before they were proved; now that they are, no run repeats them.

What the parts of the runs' properties are:

* `WaitsAreAsked` and `SpinnersAreAsked`: `LatestIsShown`, `LoadingIsAsked`,
  `PollingHasCall`; `AllFilled`, `SpinnerHasRequest`, `SettledHasNoSpinner`,
  `YamlIsAsked`, `DetailIsAsked`, `SettledIsFilled`. What turns has something that
  will stop it.
* `EndsAreTrue`: `ReadyIsFresh`, `TerminalComplete`, `SettledRequests`. What is told
  at the end of a wait is so.
* `OvertakenLoses`: `NeverOlder`, `AskedInOrder`; `ResNeverOlder`, `ErrorStays`.
* `WaitsEnd`: the four pages' waits lead to their end.
* `WindowsMatchTitles`: `OneWorkload`, `OutputMatchesTitle`, `CommandRunsInTitle`,
  `DetailOfTitle`, `WindowOfTitle`.
* `ListsAreTrue`: `ListMatchesFilter`, `SettledListMatches`,
  `SettledEventsMatch`, `RowsOfOneAnswer`; `DeletedIsGone`,
  `AssignedIsNotUnassigned`, `SettledRowsAreTrue`, `CountsTheList`.
* `FailuresAreTold`: `FailureIsTold`, `YamlCanBeAsked`.
* `DeploysWork`: `DeployRepairs`, `DeployCompletes`, `WorkersJoined`.
* `NothingUndone`: `RepairLeavesReadyAlone`, `NothingEmptied`, `RoleKept`.
* `ActsOnWhatIsShown`: `TextUnderItsName`, `RunIsPressed`,
  `FieldsAreEnv`; `ShellOfTitle`, `OnlyCurrentHasShell`, `LoginFirst` of `Terminal`.
* `BusyIsAsked`: `NewestIsShown`, `SettledEditors`, `OneSave`, `BusyIsAsked` of
  `ServersPage`, `OneUpload`, `CheckingIsAsked`.
* `SettledIsTrue`: `SettledStatus`, `SettledCards`, `SettledTables`,
  `SettledCluster`, `SettledProjects`, `PageHasProjects`, `NothingLeft`,
  `OpenIsCovered`.
* `ServedAsAsked`: `OnlyTheAsked`, `OwnLogout`. `NamesHold`: `NamespacesAreLabels`,
  `SharersLookAlike`, `DeploymentsAreDistinct`. `UsageHolds`: `UsedIsWithinTotal`,
  `AverageIsTrue`, `SharesAreTrue`.

Many of these hold only with an exception, which the definition names (*unless a
request failed*, *unless an answer came late*). Each was first stated without it; the
exceptions are what TLC showed to be needed, and
*What the pages do* below has the traces behind them.

Why the bounds are enough. Two applications interact only through the namespace and the
owner, so everything but the removal runs takes one. A stale write needs one request
that loaded the row and one that changed it: two threads. A count matters to the code
only as negative, zero (paused, clamped), one, or more; the overlapping runs keep zero
and one, since no guard tells larger counts apart. `MaxReplicas` and `MaxRequested`
stand for the limits 200 and 50 and stay apart in `serial`, `faults` and `overlap`. Only
scaling and a user's scale request check a limit: processing and updating take any
integer, and -1 and `MaxReplicas + 1` stand in `serial` and `faults` for all that are
negative and all beyond it. `overlap` drops `running` from the view of a state: no guard
and none of its properties read it. Its two threads are symmetric, and its properties do
not name one. It leaves the user's scale request out: that handler loads, changes and
saves its copy as an update does, and the proofs have it.

Two servers are enough for the look-up that forgets the port and for an update of the
set that undoes another's. `servers_overlap` leaves out the edit, which takes the lock
as the others do and has many forms, and `check-status`, which takes no lock: with it
`LockedUpdatesKept` does not hold. `NoResurrection` with both is proved.

On a page a wrong answer needs one thing opened or asked for, another after it, and the
answers in the other order: two names and two or three clicks, with one failure to hit
either. Deployments are checked on two workers since one that is Ready and one that is
not are what a repair must tell apart, and with two clusters since a worker may belong
to one that is gone. Three openings let two instances of one window meet the closing of
another. The save button of a window of the servers page is enabled by a save's own end
and again by the end of the load it awaits; for three saves to meet, the window is
opened twice and saved three times, which are five operations, of which two are under
way at once and one load. Loads that meet and requests that fail are in sessions of
their own: `SettledCards` promises nothing once a request failed, and the buttons do not
depend on which load shows its cards (`ServerSessions`). `waiting_pages` has a single
thread for two runs so that one waits for the other. Statuses of servers and their roles
are cut down where a page treats several alike; the module says which stand for which.

Two accounts of which one is deleted and its name taken again are what a stale name in a
session needs, and logging in twice in one browser needs one more session: `server_parts`
has three ids and three sessions. `ServedAsAsked` is about requests that do not overlap,
since two that do undo each other's columns; `NamesAreUnique` and `GoneForGood` hold all
the same, for which two threads and little data are enough. That part keeps one session
and one password (`FewData`): whose they are makes no difference to a save or an insert.
Without overlaps one account may differ from the others in its password and one in being
active (`FewDiffer`), since each request is about one. For the names the run goes through all strings up to three characters
over a capital, two letters, a digit, a dash, a blank and another character; cut at three,
so that cutting, prefixing and the dash a cut may leave all happen. Uploads are looked at
where the accounts of `Owners` are registered, since a Deployment's name does not depend
on the others. For the usage the nodes differ in size, and the
units from none to Ti occur; `PlainCores` is up to what a plain number is taken for cores, `Sampled` and `SampledDisks` the
servers polled, 5 and 3 in the code.

What the models of the server show beside these runs:

* A create whose answer is lost leaves an object whose name is not saved; every retry
  is then refused because it exists (`faults` has it: `AtMostOneUnnamed` and not
  `CreatedIsNamed` is what holds).
* Processing with zero replicas records 0 and runs 1, as `StatusMatchesCluster` says.
* A stale whole-row write also drops a user's request to scale, and a server's SSH key
  that a reconnect has just installed.
* An upload between the listing of an account's applications and the end of the
  account's deletion outlives the account (`removal` sets `Overlap` to `FALSE`).
* `check-status` overwrites a session's set without its lock, so that a server
  disconnected during it is back in the set (`ConnectedIsEnabled` needs `Quiet`, and
  one thread).
* With two servers on one host and user name, neither can be saved under its own
  address: the look-up of a duplicate forgets the port (`Refused`,
  `ServerService.java:159`).
* A delete call that fails is logged and skipped (`KubernetesService.java:688`), and
  the row that named the object is removed or emptied all the same
  (`AdminController.java:1239`, 1291): it stays in the cluster without a name.
* Two user names may sanitize to one namespace (`ApplicationService.java:163`), which
  the deletion of either user deletes (`AdminController.java:180`). `SharersLookAlike` says
  which: names with the same letters and digits in the same words, a name that begins
  with a digit and one that begins with `n` before it, names of which nothing is left,
  and names that are cut.
* An application's name like `_app` gives a Deployment name that begins with a dash or
  nothing (`AdminController.java:471`): Kubernetes refuses it, and the request fails. Two
  applications of one user whose names give one label share one host
  (`KubernetesService.java:379`). `application.properties` says the host is
  `{namespace}.{domain.base}`; it is `{namespace}-{app}.{domain.base}`.
* Without a base domain the path of an Ingress is made of the namespace alone
  (`KubernetesService.java:411`), which all applications of a user share, although the
  comment says it is to avoid conflicts (370).
* The amount of a quantity is its number without its unit: memory in use, said to be in
  bytes, is added up without it and shown 1024 times too small
  (`KubernetesService.java:1376`). The percentages are right, the unit cancelling out.
* In the average over SSH a server that fails counts as 0 % of memory, and as nothing of
  CPU and disk (`ClusterAdminController.java:1088`). A plain number up to 1000 is read as
  cores, above as billionths of one (`KubernetesService.java:1462`).
* A reset and an edit of one account that overlap undo each other's column
  (`UserService.java:87`, 106). A role is kept in the session from the log-in on, so an
  admin who is demoted or deleted goes on as one. Nothing keeps the last admin. When a
  name is used again, the log-out of its former owner is entered for the new one.
* `checkAllStatuses` writes whole rows it read before its pings
  (`ServerService.java:492`, 526): a server disabled meanwhile is enabled again.
* The edit form sends an address, is verified and made ONLINE, so its choice DISABLED
  never disables (`ServerService.java:226`, `servers.js:701`).
* Task ids are milliseconds (`AnsibleService.java:185`): two runs begun in the same one
  share an id and a status. `cleanupOldTasks` (268) is never called.
* Two saves of Ansible's files share one `.bak` (`AnsibleConfigController.java:99`); runs of
  Ansible are not kept from overlapping on one host (`AnsibleWebSocketHandler.java:159`);
  the terminal's output pump starts before its success message is sent
  (`TerminalWebSocketHandler.java:108`).

### What the pages do

Found while the pages were modelled; each is in the model, as a guard, an exception
of a property, or a step that ends where the code ends.

*Reference errors.* `escapeHtml` is not defined where these use it: a success of a
deployment request is told as an error and ends the polling at once
(`deploymentRequests.js:682`); workload histories, volumes and job histories with at
least one row, one to five refreshed servers, an empty answer of the Ansible check and
any list of users end in an error. `isSystemNamespace` is not defined in three
operations on workloads (`k8sWorkloads.js:1418`, 1456, 1475) nor for deleting an Ingress,
`showAlertOrFallback` not for a failed rollback or image update, `id` not for a 404 of
the cluster's details. `installCalico` is called by a button and defined nowhere.

*Answers out of order.* Lists without a token (configuration, namespaces, nodes,
overview, requests, servers, projects, cluster) show the answer that comes last. A
silent reload that overtakes a visible load leaves its spinner for ever on the service
page. The parallel silent reloads of a workload's operation share one token, so the main
tab's answer is dropped; when a reload fails, the poll judges the older list. A node's
window opened while another's pods are awaited mixes the two, and the late YAML of the
first is shown and keeps the second's from being asked for. A saved edit or reconnection of
a server enables its button again once the load that follows has ended
(`servers.js:710`, 915): when the window was opened and saved again meanwhile, that save's
button is enabled under way and a third save can start (`crossed`; `OneSave` and
`BusyIsAsked` except it). The exec window keeps the
containers of the pod before until the answer is there. A late save closes whichever
window of the servers page is open. The approval reads CPU and memory from whichever
request's window is open after its save.

*Failures that look like an empty answer.* A failed list says "Chưa có …" (there is
none) for servers, projects, RBAC and tabs loaded together; on the page that assigns
servers it empties both tables, makes a removal send WORKER and passes the check for a
master. The cluster page says there is no cluster only when its request failed, beside a
grid that may be full. A file of Ansible's that cannot be read is shown empty, and no
save of it is refused, but an empty one is not written. `checkPlaybookExists` takes an
error for no, and overwrites. `ApiClient` gives up after 30 seconds what the server goes
on with: deployments, deletions of namespaces, uploads.

*Filters and counts.* A search typed during a load is lost on the configuration pages; on
the events page a kind selected before a load hides the other kinds until the next; a
project search that matches nothing removes its own field; the select of the storage page
shrinks to the namespace asked for. Counts show the total when nothing matches.
`findByClusterStatus` calls a cluster healthy with a DISABLED server, which the page
counts as offline; the overview counts as ready a node the nodes page shows OFFLINE.

*Terminal.* The window's buttons hide it: the shell stays, and reconnects. Every connect
adds a handler of keys, which are sent twice after the key was refused and the password
taken. A client that was put off and opens late types the log-in message into the newer
client's shell. The retry counter is reset by every opening, so a refused log-in retries
for ever. `exit` reconnects a new shell.

*Playbooks and Ansible.* The exit code of a run is ignored: a failed one is told as
completed. `00-reset` restarts containerd, fatally where there is none, although it says
"No old cluster to reset."; 13 always fails, since it pipes in a `command`; 07 ends at an
unreachable worker it says it skips, and says "has successfully joined" whatever kubeadm
said. The run of all initialisation steps takes the echo of a command for its success
(the steps overlap) and says it is complete whatever happened. A socket replaced while
connecting sends the command of the newest window. Saves that fail validation have
written already, and the reload of `ansible.cfg` reads a field the answer has not and skips
an empty text, so that editors keep what was typed (`ansibleConfig.js:989`).

*Windows.* A details window opened while an earlier instance of it is closing may end
open but not displayed, under a backdrop; two clicks on a row make two instances, of
which the close button hides the newest. `OpenIsCovered` and `NothingLeft` except these.

## Fairness

`settles` and `waiting_pages` assume some. In `settles` a thread with a request goes on (`WF` of
`HandlerStep`): Tomcat's threads are not suspended for ever, and every call has a
timeout. `SF` of the admin's `StartProcess` and of each successful step states what
the property needs of the world around the code: an admin who keeps retrying, a
cluster that does not refuse the same call for ever, a master and an image that
exist. It says nothing of the clean-up of the code itself, and that is what the run
tests: with strong fairness but without the deletions a retry starts with, the
second attempt is refused for ever since the objects exist (mutant
`StartProcessNoCleanup`). The run has no crash and no lost reply: with either, the
stranded object refuses every retry.

In `waiting_pages` every request gets an answer or fails, since `ApiClient` aborts one
after 30 seconds, and every timer fires, since it is the browser's (`WF` of the page's
answers, of its waits between two polls, of its timers and of the half seconds and 30
seconds of `AnsibleInit`). A free thread of the pool takes the run that waits, and a
playbook ends (`WF` of `TakeThread`, `Complete`): the latter is what the property needs
of the world, for a playbook that hangs holds its thread for ever
(`AnsibleService.java:344`). Nothing is assumed of clicks, of failures, of what the
cluster does, nor that a workload ever becomes what was asked for: the polls give up.

## Proofs

`DeployRequestsProofs` proves, for any number of applications, threads, users and
namespaces and any counts, with crashes and lost replies, from
`ConstantsAssumption` alone:

* `Invariance`: `Spec => []IInv`;
* `TypeCorrect`: `Spec => []TypeOK`;
* `RowsStayConsistent`: `Spec => []RowsConsistent`;
* `RemovedForGood`: `Spec => NoResurrection`.

`RowsConsistent` alone is not inductive: `SaveScale` sets RUNNING on its copy, and
only the status check made when the request started, minutes earlier, says that the
copy names all three objects; `SaveName` adds a Service's name only to a copy that
already names the Deployment, since `todo` and the copy's names cover the three
kinds between them. `InProgress` says of each request what its handler relies on
from earlier steps without reading it again. `IInv` adds it and is inductive: one
lemma per way an action changes the state (`WriteBack`, a step of one thread, the
start of a request, a cluster call), and one step per action in the main proof.

It also proves, for any number of applications, threads and users, of `SerialSpec`, which is `Spec` with no two requests on one application at a time:

* `SerialInvariance`: `SerialSpec => []SerialIInv`;
* `StrandsAtMostOne`: `SerialSpec => []AtMostOneUnnamed`;
* `LifecycleIsKept`: `SerialSpec => ImplementsLifecycle`, the refinement of `AppLifecycle`;
* `NothingIsStranded` and `StatusIsTrue`: where the server does not stop and every call
  that takes effect is answered (`Reliable`), `SerialSpec => []CreatedIsNamed` and
  `SerialSpec => []StatusMatchesCluster`.

That requests on one application do not overlap is assumed (`OneAtATime`): nothing in the
code sees to it, and `overlap` shows what is left without it. Requests on different
applications interleave freely. The properties are about the time between two requests
and are not inductive. `SerialIInv` says during one that its copy is the row it will
write over (`Held`: from this follow the edges of the status); that an object without a
name can only be the one created next (`Stray`: a retry finds its name taken and stops
there, so a second one is never added); and, where calls are answered, how far the
request has come with the objects and replicas (`During`), which at its end is what the
row says (`AtRest`).

And of the removal of users, for any number of accounts, applications and threads, with
crashes and lost replies:

* `RemovalInvariance`: `RemovalSpec => []RemovalIInv`;
* `GoneUserOwnsNothing`: `RemovalSpec => []RemovedUserOwnsNothing`;
* `RowsLast`: `RemovalSpec => RowsGoLast`.

They assume `~Overlap` (no upload or request arrives during the deletion) and
`PrivateNamespaces` (no two users share a sanitized name). Neither is guaranteed by
the code: without the first an upload outlives its owner, without the second the
deletion of a user takes another's namespace. `RemovedUserOwnsNothing` is not inductive:
when the account goes it takes `RemovalInProgress` to know that nothing is left (the
rows still to remove cover what the user has, and the namespace has been on its way
out since the rows were begun), and afterwards it takes `GoneUsers` to know that no
request can recreate the namespace. `ObjectsInNamespace` says that what a failed
delete call left goes with the namespace. The handlers of `DeployRequests` enter the
proof only by what they may touch (`OnlyItsApp`).

`ServerRegistryProofs` proves, for any number of servers, sessions and threads:

* `RegistryInvariance`: `Spec => []IInv`, and `RegistryTypeCorrect` from it;
* `RemovedServersStayRemoved`: `Spec => NoResurrection`, the status check included;
* `LockKeepsUpdates`: `Spec => LockedUpdatesKept`, where `check-status` is not served
  (`"check" \notin Handlers`); it takes no lock, and with it the property is false.

`IInv` adds to the types what each handler knows of the rows it has loaded
(`InProgress`) and that a thread about to write the session's set holds that
session's lock and has read the set as it still is (`LockHeld`).

It also proves, for any number of servers and threads, of `AdminSpec`, which is `Spec`
with one request at a time, where there is one session (`OneSession`):

* `AdminInvariance`: `AdminSpec => []AdminIInv`;
* `ConnectedStaysEnabled`: `AdminSpec => []ConnectedIsEnabled`;
* `ConnectionIsKept`: `AdminSpec => ImplementsConnection`, the refinement of
  `ServerConnection`.

Both assumptions are needed: a disconnect tells no other session's set, and a status
check that overlaps one puts the server back. A removal may come at any time. While a
request runs, the row it has disabled is in the set until `Leave`: `Leaving` says that
this request and no other is about to take it out, and `Known` that what it decides by,
its copy of the row and of the set, is what the table and the session still hold.

`ServerPartsProofs` proves, for any number of accounts, names, browsers, sessions and
threads, from `AccountsAssumption` alone:

* `AccountInvariance`: `AccountSpec => []AccountIInv`;
* `AccountsTypeCorrect` and `NamesStayUnique`: `AccountSpec => []AccountTypeOK` and
  `AccountSpec => []NamesAreUnique`;
* `DeletedAccountsStayGone`: `AccountSpec => GoneForGood`;

and where requests do not overlap (`~Overlap`):

* `SerialAccountInvariance`: `AccountSpec => [](AccountIInv /\ SerialAccountIInv)`;
* `AskedChangesOnly` and `LogoutsStayOwn`: `AccountSpec => OnlyAskedChanges` and
  `AccountSpec => LogoutsAreOwn`.

A save writes the name of the row it loaded, so unique names are not inductive: `Carries`
says that a row a request has loaded is still found under that name, if it is found, and
`NamesKept` that no step renames an account, reuses an id or brings a row back; every step
but the insert keeps `AccountIInv` by it. The second half is about steps a thread takes
alone (`SerialNext`), since a save in between leaves the loaded row behind.
`SerialAccountIInv` says that the loaded row is the row in the table, and that a session
is of one account by its id and by its name (`OneAccount`), but for the moment in a log-in
when the id is set and the name is not.

Of the specification of `MCServerParts`, that is of accounts as above, of names of any
length and any characters, and of any finite set of nodes and servers, it proves from
`AccountsAssumption` and `PartsAssumption` all of what the run `server_parts` checks:

* `PartsInvariance`: `Spec => []PartsIInv`, and `PartsTypeCorrect` from it;
* `NamesAlwaysHold`: `Spec => []NamesHold`; `UsageAlwaysHolds`: `Spec => UsageHolds`;
* `AlwaysServedAsAsked`: `Spec => ServedAsAsked`.

(Unique names and accounts that stay gone are the theorems of `AccountSpec` above.)

The names are in the state as they were typed, so that the invariant says little
(`NamesIInv`) and the proof is of what the conversions make of a text. They are compared
by the words of the two texts, and both are followed from one character to the next:
`WordsAppend` says what a character adds to the words, `TidyStep` that a step of
`SingleDashes` adds the same to what it has made so far, and so `CleanedIs` that the
cleaned text has the words of the typed one, `TidyLength` that it is as long as they are
joined, and `WordsFronted` what the n before a digit does to them. A cleaned text is known
by its words (`Sharers`). Of the usage `AskOK` says what a request knows between its calls:
what it has seen of each node fits the node, whether it is still there or not; no result is
there before the nodes are read; a result is of nodes with some cores, or is the average of
the answers kept with it. That the units can be left out is `UsesAre` and `SizesAre`, for
one quantity, and `SumTimes` and `PercentTimes`, for a sum and a share.

A sum over nodes and what a fold leaves of a text are recursive functions. The theorems of
the library on induction take an operator, which the provers cannot instantiate; but
`NatLessThanWellFounded` and `WFMin` take a set. `Smallest` is that a set of numbers has a
least one; `AllNumbers`, `AllSequences` and `AllSubsets` are the inductions, for sets of
numbers, of sequences and of subsets, each from the smallest counterexample there would be.
`FoldExists` shows by it that a function defined by recursion over the subsets of a finite
set exists, so that the folds of the community modules mean what they should; `AnyFirst`
that the order of a sum makes no difference. The assumptions on quantities were found by
the proof: that a node has some memory and that what is used fits is needed for a share
to be one.

`AssignServersProofs` proves, for any finite set of servers and any number of operations
and failures, from `AssignAssumption` alone:

* `AssignInvariance`: `Spec => []AssignIInv`, and `AssignTypeCorrect` from it;
* `OneMasterAlways`: `Spec => []OneMaster` (the run's `OneMaster` is this one while the
  page is on screen);
* `TablesSettle`: `Spec => []SettledTables`; `RoleIsKept`: `Spec => [][RoleKept]_assignVars`.

`OneMaster` is not inductive: an operation sends roles that were looked after when it
began, from tables read before. `Lone` says what an operation relies on while it is the
only one: where it sends MASTER, that it sends it to one server, beside which there is no
master; at the check, that many rows were chosen only if there is a master; at the
removal, that the role it has read is still the server's. That it began on tables that
showed the servers is `Settled`, which holds without any care taken, and gives
`SettledTables`. `GoesOn` says once what every step of an operation has to show.

`ClusterPagesProofs` proves, for any objects, namespaces, workloads, finite set of nodes,
filters and bounds, with any failures and any order of answers, from `PagesAssumption`
alone, what the run `cluster_pages` checks:

* `PagesInductive`: `Spec => []PagesIInv`, and `PagesTyped` from it;
* `WindowsMatch`, `SpinnersEnd`, `ListsTell` and `OneDeletionAtATime`: `Spec =>` always
  `WindowsMatchTitles`, `SpinnersAreAsked`, `ListsAreTrue`, `OneDeletion`;
* `OvertakenLose` and `FailuresTold`: `Spec => OvertakenLoses`, `Spec => FailuresAreTold`.

`PagesIInv` says of each page what it keeps while it is on screen, and each page has a
section of the module: its invariant, a lemma per action, that a step of the page keeps it
and that a stutter does. None of the properties is inductive, since each speaks of what a
page shows and its next state comes from a request sent earlier; the invariants say what
the requests under way know:

| Page | Added to the types and the properties | Since |
|---|---|---|
| workload's windows | `LoadsOfTitle`, `RefreshOfTitle`, `OpenedFirst`, `SpinnersHaveSteps` | an answer fills a section for the name its load was sent with, the refresh button loads for the name it was bound to, and each spinner is removed by one step of a load |
| services, storage | `TokensInOrder` | a request with the newest token is the only one with it and is no older than the list it replaces |
| configuration | `ConfInOrder`, `ConfSettled` | there is no token: the last answer is the right one only if loads never overlapped (`mixed`); RBAC's tables are chosen again by their own boxes from what is held |
| namespaces | `DeletesAreMarked`, `WindowIsAnswered` | a list that arrives during a deletion takes the marks from `deleting`; an answer counts if its request is the newest, and that one is for the title |
| nodes | `NodesOfDatabase`, `NodesSettled`, `WindowInOrder` | between the two answers of a load the servers' rows stand alone; the pods are for the window unless another was opened while they were awaited |
| overview | `CellsAreAsked`, `HealthOfList` | a counter on its spinner has a request for its part, and the list and the health line are drawn from one answer |
| events | `EventsHeld`, `EventsInOrder`, `EventsSettled` | the rows are chosen from an answer for filters that may have been set since |

The assumptions ask little beyond the bounds being numbers: the nodes are finitely many
(the overview counts them), and no name is one of the marks by which the model says that a
section is blank, waits or shows an error. The proof found one defect of the model, which
TLC could not show: the cases of a node's role in `NodesPage` overlapped, and TLC takes the
first where TLA+ leaves the choice open; they now exclude each other, as the branches of
`renderNodes` do.

`WaitingPagesProofs` proves, for any tabs, requests, runs and threads and any bounds, with
any failures, restarts of the server and order of answers and timers, from
`PagesAssumption` alone, what the run `waiting_pages` checks, `WaitsEnd` apart:

* `WaitingInductive`: `Spec => []PagesIInv`, and `WaitingTyped` from it;
* `WaitsAsked` and `EndsTrue`: `Spec => []WaitsAreAsked`, `Spec => []EndsAreTrue`;
* `OvertakenOnesLose`: `Spec => OvertakenLoses`.

Again each page has a section with its invariant, what an action does to it and what
follows from it:

| Page | Added to the types and the properties | Since |
|---|---|---|
| workloads | `BatchesInOrder`, `OperationInOrder` (`PollIsOwn`), `ClicksSpent` | the batch with the newest token was asked for no earlier than the lists it will replace; while nobody else reloads, the one request a poll awaits is that batch, asked for after the change, or has left a list read after it; an operation adds at most one state to the cluster's |
| deployment requests | `CallsInOrder`, `TableIsAsked` | an action has one call, and while none failed what the server still carries out has a call that waits for it; the rows are those of the database under the filter, or a list that will show them, or a call that asks for one, is under way, but for what failed, came late or is shown without a list |
| executions | `ResultOfOutput`, `HeardOf` | a poller has read no more than the playbook has printed, and an answer that says the run is over carries all of it |
| initialisation | every socket but the newest is closed | a new step closes the socket of the last, so the one that opens late is closed or is the step asked for last |

The pools' bound is in the invariant of the executions through the set of threads, whose
cardinality is counted with the theorems of the library. Besides numbers the assumption
says that no deployment request is one of the marks for a list that loads, that failed, or
for nobody.

`AnsibleProofs` proves, for any finite set of workers, any number of runs one after
another, each of which may break off at any task, and any number of accidental faults and
of hosts that go and come back, from `BootstrapAssumption` alone, of `ClusterBootstrap!Spec`:

* `BootstrapInductive`: always `BootstrapIInv`;
* `DeploymentsRepair`, `DeploymentsComplete`, `JoiningJoins`: always `DeployRepairs`,
  `DeployCompletes`, `WorkersJoined`;
* `ReadyLeftAlone`: `[][RepairLeavesReadyAlone]_bvars`.

What a deployment ends with says nothing of its middle, so none of these is inductive. The
playbook is data, and the invariant has to know at which task of it a run stands:
`LeftPart` says that what is left of a run is the end of its playbook, so that the number
of tasks left names the next one (`NextOfDeploy` and its fellows read it off the lists).
`DeployGoes` and `JoinGoes` then say, by that number, what the tasks already done have
achieved on every host: which have the packages, when the old clusters are gone, from
where there is a master, a token and a join command of the master's cluster; `RepairPart`
says of which workers a repair is allowed to touch anything. `Clean` are the runs in which
nothing failed by accident: for the others the properties promise nothing. `Took` sums up
a task by what the rest needs of it, on which hosts it worked, on which it failed, and that
where it is not by accident it works wherever it can. The lists of tasks are put together
from parts in the code as in the model; that the parts lie one after another is a lemma of
each list.

`AdminPagesProofs`, with the sections of `AnsibleProofs` on its three pages, proves for any
finite sets of servers, nodes, machines, projects and names, any failures and any order of
clicks, answers, timers and connections, from `PagesAssumption` alone, all that the run
`admin_pages` checks:

* `AdminInductive`: `Spec => []PagesIInv`, and `AdminTyped` from it;
* `PlaybooksWork`, `ShownIsActedOn`, `BusyAsked`, `SettledTrue` and `OnlyMaster`: `Spec =>`
  always `DeploysWork`, `ActsOnWhatIsShown`, `BusyIsAsked`, `SettledIsTrue`, `OneMaster`;
* `UndoesNothing`: `Spec => NothingUndone`.

Each page has its invariant, a lemma per action, and what follows from it:

| Page | Added to the types and the properties | Since |
|---|---|---|
| playbooks | `FlowOK` | what a flow will save was the file's own text when it began, and the answer to a load is the text of the file it is for |
| installation | `ChecksPart`, `SettledPart`, `RunsPart` | an answer counts if its check has the newest number; a check is due, or the newest has yet to look or has seen what there is, or the badge is right; a run is of a socket that was opened for what the window said |
| editors | `OwnersPart`, `InfoPart` | a button is at work for one request, handed on when a rollback reads the files again, and a save was sent with a configuration and an inventory |
| terminal | `TerminalIInv` | the server does something for a client only while its socket is open or closing, and a client that will connect again has none |
| servers | `SavePart`, `CardsPart` | of what is pressed and not `crossed` there is one, with its button disabled; what has changed a server still has its load before it, or a load has read nothing that changed since; two loads that meet are `mixed` |
| servers in and out of the cluster | `AssignIInv` | what `AssignServersProofs`, above, proves of the page alone |
| cluster | `ClusterShown` | the summary and the grid are drawn from what a load read, the card from the version asked for after it |
| projects | `ListPart`, `ShownPart`, `PagePart` | the list shows what there is, or was asked for, or will be after an answer; the page is not past the last while nothing is deleted |
| windows | `InstancesPart`, `BodyPart`, `BackdropsPart`, `SeenPart` | an instance is closed, opening, open or closing by what its transition still calls; the body is held by each that is shown or fades out, and let go by the last |
## Only model-checked

* `Settles` and `WaitsEnd`: liveness under fairness is out of the prover's reach. Every
  other property of a run that is to pass is stated by a theorem.

## Plan

In this order, each with its MC module, runs and mutants:

1. `AppLifecycle`, `DeployRequests`, proofs: done.
2. `UserRemoval`, proofs: done.
3. `ServerConnection`, `ServerRegistry`, proofs: done.
4. The pages that poll, the Kubernetes pages, the pages of the administrators and
   users, the playbooks, the terminal and Ansible: done.
5. `ClusterPage` and `Windows`: done.
6. Proofs about the pages of `MCClusterPages`, `MCWaitingPages` and `MCAdminPages`: done.
7. `Accounts`, proofs: done.
8. `K8sNames` and `ResourceUsage`, proofs: done; the same parsing for a namespace, a Pod or one
   node is left.

## Not modelled

* Routing, templates, translations and rendering: no state. The read-only Kubernetes
  listings and metrics, beyond that they are answered or fail.
* The usage of a single namespace, Pod or node, for which the controllers repeat the
  parsing of `ResourceUsage`; an account's full name and tier. The theorems of
  `UserRemoval` assume what the sanitizer may do (`PrivateNamespaces`);
  `SharersLookAlike` says when that is so.
* The users page: its list always ends in an error (see above), so there are no rows to
  act on. The step buttons of the cluster set-up page, which only announce a step.
* Code the templates do not reach: `logs.js`, `PaginationManager`, `TableRenderer`, the
  parts of `k8sClusters.js` whose elements are in no template, `closeTerminal`,
  `uploadAllTemplates`, `verification.js`; the mock interface in `giao-dien-mau`.
* `toast.js`: messages that go away by themselves. Its `hide` and `hideAll` do nothing
  (they look for a key that is stored as `hideToast`), and nothing calls them.
* Bootstrap, but for what `Windows` has of its `Modal`: a library, of which the pages use
  the styles; `bootstrap.js` and `bootstrap.esm.js` are loaded by no page.
* In the terminal keystrokes and output; in Ansible's runs what a command does on the
  host, which is one choice of outcome; of a project's form the framework menu and the
  file, of which nothing else depends.
