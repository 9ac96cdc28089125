---------------------------- MODULE MCWaitingPages -----------------------------
(* The pages that wait for something to come to its end: the tabs of the Kubernetes   *)
(* workloads (an operation polls until the workload is as wanted), the deployment      *)
(* requests (a log is polled until the deployment is over), the playbook manager's     *)
(* executions (a poller follows each), and the run of all initialisation steps of      *)
(* Ansible (timers lead from step to step). One of them is on the screen; the          *)
(* variables of the others are unused. Each has the fairness its own code justifies.   *)
EXTENDS Integers, FiniteSets, Sequences

CONSTANTS
  Tabs, MaxChanges, MaxAttempts,     \* WorkloadTabs
  Requests, MaxActs, MaxWindows,     \* RequestsPage
  MaxRuns, PoolSize, MaxOut,         \* PlaybookRuns
  MaxClicks, MaxFailures             \* WorkloadTabs, AnsibleInit; all

VARIABLES
  onScreen,   \* the page on screen
  cluster, data, loaded, failed, screen, active, token, batches, op, newest, budget,
  db, filter, table, calls, jobs, polling, timers, window, acts, opened, failures,
  unlisted, late, tasks, monitors, terminal, view, inits, loops, alone, lost

Unused == "unused"

WorkloadTabs == INSTANCE WorkloadTabs
RequestsPage == INSTANCE RequestsPage
PlaybookRuns == INSTANCE PlaybookRuns
AnsibleInit == INSTANCE AnsibleInit

ASSUME PagesAssumption ==
       /\ WorkloadTabs!WorkloadTabsAssumption /\ RequestsPage!RequestsAssumption
       /\ PlaybookRuns!RunsAssumption /\ AnsibleInit!InitAssumption

\* The variables of the pages that are not on screen.
NotWorkloadTabs ==
  <<db, filter, table, calls, jobs, polling, timers, window, acts, opened, failures,
    unlisted, late, tasks, monitors, terminal, view, inits, loops, alone, lost>>
NotRequestsPage ==
  <<cluster, data, loaded, failed, screen, active, token, batches, op, newest,
    budget, tasks, monitors, terminal, view, inits, loops, alone, lost>>
NotPlaybookRuns ==
  <<cluster, data, loaded, failed, screen, active, token, batches, op, newest,
    budget, db, filter, table, calls, jobs, polling, timers, window, acts, opened,
    unlisted, late, inits, loops, alone, lost>>
NotAnsibleInit ==
  <<cluster, data, loaded, failed, screen, active, token, batches, op, newest,
    budget, db, filter, table, calls, jobs, polling, timers, window, acts, opened,
    failures, unlisted, late, tasks, monitors, terminal, view>>

Init ==
  \/ /\ onScreen = "tabs" /\ WorkloadTabs!Init
     /\ db = Unused /\ filter = Unused /\ table = Unused /\ calls = Unused
     /\ jobs = Unused /\ polling = Unused /\ timers = Unused /\ window = Unused
     /\ acts = Unused /\ opened = Unused /\ failures = Unused
     /\ unlisted = Unused /\ late = Unused /\ tasks = Unused
     /\ monitors = Unused /\ terminal = Unused /\ view = Unused
     /\ inits = Unused /\ loops = Unused /\ alone = Unused /\ lost = Unused
  \/ /\ onScreen = "requests" /\ RequestsPage!Init
     /\ cluster = Unused /\ data = Unused /\ loaded = Unused /\ failed = Unused
     /\ screen = Unused /\ active = Unused /\ token = Unused /\ batches = Unused
     /\ op = Unused /\ newest = Unused /\ budget = Unused /\ tasks = Unused
     /\ monitors = Unused /\ terminal = Unused /\ view = Unused
     /\ inits = Unused /\ loops = Unused /\ alone = Unused /\ lost = Unused
  \/ /\ onScreen = "runs" /\ PlaybookRuns!Init
     /\ cluster = Unused /\ data = Unused /\ loaded = Unused /\ failed = Unused
     /\ screen = Unused /\ active = Unused /\ token = Unused /\ batches = Unused
     /\ op = Unused /\ newest = Unused /\ budget = Unused /\ db = Unused
     /\ filter = Unused /\ table = Unused /\ calls = Unused /\ jobs = Unused
     /\ polling = Unused /\ timers = Unused /\ window = Unused /\ acts = Unused
     /\ opened = Unused /\ unlisted = Unused /\ late = Unused /\ inits = Unused
     /\ loops = Unused /\ alone = Unused /\ lost = Unused
  \/ /\ onScreen = "init" /\ AnsibleInit!Init
     /\ cluster = Unused /\ data = Unused /\ loaded = Unused /\ failed = Unused
     /\ screen = Unused /\ active = Unused /\ token = Unused /\ batches = Unused
     /\ op = Unused /\ newest = Unused /\ budget = Unused /\ db = Unused
     /\ filter = Unused /\ table = Unused /\ calls = Unused /\ jobs = Unused
     /\ polling = Unused /\ timers = Unused /\ window = Unused /\ acts = Unused
     /\ opened = Unused /\ failures = Unused /\ unlisted = Unused
     /\ late = Unused /\ tasks = Unused /\ monitors = Unused
     /\ terminal = Unused /\ view = Unused

Next ==
  \/ onScreen = "tabs" /\ WorkloadTabs!Next /\ UNCHANGED <<onScreen, NotWorkloadTabs>>
  \/ onScreen = "requests" /\ RequestsPage!Next /\ UNCHANGED <<onScreen, NotRequestsPage>>
  \/ onScreen = "runs" /\ PlaybookRuns!Next /\ UNCHANGED <<onScreen, NotPlaybookRuns>>
  \/ onScreen = "init" /\ AnsibleInit!Next /\ UNCHANGED <<onScreen, NotAnsibleInit>>

vars ==
  <<onScreen, cluster, data, loaded, failed, screen, active, token, batches, op,
    newest, budget, db, filter, table, calls, jobs, polling, timers, window, acts,
    opened, failures, unlisted, late, tasks, monitors, terminal, view, inits, loops,
    alone, lost>>

Spec == Init /\ [][Next]_vars

\* The variables of each page.
tabsVars == WorkloadTabs!vars
requestsVars == RequestsPage!requestsVars
runsVars == PlaybookRuns!rvars
initVars == AnsibleInit!initVars

\* Requests are answered, ApiClient waits for none longer than 30 seconds, and timers
\* fire; a thread that is free takes the next run and a playbook ends. Administrators,
\* the cluster and failures owe nothing.
Fairness ==
  /\ WF_tabsVars(onScreen = "tabs" /\ WorkloadTabs!Replies)
  /\ WF_tabsVars(onScreen = "tabs" /\ WorkloadTabs!Waits)
  /\ WF_requestsVars(onScreen = "requests" /\ \E j \in jobs : RequestsPage!Serve(j))
  /\ WF_requestsVars(onScreen = "requests" /\ \E c \in calls : RequestsPage!Deployed(c))
  /\ WF_requestsVars(onScreen = "requests" /\ \E r \in Requests : RequestsPage!Timer(r))
  /\ \A r \in 1..MaxRuns :
       /\ WF_runsVars(onScreen = "runs" /\ PlaybookRuns!Request(r))
       /\ WF_runsVars(onScreen = "runs" /\ PlaybookRuns!Poller(r))
       /\ WF_runsVars(onScreen = "runs" /\ PlaybookRuns!TakeThread(r))
       /\ WF_runsVars(onScreen = "runs" /\ PlaybookRuns!Complete(r))
  /\ \A l \in 1..MaxClicks :
       WF_initVars(onScreen = "init" /\ (AnsibleInit!Soon(l) \/ AnsibleInit!Timeout(l)))

FairSpec == Spec /\ Fairness

-------------------------------------------------------------------------------
(* The properties of the pages, each for its own page                         *)

\* A page waits for something to come to its end.
Waiting ==
  \/ onScreen = "tabs" /\ WorkloadTabs!Operating
  \/ onScreen = "requests" /\ RequestsPage!Polling
  \/ onScreen = "runs" /\ \E r \in 1..MaxRuns : PlaybookRuns!Polling(r)
  \/ onScreen = "init" /\ \E l \in 1..MaxClicks : AnsibleInit!Waits(l)

\* Each page's variables have their types.
PagesTypeOK ==
  /\ onScreen = "tabs" => WorkloadTabs!TabsTypeOK
  /\ onScreen = "requests" => RequestsPage!RequestsTypeOK
  /\ onScreen = "runs" => PlaybookRuns!RunsTypeOK
  /\ onScreen = "init" => AnsibleInit!InitTypeOK

\* A page waits for nothing that nobody will answer. When the newest request of the
\* workloads is answered none of the tabs it was for is left with the spinner,
\* whatever failed or was overtaken before (loadTabsData). The spinner of the
\* deployment requests has a list to wait for, however lists overlap and fail
\* (loadList), and no log is polled once the page has heard of every deployment,
\* however these and the timers of earlier ones overlap (startPollingDeploymentLogs).
WaitsAreAsked ==
  /\ onScreen = "tabs" => WorkloadTabs!LatestIsShown
  /\ onScreen = "requests" => RequestsPage!LoadingIsAsked /\ RequestsPage!PollingHasCall

\* What a page tells at the end of a wait is true. Where nobody else reloads and
\* nothing fails during the last poll, the alert that a workload is as wanted rests on
\* a list read after the cluster had taken the change (waitForWorkloadReady); when the
\* terminal says that a run is completed, all the playbook printed has been shown, and
\* never more (pollExecutionStatus); and once nothing is awaited the table holds the
\* deployment requests as they are under the filter, unless a call failed, a retry or
\* a window's deployment has ended, or a list came late (deploymentRequests.js).
EndsAreTrue ==
  /\ onScreen = "tabs" => WorkloadTabs!ReadyIsFresh
  /\ onScreen = "runs" => PlaybookRuns!TerminalComplete
  /\ onScreen = "requests" => RequestsPage!SettledRequests

\* What was overtaken loses. A tab never goes back to a list read earlier than the one
\* it has, however answers overtake each other (the comment at workloadsRequestToken,
\* k8sWorkloads.js:43); and an initialisation step whose socket opened late is never
\* carried out after the step that overtook it (runInitActionWS).
OvertakenLoses ==
  [][/\ onScreen = "tabs" => WorkloadTabs!NeverOlder
     /\ onScreen = "init" => AnsibleInit!AskedInOrder]_vars

\* What a page waits for comes to its end: an operation on a workload, whatever fails
\* and whoever reloads meanwhile (waitForWorkloadReady); the polling of a log
\* (startPollingDeploymentLogs); the pollers of runs that queue for threads, break
\* off, or are forgotten by a server that restarts (pollExecutionStatus); the runs of
\* all steps, whatever becomes of their sockets, of each other and of the steps asked
\* for in between (ansibleConfig.js).
WaitsEnd == Waiting ~> ~Waiting

================================================================================
