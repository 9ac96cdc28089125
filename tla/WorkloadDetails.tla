---------------------------- MODULE WorkloadDetails ----------------------------
(***************************************************************************)
(* The windows of the workloads page, k8sWorkloads.js, about one workload: *)
(* the detail window of each kind, filled section by section from several  *)
(* answers, the output window, and the windows for a pod's logs and for    *)
(* commands in a pod. No request of theirs carries a token: a window that  *)
(* is opened for another workload keeps getting the answers of the first.  *)
(*                                                                         *)
(* What a section shows is the workload it was filled for, or Loading or   *)
(* Problem (an error or a warning).                                        *)
(***************************************************************************)
EXTENDS Integers, Sequences, FiniteSets

CONSTANTS
  Names,        \* workloads of one kind, of one namespace
  Kinds,        \* the kinds whose window this instance opens, among AllKinds
  MaxViews,     \* bound: times a window is opened, a tab shown, a button pressed
  MaxFailures   \* bound: requests that fail

AllKinds == {"deployment", "statefulset", "daemonset", "job", "cronjob", "pod",
             "output", "logs", "exec"}

\* Assumed where the constants are given values.
WorkloadDetailsAssumption ==
  /\ Names # {} /\ Names \cap {"blank", "loading", "problem"} = {}
  /\ Kinds \subseteq AllKinds
  /\ MaxViews \in Nat /\ MaxFailures \in Nat

Blank == "blank"
Loading == "loading"
Problem == "problem"

VARIABLES
  kind,       \* the window, the same throughout
  title,      \* the workload in the window's title
  section,    \* what each section of the window shows
  loads,      \* requests under way: for whom, and the steps that follow
  started,    \* windows opened and buttons pressed so far
  crossed,    \* whether two loads for different workloads were ever under way at once
  failures,
  executed    \* what the last command ran in, and the title when it was sent

dvars == <<kind, title, section, loads, started, crossed, failures, executed>>

\* A step asks for something and fills a section with the answer; "none" asks for
\* nothing. When the request fails, a "stop" step shows the error in the section named
\* after it and ends the load, a "go" step shows it in its own and goes on.
Step(fills, onError, shows) == [fills |-> fills, onError |-> onError, shows |-> shows]
Ask(s, first) == Step(s, "stop", first)
Try(s) == Step(s, "go", s)
Fill(s) == Step(s, "none", s)

StatefulSetSteps == <<Ask("info", "info"), Ask("identity", "info"), Try("volumes"),
                      Fill("events"), Try("yaml")>>

DaemonSetSteps == <<Ask("info", "info"), Ask("pods", "info"), Fill("events"), Try("yaml")>>

\* The logs of the first pod; a job without a pod says so, without a request.
JobSteps(pods) ==
  <<Ask("info", "info"), Ask("pods", "info"), IF pods THEN Try("logs") ELSE Fill("logs"),
    Fill("events"), Try("yaml")>>

CronJobSteps == <<Ask("info", "info"), Try("jobs"), Fill("events"), Try("yaml")>>

PodSteps == <<Ask("info", "info"), Fill("containers"), Try("logs"), Fill("events"), Try("yaml")>>

DeploymentBasicInfo == <<Ask("basic", "basic")>>
\* Its error branch calls escapeHtml, which it has not defined: the error is not shown.
DeploymentReplicas == <<Ask("replicas", "none")>>
DeploymentResources == <<Ask("none", "resources"), Ask("resources", "resources")>>
DeploymentEvents == <<Fill("events")>>
DeploymentPods == <<Ask("none", "pods"), Ask("pods", "pods")>>
DeploymentYAML == <<Ask("yaml", "yaml")>>

\* The sections of a deployment are loaded as their tabs are shown.
DeploymentSteps(s) ==
  CASE s = "basic" -> DeploymentBasicInfo
    [] s = "replicas" -> DeploymentReplicas
    [] s = "resources" -> DeploymentResources
    [] s = "events" -> DeploymentEvents
    [] s = "pods" -> DeploymentPods
    [] s = "yaml" -> DeploymentYAML

LazyTabs == {"replicas", "resources", "events", "pods", "yaml"}

Scripts(k) == CASE k = "statefulset" -> {StatefulSetSteps}
                [] k = "daemonset" -> {DaemonSetSteps}
                [] k = "job" -> {JobSteps(TRUE), JobSteps(FALSE)}
                [] k = "cronjob" -> {CronJobSteps}
                [] k = "pod" -> {PodSteps}
                [] k = "deployment" -> {DeploymentSteps("basic")}

Fills(script) == {script[i].fills : i \in DOMAIN script}
SectionsOf(k) ==
  CASE k = "deployment" -> LazyTabs \cup {"basic"}
    [] k = "job" -> Fills(JobSteps(TRUE))
    [] k = "output" -> {"content"}
    [] k = "logs" -> {"containers", "logs", "refresh"}
    [] k = "exec" -> {"containers", "output"}
    [] k = "pod" -> Fills(PodSteps) \cup {"events"}
    [] OTHER -> UNION {Fills(s) : s \in Scripts(k)}

Detail == {"deployment", "statefulset", "daemonset", "job", "cronjob", "pod"}

Init ==
  /\ kind \in Kinds
  /\ title = Blank
  /\ section = [s \in SectionsOf(kind) |-> Blank]
  /\ loads = {} /\ started = 0 /\ crossed = FALSE /\ failures = 0
  /\ executed = <<Blank, Blank>>

-------------------------------------------------------------------------------
Begin(n, script) ==
  /\ started < MaxViews
  /\ started' = started + 1
  /\ loads' = loads \cup {[id |-> started + 1, for |-> n, todo |-> script]}
  /\ crossed' = (crossed \/ \E l \in loads : l.for # n)

\* viewDeploymentDetail and the other view...Detail: the title, every section to its
\* spinner, and the first request.
View(n) ==
  /\ kind \in Detail
  /\ title' = n
  /\ section' = [s \in SectionsOf(kind) |-> Loading]
  /\ \E script \in Scripts(kind) : Begin(n, script)
  /\ UNCHANGED <<kind, failures, executed>>

\* A tab of the deployment window: its listener was bound to the title's deployment,
\* and what the tab showed stays until the answer.
ShowDeploymentTab(s) ==
  /\ kind = "deployment" /\ title # Blank
  /\ Begin(title, DeploymentSteps(s))
  /\ UNCHANGED <<kind, title, section, failures, executed>>

\* A request is answered, and the sections up to the next request are filled.
FilledBy(script) ==
  LET more == {i \in 2..Len(script) : \A j \in 2..i : script[j].onError = "none"}
  IN 1..1 \cup more

Show(filled, n) == [s \in DOMAIN section |-> IF s \in filled THEN n ELSE section[s]]

\* The view goes on to its next request, or is over.
Proceed(l, shown, rest) ==
  /\ section' = shown
  /\ loads' = (loads \ {l}) \cup (IF rest = <<>> THEN {} ELSE {[l EXCEPT !.todo = rest]})
  /\ UNCHANGED <<kind, title, started, crossed, executed>>

Answered(l) ==
  LET done == FilledBy(l.todo)
      filled == {l.todo[i].fills : i \in done}
  IN /\ Proceed(l, Show(filled, l.for), SubSeq(l.todo, Cardinality(done) + 1, Len(l.todo)))
     /\ UNCHANGED failures

(* (variant) the error of a view clears its section and is not told. *)
FailsUntold(l) ==
  LET step == Head(l.todo)
      done == FilledBy(l.todo)
      after == {l.todo[i].fills : i \in done \ {1}}
  IN /\ step.onError # "none" /\ failures < MaxFailures
     /\ failures' = failures + 1
     /\ IF step.onError = "stop" THEN Proceed(l, section, <<>>)
        ELSE Proceed(l, Show(after, l.for), SubSeq(l.todo, Cardinality(done) + 1, Len(l.todo)))

\* An error: a "stop" step ends the view, with its other sections as they are.
Fails(l) ==
  LET step == Head(l.todo)
      done == FilledBy(l.todo)
      after == {l.todo[i].fills : i \in done \ {1}}
      told == [s \in DOMAIN section |-> IF s = step.shows THEN Problem ELSE section[s]]
  IN /\ step.onError # "none" /\ failures < MaxFailures
     /\ failures' = failures + 1
     /\ IF step.onError = "stop" THEN Proceed(l, told, <<>>)
        ELSE Proceed(l, [s \in DOMAIN section |-> IF s \in after THEN l.for ELSE told[s]],
                     SubSeq(l.todo, Cardinality(done) + 1, Len(l.todo)))

-------------------------------------------------------------------------------
\* describeWorkload, showRolloutHistory, showStatefulSetVolumes, showCronJobHistory: each
\* text comes with the title it belongs to (showK8sOutput sets both).
Output(n, text) ==
  /\ title' = n
  /\ section' = [section EXCEPT !["content"] = text]

\* describeWorkload asks for a spinner where window.showK8sOutput exists, which it does
\* not: nothing is shown before the answer, and nothing after a failure.
Describe(n) ==
  /\ kind = "output"
  /\ Begin(n, <<Step("content", "stop", "describe")>>)
  /\ UNCHANGED <<kind, title, section, failures, executed>>

\* The three tables of history: a spinner under the title, then the table.
ShowHistory(n) ==
  /\ kind = "output"
  /\ Output(n, Loading)
  /\ Begin(n, <<Step("content", "stop", "history")>>)
  /\ UNCHANGED <<kind, failures, executed>>

\* A table with at least one row calls escapeHtml, not defined there: the catch branch
\* shows that as the error.
OutputAnswered(l) ==
  LET history == Head(l.todo).shows = "history" IN
  /\ kind = "output"
  /\ \E rows \in BOOLEAN : Output(l.for, IF history /\ rows THEN Problem ELSE l.for)
  /\ loads' = loads \ {l}
  /\ UNCHANGED <<kind, started, crossed, failures, executed>>

OutputFails(l) ==
  /\ kind = "output" /\ failures < MaxFailures
  /\ failures' = failures + 1
  /\ IF Head(l.todo).shows = "history" THEN Output(l.for, Problem)
                                       ELSE UNCHANGED <<title, section>>
  /\ loads' = loads \ {l}
  /\ UNCHANGED <<kind, started, crossed, executed>>

-------------------------------------------------------------------------------
\* showPodLogs: the containers first; a failure of that request counts as no container.
ShowPodLogs(n) ==
  /\ kind = "logs"
  /\ title' = n
  /\ section' = [section EXCEPT !["logs"] = Blank]
  /\ Begin(n, <<Fill("containers"), Ask("logs", "logs")>>)
  /\ UNCHANGED <<kind, failures, executed>>

\* Its selects and its refresh button are bound to that pod, and the logs are asked for.
GotContainers(l) ==
  /\ kind = "logs" /\ Len(l.todo) = 2
  /\ Proceed(l, [section EXCEPT !["containers"] = l.for, !["refresh"] = l.for,
                                !["logs"] = Loading], Tail(l.todo))
  /\ UNCHANGED failures

\* loadPodLogsModal from a select or the refresh button.
RefreshLogs ==
  /\ kind = "logs" /\ section["refresh"] \in Names
  /\ section' = [section EXCEPT !["logs"] = Loading]
  /\ Begin(section["refresh"], <<Ask("logs", "logs")>>)
  /\ UNCHANGED <<kind, title, failures, executed>>

\* showExecPod: the pod of a command is read from the window when it is sent.
ShowExecPod(n) ==
  /\ kind = "exec"
  /\ title' = n
  /\ section' = [section EXCEPT !["output"] = Blank]
  /\ Begin(n, <<Fill("containers")>>)
  /\ UNCHANGED <<kind, failures, executed>>

ExecPodCommand ==
  /\ kind = "exec" /\ section["containers"] \in Names   \* the window is on the screen
  /\ section' = [section EXCEPT !["output"] = Loading]
  /\ executed' = <<title, title>>
  /\ Begin(title, <<Ask("output", "output")>>)
  /\ UNCHANGED <<kind, title, failures>>

-------------------------------------------------------------------------------
Opens(n) == View(n) \/ Describe(n) \/ ShowHistory(n) \/ ShowPodLogs(n) \/ ShowExecPod(n)
Replies(l) ==
  \/ /\ kind # "output" /\ ~(kind = "logs" /\ Len(l.todo) = 2)
     /\ Answered(l) \/ Fails(l)
  \/ GotContainers(l)
  \/ OutputAnswered(l) \/ OutputFails(l)

Next ==
  \/ \E n \in Names : Opens(n)
  \/ \E s \in LazyTabs : ShowDeploymentTab(s)
  \/ RefreshLogs \/ ExecPodCommand
  \/ \E l \in loads : Replies(l)

Spec == Init /\ [][Next]_dvars

-------------------------------------------------------------------------------
\* Each variable has its type; a request under way has a step to come.
DetailsTypeOK ==
  /\ kind \in Kinds /\ title \in Names \cup {Blank}
  /\ section \in [SectionsOf(kind) -> Names \cup {Blank, Loading, Problem}]
  /\ \A l \in loads : l.id \in 1..MaxViews /\ l.for \in Names /\ l.todo # <<>>
  /\ Cardinality(loads) <= started

\* As long as two workloads were never loaded into the window at once, no section shows
\* another workload than the title, through reopening, tabs and failures. (The lists of
\* containers of the two pod windows do: they are not cleared when it opens for another.)
OneWorkload ==
  ~crossed => \A s \in DOMAIN section \ {"containers", "refresh", "content"} :
                section[s] \in Names => section[s] = title

\* When every view ran to its end without an error, no section is left with a spinner:
\* what one answer does not fill, another does.
AllFilled ==
  kind \in Detail \ {"deployment"} /\ loads = {} /\ failures = 0
    => \A s \in DOMAIN section : section[s] # Loading

\* The output window's text is about the workload of its title, in whatever order the
\* answers come.
OutputMatchesTitle == kind = "output" => section["content"] \in {Blank, Loading, Problem, title}

\* A command runs in the pod the window named when it was sent, whatever lists of
\* containers came late.
CommandRunsInTitle == executed[1] = executed[2]

\* A failed request leaves its mark: it does not end with every section as it was.
FailureIsTold ==
  failures' > failures /\ kind \in Detail \ {"deployment"} =>
    \E s \in DOMAIN section : section'[s] = Problem
===============================================================================
