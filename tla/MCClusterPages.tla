---------------------------- MODULE MCClusterPages -----------------------------
(* The pages of the Kubernetes administration: a workload's windows, storage and       *)
(* services, configuration, namespaces, nodes, the overview and the events. One of     *)
(* them is on the screen; the variables of the others are unused.                      *)
EXTENDS Integers, FiniteSets, Sequences

CONSTANTS
  Names, Kinds, MaxViews,                    \* WorkloadDetails
  ResourcePages, MaxChanges, MaxClicks,      \* ResourceTabs
  ConfigurationPages, MaxSteps,              \* ConfigurationPage; EventsPage
  Objects, System, MaxNamespaceSteps,        \* NamespacesPage
  Nodes, Masters, MaxLoads, MaxNodeClicks,   \* NodesPage; OverviewPage
  Counters, MaxReloads,                      \* OverviewPage
  EventKinds, Types,                         \* EventsPage
  Namespaces, MaxFailures                    \* all

VARIABLES
  onScreen,   \* the page on screen
  kind, title, section, loads, started, crossed, failures, executed, page, cluster,
  data, loaded, screen, filter, token, reqs, deleting, quiet, budget, objects, held,
  search, options, steps, mixed, filtered, table, deletes, detail, asked, db, k8s,
  nodesData, window, overlaid, nLoads, nClicks, healthData, cells, health, list,
  requests, nReloads, events, eventsData, filters

Unused == "unused"

WorkloadDetails == INSTANCE WorkloadDetails
ResourceTabs == INSTANCE ResourceTabs WITH Pages <- ResourcePages
ConfigurationPage == INSTANCE ConfigurationPage WITH Pages <- ConfigurationPages
NamespacesPage == INSTANCE NamespacesPage WITH
  Namespaces <- Objects, MaxSteps <- MaxNamespaceSteps
NodesPage == INSTANCE NodesPage WITH MaxClicks <- MaxNodeClicks
OverviewPage == INSTANCE OverviewPage
EventsPage == INSTANCE EventsPage WITH Kinds <- EventKinds

ASSUME PagesAssumption ==
  /\ WorkloadDetails!WorkloadDetailsAssumption
  /\ ResourceTabs!ResourceTabsAssumption
  /\ ConfigurationPage!ConfigurationAssumption
  /\ NamespacesPage!NamespacesAssumption
  /\ NodesPage!NodesAssumption
  /\ OverviewPage!OverviewAssumption
  /\ EventsPage!EventsAssumption

\* The variables of the pages that are not on screen.
NotWorkloadDetails ==
  <<page, cluster, data, loaded, screen, filter, token, reqs, deleting, quiet,
    budget, objects, held, search, options, steps, mixed, filtered, table, deletes,
    detail, asked, db, k8s, nodesData, window, overlaid, nLoads, nClicks,
    healthData, cells, health, list, requests, nReloads, events, eventsData,
    filters>>
NotResourceTabs ==
  <<kind, title, section, loads, started, crossed, failures, executed, objects,
    held, search, options, steps, mixed, filtered, table, deletes, detail, asked,
    db, k8s, nodesData, window, overlaid, nLoads, nClicks, healthData, cells,
    health, list, requests, nReloads, events, eventsData, filters>>
NotConfigurationPage ==
  <<kind, title, section, loads, started, crossed, executed, cluster, loaded, token,
    deleting, quiet, budget, filtered, table, deletes, detail, asked, db, k8s,
    nodesData, window, overlaid, nLoads, nClicks, healthData, cells, health, list,
    requests, nReloads, events, eventsData, filters>>
NotNamespacesPage ==
  <<kind, title, section, started, crossed, executed, page, loaded, screen, filter,
    token, reqs, quiet, budget, objects, held, options, mixed, db, k8s, nodesData,
    window, overlaid, nLoads, nClicks, healthData, cells, health, list, requests,
    nReloads, events, eventsData, filters>>
NotNodesPage ==
  <<kind, title, section, started, crossed, executed, page, cluster, data, loaded,
    screen, token, reqs, deleting, quiet, budget, objects, held, search, options,
    steps, mixed, filtered, deletes, detail, healthData, cells, health, list,
    requests, nReloads, events, eventsData, filters>>
NotOverviewPage ==
  <<kind, title, section, loads, started, crossed, executed, page, cluster, data,
    loaded, screen, filter, token, reqs, deleting, quiet, budget, objects, held,
    search, options, steps, mixed, filtered, table, deletes, detail, asked, window,
    overlaid, nLoads, nClicks, events, eventsData, filters>>
NotEventsPage ==
  <<kind, title, section, started, crossed, executed, page, cluster, data, loaded,
    screen, filter, token, reqs, deleting, quiet, budget, objects, search, options,
    filtered, deletes, detail, asked, db, k8s, nodesData, window, overlaid, nLoads,
    nClicks, healthData, cells, health, list, requests, nReloads>>

Init ==
  \/ /\ onScreen = "details" /\ WorkloadDetails!Init
     /\ page = Unused /\ cluster = Unused /\ data = Unused /\ loaded = Unused
     /\ screen = Unused /\ filter = Unused /\ token = Unused /\ reqs = Unused
     /\ deleting = Unused /\ quiet = Unused /\ budget = Unused
     /\ objects = Unused /\ held = Unused /\ search = Unused /\ options = Unused
     /\ steps = Unused /\ mixed = Unused /\ filtered = Unused /\ table = Unused
     /\ deletes = Unused /\ detail = Unused /\ asked = Unused /\ db = Unused
     /\ k8s = Unused /\ nodesData = Unused /\ window = Unused
     /\ overlaid = Unused /\ nLoads = Unused /\ nClicks = Unused
     /\ healthData = Unused /\ cells = Unused /\ health = Unused
     /\ list = Unused /\ requests = Unused /\ nReloads = Unused
     /\ events = Unused /\ eventsData = Unused /\ filters = Unused
  \/ /\ onScreen = "resources" /\ ResourceTabs!Init
     /\ kind = Unused /\ title = Unused /\ section = Unused /\ loads = Unused
     /\ started = Unused /\ crossed = Unused /\ failures = Unused
     /\ executed = Unused /\ objects = Unused /\ held = Unused
     /\ search = Unused /\ options = Unused /\ steps = Unused /\ mixed = Unused
     /\ filtered = Unused /\ table = Unused /\ deletes = Unused
     /\ detail = Unused /\ asked = Unused /\ db = Unused /\ k8s = Unused
     /\ nodesData = Unused /\ window = Unused /\ overlaid = Unused
     /\ nLoads = Unused /\ nClicks = Unused /\ healthData = Unused
     /\ cells = Unused /\ health = Unused /\ list = Unused /\ requests = Unused
     /\ nReloads = Unused /\ events = Unused /\ eventsData = Unused
     /\ filters = Unused
  \/ /\ onScreen = "configuration" /\ ConfigurationPage!Init
     /\ kind = Unused /\ title = Unused /\ section = Unused /\ loads = Unused
     /\ started = Unused /\ crossed = Unused /\ executed = Unused
     /\ cluster = Unused /\ loaded = Unused /\ token = Unused
     /\ deleting = Unused /\ quiet = Unused /\ budget = Unused
     /\ filtered = Unused /\ table = Unused /\ deletes = Unused
     /\ detail = Unused /\ asked = Unused /\ db = Unused /\ k8s = Unused
     /\ nodesData = Unused /\ window = Unused /\ overlaid = Unused
     /\ nLoads = Unused /\ nClicks = Unused /\ healthData = Unused
     /\ cells = Unused /\ health = Unused /\ list = Unused /\ requests = Unused
     /\ nReloads = Unused /\ events = Unused /\ eventsData = Unused
     /\ filters = Unused
  \/ /\ onScreen = "namespaces" /\ NamespacesPage!Init
     /\ kind = Unused /\ title = Unused /\ section = Unused /\ started = Unused
     /\ crossed = Unused /\ executed = Unused /\ page = Unused
     /\ loaded = Unused /\ screen = Unused /\ filter = Unused /\ token = Unused
     /\ reqs = Unused /\ quiet = Unused /\ budget = Unused /\ objects = Unused
     /\ held = Unused /\ options = Unused /\ mixed = Unused /\ db = Unused
     /\ k8s = Unused /\ nodesData = Unused /\ window = Unused
     /\ overlaid = Unused /\ nLoads = Unused /\ nClicks = Unused
     /\ healthData = Unused /\ cells = Unused /\ health = Unused
     /\ list = Unused /\ requests = Unused /\ nReloads = Unused
     /\ events = Unused /\ eventsData = Unused /\ filters = Unused
  \/ /\ onScreen = "nodes" /\ NodesPage!Init
     /\ kind = Unused /\ title = Unused /\ section = Unused /\ started = Unused
     /\ crossed = Unused /\ executed = Unused /\ page = Unused
     /\ cluster = Unused /\ data = Unused /\ loaded = Unused /\ screen = Unused
     /\ token = Unused /\ reqs = Unused /\ deleting = Unused /\ quiet = Unused
     /\ budget = Unused /\ objects = Unused /\ held = Unused /\ search = Unused
     /\ options = Unused /\ steps = Unused /\ mixed = Unused
     /\ filtered = Unused /\ deletes = Unused /\ detail = Unused
     /\ healthData = Unused /\ cells = Unused /\ health = Unused
     /\ list = Unused /\ requests = Unused /\ nReloads = Unused
     /\ events = Unused /\ eventsData = Unused /\ filters = Unused
  \/ /\ onScreen = "overview" /\ OverviewPage!Init
     /\ kind = Unused /\ title = Unused /\ section = Unused /\ loads = Unused
     /\ started = Unused /\ crossed = Unused /\ executed = Unused
     /\ page = Unused /\ cluster = Unused /\ data = Unused /\ loaded = Unused
     /\ screen = Unused /\ filter = Unused /\ token = Unused /\ reqs = Unused
     /\ deleting = Unused /\ quiet = Unused /\ budget = Unused
     /\ objects = Unused /\ held = Unused /\ search = Unused /\ options = Unused
     /\ steps = Unused /\ mixed = Unused /\ filtered = Unused /\ table = Unused
     /\ deletes = Unused /\ detail = Unused /\ asked = Unused /\ window = Unused
     /\ overlaid = Unused /\ nLoads = Unused /\ nClicks = Unused
     /\ events = Unused /\ eventsData = Unused /\ filters = Unused
  \/ /\ onScreen = "events" /\ EventsPage!Init
     /\ kind = Unused /\ title = Unused /\ section = Unused /\ started = Unused
     /\ crossed = Unused /\ executed = Unused /\ page = Unused
     /\ cluster = Unused /\ data = Unused /\ loaded = Unused /\ screen = Unused
     /\ filter = Unused /\ token = Unused /\ reqs = Unused /\ deleting = Unused
     /\ quiet = Unused /\ budget = Unused /\ objects = Unused /\ search = Unused
     /\ options = Unused /\ filtered = Unused /\ deletes = Unused
     /\ detail = Unused /\ asked = Unused /\ db = Unused /\ k8s = Unused
     /\ nodesData = Unused /\ window = Unused /\ overlaid = Unused
     /\ nLoads = Unused /\ nClicks = Unused /\ healthData = Unused
     /\ cells = Unused /\ health = Unused /\ list = Unused /\ requests = Unused
     /\ nReloads = Unused

Next ==
  \/ onScreen = "details" /\ WorkloadDetails!Next /\ UNCHANGED <<onScreen, NotWorkloadDetails>>
  \/ onScreen = "resources" /\ ResourceTabs!Next /\ UNCHANGED <<onScreen, NotResourceTabs>>
  \/ onScreen = "configuration" /\ ConfigurationPage!Next /\ UNCHANGED <<onScreen, NotConfigurationPage>>
  \/ onScreen = "namespaces" /\ NamespacesPage!Next /\ UNCHANGED <<onScreen, NotNamespacesPage>>
  \/ onScreen = "nodes" /\ NodesPage!Next /\ UNCHANGED <<onScreen, NotNodesPage>>
  \/ onScreen = "overview" /\ OverviewPage!Next /\ UNCHANGED <<onScreen, NotOverviewPage>>
  \/ onScreen = "events" /\ EventsPage!Next /\ UNCHANGED <<onScreen, NotEventsPage>>

vars ==
  <<onScreen, kind, title, section, loads, started, crossed, failures, executed,
    page, cluster, data, loaded, screen, filter, token, reqs, deleting, quiet,
    budget, objects, held, search, options, steps, mixed, filtered, table, deletes,
    detail, asked, db, k8s, nodesData, window, overlaid, nLoads, nClicks,
    healthData, cells, health, list, requests, nReloads, events, eventsData,
    filters>>

Spec == Init /\ [][Next]_vars

-------------------------------------------------------------------------------
(* The properties of the pages, each for its own page                         *)

\* Each page's variables have their types.
PagesTypeOK ==
  /\ onScreen = "details" => WorkloadDetails!DetailsTypeOK
  /\ onScreen = "resources" => ResourceTabs!ResTypeOK
  /\ onScreen = "configuration" => ConfigurationPage!ConfTypeOK
  /\ onScreen = "namespaces" => NamespacesPage!NamespacesTypeOK
  /\ onScreen = "nodes" => NodesPage!NodesTypeOK
  /\ onScreen = "overview" => OverviewPage!OverviewTypeOK

\* What a window shows belongs to its title, however often it was opened for something
\* else while answers were under way: the sections of a workload's window, as long as
\* two workloads were never loaded into it at once, the text of the output window, the
\* pod a command runs in (k8sWorkloads.js), the details and the YAML of a namespace
\* (k8sNamespaces.js), and the sections of a node's window, opened when no other
\* waited for its pods, its YAML apart (k8sNodes.js).
WindowsMatchTitles ==
  /\ onScreen = "details" => /\ WorkloadDetails!OneWorkload
                              /\ WorkloadDetails!OutputMatchesTitle
                              /\ WorkloadDetails!CommandRunsInTitle
  /\ onScreen = "namespaces" => NamespacesPage!DetailOfTitle
  /\ onScreen = "nodes" => NodesPage!WindowOfTitle

\* No part of a page waits for what nobody asks. When every view ran to its end
\* without an error no section of a workload's window has a spinner (k8sWorkloads.js);
\* the spinner of a tab of the storage and service pages has a request that will end
\* it, unless a deletion's silent reload overtook that one; a configuration page is
\* left with none when nothing is under way, nor is a namespace's window; and no part
\* of the overview waits once everything is answered, but the networking counts when
\* the health request failed (k8sOverview.js).
SpinnersAreAsked ==
  /\ onScreen = "details" => WorkloadDetails!AllFilled
  /\ onScreen = "resources" => ResourceTabs!SpinnerHasRequest
  /\ onScreen = "configuration" => ConfigurationPage!SettledHasNoSpinner
  /\ onScreen = "namespaces" => NamespacesPage!YamlIsAsked /\ NamespacesPage!DetailIsAsked
  /\ onScreen = "overview" => OverviewPage!SettledIsFilled

\* A list is the one the filters ask for, though filters change while loads for their
\* earlier values are under way: at any moment on the storage and service pages; on
\* the configuration pages once every load is answered and none failed or was
\* overtaken; and on the events page once everything is answered, nothing failed and
\* no filter was set during a load, its rows always of one answer. And it tells what
\* is there: after a deletion a configuration page follows the cluster as soon as
\* nothing is under way; a server of the cluster's is never called not assigned as
\* long as the database answers, and the nodes' rows are the servers and Kubernetes'
\* nodes, each called what it is, once every load is answered and none failed; the
\* overview counts the nodes its list has, in whatever order the answers come.
ListsAreTrue ==
  /\ onScreen = "resources" => ResourceTabs!ListMatchesFilter
  /\ onScreen = "configuration" => /\ ConfigurationPage!SettledListMatches
                                  /\ ConfigurationPage!DeletedIsGone
  /\ onScreen = "events" => EventsPage!SettledEventsMatch /\ EventsPage!RowsOfOneAnswer
  /\ onScreen = "nodes" => NodesPage!AssignedIsNotUnassigned /\ NodesPage!SettledRowsAreTrue
  /\ onScreen = "overview" => OverviewPage!CountsTheList

\* A namespace has at most one deletion the page waits for, and is marked for as long
\* as it lasts, however many lists arrive meanwhile. (One the page gave up on may
\* still run when the next is asked for.)
OneDeletion == onScreen = "namespaces" => NamespacesPage!OneDeletion

\* What was overtaken loses: no tab of the storage and service pages goes back to a
\* list read earlier than the one it has, and the error of a tab stays until that tab
\* is asked for again, though the answers of the others render the whole page ("tranh
\* race condition", k8sServiceDiscovery.js:20).
OvertakenLoses ==
  [][onScreen = "resources" => ResourceTabs!ResNeverOlder /\ ResourceTabs!ErrorStays]_vars

\* A request that fails is told where its answer was to appear, and what was not
\* loaded can be asked for again: it does not end with every section of a workload's
\* window as it was (k8sWorkloads.js), and a YAML tab that was emptied for a node can
\* ask for its YAML until an answer comes (k8sNodes.js).
FailuresAreTold ==
  [][/\ onScreen = "details" => WorkloadDetails!FailureIsTold
     /\ onScreen = "nodes" => NodesPage!YamlCanBeAsked]_vars

================================================================================
