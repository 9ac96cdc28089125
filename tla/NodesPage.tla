------------------------------- MODULE NodesPage -------------------------------
(***************************************************************************)
(* The nodes page, k8sNodes.js. A load asks first the database, then       *)
(* Kubernetes, and merges the second answer into nodesData, the variable   *)
(* every load shares: loads carry no token. A node is named by its address *)
(* until Kubernetes' answer gives its name. The window of one node is      *)
(* filled in part before, in part after its pods have been asked for.      *)
(***************************************************************************)
EXTENDS Integers, FiniteSets

CONSTANTS
  Nodes,
  Masters,       \* the masters among them
  MaxLoads,      \* bound: reloads
  MaxClicks,     \* bound: filters set, windows opened, YAML tabs opened
  MaxFailures    \* bound: requests that fail

\* Assumed where the constants are given values.
NodesAssumption ==
  /\ Nodes # {} /\ Masters \subseteq Nodes /\ "none" \notin Nodes
  /\ {MaxLoads, MaxClicks, MaxFailures} \subseteq Nat

VARIABLES
  db,         \* the cluster's servers in the database: ONLINE, OFFLINE, or not assigned to it
  k8s,        \* Kubernetes' nodes: Ready, NotReady, or not there
  nodesData,
  filter,     \* the role and status selects
  table,      \* what the table shows: a spinner, or rows
  loads,      \* loads under way and what they wait for
  window,     \* nodeDetailModal: of which node each of its sections is
  asked,      \* requests of the window under way: pods and YAML
  overlaid,   \* whether the last window was opened on no row, or before another had its pods
  nLoads, nClicks,
  failures    \* failed requests, by what they asked

nodesVars == <<db, k8s, nodesData, filter, table, loads, window, asked, overlaid, nLoads, nClicks, failures>>

Roles == {"any", "master", "worker"}
Statuses == {"any", "Ready", "NotReady", "Unknown"}
Assigned == {n \in Nodes : db[n] # "absent"}
Registered == {n \in Nodes : k8s[n] # "absent"}

\* A row from the database: its Kubernetes status is not known yet.
DbRow(n) == [of |-> n, named |-> FALSE, status |-> db[n], k8sStatus |-> "Unknown",
             unregistered |-> FALSE, unassigned |-> FALSE]
DbRows == {DbRow(n) : n \in Assigned}

\* Kubernetes' answer: known rows get its name and status, the others are unregistered,
\* and its nodes that have no row get one, as not assigned.
Merge(rows) ==
  {IF row.of \in Registered
   THEN [row EXCEPT !.named = TRUE, !.k8sStatus = k8s[row.of], !.unregistered = FALSE]
   ELSE [row EXCEPT !.unregistered = TRUE] : row \in rows}
  \cup {[of |-> n, named |-> TRUE, status |-> "Unknown", k8sStatus |-> k8s[n],
         unregistered |-> FALSE, unassigned |-> TRUE] : n \in Registered \ {row.of : row \in rows}}

\* Without an answer of Kubernetes what is not offline counts as unregistered.
MergeNothing(rows) ==
  {IF row.status = "OFFLINE" THEN row ELSE [row EXCEPT !.unregistered = TRUE] : row \in rows}

\* applyFilters: rows that are unregistered or unassigned match no role the page offers;
\* the status compared is Kubernetes' own where it is known.
Matches(row, role, status) ==
  /\ role = "any" \/ (/\ ~row.unregistered /\ ~row.unassigned
                      /\ (role = "master") = (row.of \in Masters))
  /\ status = "any" \/ status = IF row.k8sStatus # "Unknown" THEN row.k8sStatus ELSE row.status

\* renderNodes: a server that is offline is shown as such whatever Kubernetes says.
Shown(row) ==
  [of |-> row.of, named |-> row.named,
   status |-> IF row.status = "OFFLINE" \/ row.k8sStatus = "Unknown" THEN row.status ELSE row.k8sStatus,
   role |-> CASE row.unassigned -> "Not Assign"
              [] ~row.unassigned /\ row.unregistered -> "No Join Cluster"
              [] OTHER -> IF row.of \in Masters THEN "MASTER" ELSE "WORKER"]

Spinner == [show |-> "spinner", rows |-> {}]
Table(rows, f) == [show |-> "rows", rows |-> {Shown(row) : row \in {x \in rows : Matches(x, f.role, f.status)}}]

Init ==
  /\ db \in [Nodes -> {"absent", "ONLINE", "OFFLINE"}]
  /\ k8s \in [Nodes -> {"absent", "Ready", "NotReady"}]
  /\ nodesData = {} /\ filter = [role |-> "any", status |-> "any"]
  /\ table = Spinner /\ loads = {[id |-> 0, at |-> "database"]}
  /\ window = [title |-> "none", info |-> "none", pods |-> "none", labels |-> "none",
               yaml |-> "none", yamlOf |-> "none", loaded |-> FALSE, shown |-> FALSE]
  /\ asked = {} /\ overlaid = FALSE
  /\ nLoads = 0 /\ nClicks = 0 /\ failures = {}

Click == nClicks < MaxClicks /\ nClicks' = nClicks + 1
Failure(what, id) ==
  /\ Cardinality(failures) < MaxFailures
  /\ failures' = failures \cup {<<what, id>>}

-------------------------------------------------------------------------------
(* (variant) a load empties the rows when it starts. *)
LoadEmptying ==
  /\ ~window.shown /\ nLoads < MaxLoads /\ nLoads' = nLoads + 1
  /\ nodesData' = {}
  /\ table' = Spinner
  /\ loads' = loads \cup {[id |-> nLoads + 1, at |-> "database"]}
  /\ UNCHANGED <<db, k8s, filter, window, asked, overlaid, nClicks, failures>>

\* loadNodes, from the reload button. (The window, when shown, covers the page.)
Load ==
  /\ ~window.shown /\ nLoads < MaxLoads /\ nLoads' = nLoads + 1
  /\ table' = Spinner
  /\ loads' = loads \cup {[id |-> nLoads + 1, at |-> "database"]}
  /\ UNCHANGED <<db, k8s, nodesData, filter, window, asked, overlaid, nClicks, failures>>

\* The database answers: its rows replace all others; an empty answer ends the load.
GotDatabase(r) ==
  /\ r.at = "database"
  /\ nodesData' = DbRows
  /\ IF Assigned = {}
     THEN loads' = loads \ {r} /\ table' = [show |-> "rows", rows |-> {}]
     ELSE loads' = (loads \ {r}) \cup {[r EXCEPT !.at = "kubernetes"]} /\ UNCHANGED table
  /\ UNCHANGED <<db, k8s, filter, window, asked, overlaid, nLoads, nClicks, failures>>

\* It fails, which counts as an empty answer.
DatabaseFails(r) ==
  /\ r.at = "database" /\ Failure("database", r.id)
  /\ nodesData' = {}
  /\ loads' = loads \ {r} /\ table' = [show |-> "rows", rows |-> {}]
  /\ UNCHANGED <<db, k8s, filter, window, asked, overlaid, nLoads, nClicks>>

\* Kubernetes answers: its nodes are merged into the rows of whichever load came last.
GotKubernetes(r) ==
  /\ r.at = "kubernetes"
  /\ loads' = loads \ {r}
  /\ nodesData' = IF Registered = {} THEN MergeNothing(nodesData) ELSE Merge(nodesData)
  /\ table' = Table(nodesData', filter)
  /\ UNCHANGED <<db, k8s, filter, window, asked, overlaid, nLoads, nClicks, failures>>

KubernetesFails(r) ==
  /\ r.at = "kubernetes" /\ Failure("kubernetes", r.id)
  /\ loads' = loads \ {r}
  /\ nodesData' = MergeNothing(nodesData)
  /\ table' = Table(nodesData', filter)
  /\ UNCHANGED <<db, k8s, filter, window, asked, overlaid, nLoads, nClicks>>

\* A select is changed: what nodesData holds is shown, the spinner or not.
ApplyFilters(role, status) ==
  /\ ~window.shown /\ <<role, status>> # <<filter.role, filter.status>>
  /\ Click
  /\ filter' = [role |-> role, status |-> status]
  /\ table' = Table(nodesData, filter')
  /\ UNCHANGED <<db, k8s, nodesData, loads, window, asked, overlaid, nLoads, failures>>

-------------------------------------------------------------------------------
\* The node a button names is looked up by that name.
Find(shown) == {row \in nodesData : row.of = shown.of /\ row.named = shown.named}

\* showNodeDetail, up to its request: title, information and resources are set. A node
\* that is not found shows the window with its other sections as they were.
ShowNodeDetail(shown) ==
  /\ ~window.shown /\ shown \in table.rows
  /\ Click
  /\ IF Find(shown) = {}
     THEN /\ window' = [window EXCEPT !.title = shown.of, !.info = shown.of, !.shown = TRUE]
          /\ overlaid' = TRUE
          /\ UNCHANGED asked
     ELSE /\ window' = [window EXCEPT !.title = shown.of, !.info = shown.of, !.pods = "none"]
          /\ asked' = asked \cup {[kind |-> "pods", of |-> shown.of, id |-> nClicks + 1]}
          /\ overlaid' = \E q \in asked : q.kind = "pods"
  /\ UNCHANGED <<db, k8s, nodesData, filter, table, loads, nLoads, failures>>

\* After the pods, or their failure, which shows as no pods: labels, an empty YAML tab,
\* and the window.
GotPods(q) ==
  /\ q.kind = "pods"
  /\ asked' = asked \ {q}
  /\ window' = [window EXCEPT !.pods = q.of, !.labels = q.of, !.yaml = "none", !.yamlOf = q.of,
                              !.loaded = FALSE, !.shown = TRUE]
  /\ UNCHANGED <<db, k8s, nodesData, filter, table, loads, overlaid, nLoads, nClicks, failures>>

\* The YAML tab asks unless an answer, to any node's request, came since it was emptied.
OpenYaml ==
  /\ window.shown /\ window.yamlOf # "none" /\ ~window.loaded
  /\ Click
  /\ window' = [window EXCEPT !.yaml = "none"]
  /\ asked' = asked \cup {[kind |-> "yaml", of |-> window.yamlOf, id |-> nClicks + 1]}
  /\ UNCHANGED <<db, k8s, nodesData, filter, table, loads, overlaid, nLoads, failures>>

GotYaml(q) ==
  /\ q.kind = "yaml"
  /\ asked' = asked \ {q}
  /\ window' = [window EXCEPT !.yaml = q.of, !.loaded = TRUE]
  /\ UNCHANGED <<db, k8s, nodesData, filter, table, loads, overlaid, nLoads, nClicks, failures>>

YamlFails(q) ==
  /\ q.kind = "yaml" /\ Failure("yaml", q.id)
  /\ asked' = asked \ {q}
  /\ window' = [window EXCEPT !.yaml = "none"]
  /\ UNCHANGED <<db, k8s, nodesData, filter, table, loads, overlaid, nLoads, nClicks>>

\* The window is closed; it can be opened again only from the table.
CloseDetail ==
  /\ window.shown /\ window' = [window EXCEPT !.shown = FALSE]
  /\ UNCHANGED <<db, k8s, nodesData, filter, table, loads, asked, overlaid, nLoads, nClicks, failures>>

Next ==
  \/ Load
  \/ \E r \in loads : GotDatabase(r) \/ DatabaseFails(r) \/ GotKubernetes(r) \/ KubernetesFails(r)
  \/ \E role \in Roles, status \in Statuses : ApplyFilters(role, status)
  \/ \E shown \in table.rows : ShowNodeDetail(shown)
  \/ \E q \in asked : GotPods(q) \/ GotYaml(q) \/ YamlFails(q)
  \/ OpenYaml
  \/ CloseDetail

Spec == Init /\ [][Next]_nodesVars

-------------------------------------------------------------------------------
\* Each variable has its type, and a node has one row at most.
NodesTypeOK ==
  /\ db \in [Nodes -> {"absent", "ONLINE", "OFFLINE"}] /\ k8s \in [Nodes -> {"absent", "Ready", "NotReady"}]
  /\ \A row \in nodesData : row.of \in Nodes /\ row.k8sStatus \in {"Unknown", "Ready", "NotReady"}
  /\ \A row, other \in nodesData : row.of = other.of => row = other
  /\ filter.role \in Roles /\ filter.status \in Statuses
  /\ table.show \in {"spinner", "rows"}
  /\ {window.title, window.info, window.pods, window.labels, window.yaml} \subseteq Nodes \cup {"none"}

\* A server of the cluster's is never called "Not Assign", however loads overlap and
\* whatever Kubernetes answers, as long as the database does.
AssignedIsNotUnassigned ==
  (\A f \in failures : f[1] # "database") =>
    \A row \in table.rows : row.of \in Assigned => row.role # "Not Assign"

\* Once every load is answered and none failed, the rows are the servers of the database
\* and the nodes of Kubernetes, each called what it is, those the selects leave out apart.
\* (With no node at all in Kubernetes an offline server keeps its role.)
SettledRowsAreTrue ==
  loads = {} /\ failures = {} /\ Assigned # {} /\ Registered # {} =>
    /\ table.show = "rows"
    /\ filter = [role |-> "any", status |-> "any"] =>
         {row.of : row \in table.rows} = Assigned \cup Registered
    /\ \A row \in table.rows :
         /\ row.role = "Not Assign" <=> row.of \notin Assigned
         /\ row.role = "No Join Cluster" <=> row.of \notin Registered
         /\ row.status = "OFFLINE" <=> db[row.of] = "OFFLINE"

\* In a window opened when no other waited for its pods, every section is the title's.
\* (A late YAML is not dropped: the YAML tab is left out.)
WindowOfTitle ==
  window.shown /\ ~overlaid /\ (\A q \in asked : q.kind # "pods") =>
    {window.info, window.pods, window.labels} = {window.title} /\ window.yamlOf = window.title

\* A tab that was emptied for a node can ask for its YAML, until an answer comes.
YamlCanBeAsked == window'.yamlOf # window.yamlOf => ~window'.loaded
===============================================================================
