------------------------------ MODULE OverviewPage ------------------------------
(***************************************************************************)
(* The cluster's overview, k8sOverview.js. One reload asks five things at  *)
(* once, the nodes by two requests that are waited for together, and each  *)
(* answer fills its own cells. The health line counts the nodes of the     *)
(* list once it is there, and falls back on the health answer's own count. *)
(***************************************************************************)
EXTENDS Integers, FiniteSets

CONSTANTS
  Nodes,
  Counters,      \* the parts of one cell each that this instance has
  MaxReloads,    \* bound: reloads
  MaxFailures    \* bound: requests that fail

\* Assumed where the constants are given values.
OverviewAssumption ==
  /\ IsFiniteSet(Nodes) /\ Nodes # {} /\ Counters \subseteq {"workloads", "namespaces", "resources"}
  /\ MaxReloads \in Nat /\ MaxFailures \in Nat

VARIABLES
  db,         \* the cluster's servers in the database: ONLINE, OFFLINE, or not assigned to it
  k8s,        \* Kubernetes' nodes: Ready, NotReady, or not there
  nodesData,
  healthData, \* whether healthData is there
  cells,      \* what each part of the page shows
  health,     \* the ready and all nodes the health line shows
  list,       \* the node list
  requests,   \* requests under way
  nReloads, failures

overviewVars == <<db, k8s, nodesData, healthData, cells, health, list, requests, nReloads, failures>>

Parts == {"health", "nodes"} \cup Counters
Cells == {"nodesList", "nodesHealth", "pods", "services", "events"} \cup Counters
Registered == {n \in Nodes : k8s[n] # "absent"}

\* The rows of both answers: what is OFFLINE in the database stays so, and the label says
\* which of the two does not know the node.
Merge(known, nodes) ==
  {[of |-> n,
    status |-> IF n \in nodes /\ (n \notin known \/ db[n] # "OFFLINE") THEN k8s[n] ELSE db[n],
    k8sStatus |-> IF n \in nodes /\ n \in known THEN k8s[n] ELSE "undefined",
    label |-> CASE n \notin known -> "Not Assign" [] n \notin nodes -> "No Join Cluster"
                [] OTHER -> "role"] : n \in known \cup nodes}

ReadyIn(rows) ==
  {row \in rows : (IF row.k8sStatus # "undefined" THEN row.k8sStatus ELSE row.status) = "Ready"}

\* renderHealth: the nodes are counted in nodesData, or as the health answer counts them.
Count(rows, has) ==
  IF rows # {} THEN [ready |-> Cardinality(ReadyIn(rows)), total |-> Cardinality(rows)]
  ELSE IF has THEN [ready |-> Cardinality({n \in Nodes : k8s[n] = "Ready"}), total |-> Cardinality(Registered)]
  ELSE [ready |-> 0, total |-> 0]

\* Without health data all of its cells but the networking counts are marked.
RenderHealth(old, rows, has) ==
  [c \in Cells |->
     CASE c = "nodesHealth" -> IF has \/ rows # {} THEN "value" ELSE "N/A"
       [] c = "pods" -> IF has THEN "value" ELSE "N/A"
       [] c = "services" -> IF has THEN "value" ELSE old[c]
       [] OTHER -> old[c]]

Init ==
  /\ db \in [Nodes -> {"absent", "ONLINE", "OFFLINE"}]
  /\ k8s \in [Nodes -> {"absent", "Ready", "NotReady"}]
  /\ nodesData = {} /\ healthData = FALSE /\ list = {}
  /\ cells = [c \in Cells |-> "spinner"] /\ health = [ready |-> 0, total |-> 0]
  /\ requests = {[id |-> 0, part |-> p, lost |-> {}] : p \in Parts}
  /\ nReloads = 0 /\ failures = {}

\* loadOverview: all is emptied and asked for.
LoadOverview ==
  /\ nReloads < MaxReloads /\ nReloads' = nReloads + 1
  /\ nodesData' = {} /\ healthData' = FALSE
  /\ cells' = [c \in Cells |-> "spinner"]
  /\ requests' = requests \cup {[id |-> nReloads + 1, part |-> p, lost |-> {}] : p \in Parts}
  /\ UNCHANGED <<db, k8s, health, list, failures>>

-------------------------------------------------------------------------------
(* (variant) the networking counts wait for the node list. *)
GotHealthWithNodes(r) ==
  /\ r.part = "health"
  /\ requests' = requests \ {r}
  /\ healthData' = TRUE
  /\ health' = Count(nodesData, TRUE)
  /\ cells' = IF nodesData = {} THEN cells
              ELSE [RenderHealth(cells, nodesData, TRUE) EXCEPT !["events"] = "value"]
  /\ UNCHANGED <<db, k8s, nodesData, list, nReloads, failures>>

GotHealth(r) ==
  /\ r.part = "health"
  /\ requests' = requests \ {r}
  /\ healthData' = TRUE
  /\ health' = Count(nodesData, TRUE)
  /\ cells' = [RenderHealth(cells, nodesData, TRUE) EXCEPT !["events"] = "value"]
  /\ UNCHANGED <<db, k8s, nodesData, list, nReloads, failures>>

\* It fails, for whichever reload: the health data is gone.
HealthFails(r) ==
  /\ r.part = "health"
  /\ Cardinality(failures) < MaxFailures /\ failures' = failures \cup {<<"health", r.id>>}
  /\ requests' = requests \ {r}
  /\ healthData' = FALSE
  /\ health' = Count(nodesData, FALSE)
  /\ cells' = [RenderHealth(cells, nodesData, FALSE) EXCEPT !["events"] = "N/A"]
  /\ UNCHANGED <<db, k8s, nodesData, list, nReloads>>

\* Both answers on the nodes are there, one that failed counting as empty.
GotNodes(r) ==
  /\ r.part = "nodes"
  /\ requests' = requests \ {r}
  /\ nodesData' = Merge(IF "database" \in r.lost THEN {} ELSE {n \in Nodes : db[n] # "absent"},
                        IF "kubernetes" \in r.lost THEN {} ELSE Registered)
  /\ list' = nodesData'
  /\ health' = Count(nodesData', healthData)
  /\ cells' = RenderHealth([cells EXCEPT !["nodesList"] = "value"], nodesData', healthData)
  /\ UNCHANGED <<db, k8s, healthData, nReloads, failures>>

NodesFail(r) ==
  /\ r.part = "nodes"
  /\ \E what \in {"database", "kubernetes"} \ r.lost :
       /\ Cardinality(failures) < MaxFailures /\ failures' = failures \cup {<<what, r.id>>}
       /\ requests' = (requests \ {r}) \cup {[r EXCEPT !.lost = @ \cup {what}]}
  /\ UNCHANGED <<db, k8s, nodesData, healthData, cells, health, list, nReloads>>

\* The other parts fill one cell each, or mark it.
GotCell(r) ==
  /\ r.part \in Counters
  /\ requests' = requests \ {r}
  /\ cells' = [cells EXCEPT ![r.part] = "value"]
  /\ UNCHANGED <<db, k8s, nodesData, healthData, health, list, nReloads, failures>>

CellFails(r) ==
  /\ r.part \in Counters
  /\ Cardinality(failures) < MaxFailures /\ failures' = failures \cup {<<r.part, r.id>>}
  /\ requests' = requests \ {r}
  /\ cells' = [cells EXCEPT ![r.part] = "N/A"]
  /\ UNCHANGED <<db, k8s, nodesData, healthData, health, list, nReloads>>

Next ==
  \/ LoadOverview
  \/ \E r \in requests :
       \/ GotHealth(r) \/ HealthFails(r)
       \/ GotNodes(r) \/ NodesFail(r)
       \/ GotCell(r) \/ CellFails(r)

Spec == Init /\ [][Next]_overviewVars

-------------------------------------------------------------------------------
\* Each variable has its type, and a node has one row at most.
OverviewTypeOK ==
  /\ cells \in [Cells -> {"spinner", "value", "N/A"}] /\ healthData \in BOOLEAN
  /\ \A row, other \in nodesData : row.of = other.of => row = other
  /\ health.ready \in 0..health.total /\ health.total \in 0..Cardinality(Nodes)
  /\ \A r \in requests : r.part \in Parts

\* Once everything asked for is answered no part of the page waits, whichever answers
\* failed or came after a newer reload's; only the networking counts stay on their
\* spinners when the health request failed.
SettledIsFilled ==
  requests = {} =>
    \A c \in Cells : cells[c] = "spinner" =>
      c = "services" /\ \E f \in failures : f[1] = "health"

\* The health line counts the nodes the list has, in whatever order the answers come.
CountsTheList ==
  nodesData # {} /\ cells["nodesList"] = "value" =>
    cells["nodesHealth"] = "value" /\ health.total = Cardinality(list)
===============================================================================
