------------------------------ MODULE ClusterPage ------------------------------
(***************************************************************************)
(* The page of the cluster (k8sClusters.js on cluster.html): a summary, a  *)
(* card that says whether Kubernetes is installed, and a grid of the       *)
(* servers in the cluster. A load sends three requests and renders when    *)
(* the last is answered; it forgets that one failed, which counts as no    *)
(* cluster, no servers or no connections. Loads may overlap, and neither   *)
(* they nor the requests for the version know of each other.               *)
(***************************************************************************)
EXTENDS Integers, FiniteSets

CONSTANTS
  Servers,      \* ids, in the order the repository finds them
  Statuses,     \* the statuses a server may have
  MaxActs,      \* bound: refreshes, and changes made elsewhere
  MaxFailures   \* bound: requests that fail

\* Assumed where the constants are given values.
ClusterPageAssumption ==
  /\ Servers \subseteq Nat /\ MaxActs \in Nat /\ MaxFailures \in Nat
  /\ Statuses \subseteq {"ONLINE", "OFFLINE", "DISABLED"}

VARIABLES
  db,          \* each server's membership, role and status
  connected,   \* the session's set of servers
  installed,   \* whether Kubernetes tells its version
  loads,       \* what is awaited and what was answered
  versions,    \* requests for the version
  summary, card, grid,
  acts, failures,
  current,     \* nothing has changed since a load was last begun
  late         \* a rendering or a version was no longer true

clusterVars == <<db, connected, installed, loads, versions, summary, card, grid, acts,
                 failures, current, late>>

\* Roles other than these count as nodes alone.
Roles == {"MASTER", "WORKER"}
Rows == [Servers -> [in : BOOLEAN, role : Roles, status : Statuses]]

None == {}   \* no cluster, or no summary of one
NoRows == <<>>
InCluster(d) == {s \in DOMAIN d : d[s].in}
WithRole(d, role) == {s \in InCluster(d) : d[s].role = role}
WithStatus(d, status) == {s \in InCluster(d) : d[s].status = status}

-------------------------------------------------------------------------------
(* What the server answers, and what the page makes of it                     *)

\* getDefaultCluster: there always is one; it is healthy when no server is OFFLINE.
ClusterOf(d) ==
  {[master |-> {s \in WithRole(d, "MASTER") : \A t \in WithRole(d, "MASTER") : s <= t},
    status |-> IF InCluster(d) = {} THEN "ERROR"
               ELSE IF WithStatus(d, "OFFLINE") # {} THEN "WARNING" ELSE "HEALTHY"]}

\* The summary takes the master and the status from the cluster and counts servers itself.
SummaryOf(cluster, rows, ids) ==
  {[master    |-> c.master,
    status    |-> c.status,
    masters   |-> Cardinality(WithRole(rows, "MASTER")),
    workers   |-> Cardinality(WithRole(rows, "WORKER")),
    nodes     |-> Cardinality(InCluster(rows)),
    connected |-> Cardinality(InCluster(rows) \cap ids),
    online    |-> Cardinality(WithStatus(rows, "ONLINE"))] : c \in cluster}

\* A connected server is shown as such whatever its status.
GridOf(rows, ids) ==
  [s \in InCluster(rows) |->
     [role |-> rows[s].role,
      chip |-> IF s \in ids THEN "CONNECTED"
               ELSE IF rows[s].status = "ONLINE" THEN "ONLINE" ELSE "OFFLINE"]]

Parts == {"cluster", "servers", "connected"}
Load(id) == [id |-> id, awaits |-> Parts, cluster |-> None, rows |-> NoRows, ids |-> {}]

Init ==
  /\ db \in Rows /\ connected \in SUBSET Servers /\ installed \in BOOLEAN
  /\ loads = {Load(0)} /\ versions = {}
  /\ summary = None /\ card = "none" /\ grid = NoRows
  /\ acts = 0 /\ failures = 0 /\ current = TRUE /\ late = FALSE

Act == acts < MaxActs /\ acts' = acts + 1
Failure == failures < MaxFailures /\ failures' = failures + 1

-------------------------------------------------------------------------------
\* The refresh button, which nothing disables.
Refresh ==
  /\ Act
  /\ loads' = loads \cup {Load(acts')} /\ current' = TRUE
  /\ UNCHANGED <<db, connected, installed, versions, summary, card, grid, failures, late>>

\* A server, the session's set or Kubernetes changes by what is done on other pages.
Change ==
  /\ Act /\ current' = FALSE
  /\ \/ /\ \E s \in Servers :
             db' \in {[db EXCEPT ![s].in = ~@]} \cup {[db EXCEPT ![s].role = r] : r \in Roles}
                      \cup {[db EXCEPT ![s].status = t] : t \in Statuses}
        /\ UNCHANGED <<connected, installed>>
     \/ connected' \in SUBSET Servers /\ UNCHANGED <<db, installed>>
     \/ installed' = ~installed /\ UNCHANGED <<db, connected>>
  /\ UNCHANGED <<loads, versions, summary, card, grid, failures, late>>

\* The server answers one of a load's requests,
Serve(l, part) ==
  /\ part \in l.awaits
  /\ LET answered == [l EXCEPT !.awaits = @ \ {part}]
     IN  loads' = (loads \ {l}) \cup
           {CASE part = "cluster"   -> [answered EXCEPT !.cluster = ClusterOf(db)]
              [] part = "servers"   -> [answered EXCEPT !.rows = db]
              [] part = "connected" -> [answered EXCEPT !.ids = connected]}
  /\ UNCHANGED <<db, connected, installed, versions, summary, card, grid, acts, failures,
                 current, late>>

\* or it fails, and what it was asked for stays empty.
Fails(l, part) ==
  /\ part \in l.awaits /\ Failure
  /\ loads' = (loads \ {l}) \cup {[l EXCEPT !.awaits = @ \ {part}]}
  /\ UNCHANGED <<db, connected, installed, versions, summary, card, grid, acts, current, late>>

\* All are answered: with a cluster there is a new card, for which the version is asked.
Render(l) ==
  /\ l.awaits = {} /\ loads' = loads \ {l}
  /\ summary' = SummaryOf(l.cluster, l.rows, l.ids)
  /\ grid' = GridOf(l.rows, l.ids)
  /\ IF l.cluster = None
     THEN card' = "none" /\ UNCHANGED versions
     ELSE card' = "checking" /\ versions' = versions \cup {[id |-> l.id, answer |-> "awaited"]}
  /\ late' = (late \/ <<l.cluster, l.rows, l.ids>> # <<ClusterOf(db), db, connected>>)
  /\ UNCHANGED <<db, connected, installed, acts, failures, current>>

Told == IF installed THEN "installed" ELSE "missing"

ServeVersion(v) ==
  /\ v.answer = "awaited"
  /\ versions' = (versions \ {v}) \cup {[v EXCEPT !.answer = Told]}
  /\ UNCHANGED <<db, connected, installed, loads, summary, card, grid, acts, failures, current,
                 late>>

\* The answer fills the card there is now, if there is one.
ShowVersion(v, answer) ==
  /\ versions' = versions \ {v}
  /\ card' = IF card = "none" THEN "none" ELSE answer
  /\ late' = (late \/ answer # Told)
  /\ UNCHANGED <<db, connected, installed, loads, summary, grid, acts, current>>

GotVersion(v) == v.answer # "awaited" /\ ShowVersion(v, v.answer) /\ UNCHANGED failures

\* A request that fails tells that nothing is installed.
VersionFails(v) == v.answer = "awaited" /\ Failure /\ ShowVersion(v, "missing")

Next ==
  \/ Refresh \/ Change
  \/ \E l \in loads : Render(l) \/ \E part \in Parts : Serve(l, part) \/ Fails(l, part)
  \/ \E v \in versions : ServeVersion(v) \/ GotVersion(v) \/ VersionFails(v)

-------------------------------------------------------------------------------
\* Each variable has its type.
ClusterPageTypeOK ==
  /\ db \in Rows /\ connected \subseteq Servers /\ {installed, current, late} \subseteq BOOLEAN
  /\ \A l \in loads : l.id \in 0..MaxActs /\ l.awaits \subseteq Parts /\ l.ids \subseteq Servers
  /\ \A v \in versions : v.answer \in {"awaited", "installed", "missing"}
  /\ DOMAIN grid \subseteq Servers /\ card \in {"none", "checking", "installed", "missing"}

\* The card says it is checking only while the version is awaited, and there is a card
\* exactly under a summary, however loads overlap and fail.
CheckingIsAsked ==
  /\ card = "checking" => versions # {}
  /\ card = "none" <=> summary = None

\* Once nothing is awaited the summary, its card and the grid show what is so, unless a
\* request failed, something has changed since, or an answer came late.
SettledCluster ==
  loads = {} /\ versions = {} /\ failures = 0 /\ current /\ ~late =>
    /\ summary = SummaryOf(ClusterOf(db), db, connected)
    /\ grid = GridOf(db, connected)
    /\ card = Told

================================================================================
