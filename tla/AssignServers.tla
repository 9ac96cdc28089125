------------------------------ MODULE AssignServers ------------------------------
(***************************************************************************)
(* The page that assigns servers to the cluster (k8sClusters.js on         *)
(* assign-servers.html): a table of the servers outside the cluster and    *)
(* one of those in it. What the administrator does becomes an operation, a *)
(* chain of requests in the browser; chains overlap, and every one of them *)
(* ends by loading the tables again. The role of a server is MASTER or     *)
(* another, which stands for the four others.                              *)
(*                                                                         *)
(* PUT /admin/servers/{id} stores the role and the membership it is sent;  *)
(* only the page looks after there being one master.                       *)
(***************************************************************************)
EXTENDS Integers, FiniteSets

CONSTANTS
  Servers,      \* ids, in the order of the tables
  MaxActs,      \* bound: what the administrator does
  MaxFailures   \* bound: requests that fail

\* Assumed where the constants are given values.
AssignAssumption ==
  /\ Servers \subseteq Nat /\ IsFiniteSet(Servers) /\ Servers # {}
  /\ MaxActs \in Nat /\ MaxFailures \in Nat

VARIABLES
  db,        \* for each server its membership and its role
  tables,    \* the rows of both tables: what db was when they were read, or none
  ops,       \* operations under way
  busy,      \* controls of rows that an operation has disabled
  acts, failures,
  careless,  \* whether something was done that the page does not look after
  late       \* whether an answer has filled the tables that was no longer true

assignVars == <<db, tables, ops, busy, acts, failures, careless, late>>

Roles == {"MASTER", "WORKER"}
NoRows == <<>>   \* the function of no server
InCluster(d) == {s \in DOMAIN d : d[s].in}
MastersOf(d) == {s \in InCluster(d) : d[s].role = "MASTER"}
First(ids) == CHOOSE s \in ids : \A t \in ids : s <= t

\* An operation: the servers it has still to send, the roles it sends, the step it is
\* at and, while it loads the tables, what the server has answered.
Op(kind, at, todo, roles) ==
  [id |-> acts + 1, kind |-> kind, at |-> at, todo |-> todo, roles |-> roles, seen |-> NoRows]

Init ==
  /\ db \in [Servers -> [in : BOOLEAN, role : Roles]]
  /\ Cardinality(MastersOf(db)) <= 1
  /\ tables = NoRows
  /\ ops = {[id |-> 0, kind |-> "refresh", at |-> "last", todo |-> {}, roles |-> NoRows, seen |-> NoRows]}
  /\ busy = {} /\ acts = 0 /\ failures = 0 /\ careless = FALSE /\ late = FALSE

\* What is done while something else is under way, or on tables that a failed load left,
\* is not looked after; nor is what `unchecked` says.
Act(unchecked) ==
  /\ acts < MaxActs /\ acts' = acts + 1
  /\ careless' = (careless \/ unchecked \/ ops # {} \/ failures > 0)

Failure == failures < MaxFailures /\ failures' = failures + 1

Becomes(o, p) == ops' = (ops \ {o}) \cup {p}
Ends(o) == /\ ops' = ops \ {o}
           /\ busy' = {b \in busy : b.op # o.id}

-------------------------------------------------------------------------------
\* The refresh button.
Refresh ==
  /\ Act(FALSE)
  /\ ops' = ops \cup {Op("refresh", "last", {}, NoRows)}
  /\ UNCHANGED <<db, tables, busy, failures, late>>

\* The button of the first table: each checked server with the role its row has chosen;
\* no look at the masters there are.
Assign(todo, roles) ==
  /\ todo # {} /\ todo \subseteq DOMAIN tables \ InCluster(tables)
  /\ \A o \in ops : o.kind = "assign" => o.at = "last"
  /\ Act(\E s \in todo : roles[s] = "MASTER")
  /\ ops' = ops \cup {Op("assign", "put", todo, roles)}
  /\ UNCHANGED <<db, tables, busy, failures, late>>

\* The select of a row in the second table: a second master is refused, by the rows.
ChangeRole(s, role) ==
  /\ s \in InCluster(tables) /\ role # tables[s].role
  /\ role = "MASTER" => MastersOf(tables) = {}
  /\ \A b \in busy : b.of # s \/ b.what # "select"
  /\ Act(FALSE)
  /\ ops' = ops \cup {Op("role", "put", {s}, [x \in {s} |-> role])}
  /\ busy' = busy \cup {[what |-> "select", of |-> s, op |-> acts + 1]}
  /\ UNCHANGED <<db, tables, failures, late>>

\* One role for all checked rows of the second table: a request first where the role is
\* MASTER. Several at once are not refused while there is no master.
ChangeRoles(todo, role) ==
  /\ todo # {} /\ todo \subseteq InCluster(tables)
  /\ \A o \in ops : o.kind = "roles" => o.at = "check"
  /\ Act(role = "MASTER" /\ Cardinality(todo) > 1 /\ MastersOf(tables) = {})
  /\ ops' = ops \cup {Op("roles", IF role = "MASTER" THEN "check" ELSE "put",
                         todo, [s \in todo |-> role])}
  /\ UNCHANGED <<db, tables, busy, failures, late>>

\* The button of a row, confirmed.
Remove(s) ==
  /\ s \in InCluster(tables)
  /\ \A b \in busy : b.of # s \/ b.what # "button"
  /\ Act(FALSE)
  /\ ops' = ops \cup {Op("remove", "get", {s}, NoRows)}
  /\ busy' = busy \cup {[what |-> "button", of |-> s, op |-> acts + 1]}
  /\ UNCHANGED <<db, tables, failures, late>>

\* The checked rows of the second table: their names are asked first, to be confirmed.
RemoveAll(todo) ==
  /\ todo # {} /\ todo \subseteq InCluster(tables)
  /\ \A o \in ops : o.kind = "removeAll" => o.at = "confirm"
  /\ Act(FALSE)
  /\ ops' = ops \cup {Op("removeAll", "confirm", todo, NoRows)}
  /\ UNCHANGED <<db, tables, busy, failures, late>>

Confirm(o) ==
  /\ o.at = "confirm"
  /\ ops' \in {ops \ {o}, (ops \ {o}) \cup {[o EXCEPT !.at = "get"]}}
  /\ UNCHANGED <<db, tables, busy, acts, failures, careless, late>>

-------------------------------------------------------------------------------
\* The check before many become MASTER: with a master there is, only it may be chosen. A
\* request that fails counts as no servers.
Passes(d, todo) == MastersOf(d) = {} \/ todo \subseteq MastersOf(d)

(* (variant) a master among the checked rows is enough. *)
CheckAny(o) ==
  /\ o.at = "check"
  /\ ops' = IF MastersOf(db) = {} \/ o.todo \cap MastersOf(db) # {}
            THEN (ops \ {o}) \cup {[o EXCEPT !.at = "put"]} ELSE ops \ {o}
  /\ UNCHANGED <<db, tables, busy, acts, failures, careless, late>>

Check(o) ==
  /\ o.at = "check"
  /\ ops' = IF Passes(db, o.todo)
            THEN (ops \ {o}) \cup {[o EXCEPT !.at = "put"]} ELSE ops \ {o}
  /\ UNCHANGED <<db, tables, busy, acts, failures, careless, late>>

CheckFails(o) ==
  /\ o.at = "check" /\ Failure
  /\ Becomes(o, [o EXCEPT !.at = "put"])
  /\ careless' = TRUE
  /\ UNCHANGED <<db, tables, busy, acts, late>>

(* (variant) it is not asked for. *)
GetRoleUnasked(o) ==
  /\ o.at = "get"
  /\ Becomes(o, [o EXCEPT !.at = "put", !.roles = [s \in {First(o.todo)} |-> "WORKER"]])
  /\ UNCHANGED <<db, tables, busy, acts, failures, careless, late>>

\* A removal sends the role its server has now, WORKER where that cannot be had.
GetRole(o) ==
  /\ o.at = "get"
  /\ Becomes(o, [o EXCEPT !.at = "put", !.roles = [s \in {First(o.todo)} |-> db[s].role]])
  /\ UNCHANGED <<db, tables, busy, acts, failures, careless, late>>

GetRoleFails(o) ==
  /\ o.at = "get" /\ Failure
  /\ Becomes(o, [o EXCEPT !.at = "put", !.roles = [s \in {First(o.todo)} |-> "WORKER"]])
  /\ careless' = TRUE
  /\ UNCHANGED <<db, tables, busy, acts, late>>

-------------------------------------------------------------------------------
\* What the server stores for the operation's next server.
Stored(o) ==
  LET s == First(o.todo) IN
  [db EXCEPT ![s] = [in |-> o.kind \in {"assign", "role", "roles"}, role |-> o.roles[s]]]
Rest(o) == o.todo \ {First(o.todo)}

(* (variant) a removal leaves the tables to the refresh button. *)
PutUnloaded(o) ==
  /\ o.at = "put"
  /\ db' = Stored(o)
  /\ IF o.kind = "remove" THEN Ends(o)
     ELSE /\ Becomes(o, [o EXCEPT !.todo = Rest(o),
               !.at = CASE o.kind \in {"role", "roles"} -> "reload"
                        [] o.kind = "assign" -> IF Rest(o) = {} THEN "detail" ELSE "put"
                        [] OTHER -> IF Rest(o) = {} THEN "last" ELSE "get"])
          /\ UNCHANGED busy
  /\ UNCHANGED <<tables, acts, failures, careless, late>>

\* A request carried out: changes of roles load the tables before the next server's turn,
\* an assignment asks for the cluster's details at its end.
Put(o) ==
  /\ o.at = "put"
  /\ db' = Stored(o)
  /\ Becomes(o, [o EXCEPT !.todo = Rest(o),
          !.at = CASE o.kind \in {"role", "roles"} -> "reload"
                   [] o.kind = "assign" -> IF Rest(o) = {} THEN "detail" ELSE "put"
                   [] OTHER -> IF Rest(o) = {} THEN "last" ELSE "get"])
  /\ UNCHANGED <<tables, busy, acts, failures, careless, late>>

\* A request fails, carried out or not. An assignment ends there and loads the tables, the
\* removal of one row ends; those of many go on, and so do changes of roles, whose
\* saveServerClusterAndRole keeps its error to itself.
PutFails(o) ==
  /\ o.at = "put" /\ Failure
  /\ db' \in {db, Stored(o)}
  /\ careless' = TRUE
  /\ IF o.kind = "remove" THEN Ends(o)
     ELSE /\ Becomes(o, [o EXCEPT !.todo = IF o.kind = "assign" THEN {} ELSE Rest(o),
               !.at = IF o.kind = "assign" \/ Rest(o) = {} THEN "last"
                      ELSE IF o.kind = "removeAll" THEN "get" ELSE "put"])
          /\ UNCHANGED busy
  /\ UNCHANGED <<tables, acts, late>>

\* showClusterDetail, of which nothing is on this page, and the tables twice.
Detail(o) ==
  /\ o.at = "detail"
  /\ Becomes(o, [o EXCEPT !.at = "reload"])
  /\ UNCHANGED <<db, tables, busy, acts, failures, careless, late>>

\* An error is told and the rest goes on; telling of a 404 names an id there is not, and
\* is itself the error that ends the assignment.
DetailFails(o) ==
  /\ o.at = "detail" /\ Failure
  /\ ops' \in {(ops \ {o}) \cup {[o EXCEPT !.at = at]} : at \in {"reload", "last"}}
  /\ UNCHANGED <<db, tables, busy, acts, careless, late>>

\* loadClustersAndServers: the server answers,
Serve(o) ==
  /\ o.at \in {"reload", "last"} /\ o.seen = NoRows
  /\ Becomes(o, [o EXCEPT !.seen = db])
  /\ UNCHANGED <<db, tables, busy, acts, failures, careless, late>>

\* and the answer, of whichever operation, is both tables; their controls are new.
Shown(o, rows) ==
  /\ tables' = rows
  /\ late' = (late \/ rows # db)
  /\ IF o.at = "last"
     THEN ops' = ops \ {o}
     ELSE Becomes(o, [o EXCEPT !.at = IF o.kind = "roles" /\ o.todo # {} THEN "put" ELSE "last",
                               !.seen = NoRows])
  /\ busy' = {}
  /\ UNCHANGED <<db, acts, careless>>

GotTables(o) ==
  /\ o.at \in {"reload", "last"} /\ o.seen # NoRows
  /\ Shown(o, o.seen)
  /\ UNCHANGED failures

\* A request that fails counts as no servers: both tables say there are none.
TablesFail(o) ==
  /\ o.at \in {"reload", "last"} /\ Failure
  /\ Shown(o, NoRows)

Next ==
  \/ Refresh
  \/ \E todo \in SUBSET Servers :
       \/ \E roles \in [todo -> Roles] : Assign(todo, roles)
       \/ \E role \in Roles : ChangeRoles(todo, role)
       \/ RemoveAll(todo)
  \/ \E s \in Servers : Remove(s) \/ \E role \in Roles : ChangeRole(s, role)
  \/ \E o \in ops :
       \/ Confirm(o) \/ Check(o) \/ CheckFails(o) \/ GetRole(o) \/ GetRoleFails(o)
       \/ Put(o) \/ PutFails(o) \/ Detail(o) \/ DetailFails(o)
       \/ Serve(o) \/ GotTables(o) \/ TablesFail(o)

Spec == Init /\ [][Next]_assignVars

-------------------------------------------------------------------------------
\* Each variable has its type; a control is disabled by an operation under way.
AssignTypeOK ==
  /\ db \in [Servers -> [in : BOOLEAN, role : Roles]]
  /\ tables = NoRows \/ tables \in [Servers -> [in : BOOLEAN, role : Roles]]
  /\ \A o \in ops : o.todo \subseteq Servers /\ o.id \in 0..MaxActs
  /\ \A o \in ops : o.at \in {"put", "get", "check", "confirm"} => o.todo # {}
  /\ \A b \in busy : \E o \in ops : o.id = b.op

\* One operation after another, with no failure, makes no second master, whichever rows
\* they change and remove, as long as none is assigned as MASTER and none are made MASTER
\* together ("Cum chi co the co 1 master", k8sClusters.js:580, without its accents).
OneMaster == ~careless => Cardinality(MastersOf(db)) <= 1

\* A server that leaves the cluster keeps its role, even when another administrator's
\* look at it was old, unless something failed or was done meanwhile.
RoleKept ==
  ~careless' => \A s \in Servers : db[s].in /\ ~db'[s].in => db'[s].role = db[s].role

\* Once nothing is under way both tables show the servers as they are, however the
\* operations overlapped, unless a request failed or an answer came after a change it
\* did not know.
SettledTables == ops = {} /\ failures = 0 /\ ~late => tables = db

================================================================================
