----------------------------- MODULE NamespacesPage -----------------------------
(***************************************************************************)
(* The namespaces page, k8sNamespaces.js: a table with a search box, a     *)
(* deletion that may last minutes while the rest goes on, and a window     *)
(* with the details and, loaded on demand, the YAML of one namespace.      *)
(* Loads of the table carry no token; the details carry a request id; the  *)
(* YAML only the name it was asked for.                                    *)
(***************************************************************************)
EXTENDS Integers, FiniteSets

CONSTANTS
  Namespaces,
  System,       \* those K8sHelpers.isSystemNamespace refuses to delete
  MaxSteps,     \* bound: what the administrator does
  MaxFailures   \* bound: requests that fail

\* Assumed where the constants are given values.
NamespacesAssumption ==
  /\ Namespaces # {} /\ System \subseteq Namespaces /\ Namespaces \cap {"all", "none"} = {}
  /\ MaxSteps \in Nat /\ MaxFailures \in Nat

VARIABLES
  cluster,   \* the namespaces there are
  data,      \* namespacesData
  filtered,  \* filteredData
  search,    \* the search box: "all" rows, or those of one name
  table,     \* what the table shows, and which of its rows say they are being deleted
  loads,     \* loads of the table under way
  deleting,  \* deletingNamespaces
  deletes,   \* DELETE requests under way
  detail,    \* namespaceDetailRequestId, namespaceDetailState and what the window shows
  asked,     \* requests of the window under way: details, and YAML
  steps,
  failures

nsVars == <<cluster, data, filtered, search, table, loads, deleting, deletes, detail, asked, steps, failures>>

Spinner == [show |-> "spinner", rows |-> {}, busy |-> {}]
Matching(rows) == IF search = "all" THEN rows ELSE rows \cap {search}

\* renderNamespaces: the rows, those being deleted marked and without a button.
Render(rows, busy) ==
  [show |-> IF rows = {} THEN "empty" ELSE "rows", rows |-> rows, busy |-> rows \cap busy]

Init ==
  /\ cluster \in {c \in SUBSET Namespaces : System \subseteq c}
  /\ data = {} /\ filtered = {} /\ search = "all"
  /\ table = Spinner /\ loads = {[id |-> 0, silent |-> FALSE]}
  /\ deleting = {} /\ deletes = {}
  /\ detail = [title |-> "none", request |-> 0, body |-> "none", state |-> "closed",
               name |-> "none", loaded |-> FALSE, loading |-> FALSE, yaml |-> "none", copy |-> FALSE]
  /\ asked = {}
  /\ steps = 0 /\ failures = 0

Act == steps < MaxSteps /\ steps' = steps + 1
Failure == failures < MaxFailures /\ failures' = failures + 1

-------------------------------------------------------------------------------
\* The reload button: a spinner, and a request.
Reload ==
  /\ Act
  /\ table' = Spinner
  /\ loads' = loads \cup {[id |-> steps + 1, silent |-> FALSE]}
  /\ UNCHANGED <<cluster, data, filtered, search, deleting, deletes, detail, asked, failures>>

\* A word in the search box, or another status: the rows held are filtered and shown.
ApplyFilters(word) ==
  /\ word # search
  /\ Act
  /\ search' = word
  /\ filtered' = IF word = "all" THEN data ELSE data \cap {word}
  /\ table' = Render(filtered', deleting)
  /\ UNCHANGED <<cluster, data, loads, deleting, deletes, detail, asked, failures>>

\* A list arrives, of either kind of load: it is kept, filtered and shown.
Got(r) ==
  /\ loads' = loads \ {r}
  /\ data' = cluster /\ filtered' = Matching(cluster)
  /\ table' = Render(filtered', deleting)
  /\ UNCHANGED <<cluster, search, deleting, deletes, detail, asked, steps, failures>>

\* A visible load that fails empties the data and shows the rows filtered before; a
\* silent one changes nothing.
LoadFails(r) ==
  /\ Failure
  /\ loads' = loads \ {r}
  /\ IF r.silent THEN UNCHANGED <<data, table>>
     ELSE data' = {} /\ table' = Render(filtered, deleting)
  /\ UNCHANGED <<cluster, filtered, search, deleting, deletes, detail, asked, steps>>

-------------------------------------------------------------------------------
(* (variant) one being deleted is not refused, and not marked. *)
DeleteUnmarked(ns) ==
  /\ ns \in table.rows \ table.busy
  /\ ns \notin System
  /\ Act
  /\ table' = Render(filtered, deleting)
  /\ deletes' = deletes \cup {[of |-> ns, id |-> steps + 1, awaited |-> TRUE]}
  /\ UNCHANGED <<cluster, data, filtered, search, loads, deleting, detail, asked, failures>>

(* (variant) the system's own are not refused. *)
DeleteSystem(ns) ==
  /\ ns \in table.rows \ table.busy
  /\ ns \notin deleting
  /\ Act
  /\ deleting' = deleting \cup {ns}
  /\ table' = Render(filtered, deleting')
  /\ deletes' = deletes \cup {[of |-> ns, id |-> steps + 1, awaited |-> TRUE]}
  /\ UNCHANGED <<cluster, data, filtered, search, loads, detail, asked, failures>>

\* A confirmed deletion: refused for the system's own and for one being deleted.
Delete(ns) ==
  /\ ns \in table.rows \ table.busy
  /\ ns \notin System /\ ns \notin deleting
  /\ Act
  /\ deleting' = deleting \cup {ns}
  /\ table' = Render(filtered, deleting')
  /\ deletes' = deletes \cup {[of |-> ns, id |-> steps + 1, awaited |-> TRUE]}
  /\ UNCHANGED <<cluster, data, filtered, search, loads, detail, asked, failures>>

\* It is done: the mark goes with the next list, which a silent load asks for.
Deleted(d) ==
  /\ d.awaited
  /\ deletes' = deletes \ {d}
  /\ deleting' = deleting \ {d.of}
  /\ cluster' = cluster \ {d.of}
  /\ loads' = loads \cup {[id |-> d.id, silent |-> TRUE]}
  /\ UNCHANGED <<data, filtered, search, table, detail, asked, steps, failures>>

\* It is refused, or ApiClient gives up after 30 seconds while the server goes on: the
\* rows are shown again.
DeleteFails(d) ==
  /\ d.awaited /\ Failure
  /\ deletes' \in {deletes \ {d}, (deletes \ {d}) \cup {[d EXCEPT !.awaited = FALSE]}}
  /\ deleting' = deleting \ {d.of}
  /\ table' = Render(filtered, deleting')
  /\ UNCHANGED <<cluster, data, filtered, search, loads, detail, asked, steps>>

\* The server ends what nobody waits for any more.
DeletedUnseen(d) ==
  /\ ~d.awaited
  /\ deletes' = deletes \ {d} /\ cluster' = cluster \ {d.of}
  /\ UNCHANGED <<data, filtered, search, table, loads, deleting, detail, asked, steps, failures>>

-------------------------------------------------------------------------------
Ask(kind, ns, id) == [kind |-> kind, of |-> ns, id |-> id]

\* describeNamespace: everything the window showed is replaced, and the details asked.
Describe(ns) ==
  /\ ns \in table.rows
  /\ Act
  /\ detail' = [title |-> ns, request |-> detail.request + 1, body |-> "none", state |-> "spinner",
                name |-> ns, loaded |-> FALSE, loading |-> FALSE, yaml |-> "none", copy |-> FALSE]
  /\ asked' = asked \cup {Ask("details", ns, detail.request + 1)}
  /\ UNCHANGED <<cluster, data, filtered, search, table, loads, deleting, deletes, failures>>

(* (variant) any answer fills the window. *)
GotDetailsAny(q) ==
  /\ q.kind = "details"
  /\ asked' = asked \ {q}
  /\ detail' = [detail EXCEPT !.body = q.of, !.state = "shown"]
  /\ UNCHANGED <<cluster, data, filtered, search, table, loads, deleting, deletes, steps, failures>>

\* populateNamespaceDetailContent, or the error in its place, for the last request only.
GotDetails(q) ==
  /\ q.kind = "details"
  /\ asked' = asked \ {q}
  /\ detail' = IF q.id # detail.request THEN detail
               ELSE [detail EXCEPT !.body = q.of, !.state = "shown"]
  /\ UNCHANGED <<cluster, data, filtered, search, table, loads, deleting, deletes, steps, failures>>

DetailsFail(q) ==
  /\ q.kind = "details" /\ Failure
  /\ asked' = asked \ {q}
  /\ detail' = IF q.id # detail.request THEN detail ELSE [detail EXCEPT !.state = "error"]
  /\ UNCHANGED <<cluster, data, filtered, search, table, loads, deleting, deletes, steps>>

\* The YAML tab: one request, unless one is under way or has been answered.
OpenYaml ==
  /\ detail.state # "closed" /\ ~detail.loaded /\ ~detail.loading
  /\ Act
  /\ detail' = [detail EXCEPT !.loading = TRUE, !.copy = FALSE, !.yaml = "none"]
  /\ asked' = asked \cup {Ask("yaml", detail.title, steps + 1)}
  /\ UNCHANGED <<cluster, data, filtered, search, table, loads, deleting, deletes, failures>>

\* An answer for another name is dropped; one for this name counts, of whichever opening.
GotYaml(q) ==
  /\ q.kind = "yaml"
  /\ asked' = asked \ {q}
  /\ detail' = IF q.of # detail.name THEN detail
               ELSE [detail EXCEPT !.yaml = q.of, !.copy = TRUE, !.loaded = TRUE, !.loading = FALSE]
  /\ UNCHANGED <<cluster, data, filtered, search, table, loads, deleting, deletes, steps, failures>>

YamlFails(q) ==
  /\ q.kind = "yaml" /\ Failure
  /\ asked' = asked \ {q}
  /\ detail' = IF q.of # detail.name THEN detail
               ELSE [detail EXCEPT !.yaml = "error", !.copy = FALSE, !.loading = FALSE]
  /\ UNCHANGED <<cluster, data, filtered, search, table, loads, deleting, deletes, steps>>

Next ==
  \/ Reload
  \/ \E word \in Namespaces \cup {"all"} : ApplyFilters(word)
  \/ \E r \in loads : Got(r) \/ LoadFails(r)
  \/ \E ns \in Namespaces : Delete(ns) \/ Describe(ns)
  \/ \E d \in deletes : Deleted(d) \/ DeleteFails(d) \/ DeletedUnseen(d)
  \/ \E q \in asked : GotDetails(q) \/ DetailsFail(q) \/ GotYaml(q) \/ YamlFails(q)
  \/ OpenYaml

Spec == Init /\ [][Next]_nsVars

-------------------------------------------------------------------------------
\* Each variable has its type.
NamespacesTypeOK ==
  /\ System \subseteq cluster /\ cluster \subseteq Namespaces
  /\ data \subseteq Namespaces /\ filtered \subseteq Namespaces /\ deleting \subseteq Namespaces
  /\ table.show \in {"spinner", "empty", "rows"} /\ table.busy \subseteq table.rows
  /\ detail.title \in Namespaces \cup {"none"} /\ detail.yaml \in Namespaces \cup {"none", "error"}
  /\ \A q \in asked : q.kind \in {"details", "yaml"} /\ q.of \in Namespaces

\* A namespace has at most one deletion the page waits for, and is marked for as long as
\* it lasts, however many lists arrive meanwhile. (One the page gave up on may still run
\* when the next is asked for.)
OneDeletion ==
  /\ \A d, e \in deletes : d.of = e.of /\ d.awaited /\ e.awaited => d = e
  /\ table.show = "rows" =>
       \A d \in deletes : d.awaited /\ d.of \in table.rows => d.of \in table.busy

\* The details and the YAML of the window are those of the namespace in its title,
\* whichever requests are answered late.
DetailOfTitle ==
  /\ detail.body \in {"none", detail.title}
  /\ detail.yaml \in {"none", "error", detail.title}

\* The YAML that may be copied is there, and a tab that waits for it has a request out:
\* neither a failure nor another window leaves the tab waiting for ever.
YamlIsAsked ==
  /\ detail.copy => detail.yaml = detail.title
  /\ detail.loading => \E q \in asked : q.kind = "yaml" /\ q.of = detail.name

\* The window's wait for its details ends with an answer.
DetailIsAsked ==
  detail.state = "spinner" => \E q \in asked : q.kind = "details" /\ q.id = detail.request
===============================================================================
