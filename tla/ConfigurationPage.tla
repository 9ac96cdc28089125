--------------------------- MODULE ConfigurationPage ---------------------------
(***************************************************************************)
(* The configuration pages, k8sConfiguration.js: config maps, secrets,     *)
(* network policies, each a table with a namespace select and a search     *)
(* box, and the four tables of the RBAC page. Their requests carry no      *)
(* token: whatever answer comes last is what the page shows.               *)
(*                                                                         *)
(* A list is the set of the namespaces it has an object in; the word in    *)
(* the search box keeps every row ("none") or those of one namespace.      *)
(***************************************************************************)
EXTENDS Integers, FiniteSets

CONSTANTS
  Pages,        \* the pages this instance opens
  Namespaces,
  MaxSteps,     \* bound: what the administrator does on the page
  MaxFailures   \* bound: requests that fail

TablePages == {"configmaps", "secrets", "networkpolicies"}
RBACTables == {"roles", "clusterRoles", "roleBindings", "clusterRoleBindings"}

\* Assumed where the constants are given values.
ConfigurationAssumption ==
  /\ Pages \subseteq TablePages \cup {"rbac"} /\ Pages # {}
  /\ Namespaces # {} /\ Namespaces \cap {"all", "none"} = {}
  /\ MaxSteps \in Nat /\ MaxFailures \in Nat

VARIABLES
  page,      \* the page, the same throughout
  objects,   \* the namespaces that have an object, in the cluster
  data,      \* configMapsData, secretsData, networkPoliciesData, or the lists of rbacData
  held,      \* the namespace those were asked for
  filter,    \* the namespace select
  search,    \* the search box
  options,   \* the options of the select
  screen,    \* what the table shows: a spinner, the error, or rows, and how they were chosen
  reqs,      \* loads under way
  steps,     \* what the administrator did
  failures,
  mixed      \* whether a load was ever started, or a word typed, during another load

confVars == <<page, objects, data, held, filter, search, options, screen, reqs, steps, failures, mixed>>

Blank == [show |-> "blank", asked |-> "all", term |-> "none", rows |-> {}]
Spinner == [Blank EXCEPT !.show = "spinner"]
Tables == IF page = "rbac" THEN RBACTables ELSE {page}

In(rows, choice) == IF choice \in {"all", "none"} THEN rows ELSE rows \cap {choice}
List(asked, term, rows) == [show |-> "list", asked |-> asked, term |-> term, rows |-> In(rows, term)]

\* loadConfigMaps and its two likes: the select and the search box are read at the
\* start. loadRBAC asks for its four lists whole, without a spinner.
Request(id) ==
  [id |-> id, asked |-> IF page = "rbac" THEN "all" ELSE filter,
   term |-> IF page = "rbac" THEN "none" ELSE search, failed |-> {}]

Init ==
  /\ page \in Pages
  /\ objects \in SUBSET Namespaces
  /\ data = [t \in Tables |-> {}]
  /\ held = "all" /\ filter = "all" /\ search = "none" /\ options = {}
  /\ screen = IF page = "rbac" THEN Blank ELSE Spinner
  /\ reqs = {[id |-> 0, asked |-> "all", term |-> "none", failed |-> {}]}
  /\ steps = 0 /\ failures = 0 /\ mixed = FALSE

Act == /\ steps < MaxSteps
       /\ steps' = steps + 1
       /\ mixed' = (mixed \/ reqs # {})

-------------------------------------------------------------------------------
Load(asked) ==
  /\ reqs' = reqs \cup {[Request(steps + 1) EXCEPT !.asked = asked]}
  /\ screen' = IF page = "rbac" THEN screen ELSE Spinner

\* The reload button.
Reload ==
  /\ Act
  /\ Load(IF page = "rbac" THEN "all" ELSE filter)
  /\ UNCHANGED <<page, objects, data, held, filter, search, options, failures>>

\* Another namespace: the tables of objects are loaded again.
SelectNamespace(ns) ==
  /\ page # "rbac" /\ ns \in options \cup {"all"} /\ ns # filter
  /\ Act
  /\ filter' = ns
  /\ Load(ns)
  /\ UNCHANGED <<page, objects, data, held, search, options, failures>>

\* A word in the box renders what the page has, the spinner or not.
Search(term) ==
  /\ page # "rbac" /\ term # search
  /\ Act
  /\ search' = term
  /\ screen' = List(held, term, data[page])
  /\ UNCHANGED <<page, objects, data, held, filter, options, reqs, failures>>

\* The tables of RBAC read their own boxes whenever they are rendered.
ChooseRBAC(ns, term) ==
  /\ page = "rbac" /\ ns \in options \cup {"all"} /\ <<ns, term>> # <<filter, search>>
  /\ Act
  /\ filter' = ns /\ search' = term
  /\ screen' = [List("all", term, In(data["roles"], ns)) EXCEPT !.asked = ns]
  /\ UNCHANGED <<page, objects, data, held, options, reqs, failures>>

-------------------------------------------------------------------------------
\* The answer, of any age, is what the table shows, filtered by the word that was in
\* the box when it was asked for.
GotTable(r) ==
  /\ page # "rbac"
  /\ reqs' = reqs \ {r}
  /\ data' = [data EXCEPT ![page] = In(objects, r.asked)] /\ held' = r.asked
  /\ screen' = List(r.asked, r.term, data'[page])
  /\ UNCHANGED <<page, objects, filter, search, options, steps, failures, mixed>>

TableFails(r) ==
  /\ page # "rbac" /\ failures < MaxFailures
  /\ failures' = failures + 1
  /\ reqs' = reqs \ {r}
  /\ screen' = [Blank EXCEPT !.show = "error"]
  /\ UNCHANGED <<page, objects, data, held, filter, search, options, steps, mixed>>

\* One of RBAC's four requests fails: its list counts as empty, and no error is shown.
RBACFails(r) ==
  /\ page = "rbac" /\ failures < MaxFailures
  /\ \E t \in RBACTables \ r.failed :
       reqs' = (reqs \ {r}) \cup {[r EXCEPT !.failed = @ \cup {t}]}
  /\ failures' = failures + 1
  /\ UNCHANGED <<page, objects, data, held, filter, search, options, screen, steps, mixed>>

\* The four tables are filled together; one whose request failed shows an empty list.
GotRBAC(r) ==
  /\ page = "rbac"
  /\ reqs' = reqs \ {r}
  /\ data' = [t \in RBACTables |-> IF t \in r.failed THEN {} ELSE objects]
  /\ held' = "all"
  /\ screen' = [List("all", search, In(data'["roles"], filter)) EXCEPT !.asked = filter]
  /\ UNCHANGED <<page, objects, filter, search, options, steps, failures, mixed>>

\* loadNamespacesForFilters, once: the selects get their options and keep their value.
GotNamespaces ==
  /\ options = {} /\ options' = Namespaces
  /\ UNCHANGED <<page, objects, data, held, filter, search, screen, reqs, steps, failures, mixed>>

\* A confirmed deletion, carried out, loads the table again; one that fails only alerts.
Delete(ns) ==
  /\ page # "rbac" /\ screen.show = "list" /\ ns \in screen.rows
  /\ Act
  /\ objects' = objects \ {ns}
  /\ Load(filter)
  /\ UNCHANGED <<page, data, held, filter, search, options, failures>>

Next ==
  \/ Reload
  \/ \E ns \in Namespaces \cup {"all"} :
       \/ SelectNamespace(ns)
       \/ \E term \in Namespaces \cup {"none"} : ChooseRBAC(ns, term)
  \/ \E term \in Namespaces \cup {"none"} : Search(term)
  \/ \E r \in reqs : GotTable(r) \/ TableFails(r) \/ RBACFails(r) \/ GotRBAC(r)
  \/ GotNamespaces
  \/ \E ns \in Namespaces : Delete(ns)

Spec == Init /\ [][Next]_confVars

-------------------------------------------------------------------------------
\* Each variable has its type.
ConfTypeOK ==
  /\ page \in Pages /\ objects \subseteq Namespaces
  /\ data \in [Tables -> SUBSET Namespaces]
  /\ {filter, held} \subseteq Namespaces \cup {"all"} /\ search \in Namespaces \cup {"none"}
  /\ screen.show \in {"blank", "spinner", "error", "list"} /\ screen.rows \subseteq Namespaces
  /\ \A r \in reqs : r.id \in 0..MaxSteps /\ r.failed \subseteq RBACTables

\* Once every load is answered, and none failed or was overtaken, the rows are those of
\* the select's namespace and of the search box's word. (After a failure a word in the
\* box brings the rows of the select's last value back.)
SettledListMatches ==
  reqs = {} /\ ~mixed /\ failures = 0 /\ screen.show = "list" =>
    screen.rows = In(In(screen.rows, filter), search) /\ screen.asked = filter

\* No spinner is left when nothing is under way, whatever was overtaken.
SettledHasNoSpinner == reqs = {} => screen.show # "spinner"

\* After a deletion the page's data follow the cluster as soon as nothing is under way.
DeletedIsGone ==
  reqs = {} /\ ~mixed /\ failures = 0 /\ page # "rbac" /\ screen.show = "list"
    => data[page] \subseteq objects
===============================================================================
