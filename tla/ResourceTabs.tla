----------------------------- MODULE ResourceTabs ------------------------------
(***************************************************************************)
(* The storage page, k8sStorage.js, and the service discovery page,        *)
(* k8sServiceDiscovery.js: tables loaded tab by tab, each tab with a       *)
(* token of its own, a select for the namespace, and the deletion of an    *)
(* object, which reloads its tab silently.                                 *)
(*                                                                         *)
(* A list has at most one object in a namespace, so it is the set of the   *)
(* namespaces it has one in. The cluster is a sequence of such sets, the   *)
(* same for every tab; what a tab holds is the index it was read at and    *)
(* the namespace it was asked for.                                         *)
(***************************************************************************)
EXTENDS Integers, Sequences, FiniteSets

CONSTANTS
  Pages,        \* which of the two pages this instance opens
  Namespaces,
  MaxChanges,   \* bound: states of the cluster that others bring
  MaxClicks,    \* bound: what the administrator does on the page
  MaxFailures   \* bound: requests that fail

\* Assumed where the constants are given values.
ResourceTabsAssumption ==
  /\ Pages \subseteq {"storage", "services"} /\ Pages # {}
  /\ Namespaces # {} /\ "all" \notin Namespaces
  /\ MaxChanges \in Nat /\ MaxClicks \in Nat /\ MaxFailures \in Nat

All == "all"   \* the select's first option, an empty value

VARIABLES
  page,      \* the page, the same throughout
  cluster,   \* where there are objects, oldest first
  data,      \* storageData, serviceDiscoveryData
  loaded,    \* loadedTabs
  screen,    \* what the body of each tab's table shows
  filter,    \* the namespace select
  token,     \* requestTokens
  reqs,      \* requests under way
  deleting,  \* deletions sent
  quiet,     \* tabs whose newest request is a silent reload
  budget     \* clicks, changes and failures left

shown == <<data, loaded, screen, filter>>
resVars == <<page, cluster, shown, token, reqs, deleting, quiet, budget>>

Tabs == IF page = "storage" THEN {"pvcs", "pvs", "storageclasses"} ELSE {"services", "ingress"}
Namespaced == {"pvcs", "services", "ingress"}   \* tabs that send and apply the filter
Latest == Len(cluster)

Spinner == [show |-> "spinner", rows |-> {}]
ErrorText == [show |-> "error", rows |-> {}]
ListOf(rows) == [show |-> "list", rows |-> rows]
NoData == [at |-> 0, ns |-> All]

Rows(d) == IF d.at = 0 THEN {} ELSE IF d.ns = All THEN cluster[d.at] ELSE cluster[d.at] \cap {d.ns}

\* The requests of one round of loadTabData or reloadTabDataSilent, a token for each.
Request(t, silent) ==
  [tab |-> t, token |-> token[t] + 1, silent |-> silent, since |-> Latest,
   ns |-> IF t \in Namespaced THEN filter ELSE All]

Issue(ts) ==
  /\ token' = [t \in Tabs |-> IF t \in ts THEN token[t] + 1 ELSE token[t]]
  /\ reqs' = reqs \cup {Request(t, FALSE) : t \in ts}
  /\ quiet' = quiet \ ts
  /\ screen' = [t \in Tabs |-> IF t \in ts THEN Spinner ELSE screen[t]]

\* init: the tab of the address is loaded, then every tab is.
Init ==
  /\ page \in Pages
  /\ cluster = <<Namespaces>>   \* what is missing of them, others have deleted
  /\ data = [t \in Tabs |-> NoData] /\ loaded = [t \in Tabs |-> FALSE]
  /\ screen = [t \in Tabs |-> Spinner]
  /\ filter = All
  /\ \E first \in Tabs :
       /\ token = [t \in Tabs |-> IF t = first THEN 2 ELSE 1]
       /\ reqs = [tab : Tabs, token : {1}, silent : {FALSE}, since : {1}, ns : {All}]
                 \cup [tab : {first}, token : {2}, silent : {FALSE}, since : {1}, ns : {All}]
  /\ deleting = {} /\ quiet = {}
  /\ budget = [clicks |-> MaxClicks, changes |-> MaxChanges, failures |-> MaxFailures]

Spend(what) == /\ budget[what] > 0
               /\ budget' = [budget EXCEPT ![what] = @ - 1]

-------------------------------------------------------------------------------
\* The tab's button, or the tab shown (activateTab): reloadTabData.
ReloadTab(t) ==
  /\ Spend("clicks")
  /\ loaded' = [loaded EXCEPT ![t] = FALSE]
  /\ Issue({t})
  /\ UNCHANGED <<page, cluster, data, filter, deleting>>

\* The page's reload button empties the data and loads every tab.
ReloadAll ==
  /\ Spend("clicks")
  /\ data' = [t \in Tabs |-> NoData] /\ loaded' = [t \in Tabs |-> FALSE]
  /\ Issue(Tabs)
  /\ UNCHANGED <<page, cluster, filter, deleting>>

\* The options of the select: what updateNamespaceFilter found in the lists it has.
Options(d) == UNION {Rows(d[t]) : t \in Tabs \cap Namespaced}

\* Another namespace: the storage page reloads the claims, the other page every tab,
\* with the new value of the select.
SelectNamespace(ns) ==
  LET ts == Tabs \cap Namespaced IN
  /\ Spend("clicks")
  /\ ns \in (Options(data) \cup {All}) \ {filter}
  /\ filter' = ns
  /\ loaded' = [t \in Tabs |-> loaded[t] /\ t \notin ts]
  /\ screen' = [t \in Tabs |-> IF t \in ts THEN Spinner ELSE screen[t]]
  /\ token' = [t \in Tabs |-> IF t \in ts THEN token[t] + 1 ELSE token[t]]
  /\ reqs' = reqs \cup {[Request(t, FALSE) EXCEPT !.ns = ns] : t \in ts}
  /\ quiet' = quiet \ ts
  /\ UNCHANGED <<page, cluster, data, deleting>>

\* Deletes are confirmed on a row. Deleting an ingress stops at a name that is defined
\* nowhere (isSystemNamespace), before it asks.
Delete(t, ns) ==
  /\ Spend("clicks")
  /\ screen[t].show = "list" /\ ns \in screen[t].rows
  /\ t # "ingress"
  /\ deleting' = deleting \cup {[tab |-> t, ns |-> ns]}
  /\ UNCHANGED <<page, cluster, shown, token, reqs, quiet>>

\* The object goes, and the tab is reloaded without a spinner.
Deleted(d) ==
  LET r == [Request(d.tab, TRUE) EXCEPT !.since = Latest + 1] IN
  /\ deleting' = deleting \ {d}
  /\ cluster' = Append(cluster, cluster[Latest] \ {d.ns})
  /\ token' = [token EXCEPT ![d.tab] = @ + 1]
  /\ reqs' = reqs \cup {r}
  /\ quiet' = quiet \cup {d.tab}
  /\ UNCHANGED <<page, shown, budget>>

\* An alert, and nothing else.
DeleteFails(d) ==
  /\ Spend("failures")
  /\ deleting' = deleting \ {d}
  /\ UNCHANGED <<page, cluster, shown, token, reqs, quiet>>

-------------------------------------------------------------------------------
\* A tab that is not loaded keeps its spinner, or its error.
Render(t, l, rows) == IF l[t] THEN ListOf(rows) ELSE screen[t]

\* applyFilters, on new data: the rows by the value of the select, and only then the
\* new options of the select, which falls back to all when its value is not among them.
ApplyFilters(d, l) ==
  LET rows(t) == IF t \in Namespaced /\ filter # All THEN Rows(d[t]) \cap {filter} ELSE Rows(d[t])
  IN /\ data' = d /\ loaded' = l
     /\ screen' = [t \in Tabs |-> Render(t, l, rows(t))]
     /\ filter' = IF filter \in Options(d) THEN filter ELSE All

(* (variant) a token is always valid. *)
IsValidTokenAlways(r) == TRUE

IsValidToken(r) == token[r.tab] = r.token

\* Whether the answer of a silent reload counts as loading the tab: not on the service
\* discovery page.
MarksLoaded(r) == ~r.silent \/ page = "storage"

\* The list as it was at some moment since the request.
Answer(r) ==
  /\ reqs' = reqs \ {r}
  /\ IF IsValidToken(r)
     THEN \E v \in r.since..Latest :
            ApplyFilters([data EXCEPT ![r.tab] = [at |-> v, ns |-> r.ns]],
                         [loaded EXCEPT ![r.tab] = @ \/ MarksLoaded(r)])
     ELSE UNCHANGED shown
  /\ UNCHANGED <<page, cluster, token, deleting, quiet, budget>>

\* The error takes the table's place, that of a silent reload is only logged.
Fail(r) ==
  /\ Spend("failures")
  /\ reqs' = reqs \ {r}
  /\ screen' = IF IsValidToken(r) /\ ~r.silent THEN [screen EXCEPT ![r.tab] = ErrorText] ELSE screen
  /\ UNCHANGED <<page, cluster, data, loaded, filter, token, deleting, quiet>>

\* Others create and delete objects.
Changes ==
  /\ Spend("changes")
  /\ \E ns \in Namespaces :
       cluster' = Append(cluster, IF ns \in cluster[Latest] THEN cluster[Latest] \ {ns}
                                  ELSE cluster[Latest] \cup {ns})
  /\ UNCHANGED <<page, shown, token, reqs, deleting, quiet>>

Replies == \/ \E r \in reqs : Answer(r) \/ Fail(r)
           \/ \E d \in deleting : Deleted(d) \/ DeleteFails(d)

Next ==
  \/ \E t \in Tabs : ReloadTab(t) \/ \E ns \in Namespaces : Delete(t, ns)
  \/ ReloadAll
  \/ \E ns \in Namespaces \cup {All} : SelectNamespace(ns)
  \/ Replies
  \/ Changes

Spec == Init /\ [][Next]_resVars

-------------------------------------------------------------------------------
\* Each variable has its type; a tab is marked loaded when it holds a list that came.
ResTypeOK ==
  /\ page \in Pages
  /\ \A i \in DOMAIN cluster : cluster[i] \subseteq Namespaces
  /\ data \in [Tabs -> [at : 0..Latest, ns : Namespaces \cup {All}]]
  /\ loaded \in [Tabs -> BOOLEAN]
  /\ screen \in [Tabs -> [show : {"spinner", "error", "list"}, rows : SUBSET Namespaces]]
  /\ filter \in Namespaces \cup {All} /\ quiet \subseteq Tabs
  /\ \A r \in reqs : r.tab \in Tabs /\ r.token \in 1..token[r.tab]
  /\ \A t \in Tabs : loaded[t] => data[t].at > 0

\* A tab never goes back to a list that was read earlier, however its answers overtake
\* each other ("tránh race condition", k8sServiceDiscovery.js:20).
ResNeverOlder == \A t \in DOMAIN data : data'[t].at >= data[t].at \/ data'[t] = NoData

\* The error of a tab stays until that tab is asked for again: the answers of the other
\* tabs, which render the whole page, do not turn it into an empty table.
ErrorStays ==
  \A t \in DOMAIN screen :
    screen[t] = ErrorText /\ ~loaded[t] /\ screen'[t] # ErrorText =>
      token'[t] > token[t] \/ \E r \in reqs \ reqs' : r.tab = t

\* With a namespace in the select, the tabs it applies to show no row of another one.
ListMatchesFilter ==
  \A t \in Tabs \cap Namespaced :
    filter # All /\ screen[t].show = "list" => screen[t].rows \subseteq {filter}

\* A spinner has a request that will end it, unless a deletion's silent reload has
\* overtaken that one: then nothing ends it where the reload fails, nor, on the service
\* discovery page, where it succeeds.
SpinnerHasRequest ==
  \A t \in Tabs :
    screen[t].show = "spinner" =>
      t \in quiet \/ \E r \in reqs : r.tab = t /\ r.token = token[t]
===============================================================================
