------------------------------- MODULE EventsPage -------------------------------
(***************************************************************************)
(* The events page, k8sEvents.js: selects for namespace, kind and type and *)
(* a search box. The namespace, and the kind a load finds selected, are    *)
(* asked of the server; kind, type and search filter the answer. An event  *)
(* is its namespace, its kind and the one of type and text the other       *)
(* filters look at.                                                        *)
(***************************************************************************)
EXTENDS Integers, FiniteSets

CONSTANTS
  Namespaces, Kinds, Types,
  MaxSteps,      \* bound: selects changed, words typed, reloads
  MaxFailures    \* bound: requests that fail

\* Assumed where the constants are given values.
EventsAssumption ==
  /\ "any" \notin Namespaces \cup Kinds \cup Types
  /\ MaxSteps \in Nat /\ MaxFailures \in Nat

VARIABLES
  events,     \* in the cluster
  eventsData,
  held,       \* the namespace and kind those were asked for
  filters,    \* the selects and the search box
  table,      \* what is shown, and the filters it was chosen by
  loads,      \* loads under way, with the filters each found
  steps, failures,
  mixed       \* whether a filter was set or a load started during another load

eventsVars == <<events, eventsData, held, filters, table, loads, steps, failures, mixed>>

AllEvents == [ns : Namespaces, kind : Kinds, type : Types]
Is(choice, value) == choice \in {"any", value}

\* filterEvents: kind, type and search, never the namespace.
Filtered(rows, f) == {e \in rows : Is(f.kind, e.kind) /\ Is(f.type, e.type)}
List(rows, f) == [show |-> "list", rows |-> Filtered(rows, f)]
Load(f) ==
  /\ loads' = loads \cup {[id |-> steps + 1, filters |-> f]}
  /\ table' = [show |-> "spinner", rows |-> {}]

Init ==
  /\ events \in {{}, AllEvents}
  /\ eventsData = {} /\ held = [ns |-> "any", kind |-> "any"]
  /\ filters = [ns |-> "any", kind |-> "any", type |-> "any"]
  /\ table = [show |-> "spinner", rows |-> {}]
  /\ loads = {[id |-> 0, filters |-> filters]}
  /\ steps = 0 /\ failures = 0 /\ mixed = FALSE

Act == /\ steps < MaxSteps /\ steps' = steps + 1
       /\ mixed' = (mixed \/ loads # {})

\* The reload button.
Reload ==
  /\ Act /\ Load(filters)
  /\ UNCHANGED <<events, eventsData, held, filters, failures>>

\* Another namespace loads again.
SelectNamespace(ns) ==
  /\ ns # filters.ns
  /\ Act
  /\ filters' = [filters EXCEPT !.ns = ns]
  /\ Load(filters')
  /\ UNCHANGED <<events, eventsData, held, failures>>

\* Another kind, type or word filters what is there, were it asked for another kind only.
Filter(kind, type) ==
  /\ <<kind, type>> # <<filters.kind, filters.type>>
  /\ Act
  /\ filters' = [filters EXCEPT !.kind = kind, !.type = type]
  /\ table' = List(eventsData, filters')
  /\ UNCHANGED <<events, eventsData, held, loads, failures>>

\* The answer of any load is shown, by the filters that load found.
Got(r) ==
  /\ loads' = loads \ {r}
  /\ eventsData' = {e \in events : Is(r.filters.ns, e.ns) /\ Is(r.filters.kind, e.kind)}
  /\ held' = [ns |-> r.filters.ns, kind |-> r.filters.kind]
  /\ table' = List(eventsData', r.filters)
  /\ UNCHANGED <<events, filters, steps, failures, mixed>>

Fails(r) ==
  /\ failures < MaxFailures /\ failures' = failures + 1
  /\ loads' = loads \ {r}
  /\ table' = [show |-> "error", rows |-> {}]
  /\ UNCHANGED <<events, eventsData, held, filters, steps, mixed>>

Next ==
  \/ Reload
  \/ \E ns \in Namespaces \cup {"any"} : SelectNamespace(ns)
  \/ \E kind \in Kinds \cup {"any"}, type \in Types \cup {"any"} : Filter(kind, type)
  \/ \E r \in loads : Got(r) \/ Fails(r)

Spec == Init /\ [][Next]_eventsVars

-------------------------------------------------------------------------------
\* Once everything is answered, nothing failed and no filter was set during a load, the
\* rows are the cluster's events that all four filters keep, as far as the kind the last
\* load asked for lets them through: widening the kind asks nothing.
SettledEventsMatch ==
  loads = {} /\ ~mixed /\ failures = 0 =>
    /\ table.show = "list"
    /\ table.rows = {e \in events : /\ Is(filters.ns, e.ns) /\ Is(filters.kind, e.kind)
                                    /\ Is(filters.type, e.type) /\ Is(held.kind, e.kind)}

\* Rows are of the kind in the select, and of the namespace last answered, even when a
\* load is overtaken by another; a kind set during a load is forgotten by its answer.
RowsOfOneAnswer ==
  /\ \A e \in table.rows : Is(held.ns, e.ns) /\ Is(held.kind, e.kind)
  /\ ~mixed => \A e \in table.rows : Is(filters.kind, e.kind)
===============================================================================
