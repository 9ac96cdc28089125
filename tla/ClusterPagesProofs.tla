--------------------------- MODULE ClusterPagesProofs ---------------------------
(***************************************************************************)
(* Theorems about the pages of a cluster (MCClusterPages), for any number  *)
(* of workloads, namespaces, objects and nodes and any bounds: each page   *)
(* has an inductive invariant of its own, its parts named for what the     *)
(* requests under way promise, and the page on screen keeps its own.       *)
(***************************************************************************)
EXTENDS MCClusterPages, FiniteSetTheorems, TLAPS

-------------------------------------------------------------------------------
(* The events page *)

Choices(S) == S \cup {"any"}
EventRows == [ns : Namespaces, kind : EventKinds, type : Types]
EventFilters == [ns : Choices(Namespaces), kind : Choices(EventKinds), type : Choices(Types)]

\* What was answered last, as far as it was answered at all.
AnswerOfHeld ==
  {e \in events : EventsPage!Is(held.ns, e.ns) /\ EventsPage!Is(held.kind, e.kind)}

EventsTypes ==
  /\ events \subseteq EventRows
  /\ filters \in EventFilters
  /\ held \in [ns : Choices(Namespaces), kind : Choices(EventKinds)]
  /\ table \in [show : {"spinner", "list", "error"}, rows : SUBSET EventRows]
  /\ loads \subseteq [id : Nat, filters : EventFilters]
  /\ steps \in Nat /\ failures \in Nat /\ mixed \in BOOLEAN

\* The rows are taken from the last answer.
EventsHeld == table.rows \subseteq eventsData /\ eventsData \subseteq AnswerOfHeld

\* Without mixing there is one load at a time, for the filters that are set.
EventsInOrder ==
  ~mixed => /\ \A r, q \in loads : r = q
            /\ \A r \in loads : r.filters = filters
            /\ \A e \in table.rows : EventsPage!Is(filters.kind, e.kind)

EventsSettled ==
  loads = {} /\ ~mixed /\ failures = 0 =>
    /\ table.show = "list" /\ table.rows = EventsPage!Filtered(eventsData, filters)
    /\ held.ns = filters.ns /\ eventsData = AnswerOfHeld

EventsIInv == EventsTypes /\ EventsHeld /\ EventsInOrder /\ EventsSettled

\* The events page as it is opened.
LEMMA EventsInit == EventsPage!Init => EventsIInv
<1> SUFFICES ASSUME EventsPage!Init PROVE EventsIInv
  OBVIOUS
<1>1. /\ table = [show |-> "spinner", rows |-> {}] /\ eventsData = {}
      /\ filters = [ns |-> "any", kind |-> "any", type |-> "any"]
      /\ held = [ns |-> "any", kind |-> "any"]
      /\ loads = {[id |-> 0, filters |-> filters]} /\ steps = 0 /\ failures = 0 /\ mixed = FALSE
  BY DEF EventsPage!Init
<1>2. events \subseteq EventRows
  BY DEF EventsPage!Init, EventsPage!AllEvents, EventRows
<1>3. filters \in EventFilters
  BY <1>1 DEF EventFilters, Choices
<1>4. [id |-> 0, filters |-> filters] \in [id : Nat, filters : EventFilters]
  BY <1>3
<1>5. EventsTypes
  BY <1>1, <1>2, <1>3, <1>4 DEF EventsTypes, Choices
<1>6. EventsHeld
  BY <1>1 DEF EventsHeld
<1> DEFINE first == [id |-> 0, filters |-> filters]
<1>7. loads = {first} /\ first.filters = filters
  BY <1>1
<1> HIDE DEF first
<1>8. EventsInOrder /\ EventsSettled
  BY <1>1, <1>7 DEF EventsInOrder, EventsSettled
<1> QED BY <1>5, <1>6, <1>8 DEF EventsIInv

\* An act while a load is under way mixes.
LEMMA EventsAct ==
  ASSUME EventsTypes, EventsPage!Act
  PROVE  steps' \in Nat /\ mixed' \in BOOLEAN /\ (~mixed' => ~mixed /\ loads = {})
<1>1. steps' \in Nat
  BY DEF EventsPage!Act, EventsTypes
<1>2. mixed' \in BOOLEAN /\ (~mixed' => ~mixed /\ loads = {})
  BY Zenon DEF EventsPage!Act
<1> QED BY <1>1, <1>2

\* A load starts: with the filters of the page, and a spinner.
LEMMA EventsAsked ==
  ASSUME EventsIInv, EventsPage!Act, filters' \in EventFilters, EventsPage!Load(filters'),
         UNCHANGED <<events, eventsData, held, failures>>
  PROVE  EventsIInv'
<1> DEFINE new == [id |-> steps + 1, filters |-> filters']
<1>1. /\ new \in [id : Nat, filters : EventFilters] /\ new.filters = filters'
      /\ loads' = loads \cup {new}
  BY DEF EventsPage!Load, EventsIInv, EventsTypes
<1> HIDE DEF new
<1>2. table' = [show |-> "spinner", rows |-> {}]
  BY DEF EventsPage!Load
<1>3. steps' \in Nat /\ mixed' \in BOOLEAN /\ (~mixed' => ~mixed /\ loads = {})
  BY EventsAct DEF EventsIInv
<1>4. EventsTypes'
  BY <1>1, <1>2, <1>3 DEF EventsIInv, EventsTypes
<1>5. EventsHeld'
  BY <1>2 DEF EventsIInv, EventsHeld, AnswerOfHeld
<1>6. EventsInOrder'
  BY <1>1, <1>2, <1>3 DEF EventsIInv, EventsInOrder
<1>7. EventsSettled'
  BY <1>1 DEF EventsSettled
<1> QED BY <1>4, <1>5, <1>6, <1>7 DEF EventsIInv

LEMMA EventsFiltered ==
  ASSUME EventsIInv, NEW k \in Choices(EventKinds), NEW type \in Choices(Types),
         EventsPage!Filter(k, type)
  PROVE  EventsIInv'
<1>1. /\ filters' = [filters EXCEPT !.kind = k, !.type = type]
      /\ table' = [show |-> "list", rows |-> EventsPage!Filtered(eventsData, filters')]
      /\ UNCHANGED <<events, eventsData, held, loads, failures>>
  BY DEF EventsPage!Filter, EventsPage!List
<1>2. steps' \in Nat /\ mixed' \in BOOLEAN /\ (~mixed' => ~mixed /\ loads = {})
  BY EventsAct DEF EventsPage!Filter, EventsIInv
<1>3. filters' \in EventFilters /\ filters'.ns = filters.ns
  BY <1>1 DEF EventsIInv, EventsTypes, EventFilters
<1>4. EventsPage!Filtered(eventsData, filters') \subseteq eventsData
  BY DEF EventsPage!Filtered
<1>5. EventsTypes'
  BY <1>1, <1>2, <1>3, <1>4 DEF EventsIInv, EventsTypes, EventsHeld, AnswerOfHeld
<1>6. EventsHeld'
  BY <1>1, <1>4 DEF EventsIInv, EventsHeld, AnswerOfHeld
<1>7. EventsInOrder'
  BY <1>1, <1>2 DEF EventsInOrder, EventsPage!Filtered
<1>8. EventsSettled'
  BY <1>1, <1>2, <1>3 DEF EventsIInv, EventsSettled, AnswerOfHeld
<1> QED BY <1>5, <1>6, <1>7, <1>8 DEF EventsIInv

LEMMA EventsGot ==
  ASSUME EventsIInv, NEW r \in loads, EventsPage!Got(r) PROVE EventsIInv'
<1> DEFINE answer == {e \in events : EventsPage!Is(r.filters.ns, e.ns) /\ EventsPage!Is(r.filters.kind, e.kind)}
<1>1. /\ loads' = loads \ {r} /\ eventsData' = answer
      /\ held' = [ns |-> r.filters.ns, kind |-> r.filters.kind]
      /\ table' = [show |-> "list", rows |-> EventsPage!Filtered(eventsData', r.filters)]
      /\ UNCHANGED <<events, filters, steps, failures, mixed>>
  BY DEF EventsPage!Got, EventsPage!List
<1>2. r.filters \in EventFilters
  BY DEF EventsIInv, EventsTypes
<1>3. AnswerOfHeld' = answer
  BY <1>1 DEF AnswerOfHeld
<1>4. EventsPage!Filtered(eventsData', r.filters) \subseteq eventsData'
  BY DEF EventsPage!Filtered
<1>5. EventsTypes'
  BY <1>1, <1>2, <1>4 DEF EventsIInv, EventsTypes, EventFilters
<1>6. EventsHeld'
  BY <1>1, <1>3, <1>4 DEF EventsHeld
<1>7. EventsInOrder'
  BY <1>1 DEF EventsIInv, EventsInOrder, EventsPage!Filtered
<1>8. EventsSettled'
  BY <1>1, <1>3 DEF EventsIInv, EventsInOrder, EventsSettled
<1> QED BY <1>5, <1>6, <1>7, <1>8 DEF EventsIInv

LEMMA EventsFails ==
  ASSUME EventsIInv, NEW r \in loads, EventsPage!Fails(r) PROVE EventsIInv'
<1>1. /\ loads' = loads \ {r} /\ table' = [show |-> "error", rows |-> {}] /\ failures' = failures + 1
      /\ UNCHANGED <<events, eventsData, held, filters, steps, mixed>>
  BY DEF EventsPage!Fails
<1>2. EventsTypes'
  BY <1>1 DEF EventsIInv, EventsTypes
<1>3. EventsHeld' /\ EventsInOrder'
  BY <1>1 DEF EventsIInv, EventsHeld, EventsInOrder, AnswerOfHeld
<1>4. EventsSettled'
  BY <1>1 DEF EventsIInv, EventsTypes, EventsSettled
<1> QED BY <1>2, <1>3, <1>4 DEF EventsIInv

\* Each action of the events page keeps its invariant.
LEMMA EventsStep ==
  ASSUME EventsIInv, EventsPage!Next PROVE EventsIInv'
<1>1. CASE EventsPage!Reload
  BY <1>1, EventsAsked DEF EventsPage!Reload, EventsIInv, EventsTypes
<1>2. ASSUME NEW ns \in Namespaces \cup {"any"}, EventsPage!SelectNamespace(ns)
      PROVE  EventsIInv'
  <2>1. filters' \in EventFilters
    BY <1>2 DEF EventsPage!SelectNamespace, EventsIInv, EventsTypes, EventFilters, Choices
  <2> QED BY <1>2, <2>1, EventsAsked DEF EventsPage!SelectNamespace
<1>3. ASSUME NEW k \in EventKinds \cup {"any"}, NEW type \in Types \cup {"any"}, EventsPage!Filter(k, type)
      PROVE  EventsIInv'
  BY <1>3, EventsFiltered DEF Choices
<1>4. ASSUME NEW r \in loads, EventsPage!Got(r) \/ EventsPage!Fails(r) PROVE EventsIInv'
  BY <1>4, EventsGot, EventsFails
<1> QED BY <1>1, <1>2, <1>3, <1>4 DEF EventsPage!Next

LEMMA EventsShown ==
  EventsIInv => EventsPage!SettledEventsMatch /\ EventsPage!RowsOfOneAnswer
<1> SUFFICES ASSUME EventsIInv
             PROVE  EventsPage!SettledEventsMatch /\ EventsPage!RowsOfOneAnswer
  OBVIOUS
<1>1. EventsPage!RowsOfOneAnswer
  BY DEF EventsIInv, EventsHeld, EventsInOrder, AnswerOfHeld, EventsPage!RowsOfOneAnswer
<1>2. EventsPage!SettledEventsMatch
  BY DEF EventsIInv, EventsSettled, AnswerOfHeld, EventsPage!SettledEventsMatch, EventsPage!Filtered
<1> QED BY <1>1, <1>2
-------------------------------------------------------------------------------
(* The namespaces page *)

NamespaceDeletes == [of : Objects \ System, id : Nat, awaited : BOOLEAN]
NamespaceWindows ==
  [title : Objects \cup {"none"}, request : Nat, body : Objects \cup {"none"},
   state : {"closed", "spinner", "shown", "error"}, name : Objects \cup {"none"},
   loaded : BOOLEAN, loading : BOOLEAN, yaml : Objects \cup {"none", "error"}, copy : BOOLEAN]

NamespacesTypes ==
  /\ NamespacesPage!NamespacesTypeOK
  /\ deletes \subseteq NamespaceDeletes
  /\ table \in [show : {"spinner", "empty", "rows"}, rows : SUBSET Objects, busy : SUBSET Objects]
  /\ detail \in NamespaceWindows
  /\ asked \subseteq [kind : {"details", "yaml"}, of : Objects, id : Nat]
  /\ steps \in Nat

\* A deletion the page waits for is marked.
DeletesAreMarked ==
  NamespacesPage!OneDeletion /\ \A d \in deletes : d.awaited => d.of \in deleting

\* A window gets the answers for its title: the newest request for details is for it.
WindowIsAnswered ==
  /\ NamespacesPage!DetailOfTitle /\ NamespacesPage!YamlIsAsked /\ NamespacesPage!DetailIsAsked
  /\ detail.name = detail.title /\ (detail.title = "none" => detail.state = "closed")
  /\ \A q \in asked : q.kind = "details" =>
       q.id <= detail.request /\ (q.id = detail.request => q.of = detail.title)

NamespacesIInv == NamespacesTypes /\ DeletesAreMarked /\ WindowIsAnswered

\* The namespaces page as it is opened.
LEMMA NamespacesInit == NamespacesPage!Init => NamespacesIInv
<1> SUFFICES ASSUME NamespacesPage!Init PROVE NamespacesIInv
  OBVIOUS
<1>1. /\ System \subseteq cluster /\ cluster \subseteq Objects /\ data = {} /\ filtered = {}
      /\ table = [show |-> "spinner", rows |-> {}, busy |-> {}]
      /\ deleting = {} /\ deletes = {} /\ asked = {} /\ steps = 0
      /\ detail = [title |-> "none", request |-> 0, body |-> "none", state |-> "closed",
                   name |-> "none", loaded |-> FALSE, loading |-> FALSE, yaml |-> "none",
                   copy |-> FALSE]
  BY DEF NamespacesPage!Init, NamespacesPage!Spinner
<1>2. detail \in NamespaceWindows
  BY <1>1 DEF NamespaceWindows
<1>3. NamespacesTypes
  BY <1>1, <1>2 DEF NamespacesTypes, NamespacesPage!NamespacesTypeOK
<1>4. DeletesAreMarked
  BY <1>1 DEF DeletesAreMarked, NamespacesPage!OneDeletion
<1>5. WindowIsAnswered
  BY <1>1 DEF WindowIsAnswered, NamespacesPage!DetailOfTitle, NamespacesPage!YamlIsAsked,
              NamespacesPage!DetailIsAsked
<1> QED BY <1>3, <1>4, <1>5 DEF NamespacesIInv

\* A table that is drawn marks what is being deleted.
LEMMA Drawn ==
  ASSUME NEW rows \in SUBSET Objects, NEW busy
  PROVE  /\ NamespacesPage!Render(rows, busy) \in
              [show : {"spinner", "empty", "rows"}, rows : SUBSET Objects, busy : SUBSET Objects]
         /\ NamespacesPage!Render(rows, busy).rows = rows
         /\ NamespacesPage!Render(rows, busy).busy = rows \cap busy
BY DEF NamespacesPage!Render

\* The window is as it was when a step leaves it and its requests alone.
LEMMA WindowKept ==
  ASSUME WindowIsAnswered, UNCHANGED <<detail, asked>> PROVE WindowIsAnswered'
BY DEF WindowIsAnswered, NamespacesPage!DetailOfTitle, NamespacesPage!YamlIsAsked,
       NamespacesPage!DetailIsAsked

\* The table is drawn again, or left alone, while the deletions stay or some that are
\* over or no longer waited for lose their mark.
LEMMA TableDrawn ==
  ASSUME NamespacesTypes, DeletesAreMarked,
         \/ UNCHANGED table
         \/ table' = NamespacesPage!Spinner
         \/ \E rows \in SUBSET Objects : table' = NamespacesPage!Render(rows, deleting'),
         \A d \in deletes' : d.awaited => d \in deletes /\ d.of \in deleting',
         deletes' \subseteq NamespaceDeletes
  PROVE  DeletesAreMarked' /\ table' \in [show : {"spinner", "empty", "rows"},
                                          rows : SUBSET Objects, busy : SUBSET Objects]
                           /\ table'.busy \subseteq table'.rows
<1>1. \A d, e \in deletes' : d.of = e.of /\ d.awaited /\ e.awaited => d = e
  BY DEF DeletesAreMarked, NamespacesPage!OneDeletion
<1>2. CASE UNCHANGED table
  BY <1>1, <1>2 DEF DeletesAreMarked, NamespacesTypes, NamespacesPage!OneDeletion,
                    NamespacesPage!NamespacesTypeOK
<1>3. CASE table' = NamespacesPage!Spinner
  BY <1>1, <1>3 DEF DeletesAreMarked, NamespacesPage!OneDeletion, NamespacesPage!Spinner
<1>4. ASSUME NEW rows \in SUBSET Objects, table' = NamespacesPage!Render(rows, deleting')
      PROVE  DeletesAreMarked' /\ table' \in [show : {"spinner", "empty", "rows"},
                                              rows : SUBSET Objects, busy : SUBSET Objects]
                               /\ table'.busy \subseteq table'.rows
  BY <1>1, <1>4, Drawn DEF DeletesAreMarked, NamespacesPage!OneDeletion
<1> QED BY <1>2, <1>3, <1>4

LEMMA NamespacesLoads ==
  ASSUME NamespacesIInv,
         \/ NamespacesPage!Reload
         \/ \E word \in Objects \cup {"all"} : NamespacesPage!ApplyFilters(word)
         \/ \E r \in loads : NamespacesPage!Got(r) \/ NamespacesPage!LoadFails(r)
  PROVE  NamespacesIInv'
<1> USE DEF NamespacesIInv
<1>1. /\ UNCHANGED <<cluster, deleting, deletes, detail, asked>>
      /\ steps' \in Nat
      /\ data' \subseteq Objects /\ filtered' \subseteq Objects
      /\ \/ UNCHANGED table
         \/ table' = NamespacesPage!Spinner
         \/ \E rows \in SUBSET Objects : table' = NamespacesPage!Render(rows, deleting')
  <2> USE DEF NamespacesTypes, NamespacesPage!NamespacesTypeOK, NamespacesPage!Act
  <2>1. CASE NamespacesPage!Reload
    BY <2>1 DEF NamespacesPage!Reload
  <2>2. ASSUME NEW word \in Objects \cup {"all"}, NamespacesPage!ApplyFilters(word)
        PROVE  filtered' \in SUBSET Objects /\ steps' \in Nat
               /\ table' = NamespacesPage!Render(filtered', deleting')
               /\ UNCHANGED <<cluster, deleting, deletes, detail, asked, data>>
    BY <2>2 DEF NamespacesPage!ApplyFilters
  <2>3. ASSUME NEW r \in loads, NamespacesPage!Got(r)
        PROVE  filtered' \in SUBSET Objects /\ data' \subseteq Objects
               /\ table' = NamespacesPage!Render(filtered', deleting')
               /\ UNCHANGED <<cluster, deleting, deletes, detail, asked, steps>>
    BY <2>3 DEF NamespacesPage!Got, NamespacesPage!Matching
  <2>4. ASSUME NEW r \in loads, NamespacesPage!LoadFails(r)
        PROVE  /\ data' \subseteq Objects
               /\ UNCHANGED <<cluster, filtered, deleting, deletes, detail, asked, steps>>
               /\ UNCHANGED table \/ table' = NamespacesPage!Render(filtered, deleting')
    BY <2>4 DEF NamespacesPage!LoadFails
  <2> QED BY <2>1, <2>2, <2>3, <2>4
<1>2. WindowIsAnswered'
  BY <1>1, WindowKept
<1>3. \A d \in deletes' : d.awaited => d \in deletes /\ d.of \in deleting'
  BY <1>1 DEF DeletesAreMarked
<1>4. deletes' \subseteq NamespaceDeletes
  BY <1>1 DEF NamespacesTypes
<1>5. /\ DeletesAreMarked' /\ table'.busy \subseteq table'.rows
      /\ table' \in [show : {"spinner", "empty", "rows"}, rows : SUBSET Objects, busy : SUBSET Objects]
  BY <1>1, <1>3, <1>4, TableDrawn
<1>6. NamespacesTypes'
  BY <1>1, <1>4, <1>5 DEF NamespacesTypes, NamespacesPage!NamespacesTypeOK
<1> QED BY <1>2, <1>5, <1>6

LEMMA NamespaceDeleted ==
  ASSUME NamespacesIInv, NEW ns \in Objects, NamespacesPage!Delete(ns) PROVE NamespacesIInv'
<1> DEFINE new == [of |-> ns, id |-> steps + 1, awaited |-> TRUE]
<1>1. /\ deletes' = deletes \cup {new} /\ new.of = ns /\ ns \notin deleting
      /\ deleting' = deleting \cup {ns} /\ table' = NamespacesPage!Render(filtered, deleting')
      /\ UNCHANGED <<cluster, data, filtered, detail, asked>> /\ steps' \in Nat
      /\ new \in NamespaceDeletes
  BY DEF NamespacesPage!Delete, NamespacesPage!Act, NamespaceDeletes, NamespacesIInv,
       NamespacesTypes
<1>2. \A d \in deletes : d.awaited => d.of # new.of
  BY <1>1 DEF NamespacesIInv, DeletesAreMarked
<1> HIDE DEF new
<1>3. \A d, e \in deletes' : d.of = e.of /\ d.awaited /\ e.awaited => d = e
  BY <1>1, <1>2 DEF NamespacesIInv, DeletesAreMarked, NamespacesPage!OneDeletion
<1>4. \A d \in deletes' : d.awaited => d.of \in deleting'
  BY <1>1 DEF NamespacesIInv, DeletesAreMarked
<1>5. filtered \in SUBSET Objects /\ deleting \subseteq Objects
  BY DEF NamespacesIInv, NamespacesTypes, NamespacesPage!NamespacesTypeOK
<1>6. /\ table' \in [show : {"spinner", "empty", "rows"}, rows : SUBSET Objects, busy : SUBSET Objects]
      /\ table'.busy = table'.rows \cap deleting'
  <2>1. \A busy : /\ NamespacesPage!Render(filtered, busy) \in
                       [show : {"spinner", "empty", "rows"}, rows : SUBSET Objects, busy : SUBSET Objects]
                  /\ NamespacesPage!Render(filtered, busy).rows = filtered
                  /\ NamespacesPage!Render(filtered, busy).busy = filtered \cap busy
    BY <1>5, Drawn
  <2> QED BY <1>1, <2>1
<1>7. DeletesAreMarked'
  BY <1>3, <1>4, <1>6 DEF DeletesAreMarked, NamespacesPage!OneDeletion
<1>8. NamespacesTypes'
  BY <1>1, <1>5, <1>6 DEF NamespacesIInv, NamespacesTypes, NamespacesPage!NamespacesTypeOK
<1> QED BY <1>1, <1>7, <1>8, WindowKept DEF NamespacesIInv

LEMMA NamespaceEnds ==
  ASSUME NamespacesIInv, NEW d \in deletes,
         NamespacesPage!Deleted(d) \/ NamespacesPage!DeleteFails(d) \/ NamespacesPage!DeletedUnseen(d)
  PROVE  NamespacesIInv'
<1> USE DEF NamespacesIInv
<1>1. d \in NamespaceDeletes /\ d.of \in Objects \ System
  BY DEF NamespacesTypes, NamespaceDeletes
<1>2. /\ UNCHANGED <<data, filtered, detail, asked, steps>>
      /\ cluster' \subseteq Objects /\ System \subseteq cluster'
      /\ deleting' \subseteq Objects
      /\ UNCHANGED table \/ table' = NamespacesPage!Render(filtered, deleting')
  BY <1>1 DEF NamespacesPage!Deleted, NamespacesPage!DeleteFails, NamespacesPage!DeletedUnseen,
              NamespacesTypes, NamespacesPage!NamespacesTypeOK
<1> DEFINE left == [d EXCEPT !.awaited = FALSE]
<1>3. left \in NamespaceDeletes /\ ~left.awaited
  BY <1>1 DEF NamespaceDeletes
<1>4. /\ deletes' \subseteq (deletes \ {d}) \cup {left}
      /\ deleting' = IF d.awaited THEN deleting \ {d.of} ELSE deleting
  BY DEF NamespacesPage!Deleted, NamespacesPage!DeleteFails, NamespacesPage!DeletedUnseen
<1> HIDE DEF left
<1>5. deletes' \subseteq NamespaceDeletes
  BY <1>3, <1>4 DEF NamespacesTypes
<1>6. \A e \in deletes' : e.awaited => e \in deletes /\ e.of \in deleting'
  BY <1>3, <1>4 DEF DeletesAreMarked, NamespacesPage!OneDeletion
<1>7. filtered \in SUBSET Objects
  BY DEF NamespacesTypes, NamespacesPage!NamespacesTypeOK
<1>8. /\ DeletesAreMarked' /\ table'.busy \subseteq table'.rows
      /\ table' \in [show : {"spinner", "empty", "rows"}, rows : SUBSET Objects, busy : SUBSET Objects]
  BY <1>2, <1>5, <1>6, <1>7, TableDrawn
<1>9. NamespacesTypes'
  BY <1>2, <1>5, <1>8 DEF NamespacesTypes, NamespacesPage!NamespacesTypeOK
<1> QED BY <1>2, <1>8, <1>9, WindowKept

\* What a step of the window leaves alone.
LEMMA TableKept ==
  ASSUME NamespacesIInv, UNCHANGED <<cluster, data, filtered, table, deleting, deletes>>,
         steps' \in Nat, detail' \in NamespaceWindows,
         asked' \subseteq [kind : {"details", "yaml"}, of : Objects, id : Nat]
  PROVE  NamespacesTypes' /\ DeletesAreMarked'
BY DEF NamespacesIInv, NamespacesTypes, NamespacesPage!NamespacesTypeOK, DeletesAreMarked,
       NamespacesPage!OneDeletion, NamespaceWindows

LEMMA NamespaceDescribed ==
  ASSUME NamespacesIInv, NEW ns \in Objects, NamespacesPage!Describe(ns) PROVE NamespacesIInv'
<1> DEFINE new == [kind |-> "details", of |-> ns, id |-> detail.request + 1]
<1>1. /\ asked' = asked \cup {new} /\ steps' \in Nat
      /\ UNCHANGED <<cluster, data, filtered, table, deleting, deletes>>
      /\ detail' = [title |-> ns, request |-> detail.request + 1, body |-> "none",
                    state |-> "spinner", name |-> ns, loaded |-> FALSE, loading |-> FALSE,
                    yaml |-> "none", copy |-> FALSE]
  BY DEF NamespacesPage!Describe, NamespacesPage!Ask, NamespacesPage!Act, NamespacesIInv,
       NamespacesTypes
<1>2. detail.request \in Nat /\ new.kind = "details" /\ new.of = ns /\ new.id = detail.request + 1
  BY DEF NamespacesIInv, NamespacesTypes, NamespaceWindows
<1>3. detail' \in NamespaceWindows
  BY <1>1, <1>2 DEF NamespaceWindows
<1>4. new \in [kind : {"details", "yaml"}, of : Objects, id : Nat]
  BY <1>2
<1>5. asked \subseteq [kind : {"details", "yaml"}, of : Objects, id : Nat]
  BY DEF NamespacesIInv, NamespacesTypes
<1> HIDE DEF new
<1>6. NamespacesTypes' /\ DeletesAreMarked'
  BY <1>1, <1>3, <1>4, <1>5, TableKept
<1>7. \A q \in asked' : q.kind = "details" =>
        q.id <= detail'.request /\ (q.id = detail'.request => q.of = ns)
  BY <1>1, <1>2, <1>5 DEF NamespacesIInv, WindowIsAnswered
<1>8. new \in asked' /\ detail'.request = new.id /\ detail'.title = ns /\ ns # "none"
  BY <1>1, <1>2, PagesAssumption DEF NamespacesPage!NamespacesAssumption
<1>9. WindowIsAnswered'
  BY <1>1, <1>2, <1>7, <1>8 DEF WindowIsAnswered, NamespacesPage!DetailOfTitle,
     NamespacesPage!YamlIsAsked, NamespacesPage!DetailIsAsked
<1> QED BY <1>6, <1>9 DEF NamespacesIInv

LEMMA NamespaceYamlOpened ==
  ASSUME NamespacesIInv, NamespacesPage!OpenYaml PROVE NamespacesIInv'
<1> DEFINE new == [kind |-> "yaml", of |-> detail.title, id |-> steps + 1]
<1>1. /\ asked' = asked \cup {new} /\ steps' \in Nat /\ detail.state # "closed"
      /\ UNCHANGED <<cluster, data, filtered, table, deleting, deletes>>
      /\ detail' = [detail EXCEPT !.loading = TRUE, !.copy = FALSE, !.yaml = "none"]
      /\ new \in [kind : {"details", "yaml"}, of : Objects, id : Nat]
  BY DEF NamespacesPage!OpenYaml, NamespacesPage!Ask, NamespacesPage!Act, NamespacesIInv,
         NamespacesTypes, NamespaceWindows, WindowIsAnswered
<1>2. new.kind = "yaml" /\ new.of = detail.title
  OBVIOUS
<1>3. detail' \in NamespaceWindows /\ detail \in NamespaceWindows
  BY <1>1 DEF NamespacesIInv, NamespacesTypes, NamespaceWindows
<1>4. /\ detail'.title = detail.title /\ detail'.name = detail.name /\ detail'.state = detail.state
      /\ detail'.request = detail.request /\ detail'.body = detail.body
      /\ detail'.yaml = "none" /\ ~detail'.copy
  BY <1>1, <1>3 DEF NamespaceWindows
<1> HIDE DEF new
<1>5. NamespacesTypes' /\ DeletesAreMarked'
  BY <1>1, <1>3, TableKept DEF NamespacesIInv, NamespacesTypes
<1>6. WindowIsAnswered'
  BY <1>1, <1>2, <1>4 DEF NamespacesIInv, WindowIsAnswered, NamespacesPage!DetailOfTitle,
     NamespacesPage!YamlIsAsked, NamespacesPage!DetailIsAsked
<1> QED BY <1>5, <1>6 DEF NamespacesIInv

LEMMA NamespaceAnswered ==
  ASSUME NamespacesIInv, NEW q \in asked,
         \/ NamespacesPage!GotDetails(q) \/ NamespacesPage!DetailsFail(q)
         \/ NamespacesPage!GotYaml(q) \/ NamespacesPage!YamlFails(q)
  PROVE  NamespacesIInv'
<1> USE DEF NamespacesIInv
<1>1. /\ asked' = asked \ {q} /\ UNCHANGED steps
      /\ UNCHANGED <<cluster, data, filtered, table, deleting, deletes>>
  BY DEF NamespacesPage!GotDetails, NamespacesPage!DetailsFail, NamespacesPage!GotYaml,
         NamespacesPage!YamlFails
<1>2. detail \in NamespaceWindows /\ q.of \in Objects /\ q.kind \in {"details", "yaml"}
  BY DEF NamespacesTypes
<1>3. q.kind = "details" /\ q.id = detail.request => detail.title # "none" /\ q.of = detail.title
  BY <1>2, PagesAssumption DEF WindowIsAnswered, NamespacesPage!NamespacesAssumption
<1> DEFINE Kept == /\ detail' \in NamespaceWindows
                   /\ detail'.title = detail.title /\ detail'.name = detail.name
                   /\ detail'.request = detail.request
                   /\ detail.title = "none" => detail'.state = detail.state
           Bodies == /\ detail'.body \in {detail.body, detail.title}
                     /\ detail'.yaml \in {detail.yaml, "error", detail.title}
           Copied == detail'.copy => (detail.copy /\ detail'.yaml = detail.yaml) \/ detail'.yaml = detail.title
           Waits == /\ detail'.loading => detail.loading /\ (q.kind = "yaml" => q.of # detail.name)
                    /\ detail'.state = "spinner" =>
                         detail.state = "spinner" /\ (q.kind = "details" => q.id # detail.request)
<1>4. Kept /\ Bodies /\ Copied /\ Waits
  <2>1. CASE /\ UNCHANGED detail
             /\ \/ q.kind = "details" /\ q.id # detail.request
                \/ q.kind = "yaml" /\ q.of # detail.name
    <3>1. detail' = detail
      BY <2>1
    <3>2. Kept /\ Bodies
      BY <1>2, <3>1
    <3>3. Copied
      BY <3>1, Zenon
    <3>4. Waits
      BY <1>2, <2>1, <3>1 DEF NamespaceWindows
    <3> HIDE DEF Kept, Bodies, Copied, Waits
    <3> QED BY <3>2, <3>3, <3>4
  <2>2. CASE /\ q.kind = "details" /\ q.id = detail.request
             /\ \/ detail' = [detail EXCEPT !.body = q.of, !.state = "shown"]
                \/ detail' = [detail EXCEPT !.state = "error"]
    BY <1>2, <1>3, <2>2 DEF NamespaceWindows
  <2>3. CASE /\ q.kind = "yaml" /\ q.of = detail.name
             /\ \/ detail' = [detail EXCEPT !.yaml = q.of, !.copy = TRUE, !.loaded = TRUE,
                                           !.loading = FALSE]
                \/ detail' = [detail EXCEPT !.yaml = "error", !.copy = FALSE, !.loading = FALSE]
    <3>1. detail.name = detail.title
      BY DEF WindowIsAnswered
    <3>2. CASE detail' = [detail EXCEPT !.yaml = q.of, !.copy = TRUE, !.loaded = TRUE, !.loading = FALSE]
      BY <1>2, <2>3, <3>1, <3>2 DEF NamespaceWindows
    <3>3. CASE detail' = [detail EXCEPT !.yaml = "error", !.copy = FALSE, !.loading = FALSE]
      BY <1>2, <2>3, <3>1, <3>3 DEF NamespaceWindows
    <3> QED BY <2>3, <3>2, <3>3
  <2> HIDE DEF Kept, Bodies, Copied, Waits
  <2>4. CASE NamespacesPage!GotDetails(q) \/ NamespacesPage!DetailsFail(q)
    <3>1. q.kind = "details"
      BY <2>4 DEF NamespacesPage!GotDetails, NamespacesPage!DetailsFail
    <3>2. \/ q.id # detail.request /\ UNCHANGED detail
          \/ /\ q.id = detail.request
             /\ \/ detail' = [detail EXCEPT !.body = q.of, !.state = "shown"]
                \/ detail' = [detail EXCEPT !.state = "error"]
      BY <2>4 DEF NamespacesPage!GotDetails, NamespacesPage!DetailsFail
    <3> QED BY <2>1, <2>2, <3>1, <3>2
  <2>5. CASE NamespacesPage!GotYaml(q) \/ NamespacesPage!YamlFails(q)
    <3>1. q.kind = "yaml"
      BY <2>5 DEF NamespacesPage!GotYaml, NamespacesPage!YamlFails
    <3>2. \/ q.of # detail.name /\ UNCHANGED detail
          \/ /\ q.of = detail.name
             /\ \/ detail' = [detail EXCEPT !.yaml = q.of, !.copy = TRUE, !.loaded = TRUE,
                                           !.loading = FALSE]
                \/ detail' = [detail EXCEPT !.yaml = "error", !.copy = FALSE, !.loading = FALSE]
      BY <2>5 DEF NamespacesPage!GotYaml, NamespacesPage!YamlFails
    <3> QED BY <2>1, <2>3, <3>1, <3>2
  <2> QED BY <2>4, <2>5
<1>5. NamespacesTypes' /\ DeletesAreMarked'
  BY <1>1, <1>4, TableKept DEF NamespacesTypes
<1>6. NamespacesPage!DetailOfTitle'
  BY <1>4 DEF WindowIsAnswered, NamespacesPage!DetailOfTitle
<1>7. NamespacesPage!YamlIsAsked'
  BY <1>1, <1>4 DEF WindowIsAnswered, NamespacesPage!YamlIsAsked
<1>8. NamespacesPage!DetailIsAsked'
  BY <1>1, <1>4 DEF WindowIsAnswered, NamespacesPage!DetailIsAsked
<1>9. WindowIsAnswered'
  BY <1>1, <1>4, <1>6, <1>7, <1>8 DEF WindowIsAnswered
<1> QED BY <1>5, <1>9

\* Each action of the namespaces page keeps its invariant.
LEMMA NamespacesStep ==
  ASSUME NamespacesIInv, NamespacesPage!Next PROVE NamespacesIInv'
BY NamespacesLoads, NamespaceDeleted, NamespaceEnds, NamespaceDescribed, NamespaceYamlOpened,
   NamespaceAnswered DEF NamespacesPage!Next
-------------------------------------------------------------------------------
(* The configuration pages *)

ConfScreens ==
  [show : {"blank", "spinner", "error", "list"}, asked : Namespaces \cup {"all"},
   term : Namespaces \cup {"none"}, rows : SUBSET Namespaces]
ConfRequests ==
  [id : 0..MaxSteps, asked : Namespaces \cup {"all"}, term : Namespaces \cup {"none"},
   failed : SUBSET ConfigurationPage!RBACTables]

ConfTypes ==
  /\ page \in ConfigurationPages /\ objects \subseteq Namespaces
  /\ data \in [ConfigurationPage!Tables -> SUBSET Namespaces]
  /\ held \in Namespaces \cup {"all"} /\ filter \in Namespaces \cup {"all"}
  /\ search \in Namespaces \cup {"none"} /\ options \subseteq Namespaces
  /\ screen \in ConfScreens /\ reqs \subseteq ConfRequests
  /\ steps \in 0..MaxSteps /\ failures \in Nat /\ mixed \in BOOLEAN

\* Without mixing there is one load at a time, for what is selected and typed.
ConfInOrder ==
  ~mixed /\ page # "rbac" =>
    /\ \A r, q \in reqs : r = q
    /\ \A r \in reqs : r.asked = filter /\ r.term = search

\* The tables of RBAC show at any time what their own boxes choose; the others, once
\* nothing is under way, what the last load was asked for.
ConfSettled ==
  /\ page = "rbac" /\ screen.show = "list" =>
       /\ screen.asked = filter
       /\ screen.rows = ConfigurationPage!In(ConfigurationPage!In(data["roles"], filter), search)
  /\ page # "rbac" /\ reqs = {} /\ ~mixed /\ failures = 0 =>
       /\ held = filter /\ screen.asked = filter
       /\ data[page] = ConfigurationPage!In(objects, filter)
       /\ screen.rows = ConfigurationPage!In(data[page], search)

ConfIInv ==
  ConfTypes /\ ConfInOrder /\ ConfSettled /\ ConfigurationPage!SettledHasNoSpinner

\* The tables of a page: its own, or the four of RBAC.
LEMMA ConfTables ==
  ASSUME ConfTypes
  PROVE  /\ page = "rbac" => ConfigurationPage!Tables = ConfigurationPage!RBACTables
         /\ page = "rbac" => data["roles"] \in SUBSET Namespaces
         /\ page # "rbac" => page \in ConfigurationPage!Tables /\ data[page] \in SUBSET Namespaces
<1>1. page = "rbac" => "roles" \in ConfigurationPage!Tables
  BY DEF ConfigurationPage!Tables, ConfigurationPage!RBACTables
<1>2. page # "rbac" => page \in ConfigurationPage!Tables
  BY DEF ConfigurationPage!Tables
<1>3. page = "rbac" => ConfigurationPage!Tables = ConfigurationPage!RBACTables
  BY DEF ConfigurationPage!Tables
<1> QED BY <1>1, <1>2, <1>3 DEF ConfTypes

\* The configuration pages as they are opened.
LEMMA ConfInit == ConfigurationPage!Init => ConfIInv
<1> SUFFICES ASSUME ConfigurationPage!Init PROVE ConfIInv
  OBVIOUS
<1> DEFINE first == [id |-> 0, asked |-> "all", term |-> "none", failed |-> {}]
<1>1. /\ page \in ConfigurationPages /\ objects \subseteq Namespaces
      /\ data = [t \in ConfigurationPage!Tables |-> {}]
      /\ held = "all" /\ filter = "all" /\ search = "none" /\ options = {}
      /\ screen = IF page = "rbac" THEN ConfigurationPage!Blank ELSE ConfigurationPage!Spinner
      /\ reqs = {first} /\ steps = 0 /\ failures = 0 /\ mixed = FALSE
  BY DEF ConfigurationPage!Init
<1>2. MaxSteps \in Nat
  BY PagesAssumption DEF ConfigurationPage!ConfigurationAssumption
<1>3. first \in ConfRequests /\ first.asked = "all" /\ first.term = "none"
  BY <1>2 DEF ConfRequests
<1> HIDE DEF first
<1>4. screen \in ConfScreens /\ (page = "rbac" => screen.show = "blank")
  BY <1>1 DEF ConfScreens, ConfigurationPage!Blank, ConfigurationPage!Spinner
<1>5. ConfTypes
  <2>1. data \in [ConfigurationPage!Tables -> SUBSET Namespaces]
    BY <1>1
  <2>2. reqs \subseteq ConfRequests /\ steps \in 0..MaxSteps
    BY <1>1, <1>2, <1>3
  <2> QED BY <1>1, <1>4, <2>1, <2>2 DEF ConfTypes
<1>6. ConfInOrder /\ ConfSettled /\ ConfigurationPage!SettledHasNoSpinner
  BY <1>1, <1>3, <1>4 DEF ConfInOrder, ConfSettled, ConfigurationPage!SettledHasNoSpinner
<1> QED BY <1>5, <1>6 DEF ConfIInv

LEMMA ConfAct ==
  ASSUME ConfTypes, ConfigurationPage!Act
  PROVE  /\ steps' \in 0..MaxSteps /\ steps + 1 \in 0..MaxSteps /\ mixed' \in BOOLEAN
         /\ ~mixed' => ~mixed /\ reqs = {}
<1>1. MaxSteps \in Nat
  BY PagesAssumption DEF ConfigurationPage!ConfigurationAssumption
<1>2. steps' \in 0..MaxSteps /\ steps + 1 \in 0..MaxSteps
  BY <1>1 DEF ConfigurationPage!Act, ConfTypes
<1>3. mixed' \in BOOLEAN /\ (~mixed' => ~mixed /\ reqs = {})
  BY Zenon DEF ConfigurationPage!Act
<1> QED BY <1>2, <1>3

\* A load starts, for what is selected and typed.
LEMMA ConfAsked ==
  ASSUME ConfIInv, ConfigurationPage!Act, NEW ns \in Namespaces \cup {"all"},
         ConfigurationPage!Load(ns), objects' \subseteq objects,
         IF page = "rbac" THEN filter' = filter ELSE filter' = ns,
         UNCHANGED <<page, data, held, search, options, failures>>
  PROVE  ConfIInv'
<1> USE DEF ConfIInv
<1> DEFINE new == [ConfigurationPage!Request(steps + 1) EXCEPT !.asked = ns]
<1>1. /\ reqs' = reqs \cup {new}
      /\ screen' = IF page = "rbac" THEN screen ELSE ConfigurationPage!Spinner
  BY DEF ConfigurationPage!Load
<1>2. /\ new \in ConfRequests
      /\ page # "rbac" => new.asked = filter' /\ new.term = search
  BY ConfAct DEF ConfTypes, ConfRequests, ConfigurationPage!Request
<1> HIDE DEF new
<1>3. screen' \in ConfScreens
  BY <1>1 DEF ConfTypes, ConfScreens, ConfigurationPage!Blank, ConfigurationPage!Spinner
<1>4. ConfigurationPage!Tables' = ConfigurationPage!Tables
  BY DEF ConfigurationPage!Tables
<1>5. ConfTypes'
  BY <1>1, <1>2, <1>3, <1>4, ConfAct DEF ConfTypes
<1>6. ConfInOrder'
  BY <1>1, <1>2, ConfAct DEF ConfInOrder
<1>7. ConfSettled' /\ ConfigurationPage!SettledHasNoSpinner'
  BY <1>1 DEF ConfSettled, ConfigurationPage!SettledHasNoSpinner
<1> QED BY <1>5, <1>6, <1>7

\* A word or a choice of RBAC's renders what the page has.
LEMMA ConfChosen ==
  ASSUME ConfIInv,
         \/ \E term \in Namespaces \cup {"none"} : ConfigurationPage!Search(term)
         \/ \E ns \in Namespaces \cup {"all"}, term \in Namespaces \cup {"none"} :
              ConfigurationPage!ChooseRBAC(ns, term)
  PROVE  ConfIInv'
<1> USE DEF ConfIInv
<1>1. ASSUME NEW term \in Namespaces \cup {"none"}, ConfigurationPage!Search(term)
      PROVE  ConfIInv'
  <2>1. /\ page # "rbac" /\ ConfigurationPage!Act /\ search' = term
        /\ screen' = [show |-> "list", asked |-> held, term |-> term,
                      rows |-> ConfigurationPage!In(data[page], term)]
        /\ UNCHANGED <<page, objects, data, held, filter, options, reqs, failures>>
    BY <1>1 DEF ConfigurationPage!Search, ConfigurationPage!List
  <2>2. screen' \in ConfScreens /\ screen'.show = "list"
    BY <2>1, ConfTables DEF ConfTypes, ConfScreens, ConfigurationPage!In
  <2>3. ConfigurationPage!Tables' = ConfigurationPage!Tables
    BY <2>1 DEF ConfigurationPage!Tables
  <2>4. ConfTypes'
    BY <2>1, <2>2, <2>3, ConfAct DEF ConfTypes
  <2>5. ConfInOrder' /\ ConfigurationPage!SettledHasNoSpinner'
    BY <2>1, <2>2, ConfAct DEF ConfInOrder, ConfigurationPage!SettledHasNoSpinner
  <2>6. ConfSettled'
    BY <2>1, ConfAct DEF ConfSettled
  <2> QED BY <2>4, <2>5, <2>6
<1>2. ASSUME NEW ns \in Namespaces \cup {"all"}, NEW term \in Namespaces \cup {"none"},
             ConfigurationPage!ChooseRBAC(ns, term)
      PROVE  ConfIInv'
  <2> DEFINE rows == ConfigurationPage!In(ConfigurationPage!In(data["roles"], ns), term)
  <2>1. /\ page = "rbac" /\ ConfigurationPage!Act /\ filter' = ns /\ search' = term
        /\ screen' = [show |-> "list", asked |-> ns, term |-> term, rows |-> rows]
        /\ UNCHANGED <<page, objects, data, held, options, reqs, failures>>
    BY <1>2 DEF ConfigurationPage!ChooseRBAC, ConfigurationPage!List
  <2>2. screen' \in ConfScreens /\ screen'.show = "list"
    BY <2>1, ConfTables DEF ConfTypes, ConfScreens, ConfigurationPage!In
  <2>3. ConfigurationPage!Tables' = ConfigurationPage!Tables
    BY <2>1 DEF ConfigurationPage!Tables
  <2>4. ConfTypes'
    BY <2>1, <2>2, <2>3, ConfAct DEF ConfTypes
  <2>5. ConfInOrder' /\ ConfigurationPage!SettledHasNoSpinner'
    BY <2>1, <2>2 DEF ConfInOrder, ConfigurationPage!SettledHasNoSpinner
  <2>6. ConfSettled'
    BY <2>1 DEF ConfSettled
  <2> QED BY <2>4, <2>5, <2>6
<1> QED BY <1>1, <1>2

\* The answer of a table: without mixing, of the one load there was.
LEMMA ConfGotTable ==
  ASSUME ConfIInv, NEW r \in reqs, ConfigurationPage!GotTable(r) PROVE ConfIInv'
<1> USE DEF ConfIInv
<1> DEFINE answer == ConfigurationPage!In(objects, r.asked)
<1>1. /\ page # "rbac" /\ reqs' = reqs \ {r} /\ held' = r.asked
      /\ data' = [data EXCEPT ![page] = answer]
      /\ screen' = [show |-> "list", asked |-> r.asked, term |-> r.term,
                    rows |-> ConfigurationPage!In(data'[page], r.term)]
      /\ UNCHANGED <<page, objects, filter, search, options, steps, failures, mixed>>
  BY DEF ConfigurationPage!GotTable, ConfigurationPage!List
<1>2. r \in ConfRequests /\ answer \in SUBSET Namespaces
  BY DEF ConfTypes, ConfigurationPage!In
<1>3. ConfigurationPage!Tables' = ConfigurationPage!Tables
  BY <1>1 DEF ConfigurationPage!Tables
<1>4. data' \in [ConfigurationPage!Tables -> SUBSET Namespaces] /\ data'[page] = answer
  BY <1>1, <1>2, ConfTables DEF ConfTypes
<1>5. screen' \in ConfScreens /\ screen'.show = "list"
  BY <1>1, <1>2, <1>4 DEF ConfScreens, ConfRequests, ConfigurationPage!In
<1>6. ConfTypes'
  BY <1>1, <1>2, <1>3, <1>4, <1>5 DEF ConfTypes, ConfRequests
<1>7. ConfInOrder' /\ ConfigurationPage!SettledHasNoSpinner'
  BY <1>1, <1>5 DEF ConfInOrder, ConfigurationPage!SettledHasNoSpinner
<1>8. ConfSettled'
  BY <1>1, <1>4 DEF ConfInOrder, ConfSettled
<1> QED BY <1>6, <1>7, <1>8

LEMMA ConfGotRBAC ==
  ASSUME ConfIInv, NEW r \in reqs, ConfigurationPage!GotRBAC(r) PROVE ConfIInv'
<1> USE DEF ConfIInv
<1>1. /\ page = "rbac" /\ reqs' = reqs \ {r} /\ held' = "all"
      /\ data' = [t \in ConfigurationPage!RBACTables |-> IF t \in r.failed THEN {} ELSE objects]
      /\ screen' = [show |-> "list", asked |-> filter, term |-> search,
                    rows |-> ConfigurationPage!In(ConfigurationPage!In(data'["roles"], filter), search)]
      /\ UNCHANGED <<page, objects, filter, search, options, steps, failures, mixed>>
  BY DEF ConfigurationPage!GotRBAC, ConfigurationPage!List
<1>2. ConfigurationPage!Tables' = ConfigurationPage!RBACTables
  BY <1>1 DEF ConfigurationPage!Tables
<1>3. data' \in [ConfigurationPage!Tables' -> SUBSET Namespaces] /\ data'["roles"] \in SUBSET Namespaces
  BY <1>1, <1>2 DEF ConfTypes, ConfigurationPage!RBACTables
<1>4. screen' \in ConfScreens /\ screen'.show = "list"
  BY <1>1, <1>3 DEF ConfTypes, ConfScreens, ConfigurationPage!In
<1>5. ConfTypes'
  BY <1>1, <1>3, <1>4 DEF ConfTypes
<1>6. ConfInOrder' /\ ConfigurationPage!SettledHasNoSpinner'
  BY <1>1, <1>4 DEF ConfInOrder, ConfigurationPage!SettledHasNoSpinner
<1>7. ConfSettled'
  BY <1>1 DEF ConfSettled
<1> QED BY <1>5, <1>6, <1>7

LEMMA ConfFails ==
  ASSUME ConfIInv, NEW r \in reqs, ConfigurationPage!TableFails(r) \/ ConfigurationPage!RBACFails(r)
  PROVE  ConfIInv'
<1> USE DEF ConfIInv
<1>1. /\ failures' = failures + 1
      /\ UNCHANGED <<page, objects, data, held, filter, search, options, steps, mixed>>
  BY DEF ConfigurationPage!TableFails, ConfigurationPage!RBACFails
<1>2. ConfigurationPage!Tables' = ConfigurationPage!Tables
  BY <1>1 DEF ConfigurationPage!Tables
<1>3. failures' \in Nat /\ failures' # 0
  BY <1>1 DEF ConfTypes
<1>4. CASE ConfigurationPage!TableFails(r)
  <2>1. /\ page # "rbac" /\ reqs' = reqs \ {r}
        /\ screen' = [show |-> "error", asked |-> "all", term |-> "none", rows |-> {}]
    BY <1>4 DEF ConfigurationPage!TableFails, ConfigurationPage!Blank
  <2>2. screen' \in ConfScreens /\ screen'.show = "error"
    BY <2>1 DEF ConfScreens
  <2>3. ConfTypes'
    BY <1>1, <1>2, <1>3, <2>1, <2>2 DEF ConfTypes
  <2> QED BY <1>1, <1>3, <2>1, <2>2, <2>3 DEF ConfInOrder, ConfSettled,
       ConfigurationPage!SettledHasNoSpinner
<1>5. CASE ConfigurationPage!RBACFails(r)
  <2>1. PICK t \in ConfigurationPage!RBACTables :
          reqs' = (reqs \ {r}) \cup {[r EXCEPT !.failed = @ \cup {t}]}
    BY <1>5 DEF ConfigurationPage!RBACFails
  <2>2. page = "rbac" /\ UNCHANGED screen
    BY <1>5 DEF ConfigurationPage!RBACFails
  <2>3. [r EXCEPT !.failed = @ \cup {t}] \in ConfRequests
    BY DEF ConfTypes, ConfRequests
  <2>4. ConfTypes'
    BY <1>1, <1>2, <1>3, <2>1, <2>2, <2>3 DEF ConfTypes
  <2>5. reqs' # {}
    BY <2>1
  <2> QED BY <1>1, <2>2, <2>4, <2>5 DEF ConfInOrder, ConfSettled,
       ConfigurationPage!SettledHasNoSpinner
<1> QED BY <1>4, <1>5

\* Each action of the configuration pages keeps its invariant.
LEMMA ConfStep == ASSUME ConfIInv, ConfigurationPage!Next PROVE ConfIInv'
<1>1. CASE ConfigurationPage!Reload
  BY <1>1, ConfAsked DEF ConfigurationPage!Reload, ConfIInv, ConfTypes
<1>2. ASSUME NEW ns \in Namespaces \cup {"all"}, ConfigurationPage!SelectNamespace(ns)
      PROVE  ConfIInv'
  BY <1>2, ConfAsked DEF ConfigurationPage!SelectNamespace
<1>3. ASSUME NEW ns \in Namespaces, ConfigurationPage!Delete(ns) PROVE ConfIInv'
  BY <1>3, ConfAsked DEF ConfigurationPage!Delete, ConfIInv, ConfTypes
<1>4. CASE ConfigurationPage!GotNamespaces
  <2>1. /\ options' = Namespaces
        /\ UNCHANGED <<page, objects, data, held, filter, search, screen, reqs, steps, failures, mixed>>
    BY <1>4 DEF ConfigurationPage!GotNamespaces
  <2>2. ConfigurationPage!Tables' = ConfigurationPage!Tables
    BY <2>1 DEF ConfigurationPage!Tables
  <2> QED BY <2>1, <2>2 DEF ConfIInv, ConfTypes, ConfInOrder, ConfSettled,
                            ConfigurationPage!SettledHasNoSpinner
<1> QED BY <1>1, <1>2, <1>3, <1>4, ConfChosen, ConfGotTable, ConfGotRBAC, ConfFails
        DEF ConfigurationPage!Next

LEMMA ConfShown ==
  ConfIInv => /\ ConfigurationPage!ConfTypeOK
              /\ ConfigurationPage!SettledListMatches /\ ConfigurationPage!DeletedIsGone
<1> SUFFICES ASSUME ConfIInv
             PROVE  /\ ConfigurationPage!ConfTypeOK
                    /\ ConfigurationPage!SettledListMatches /\ ConfigurationPage!DeletedIsGone
  OBVIOUS
<1> USE DEF ConfIInv
<1>1. ConfigurationPage!ConfTypeOK
  BY DEF ConfTypes, ConfScreens, ConfRequests, ConfigurationPage!ConfTypeOK
<1>2. \A rows, choice : /\ ConfigurationPage!In(ConfigurationPage!In(rows, choice), choice)
                             = ConfigurationPage!In(rows, choice)
                        /\ ConfigurationPage!In(rows, choice) \subseteq rows
  BY DEF ConfigurationPage!In
<1>3. \A rows, choice, other :
        ConfigurationPage!In(ConfigurationPage!In(rows, choice), other)
          = ConfigurationPage!In(ConfigurationPage!In(rows, other), choice)
  BY DEF ConfigurationPage!In
<1>4. ConfigurationPage!SettledListMatches
  <2> SUFFICES ASSUME reqs = {}, ~mixed, failures = 0, screen.show = "list"
               PROVE  /\ screen.rows = ConfigurationPage!In(ConfigurationPage!In(screen.rows, filter), search)
                      /\ screen.asked = filter
    BY DEF ConfigurationPage!SettledListMatches
  <2>1. PICK rows : screen.asked = filter
              /\ screen.rows = ConfigurationPage!In(ConfigurationPage!In(rows, filter), search)
    BY DEF ConfSettled
  <2> QED BY <2>1, <1>2, <1>3
<1>5. ConfigurationPage!DeletedIsGone
  BY <1>2 DEF ConfSettled, ConfigurationPage!DeletedIsGone
<1> QED BY <1>1, <1>4, <1>5
-------------------------------------------------------------------------------
(* The overview *)

OverviewRequests == [id : Nat, part : OverviewPage!Parts, lost : SUBSET {"database", "kubernetes"}]
Shows == {"spinner", "value", "N/A"}
RowsOfNodes(rows) ==
  /\ \A row \in rows : row.of \in Nodes
  /\ \A row, other \in rows : row.of = other.of => row = other

OverviewTypes ==
  /\ cells \in [OverviewPage!Cells -> Shows] /\ healthData \in BOOLEAN
  /\ RowsOfNodes(nodesData)
  /\ health \in [ready : Nat, total : Nat]
  /\ health.ready <= health.total /\ health.total <= Cardinality(Nodes)
  /\ requests \subseteq OverviewRequests
  /\ nReloads \in Nat

Asks(p) == \E r \in requests : r.part = p

\* A part on its spinner has a request that will fill or mark it.
CellsAreAsked ==
  /\ cells["nodesList"] = "spinner" => Asks("nodes")
  /\ \A c \in {"nodesHealth", "pods", "events"} : cells[c] = "spinner" => Asks("health")
  /\ cells["services"] = "spinner" => Asks("health") \/ \E f \in failures : f[1] = "health"
  /\ \A c \in Counters : cells[c] = "spinner" => Asks(c)

\* The health line is as old as the list, or the list is asked for.
HealthOfList ==
  nodesData # {} =>
    /\ list = nodesData /\ health.total = Cardinality(nodesData)
    /\ cells["nodesHealth"] = "value"

OverviewIInv == OverviewTypes /\ CellsAreAsked /\ HealthOfList

\* The instance counts as this module does.
LEMMA OverviewCounts ==
  /\ \A S : OverviewPage!Cardinality(S) = Cardinality(S)
  /\ \A S : OverviewPage!IsFiniteSet(S) <=> IsFiniteSet(S)
<1>1. \A S : OverviewPage!Cardinality(S) = Cardinality(S)
  BY DEF OverviewPage!Cardinality, Cardinality
<1>2. \A S : OverviewPage!IsFiniteSet(S) <=> IsFiniteSet(S)
  BY DEF OverviewPage!IsFiniteSet, IsFiniteSet
<1> QED BY <1>1, <1>2

LEMMA NodesAreFinite == IsFiniteSet(Nodes) /\ Cardinality(Nodes) \in Nat
<1>1. IsFiniteSet(Nodes)
  BY PagesAssumption, OverviewCounts DEF OverviewPage!OverviewAssumption
<1> QED BY <1>1, FS_CardinalityType

\* Rows of different nodes are no more than the nodes.
LEMMA RowsAreFew ==
  ASSUME NEW rows, RowsOfNodes(rows)
  PROVE  IsFiniteSet(rows) /\ Cardinality(rows) <= Cardinality(Nodes)
<1> DEFINE f == [row \in rows |-> row.of]
<1>2. f \in Injection(rows, Nodes)
  BY DEF RowsOfNodes, Injection, IsInjective
<1> HIDE DEF f
<1> QED BY <1>2, NodesAreFinite, FS_Injection

\* What the health line counts: the rows, or the nodes the health answer has.
LEMMA Counted ==
  ASSUME NEW rows, RowsOfNodes(rows), NEW has \in BOOLEAN
  PROVE  LET count == OverviewPage!Count(rows, has)
         IN  /\ count \in [ready : Nat, total : Nat]
             /\ count.ready <= count.total /\ count.total <= Cardinality(Nodes)
             /\ rows # {} => count.total = Cardinality(rows)
<1> DEFINE up == {n \in Nodes : k8s[n] = "Ready"}
<1>1. IsFiniteSet(Nodes) /\ Cardinality(Nodes) \in Nat
  BY NodesAreFinite
<1>2. /\ IsFiniteSet(rows) /\ Cardinality(rows) \in Nat /\ Cardinality(rows) <= Cardinality(Nodes)
  BY RowsAreFew, FS_CardinalityType
<1>3. /\ Cardinality(OverviewPage!ReadyIn(rows)) \in Nat
      /\ Cardinality(OverviewPage!ReadyIn(rows)) <= Cardinality(rows)
  <2>1. OverviewPage!ReadyIn(rows) \in SUBSET rows
    BY DEF OverviewPage!ReadyIn
  <2> QED BY <2>1, <1>2, FS_Subset, FS_CardinalityType
<1>4. /\ Cardinality(OverviewPage!Registered) \in Nat /\ IsFiniteSet(OverviewPage!Registered)
      /\ Cardinality(OverviewPage!Registered) <= Cardinality(Nodes)
  <2>1. OverviewPage!Registered \in SUBSET Nodes
    BY DEF OverviewPage!Registered
  <2> QED BY <2>1, <1>1, FS_Subset, FS_CardinalityType
<1>5. Cardinality(up) \in Nat /\ Cardinality(up) <= Cardinality(OverviewPage!Registered)
  <2>1. up \in SUBSET OverviewPage!Registered
    BY DEF OverviewPage!Registered
  <2> HIDE DEF up
  <2> QED BY <2>1, <1>4, FS_Subset, FS_CardinalityType
<1>6. CASE rows # {}
  <2>1. OverviewPage!Count(rows, has) =
          [ready |-> Cardinality(OverviewPage!ReadyIn(rows)), total |-> Cardinality(rows)]
    BY <1>6, OverviewCounts DEF OverviewPage!Count
  <2> QED BY <1>1, <1>2, <1>3, <2>1
<1>7. CASE rows = {} /\ has
  <2>1. OverviewPage!Count(rows, has) =
          [ready |-> Cardinality(up), total |-> Cardinality(OverviewPage!Registered)]
    BY <1>7, OverviewCounts DEF OverviewPage!Count
  <2>2. PICK a \in Nat, b \in Nat :
          /\ a <= b /\ b <= Cardinality(Nodes)
          /\ OverviewPage!Count(rows, has) = [ready |-> a, total |-> b]
    BY <1>4, <1>5, <2>1
  <2>3. rows = {}
    BY <1>7
  <2> QED BY <1>1, <2>2, <2>3
<1>8. CASE rows = {} /\ ~has
  <2>1. OverviewPage!Count(rows, has) = [ready |-> 0, total |-> 0]
    BY <1>8 DEF OverviewPage!Count
  <2> QED BY <1>1, <1>8, <2>1
<1> QED BY <1>6, <1>7, <1>8

\* One row for each node of either answer.
LEMMA OverviewMerged ==
  ASSUME NEW known \in SUBSET Nodes, NEW nodes \in SUBSET Nodes
  PROVE  RowsOfNodes(OverviewPage!Merge(known, nodes))
<1> DEFINE Row(n) ==
      [of |-> n,
       status |-> IF n \in nodes /\ (n \notin known \/ db[n] # "OFFLINE") THEN k8s[n] ELSE db[n],
       k8sStatus |-> IF n \in nodes /\ n \in known THEN k8s[n] ELSE "undefined",
       label |-> CASE n \notin known -> "Not Assign" [] n \notin nodes -> "No Join Cluster"
                   [] OTHER -> "role"]
<1>1. OverviewPage!Merge(known, nodes) = {Row(n) : n \in known \cup nodes}
  BY Zenon DEF OverviewPage!Merge
<1>2. \A n : Row(n).of = n
  OBVIOUS
<1> HIDE DEF Row
<1> QED BY <1>1, <1>2 DEF RowsOfNodes

\* The cells renderHealth fills.
LEMMA HealthRendered ==
  ASSUME NEW old \in [OverviewPage!Cells -> Shows], NEW rows, NEW has \in BOOLEAN
  PROVE  LET new == OverviewPage!RenderHealth(old, rows, has)
         IN  /\ new \in [OverviewPage!Cells -> Shows]
             /\ new["nodesHealth"] # "spinner" /\ new["pods"] # "spinner"
             /\ rows # {} \/ has => new["nodesHealth"] = "value"
             /\ new["services"] = IF has THEN "value" ELSE old["services"]
             /\ new["events"] = old["events"] /\ new["nodesList"] = old["nodesList"]
             /\ \A c \in Counters : new[c] = old[c]
<1>1. Counters \subseteq {"workloads", "namespaces", "resources"}
  BY PagesAssumption DEF OverviewPage!OverviewAssumption
<1> QED BY <1>1 DEF OverviewPage!RenderHealth, OverviewPage!Cells, Shows

\* A request that goes leaves those of other parts.
LEMMA OthersAsked ==
  ASSUME NEW r \in requests, requests' = requests \ {r}, NEW p, p # r.part, Asks(p)
  PROVE  Asks(p)'
BY DEF Asks

LEMMA OverviewParts ==
  /\ Counters \subseteq {"workloads", "namespaces", "resources"}
  /\ Counters \subseteq OverviewPage!Cells /\ Counters \subseteq OverviewPage!Parts
  /\ {"nodesList", "nodesHealth", "pods", "services", "events"} \subseteq OverviewPage!Cells
  /\ {"health", "nodes"} \subseteq OverviewPage!Parts
BY PagesAssumption DEF OverviewPage!OverviewAssumption, OverviewPage!Cells, OverviewPage!Parts

\* The overview as it is opened.
LEMMA OverviewInit == OverviewPage!Init => OverviewIInv
<1> SUFFICES ASSUME OverviewPage!Init PROVE OverviewIInv
  OBVIOUS
<1> DEFINE Ask(p) == [id |-> 0, part |-> p, lost |-> {}]
<1>1. /\ nodesData = {} /\ healthData = FALSE /\ nReloads = 0
      /\ cells = [c \in OverviewPage!Cells |-> "spinner"] /\ health = [ready |-> 0, total |-> 0]
      /\ requests = {Ask(p) : p \in OverviewPage!Parts}
  BY DEF OverviewPage!Init
<1>2. \A p \in OverviewPage!Parts : Ask(p) \in OverviewRequests /\ Ask(p).part = p
  BY DEF OverviewRequests
<1> HIDE DEF Ask
<1>3. \A p \in OverviewPage!Parts : Asks(p)
  BY <1>1, <1>2 DEF Asks
<1>4. Cardinality(Nodes) \in Nat
  BY NodesAreFinite
<1>5. OverviewTypes
  <2>1. requests \subseteq OverviewRequests
    BY <1>1, <1>2
  <2>2. cells \in [OverviewPage!Cells -> Shows]
    BY <1>1 DEF Shows
  <2>3. healthData \in BOOLEAN /\ nReloads \in Nat /\ RowsOfNodes(nodesData)
    BY <1>1 DEF RowsOfNodes
  <2>4. health \in [ready : Nat, total : Nat] /\ health.ready = 0 /\ health.total = 0
    BY <1>1
  <2> QED BY <1>4, <2>1, <2>2, <2>3, <2>4 DEF OverviewTypes
<1>6. CellsAreAsked
  BY <1>3, OverviewParts DEF CellsAreAsked
<1> QED BY <1>1, <1>5, <1>6 DEF OverviewIInv, HealthOfList

LEMMA OverviewLoaded == ASSUME OverviewIInv, OverviewPage!LoadOverview PROVE OverviewIInv'
<1> DEFINE Ask(p) == [id |-> nReloads + 1, part |-> p, lost |-> {}]
<1>1. /\ nodesData' = {} /\ healthData' = FALSE /\ nReloads' = nReloads + 1
      /\ cells' = [c \in OverviewPage!Cells |-> "spinner"]
      /\ requests' = requests \cup {Ask(p) : p \in OverviewPage!Parts}
      /\ UNCHANGED health
  BY DEF OverviewPage!LoadOverview
<1>2. \A p \in OverviewPage!Parts : Ask(p) \in OverviewRequests /\ Ask(p).part = p
  BY DEF OverviewIInv, OverviewTypes, OverviewRequests
<1> HIDE DEF Ask
<1>3. \A p \in OverviewPage!Parts : Asks(p)'
  BY <1>1, <1>2 DEF Asks
<1>4. OverviewTypes'
  <2>1. requests' \subseteq OverviewRequests
    BY <1>1, <1>2 DEF OverviewIInv, OverviewTypes
  <2>2. cells' \in [OverviewPage!Cells -> Shows]
    BY <1>1 DEF Shows
  <2>3. healthData' \in BOOLEAN /\ RowsOfNodes(nodesData)'
    BY <1>1 DEF RowsOfNodes
  <2>4. nReloads' \in Nat
    BY <1>1 DEF OverviewIInv, OverviewTypes
  <2> QED BY <1>1, <2>1, <2>2, <2>3, <2>4 DEF OverviewIInv, OverviewTypes
<1>5. CellsAreAsked'
  BY <1>3, OverviewParts DEF CellsAreAsked
<1> QED BY <1>1, <1>4, <1>5 DEF OverviewIInv, HealthOfList

LEMMA OverviewHealth ==
  ASSUME OverviewIInv, NEW r \in requests, OverviewPage!GotHealth(r) \/ OverviewPage!HealthFails(r)
  PROVE  OverviewIInv'
<1> USE DEF OverviewIInv
<1>1. PICK has \in BOOLEAN, mark \in {"value", "N/A"} :
        /\ r.part = "health" /\ requests' = requests \ {r} /\ healthData' = has
        /\ health' = OverviewPage!Count(nodesData, has)
        /\ cells' = [OverviewPage!RenderHealth(cells, nodesData, has) EXCEPT !["events"] = mark]
        /\ UNCHANGED <<nodesData, list, nReloads>>
        /\ failures \subseteq failures'
        /\ ~has => \E f \in failures' : f[1] = "health"
  <2>1. CASE OverviewPage!GotHealth(r)
    BY <2>1 DEF OverviewPage!GotHealth
  <2>2. CASE OverviewPage!HealthFails(r)
    <3>1. /\ r.part = "health" /\ requests' = requests \ {r} /\ healthData' = FALSE
          /\ health' = OverviewPage!Count(nodesData, FALSE)
          /\ cells' = [OverviewPage!RenderHealth(cells, nodesData, FALSE) EXCEPT !["events"] = "N/A"]
          /\ UNCHANGED <<nodesData, list, nReloads>>
          /\ failures' = failures \cup {<<"health", r.id>>}
      BY <2>2 DEF OverviewPage!HealthFails
    <3>2. <<"health", r.id>>[1] = "health" /\ <<"health", r.id>> \in failures'
      BY <3>1
    <3> QED BY <3>1, <3>2
  <2> QED BY <2>1, <2>2
<1> DEFINE new == OverviewPage!RenderHealth(cells, nodesData, has)
<1>2. /\ new \in [OverviewPage!Cells -> Shows]
      /\ new["nodesHealth"] # "spinner" /\ new["pods"] # "spinner"
      /\ nodesData # {} => new["nodesHealth"] = "value"
      /\ new["services"] = IF has THEN "value" ELSE cells["services"]
      /\ new["nodesList"] = cells["nodesList"]
      /\ \A c \in Counters : new[c] = cells[c]
  BY HealthRendered DEF OverviewTypes
<1>3. cells' = [new EXCEPT !["events"] = mark]
  BY <1>1
<1> HIDE DEF new
<1>4. /\ health' \in [ready : Nat, total : Nat]
      /\ health'.ready <= health'.total /\ health'.total <= Cardinality(Nodes)
      /\ nodesData # {} => health'.total = Cardinality(nodesData)
  BY <1>1, Counted DEF OverviewTypes
<1>5. /\ cells' \in [OverviewPage!Cells -> Shows] /\ cells'["events"] = mark
      /\ \A c \in OverviewPage!Cells : c # "events" => cells'[c] = new[c]
  BY <1>2, <1>3, OverviewParts DEF Shows
<1>6. OverviewTypes'
  BY <1>1, <1>4, <1>5 DEF OverviewTypes, RowsOfNodes
<1>7. CellsAreAsked'
  <2>1. \A p : p # "health" /\ Asks(p) => Asks(p)'
    BY <1>1, OthersAsked
  <2>2. "health" \notin Counters /\ "events" \notin Counters
    BY OverviewParts
  <2> QED BY <1>1, <1>2, <1>5, <2>1, <2>2, OverviewParts DEF CellsAreAsked
<1>8. HealthOfList'
  BY <1>1, <1>2, <1>4, <1>5, OverviewParts DEF HealthOfList
<1> QED BY <1>6, <1>7, <1>8

LEMMA OverviewNodes ==
  ASSUME OverviewIInv, NEW r \in requests, OverviewPage!GotNodes(r) PROVE OverviewIInv'
<1> USE DEF OverviewIInv
<1> DEFINE old == [cells EXCEPT !["nodesList"] = "value"]
<1>1. /\ r.part = "nodes" /\ requests' = requests \ {r} /\ list' = nodesData'
      /\ health' = OverviewPage!Count(nodesData', healthData)
      /\ cells' = OverviewPage!RenderHealth(old, nodesData', healthData)
      /\ UNCHANGED <<healthData, nReloads, failures>>
  BY DEF OverviewPage!GotNodes
<1>2. RowsOfNodes(nodesData')
  <2>1. PICK known \in SUBSET Nodes, nodes \in SUBSET Nodes :
          nodesData' = OverviewPage!Merge(known, nodes)
    BY DEF OverviewPage!GotNodes, OverviewPage!Registered
  <2> QED BY <2>1, OverviewMerged
<1>3. /\ old \in [OverviewPage!Cells -> Shows] /\ old["nodesList"] = "value"
      /\ \A c \in OverviewPage!Cells : c # "nodesList" => old[c] = cells[c]
  BY OverviewParts DEF OverviewTypes, Shows
<1> HIDE DEF old
<1>4. /\ cells' \in [OverviewPage!Cells -> Shows] /\ healthData \in BOOLEAN
      /\ cells'["nodesHealth"] # "spinner" /\ cells'["pods"] # "spinner"
      /\ nodesData' # {} => cells'["nodesHealth"] = "value"
      /\ cells'["services"] = IF healthData THEN "value" ELSE old["services"]
      /\ cells'["events"] = old["events"] /\ cells'["nodesList"] = old["nodesList"]
      /\ \A c \in Counters : cells'[c] = old[c]
  <2>1. healthData \in BOOLEAN
    BY DEF OverviewTypes
  <2>2. PICK rows : rows = nodesData'
    OBVIOUS
  <2> QED BY <1>1, <1>3, <2>1, <2>2, HealthRendered
<1>5. /\ health' \in [ready : Nat, total : Nat]
      /\ health'.ready <= health'.total /\ health'.total <= Cardinality(Nodes)
      /\ nodesData' # {} => health'.total = Cardinality(nodesData')
  <2>1. PICK rows : rows = nodesData'
    OBVIOUS
  <2> QED BY <1>1, <1>2, <1>4, <2>1, Counted
<1>6. OverviewTypes'
  BY <1>1, <1>2, <1>4, <1>5 DEF OverviewTypes, RowsOfNodes
<1>7. CellsAreAsked'
  <2>1. \A p : p # "nodes" /\ Asks(p) => Asks(p)'
    BY <1>1, OthersAsked
  <2>2. "nodes" \notin Counters /\ "nodesList" \notin Counters
    BY OverviewParts
  <2> QED BY <1>1, <1>3, <1>4, <2>1, <2>2, OverviewParts DEF CellsAreAsked
<1>8. HealthOfList'
  BY <1>1, <1>4, <1>5 DEF HealthOfList
<1> QED BY <1>6, <1>7, <1>8

LEMMA OverviewNodesFail ==
  ASSUME OverviewIInv, NEW r \in requests, OverviewPage!NodesFail(r) PROVE OverviewIInv'
<1> USE DEF OverviewIInv
<1>1. PICK what \in {"database", "kubernetes"} \ r.lost :
        /\ failures' = failures \cup {<<what, r.id>>}
        /\ requests' = (requests \ {r}) \cup {[r EXCEPT !.lost = @ \cup {what}]}
  BY DEF OverviewPage!NodesFail
<1>2. UNCHANGED <<nodesData, healthData, cells, health, list, nReloads>>
  BY DEF OverviewPage!NodesFail
<1> DEFINE new == [r EXCEPT !.lost = @ \cup {what}]
<1>3. new \in OverviewRequests /\ new.part = r.part
  BY DEF OverviewTypes, OverviewRequests
<1>4. requests' = (requests \ {r}) \cup {new}
  BY <1>1
<1> HIDE DEF new
<1>5. \A p : Asks(p) => Asks(p)'
  BY <1>3, <1>4 DEF Asks
<1>6. failures \subseteq failures'
  BY <1>1
<1>7. OverviewTypes'
  BY <1>2, <1>3, <1>4 DEF OverviewTypes, RowsOfNodes
<1>8. CellsAreAsked' /\ HealthOfList'
  BY <1>2, <1>5, <1>6 DEF CellsAreAsked, HealthOfList
<1> QED BY <1>7, <1>8

LEMMA OverviewCell ==
  ASSUME OverviewIInv, NEW r \in requests, OverviewPage!GotCell(r) \/ OverviewPage!CellFails(r)
  PROVE  OverviewIInv'
<1> USE DEF OverviewIInv
<1>1. PICK mark \in {"value", "N/A"} :
        /\ r.part \in Counters /\ requests' = requests \ {r}
        /\ cells' = [cells EXCEPT ![r.part] = mark]
        /\ UNCHANGED <<nodesData, healthData, health, list, nReloads>>
        /\ failures \subseteq failures'
  <2>1. CASE OverviewPage!GotCell(r)
    BY <2>1 DEF OverviewPage!GotCell
  <2>2. CASE OverviewPage!CellFails(r)
    BY <2>2 DEF OverviewPage!CellFails
  <2> QED BY <2>1, <2>2
<1>2. /\ cells' \in [OverviewPage!Cells -> Shows] /\ cells'[r.part] # "spinner"
      /\ \A c \in OverviewPage!Cells : c # r.part => cells'[c] = cells[c]
  BY <1>1, OverviewParts DEF OverviewTypes, Shows
<1>3. OverviewTypes'
  BY <1>1, <1>2 DEF OverviewTypes, RowsOfNodes
<1>4. CellsAreAsked'
  <2>1. \A p : p # r.part /\ Asks(p) => Asks(p)'
    BY <1>1, OthersAsked
  <2> QED BY <1>1, <1>2, <2>1, OverviewParts DEF CellsAreAsked
<1>5. HealthOfList'
  BY <1>1, <1>2, OverviewParts DEF HealthOfList
<1> QED BY <1>3, <1>4, <1>5

\* Each action of the overview keeps its invariant.
LEMMA OverviewStep == ASSUME OverviewIInv, OverviewPage!Next PROVE OverviewIInv'
BY OverviewLoaded, OverviewHealth, OverviewNodes, OverviewNodesFail, OverviewCell
   DEF OverviewPage!Next

LEMMA OverviewShown ==
  OverviewIInv => /\ OverviewPage!OverviewTypeOK
                  /\ OverviewPage!SettledIsFilled /\ OverviewPage!CountsTheList
<1> SUFFICES ASSUME OverviewIInv
             PROVE  /\ OverviewPage!OverviewTypeOK
                    /\ OverviewPage!SettledIsFilled /\ OverviewPage!CountsTheList
  OBVIOUS
<1> USE DEF OverviewIInv
<1>1. Cardinality(Nodes) \in Nat
  BY NodesAreFinite
<1>2. OverviewPage!OverviewTypeOK
  BY <1>1, OverviewCounts DEF OverviewTypes, OverviewRequests, RowsOfNodes, Shows,
                              OverviewPage!OverviewTypeOK
<1>3. OverviewPage!SettledIsFilled
  BY DEF CellsAreAsked, Asks, OverviewPage!SettledIsFilled, OverviewPage!Cells
<1>4. OverviewPage!CountsTheList
  BY OverviewCounts DEF HealthOfList, OverviewPage!CountsTheList
<1> QED BY <1>2, <1>3, <1>4
-------------------------------------------------------------------------------
(* The nodes page *)

NodeRows ==
  [of : Nodes, named : BOOLEAN, status : {"ONLINE", "OFFLINE", "Unknown"},
   k8sStatus : {"Unknown", "Ready", "NotReady"}, unregistered : BOOLEAN, unassigned : BOOLEAN]
NodesOrNone == Nodes \cup {"none"}
NodeWindows ==
  [title : NodesOrNone, info : NodesOrNone, pods : NodesOrNone, labels : NodesOrNone,
   yaml : NodesOrNone, yamlOf : NodesOrNone, loaded : BOOLEAN, shown : BOOLEAN]
NodeQuestions == [kind : {"pods", "yaml"}, of : Nodes, id : Nat]

NodeSources ==
  /\ db \in [Nodes -> {"absent", "ONLINE", "OFFLINE"}]
  /\ k8s \in [Nodes -> {"absent", "Ready", "NotReady"}]

\* The rows and the table; the window.
NodeRowTypes ==
  /\ NodeSources /\ nodesData \subseteq NodeRows /\ RowsOfNodes(nodesData)
  /\ filter \in [role : NodesPage!Roles, status : NodesPage!Statuses]
  /\ table.show \in {"spinner", "rows"} /\ \A row \in table.rows : row.of \in Nodes
  /\ loads \subseteq [id : Nat, at : {"database", "kubernetes"}] /\ nLoads \in Nat
NodeWindowTypes == window \in NodeWindows /\ asked \subseteq NodeQuestions /\ nClicks \in Nat

DatabaseAnswers == \A f \in failures : f[1] # "database"
Of(rows) == {row.of : row \in rows}

\* While the database answers, a load that waits for Kubernetes, or is over, has left the
\* rows of all the servers, and calls none of them not assigned.
NodesOfDatabase ==
  DatabaseAnswers =>
    /\ (\E r \in loads : r.at = "kubernetes") => NodesPage!Assigned \subseteq Of(nodesData)
    /\ \A row \in nodesData : row.unassigned <=> row.of \notin NodesPage!Assigned
    /\ \A row \in table.rows : row.of \in NodesPage!Assigned => row.role # "Not Assign"

\* What a row says is so, as far as it has been merged.
RowIsTrue(row) ==
  /\ row.of \in NodesPage!Assigned \cup NodesPage!Registered
  /\ row.unregistered => row.of \notin NodesPage!Registered
  /\ row.status = IF row.of \in NodesPage!Assigned THEN db[row.of] ELSE "Unknown"

NodesSettled ==
  failures = {} /\ NodesPage!Assigned # {} /\ NodesPage!Registered # {} =>
    /\ \A row \in nodesData : RowIsTrue(row)
    /\ loads = {} =>
         /\ Of(nodesData) = NodesPage!Assigned \cup NodesPage!Registered
         /\ \A row \in nodesData : row.unregistered <=> row.of \notin NodesPage!Registered
         /\ table = NodesPage!Table(nodesData, filter)

\* The pods asked for are those of the title, unless another window was waiting for its.
WindowInOrder ==
  /\ window.info = window.title
  /\ ~overlaid =>
       /\ \A q \in asked : q.kind = "pods" => q.of = window.title
       /\ window.shown /\ (\A q \in asked : q.kind # "pods") =>
            window.pods = window.title /\ window.labels = window.title /\ window.yamlOf = window.title

NodesRowsIInv == NodeRowTypes /\ NodesOfDatabase /\ NodesSettled
NodesWindowIInv == NodeWindowTypes /\ WindowInOrder
NodesIInv == NodesRowsIInv /\ NodesWindowIInv

\* The rows of the database.
LEMMA RowsOfDatabase ==
  ASSUME NodeSources
  PROVE  /\ NodesPage!DbRows \subseteq NodeRows /\ RowsOfNodes(NodesPage!DbRows)
         /\ Of(NodesPage!DbRows) = NodesPage!Assigned
         /\ \A row \in NodesPage!DbRows :
              ~row.unassigned /\ ~row.unregistered /\ row.status = db[row.of]
<1>1. \A n \in NodesPage!Assigned :
        /\ NodesPage!DbRow(n) \in NodeRows /\ NodesPage!DbRow(n).of = n
        /\ NodesPage!DbRow(n).status = db[n]
        /\ ~NodesPage!DbRow(n).unassigned /\ ~NodesPage!DbRow(n).unregistered
  BY DEF NodeSources, NodeRows, NodesPage!DbRow, NodesPage!Assigned
<1>2. NodesPage!Assigned \subseteq Nodes
  BY DEF NodesPage!Assigned
<1> QED BY <1>1, <1>2 DEF NodesPage!DbRows, RowsOfNodes, Of

\* Kubernetes' answer merged into rows: what it adds and what it leaves.
LEMMA RowsMerged ==
  ASSUME NodeSources, NEW rows \in SUBSET NodeRows, RowsOfNodes(rows)
  PROVE  /\ NodesPage!Merge(rows) \subseteq NodeRows /\ RowsOfNodes(NodesPage!Merge(rows))
         /\ Of(NodesPage!Merge(rows)) = Of(rows) \cup NodesPage!Registered
         /\ \A new \in NodesPage!Merge(rows) :
              /\ new.unregistered <=> new.of \notin NodesPage!Registered
              /\ \/ \E row \in rows : /\ new.of = row.of /\ new.status = row.status
                                      /\ new.unassigned = row.unassigned
                 \/ /\ new.of \in NodesPage!Registered \ Of(rows)
                    /\ new.unassigned /\ new.status = "Unknown"
<1> DEFINE Old(row) ==
             IF row.of \in NodesPage!Registered
             THEN [row EXCEPT !.named = TRUE, !.k8sStatus = k8s[row.of], !.unregistered = FALSE]
             ELSE [row EXCEPT !.unregistered = TRUE]
           New(n) == [of |-> n, named |-> TRUE, status |-> "Unknown", k8sStatus |-> k8s[n],
                      unregistered |-> FALSE, unassigned |-> TRUE]
<1>1. NodesPage!Merge(rows) =
        {Old(row) : row \in rows} \cup {New(n) : n \in NodesPage!Registered \ Of(rows)}
  BY Zenon DEF NodesPage!Merge, Of
<1>2. \A row \in rows :
        /\ Old(row) \in NodeRows /\ Old(row).of = row.of /\ Old(row).status = row.status
        /\ Old(row).unassigned = row.unassigned
        /\ Old(row).unregistered <=> row.of \notin NodesPage!Registered
  <2> SUFFICES ASSUME NEW row \in NodeRows
               PROVE  /\ Old(row) \in NodeRows /\ Old(row).of = row.of
                      /\ Old(row).status = row.status /\ Old(row).unassigned = row.unassigned
                      /\ Old(row).unregistered <=> row.of \notin NodesPage!Registered
    OBVIOUS
  <2>1. row.of \in NodesPage!Registered => k8s[row.of] \in {"Ready", "NotReady"}
    BY DEF NodeSources, NodeRows, NodesPage!Registered
  <2>2. CASE row.of \in NodesPage!Registered
    BY <2>1, <2>2 DEF NodeRows
  <2>3. CASE row.of \notin NodesPage!Registered
    BY <2>3 DEF NodeRows
  <2> QED BY <2>2, <2>3
<1>3. \A n \in NodesPage!Registered :
        /\ New(n) \in NodeRows /\ New(n).of = n /\ New(n).status = "Unknown"
        /\ New(n).unassigned /\ ~New(n).unregistered
  BY DEF NodeSources, NodeRows, NodesPage!Registered
<1> HIDE DEF Old, New
<1>4. NodesPage!Merge(rows) \subseteq NodeRows
  BY <1>1, <1>2, <1>3
<1>5. RowsOfNodes(NodesPage!Merge(rows))
  <2>1. \A row \in NodesPage!Merge(rows) : row.of \in Nodes
    BY <1>4 DEF NodeRows
  <2>2. \A row, other \in NodesPage!Merge(rows) : row.of = other.of => row = other
    BY <1>1, <1>2, <1>3 DEF RowsOfNodes, Of
  <2> QED BY <2>1, <2>2 DEF RowsOfNodes
<1>6. Of(NodesPage!Merge(rows)) = Of(rows) \cup NodesPage!Registered
  BY <1>1, <1>2, <1>3 DEF Of
<1>7. \A new \in NodesPage!Merge(rows) :
        /\ new.unregistered <=> new.of \notin NodesPage!Registered
        /\ \/ \E row \in rows : /\ new.of = row.of /\ new.status = row.status
                                /\ new.unassigned = row.unassigned
           \/ /\ new.of \in NodesPage!Registered \ Of(rows)
              /\ new.unassigned /\ new.status = "Unknown"
  BY <1>1, <1>2, <1>3
<1> QED BY <1>4, <1>5, <1>6, <1>7

LEMMA RowsUnmerged ==
  ASSUME NEW rows \in SUBSET NodeRows, RowsOfNodes(rows)
  PROVE  /\ NodesPage!MergeNothing(rows) \subseteq NodeRows
         /\ RowsOfNodes(NodesPage!MergeNothing(rows))
         /\ Of(NodesPage!MergeNothing(rows)) = Of(rows)
         /\ \A new \in NodesPage!MergeNothing(rows) :
              \E row \in rows : new.of = row.of /\ new.unassigned = row.unassigned
<1> DEFINE Old(row) == IF row.status = "OFFLINE" THEN row ELSE [row EXCEPT !.unregistered = TRUE]
<1>1. NodesPage!MergeNothing(rows) = {Old(row) : row \in rows}
  BY Zenon DEF NodesPage!MergeNothing
<1>2. \A row \in rows :
        Old(row) \in NodeRows /\ Old(row).of = row.of /\ Old(row).unassigned = row.unassigned
  BY DEF NodeRows
<1> HIDE DEF Old
<1> QED BY <1>1, <1>2 DEF RowsOfNodes, Of

\* What the table shows of a row.
LEMMA RowShown ==
  ASSUME NEW row \in NodeRows
  PROVE  /\ NodesPage!Shown(row).of = row.of
         /\ (NodesPage!Shown(row).role = "Not Assign") = row.unassigned
         /\ NodesPage!Shown(row).role = "No Join Cluster" <=> ~row.unassigned /\ row.unregistered
         /\ NodesPage!Shown(row).status = "OFFLINE" <=> row.status = "OFFLINE"
<1> DEFINE role == NodesPage!Shown(row).role
<1>1. /\ NodesPage!Shown(row).of = row.of
      /\ NodesPage!Shown(row).status = "OFFLINE" <=> row.status = "OFFLINE"
  BY DEF NodesPage!Shown, NodeRows
<1>2. CASE row.unassigned
  <2>1. row.unassigned = TRUE
    BY <1>2 DEF NodeRows
  <2>2. role = "Not Assign"
    BY <1>2 DEF NodesPage!Shown
  <2> QED BY <1>1, <2>1, <2>2
<1>3. CASE ~row.unassigned /\ row.unregistered
  <2>1. role = "No Join Cluster" /\ row.unassigned = FALSE /\ row.unregistered = TRUE
    BY <1>3 DEF NodesPage!Shown, NodeRows
  <2> QED BY <1>1, <2>1
<1>4. CASE ~row.unassigned /\ ~row.unregistered
  <2>1. role \in {"MASTER", "WORKER"} /\ row.unassigned = FALSE /\ row.unregistered = FALSE
    BY <1>4 DEF NodesPage!Shown, NodeRows
  <2> QED BY <1>1, <2>1
<1> QED BY <1>2, <1>3, <1>4

LEMMA TableShown ==
  ASSUME NEW rows \in SUBSET NodeRows, NEW f
  PROVE  /\ NodesPage!Table(rows, f).show = "rows"
         /\ \A s \in NodesPage!Table(rows, f).rows : \E row \in rows : s = NodesPage!Shown(row)
BY DEF NodesPage!Table

LEMMA TableOfNodes ==
  ASSUME NEW rows \in SUBSET NodeRows, NEW f
  PROVE  /\ NodesPage!Table(rows, f).show = "rows"
         /\ \A s \in NodesPage!Table(rows, f).rows : s.of \in Nodes
<1> SUFFICES ASSUME NEW s \in NodesPage!Table(rows, f).rows PROVE s.of \in Nodes
  BY TableShown
<1>1. PICK row \in rows : s = NodesPage!Shown(row)
  BY TableShown
<1>2. s.of = row.of /\ row.of \in Nodes
  BY <1>1, RowShown DEF NodeRows
<1> QED BY <1>2

\* So nothing of an assigned server is shown as not assigned.
LEMMA AssignedShown ==
  ASSUME NEW rows \in SUBSET NodeRows, NEW f, NEW assigned,
         \A row \in rows : row.of \in Nodes /\ (row.unassigned => row.of \notin assigned)
  PROVE  /\ NodesPage!Table(rows, f).show = "rows"
         /\ \A s \in NodesPage!Table(rows, f).rows :
              s.of \in Nodes /\ (s.of \in assigned => s.role # "Not Assign")
<1> SUFFICES ASSUME NEW s \in NodesPage!Table(rows, f).rows
             PROVE  s.of \in Nodes /\ (s.of \in assigned => s.role # "Not Assign")
  BY TableShown
<1>1. PICK row \in rows : s = NodesPage!Shown(row)
  BY TableShown
<1>2. s.of = row.of /\ (s.role = "Not Assign") = row.unassigned
  BY <1>1, RowShown
<1> QED BY <1>2

\* A failure is kept, with what it asked.
LEMMA NodeFailureKept ==
  ASSUME NEW what, NEW id, NodesPage!Failure(what, id)
  PROVE  /\ failures' # {} /\ failures \subseteq failures'
         /\ what = "database" => ~DatabaseAnswers'
<1>1. failures' = failures \cup {<<what, id>>}
  BY DEF NodesPage!Failure
<1>2. <<what, id>> \in failures' /\ <<what, id>>[1] = what
  BY <1>1
<1> QED BY <1>1, <1>2 DEF DatabaseAnswers

\* The nodes page as it is opened.
LEMMA NodesInit == NodesPage!Init => NodesIInv
<1> SUFFICES ASSUME NodesPage!Init PROVE NodesIInv
  OBVIOUS
<1>1. /\ NodeSources /\ nodesData = {} /\ filter = [role |-> "any", status |-> "any"]
      /\ table = [show |-> "spinner", rows |-> {}] /\ loads = {[id |-> 0, at |-> "database"]}
      /\ window = [title |-> "none", info |-> "none", pods |-> "none", labels |-> "none",
                   yaml |-> "none", yamlOf |-> "none", loaded |-> FALSE, shown |-> FALSE]
      /\ asked = {} /\ nLoads = 0 /\ nClicks = 0
  BY DEF NodesPage!Init, NodesPage!Spinner, NodeSources
<1>2. NodeRowTypes
  BY <1>1 DEF NodeRowTypes, RowsOfNodes, NodesPage!Roles, NodesPage!Statuses
<1> DEFINE first == [id |-> 0, at |-> "database"]
<1>3. NodesOfDatabase /\ NodesSettled
  <2>1. loads = {first} /\ first.at = "database"
    BY <1>1
  <2> HIDE DEF first
  <2> QED BY <1>1, <2>1 DEF NodesOfDatabase, NodesSettled
<1>4. NodesWindowIInv
  BY <1>1 DEF NodesWindowIInv, NodeWindowTypes, NodeWindows, NodesOrNone, WindowInOrder
<1> QED BY <1>2, <1>3, <1>4 DEF NodesIInv, NodesRowsIInv

-------------------------------------------------------------------------------
\* Steps of the rows and the table.
LEMMA NodesLoaded ==
  ASSUME NodesRowsIInv, NodesPage!Load PROVE NodesRowsIInv'
<1> USE DEF NodesRowsIInv
<1>1. /\ loads' = loads \cup {[id |-> nLoads + 1, at |-> "database"]}
      /\ table' = [show |-> "spinner", rows |-> {}] /\ nLoads' = nLoads + 1
      /\ UNCHANGED <<db, k8s, nodesData, filter, failures>>
  BY DEF NodesPage!Load, NodesPage!Spinner
<1>2. NodeRowTypes'
  BY <1>1 DEF NodeRowTypes, NodeSources, RowsOfNodes
<1> DEFINE new == [id |-> nLoads + 1, at |-> "database"]
<1>3. NodesOfDatabase'
  <2>1. loads' = loads \cup {new} /\ new.at = "database"
    BY <1>1
  <2> HIDE DEF new
  <2>2. NodesPage!Assigned' = NodesPage!Assigned
    BY <1>1 DEF NodesPage!Assigned
  <2> QED BY <1>1, <2>1, <2>2 DEF NodesOfDatabase, DatabaseAnswers, Of
<1>4. NodesSettled'
  BY <1>1 DEF NodesSettled, RowIsTrue, NodesPage!Assigned, NodesPage!Registered
<1> QED BY <1>2, <1>3, <1>4

LEMMA DatabaseGot ==
  ASSUME NodesRowsIInv, NEW r \in loads, NodesPage!GotDatabase(r) PROVE NodesRowsIInv'
<1> USE DEF NodesRowsIInv
<1> DEFINE next == [r EXCEPT !.at = "kubernetes"]
<1>1. /\ nodesData' = NodesPage!DbRows
      /\ UNCHANGED <<db, k8s, filter, failures, nLoads>>
      /\ \/ /\ NodesPage!Assigned = {} /\ loads' = loads \ {r}
            /\ table' = [show |-> "rows", rows |-> {}]
         \/ NodesPage!Assigned # {} /\ loads' = (loads \ {r}) \cup {next} /\ UNCHANGED table
  BY DEF NodesPage!GotDatabase
<1>2. next \in [id : Nat, at : {"database", "kubernetes"}]
  BY DEF NodeRowTypes
<1> HIDE DEF next
<1>3. /\ nodesData' \subseteq NodeRows /\ RowsOfNodes(nodesData')
      /\ Of(nodesData') = NodesPage!Assigned
      /\ \A row \in nodesData' :
           /\ ~row.unassigned /\ ~row.unregistered /\ row.status = db[row.of]
           /\ row.of \in NodesPage!Assigned
  BY <1>1, RowsOfDatabase DEF NodeRowTypes, Of
<1>4. /\ NodesPage!Assigned' = NodesPage!Assigned
      /\ NodesPage!Registered' = NodesPage!Registered
  BY <1>1 DEF NodesPage!Assigned, NodesPage!Registered
<1>5. NodeRowTypes'
  BY <1>1, <1>2, <1>3 DEF NodeRowTypes, NodeSources, RowsOfNodes
<1>6. NodesOfDatabase'
  BY <1>1, <1>3, <1>4 DEF NodesOfDatabase, DatabaseAnswers, Of
<1>7. NodesSettled'
  BY <1>1, <1>3, <1>4 DEF NodesSettled, RowIsTrue
<1> QED BY <1>5, <1>6, <1>7

LEMMA DatabaseFailed ==
  ASSUME NodesRowsIInv, NEW r \in loads, NodesPage!DatabaseFails(r) PROVE NodesRowsIInv'
<1> USE DEF NodesRowsIInv
<1>1. /\ nodesData' = {} /\ loads' = loads \ {r} /\ table' = [show |-> "rows", rows |-> {}]
      /\ UNCHANGED <<db, k8s, filter, nLoads>> /\ NodesPage!Failure("database", r.id)
  BY DEF NodesPage!DatabaseFails
<1>2. NodeRowTypes'
  BY <1>1 DEF NodeRowTypes, NodeSources, RowsOfNodes
<1> QED BY <1>1, <1>2, NodeFailureKept DEF NodesOfDatabase, NodesSettled

\* Kubernetes answers a load, or fails it; the rows are those left by a load.
LEMMA KubernetesGot ==
  ASSUME NodesRowsIInv, NEW r \in loads, NodesPage!GotKubernetes(r) \/ NodesPage!KubernetesFails(r)
  PROVE  NodesRowsIInv'
<1> USE DEF NodesRowsIInv
<1>1. /\ r.at = "kubernetes" /\ loads' = loads \ {r} /\ table' = NodesPage!Table(nodesData', filter)
      /\ UNCHANGED <<db, k8s, filter, nLoads>>
      /\ \/ /\ nodesData' = NodesPage!Merge(nodesData)
            /\ UNCHANGED failures
         \/ /\ nodesData' = NodesPage!MergeNothing(nodesData)
            /\ failures \subseteq failures' /\ (NodesPage!Registered = {} \/ failures' # {})
  BY NodeFailureKept DEF NodesPage!GotKubernetes, NodesPage!KubernetesFails
<1>2. /\ NodesPage!Assigned' = NodesPage!Assigned
      /\ NodesPage!Registered' = NodesPage!Registered
  BY <1>1 DEF NodesPage!Assigned, NodesPage!Registered
<1>3. NodeSources /\ nodesData \in SUBSET NodeRows /\ RowsOfNodes(nodesData)
  BY DEF NodeRowTypes
<1>4. nodesData' \in SUBSET NodeRows /\ RowsOfNodes(nodesData')
  BY <1>1, <1>3, RowsMerged, RowsUnmerged
<1>5. NodeRowTypes'
  <2>1. table'.show \in {"spinner", "rows"} /\ \A s \in table'.rows : s.of \in Nodes
    BY <1>1, <1>4, TableOfNodes
  <2> QED BY <1>1, <1>4, <2>1 DEF NodeRowTypes, NodeSources, RowsOfNodes
<1>6. NodesOfDatabase'
  <2> SUFFICES ASSUME DatabaseAnswers'
               PROVE  /\ NodesPage!Assigned \subseteq Of(nodesData')
                      /\ \A row \in nodesData' : row.unassigned <=> row.of \notin NodesPage!Assigned
                      /\ \A s \in table'.rows : s.of \in NodesPage!Assigned => s.role # "Not Assign"
    BY <1>2 DEF NodesOfDatabase, Of
  <2>1. DatabaseAnswers
    BY <1>1 DEF DatabaseAnswers
  <2>2. /\ NodesPage!Assigned \subseteq Of(nodesData)
        /\ \A row \in nodesData : row.unassigned <=> row.of \notin NodesPage!Assigned
    BY <1>1, <2>1 DEF NodesOfDatabase
  <2>3. /\ NodesPage!Assigned \subseteq Of(nodesData')
        /\ \A row \in nodesData' : row.unassigned <=> row.of \notin NodesPage!Assigned
    BY <1>1, <1>3, <2>2, RowsMerged, RowsUnmerged
  <2>4. PICK rows \in SUBSET NodeRows : rows = nodesData' /\ \A row \in rows : row.of \in Nodes
    BY <1>4 DEF RowsOfNodes
  <2> QED BY <1>1, <2>3, <2>4, AssignedShown
<1>7. NodesSettled'
  <2> SUFFICES ASSUME failures' = {}, NodesPage!Assigned # {}, NodesPage!Registered # {}
               PROVE  /\ \A row \in nodesData' : RowIsTrue(row)'
                      /\ Of(nodesData') = NodesPage!Assigned \cup NodesPage!Registered
                      /\ \A row \in nodesData' : row.unregistered <=> row.of \notin NodesPage!Registered
    BY <1>1, <1>2 DEF NodesSettled, Of
  <2>1. nodesData' = NodesPage!Merge(nodesData) /\ failures = {}
    BY <1>1
  <2>2. /\ \A row \in nodesData : RowIsTrue(row)
        /\ NodesPage!Assigned \subseteq Of(nodesData)
    BY <1>1, <2>1 DEF NodesSettled, NodesOfDatabase, DatabaseAnswers
  <2>3. Of(nodesData') = Of(nodesData) \cup NodesPage!Registered
    BY <1>3, <2>1, RowsMerged
  <2>4. Of(nodesData) \subseteq NodesPage!Assigned \cup NodesPage!Registered
    BY <2>2 DEF RowIsTrue, Of
  <2>5. \A row \in nodesData' : row.unregistered <=> row.of \notin NodesPage!Registered
    BY <1>3, <2>1, RowsMerged
  <2>6. \A row \in nodesData' :
          row.status = IF row.of \in NodesPage!Assigned THEN db[row.of] ELSE "Unknown"
    BY <1>3, <2>1, <2>2, RowsMerged DEF RowIsTrue
  <2>7. \A row \in nodesData' : row.of \in Of(nodesData')
    BY DEF Of
  <2> QED BY <1>1, <1>2, <2>2, <2>3, <2>4, <2>5, <2>6, <2>7 DEF RowIsTrue
<1> QED BY <1>5, <1>6, <1>7

LEMMA NodesFiltered ==
  ASSUME NodesRowsIInv, NEW role \in NodesPage!Roles, NEW status \in NodesPage!Statuses,
         NodesPage!ApplyFilters(role, status)
  PROVE  NodesRowsIInv'
<1> USE DEF NodesRowsIInv
<1>1. /\ filter' = [role |-> role, status |-> status] /\ table' = NodesPage!Table(nodesData, filter')
      /\ UNCHANGED <<db, k8s, nodesData, loads, nLoads, failures>>
  BY DEF NodesPage!ApplyFilters
<1>2. nodesData \in SUBSET NodeRows /\ RowsOfNodes(nodesData)
  BY DEF NodeRowTypes
<1>3. /\ NodesPage!Assigned' = NodesPage!Assigned
      /\ NodesPage!Registered' = NodesPage!Registered
  BY <1>1 DEF NodesPage!Assigned, NodesPage!Registered
<1>4. NodeRowTypes'
  <2>1. PICK f : f = filter'
    OBVIOUS
  <2>2. table'.show \in {"spinner", "rows"} /\ \A s \in table'.rows : s.of \in Nodes
    BY <1>1, <1>2, <2>1, TableOfNodes
  <2> QED BY <1>1, <2>2 DEF NodeRowTypes, NodeSources, RowsOfNodes
<1>5. NodesOfDatabase'
  <2>1. DatabaseAnswers =>
          \A s \in table'.rows : s.of \in NodesPage!Assigned => s.role # "Not Assign"
    <3> SUFFICES ASSUME DatabaseAnswers
                 PROVE  \A s \in table'.rows : s.of \in NodesPage!Assigned => s.role # "Not Assign"
      OBVIOUS
    <3>1. \A row \in nodesData :
            row.of \in Nodes /\ (row.unassigned => row.of \notin NodesPage!Assigned)
      BY <1>2 DEF NodesOfDatabase, RowsOfNodes
    <3>2. PICK f : f = filter'
      OBVIOUS
    <3> QED BY <1>1, <1>2, <3>1, <3>2, AssignedShown
  <2> QED BY <1>1, <1>3, <2>1 DEF NodesOfDatabase, DatabaseAnswers, Of
<1>6. NodesSettled'
  BY <1>1, <1>3 DEF NodesSettled, RowIsTrue, Of
<1> QED BY <1>4, <1>5, <1>6

\* The window's steps leave the rows alone.
LEMMA NodeRowsKept ==
  ASSUME NodesRowsIInv, failures \subseteq failures',
         UNCHANGED <<db, k8s, nodesData, filter, table, loads, nLoads>>
  PROVE  NodesRowsIInv'
<1> USE DEF NodesRowsIInv
<1>1. /\ NodesPage!Assigned' = NodesPage!Assigned
      /\ NodesPage!Registered' = NodesPage!Registered
  BY DEF NodesPage!Assigned, NodesPage!Registered
<1>2. NodeRowTypes'
  BY DEF NodeRowTypes, NodeSources, RowsOfNodes
<1>3. NodesOfDatabase'
  BY <1>1 DEF NodesOfDatabase, DatabaseAnswers, Of
<1>4. NodesSettled'
  <2>1. NodesPage!Table(nodesData, filter)' = NodesPage!Table(nodesData, filter)
    BY DEF NodesPage!Table
  <2> QED BY <1>1, <2>1 DEF NodesSettled, RowIsTrue, Of
<1> QED BY <1>2, <1>3, <1>4

-------------------------------------------------------------------------------
\* Steps of the window; each tells what it leaves alone.
NodeWindowStep ==
  \/ \E s \in table.rows : NodesPage!ShowNodeDetail(s)
  \/ \E q \in asked : NodesPage!GotPods(q) \/ NodesPage!GotYaml(q) \/ NodesPage!YamlFails(q)
  \/ NodesPage!OpenYaml
  \/ NodesPage!CloseDetail

LEMMA NodeWindowLeaves ==
  ASSUME NodeWindowStep
  PROVE  failures \subseteq failures' /\ UNCHANGED <<db, k8s, nodesData, filter, table, loads, nLoads>>
BY NodeFailureKept DEF NodeWindowStep, NodesPage!ShowNodeDetail, NodesPage!GotPods,
     NodesPage!GotYaml,
   NodesPage!YamlFails, NodesPage!OpenYaml, NodesPage!CloseDetail

LEMMA NodeShown ==
  ASSUME NodesIInv, NEW s \in table.rows, NodesPage!ShowNodeDetail(s)
  PROVE  NodesWindowIInv' /\ NodesPage!YamlCanBeAsked
<1> USE DEF NodesIInv, NodesWindowIInv
<1>1. s.of \in Nodes /\ nClicks \in Nat /\ nClicks' \in Nat /\ window \in NodeWindows /\ ~window.shown
  BY DEF NodesRowsIInv, NodeRowTypes, NodeWindowTypes, NodesPage!ShowNodeDetail, NodesPage!Click
<1>2. CASE NodesPage!Find(s) = {}
  <2>1. /\ window' = [window EXCEPT !.title = s.of, !.info = s.of, !.shown = TRUE]
        /\ overlaid' = TRUE /\ UNCHANGED asked
    BY <1>2 DEF NodesPage!ShowNodeDetail
  <2>2. /\ window' \in NodeWindows /\ window'.info = window'.title /\ window'.yamlOf = window.yamlOf
    BY <1>1, <2>1 DEF NodeWindows, NodesOrNone
  <2> QED BY <1>1, <2>1, <2>2 DEF NodeWindowTypes, WindowInOrder, NodesPage!YamlCanBeAsked
<1>3. CASE NodesPage!Find(s) # {}
  <2> DEFINE new == [kind |-> "pods", of |-> s.of, id |-> nClicks + 1]
  <2>1. /\ window' = [window EXCEPT !.title = s.of, !.info = s.of, !.pods = "none"]
        /\ asked' = asked \cup {new} /\ overlaid' = \E q \in asked : q.kind = "pods"
    BY <1>3 DEF NodesPage!ShowNodeDetail
  <2>2. /\ window' \in NodeWindows /\ window'.info = window'.title /\ window'.title = s.of
        /\ window'.yamlOf = window.yamlOf
    BY <1>1, <2>1 DEF NodeWindows, NodesOrNone
  <2>3. new \in NodeQuestions /\ new.kind = "pods" /\ new.of = s.of
    BY <1>1 DEF NodeQuestions
  <2> HIDE DEF new
  <2>4. ~overlaid' => \A q \in asked' : q.kind = "pods" => q = new
    BY <2>1
  <2> QED BY <1>1, <2>1, <2>2, <2>3, <2>4 DEF NodeWindowTypes, WindowInOrder,
       NodesPage!YamlCanBeAsked
<1> QED BY <1>2, <1>3

LEMMA NodeWindowAnswered ==
  ASSUME NodesIInv, NEW q \in asked, NodesPage!GotPods(q) \/ NodesPage!GotYaml(q) \/ NodesPage!YamlFails(q)
  PROVE  NodesWindowIInv' /\ NodesPage!YamlCanBeAsked
<1> USE DEF NodesIInv, NodesWindowIInv
<1>1. /\ asked' = asked \ {q} /\ UNCHANGED <<nClicks, overlaid>>
  BY DEF NodesPage!GotPods, NodesPage!GotYaml, NodesPage!YamlFails
<1>2. q \in NodeQuestions /\ q.of \in Nodes /\ window \in NodeWindows
  BY DEF NodeWindowTypes, NodeQuestions
<1>3. CASE NodesPage!GotPods(q)
  <2>1. /\ q.kind = "pods"
        /\ window' = [window EXCEPT !.pods = q.of, !.labels = q.of, !.yaml = "none", !.yamlOf = q.of,
                                    !.loaded = FALSE, !.shown = TRUE]
    BY <1>3 DEF NodesPage!GotPods
  <2>2. /\ window' \in NodeWindows /\ window'.title = window.title /\ window'.info = window.info
        /\ window'.pods = q.of /\ window'.labels = q.of /\ window'.yamlOf = q.of /\ ~window'.loaded
    BY <1>2, <2>1 DEF NodeWindows, NodesOrNone
  <2> QED BY <1>1, <2>1, <2>2 DEF NodeWindowTypes, WindowInOrder, NodesPage!YamlCanBeAsked
<1>4. CASE NodesPage!GotYaml(q) \/ NodesPage!YamlFails(q)
  <2>1. /\ window' \in NodeWindows /\ window'.title = window.title /\ window'.info = window.info
        /\ window'.pods = window.pods /\ window'.labels = window.labels
        /\ window'.yamlOf = window.yamlOf /\ (window'.shown <=> window.shown)
    <3>1. CASE window' = [window EXCEPT !.yaml = q.of, !.loaded = TRUE]
      BY <1>2, <3>1 DEF NodeWindows, NodesOrNone
    <3>2. CASE window' = [window EXCEPT !.yaml = "none"]
      BY <1>2, <3>2 DEF NodeWindows, NodesOrNone
    <3> QED BY <1>4, <3>1, <3>2 DEF NodesPage!GotYaml, NodesPage!YamlFails
  <2>2. q.kind = "yaml"
    BY <1>4 DEF NodesPage!GotYaml, NodesPage!YamlFails
  <2> QED BY <1>1, <2>1, <2>2 DEF NodeWindowTypes, WindowInOrder, NodesPage!YamlCanBeAsked
<1> QED BY <1>3, <1>4

LEMMA NodeYamlOpened ==
  ASSUME NodesIInv, NodesPage!OpenYaml PROVE NodesWindowIInv' /\ NodesPage!YamlCanBeAsked
<1> USE DEF NodesIInv, NodesWindowIInv
<1> DEFINE new == [kind |-> "yaml", of |-> window.yamlOf, id |-> nClicks + 1]
<1>1. /\ window.yamlOf # "none" /\ window' = [window EXCEPT !.yaml = "none"]
      /\ asked' = asked \cup {new} /\ nClicks' = nClicks + 1 /\ UNCHANGED overlaid
  BY DEF NodesPage!OpenYaml, NodesPage!Click
<1>2. window \in NodeWindows /\ nClicks \in Nat
  BY DEF NodeWindowTypes
<1>3. new \in NodeQuestions /\ new.kind = "yaml"
  BY <1>1, <1>2 DEF NodeQuestions, NodeWindows, NodesOrNone
<1>4. /\ window' \in NodeWindows /\ window'.title = window.title /\ window'.info = window.info
      /\ window'.pods = window.pods /\ window'.labels = window.labels
      /\ window'.yamlOf = window.yamlOf /\ (window'.shown <=> window.shown)
  BY <1>1, <1>2 DEF NodeWindows, NodesOrNone
<1> HIDE DEF new
<1> QED BY <1>1, <1>2, <1>3, <1>4 DEF NodeWindowTypes, WindowInOrder, NodesPage!YamlCanBeAsked

LEMMA NodeWindowClosed ==
  ASSUME NodesIInv, NodesPage!CloseDetail PROVE NodesWindowIInv' /\ NodesPage!YamlCanBeAsked
<1> USE DEF NodesIInv, NodesWindowIInv
<1>1. window' = [window EXCEPT !.shown = FALSE] /\ UNCHANGED <<asked, overlaid, nClicks>>
  BY DEF NodesPage!CloseDetail
<1>2. /\ window' \in NodeWindows /\ window'.title = window.title /\ window'.info = window.info
      /\ window'.yamlOf = window.yamlOf /\ ~window'.shown
  BY <1>1 DEF NodeWindowTypes, NodeWindows
<1> QED BY <1>1, <1>2 DEF NodeWindowTypes, WindowInOrder, NodesPage!YamlCanBeAsked

LEMMA NodeTableLeaves ==
  ASSUME NodesIInv, UNCHANGED <<window, asked, overlaid>>, nClicks' \in Nat
  PROVE  NodesWindowIInv' /\ NodesPage!YamlCanBeAsked
BY DEF NodesIInv, NodesWindowIInv, NodeWindowTypes, WindowInOrder, NodesPage!YamlCanBeAsked

\* Each action of the nodes page keeps its invariant, and what was emptied can be asked for.
LEMMA NodesStep ==
  ASSUME NodesIInv, NodesPage!Next PROVE NodesIInv' /\ NodesPage!YamlCanBeAsked
<1>1. CASE NodeWindowStep
  <2>1. NodesRowsIInv'
    BY <1>1, NodeWindowLeaves, NodeRowsKept DEF NodesIInv
  <2> QED BY <1>1, <2>1, NodeShown, NodeWindowAnswered, NodeYamlOpened, NodeWindowClosed
          DEF NodeWindowStep, NodesIInv
<1>2. nClicks \in Nat
  BY DEF NodesIInv, NodesWindowIInv, NodeWindowTypes
<1>3. CASE NodesPage!Load
  BY <1>2, <1>3, NodesLoaded, NodeTableLeaves DEF NodesPage!Load, NodesIInv
<1>4. ASSUME NEW r \in loads, \/ NodesPage!GotDatabase(r) \/ NodesPage!DatabaseFails(r)
                              \/ NodesPage!GotKubernetes(r) \/ NodesPage!KubernetesFails(r)
      PROVE  NodesIInv' /\ NodesPage!YamlCanBeAsked
  <2>1. UNCHANGED <<window, asked, overlaid, nClicks>>
    BY <1>4 DEF NodesPage!GotDatabase, NodesPage!DatabaseFails, NodesPage!GotKubernetes,
       NodesPage!KubernetesFails
  <2>2. NodesRowsIInv'
    BY <1>4, DatabaseGot, DatabaseFailed, KubernetesGot DEF NodesIInv
  <2> QED BY <1>2, <2>1, <2>2, NodeTableLeaves DEF NodesIInv
<1>5. ASSUME NEW role \in NodesPage!Roles, NEW status \in NodesPage!Statuses,
             NodesPage!ApplyFilters(role, status)
      PROVE  NodesIInv' /\ NodesPage!YamlCanBeAsked
  <2>1. UNCHANGED <<window, asked, overlaid>> /\ nClicks' \in Nat
    BY <1>2, <1>5 DEF NodesPage!ApplyFilters, NodesPage!Click
  <2> QED BY <1>5, <2>1, NodesFiltered, NodeTableLeaves DEF NodesIInv
<1> QED BY <1>1, <1>3, <1>4, <1>5 DEF NodesPage!Next, NodeWindowStep

LEMMA NodesAreShown ==
  NodesIInv => /\ NodesPage!NodesTypeOK
               /\ NodesPage!AssignedIsNotUnassigned /\ NodesPage!SettledRowsAreTrue
               /\ NodesPage!WindowOfTitle
<1> SUFFICES ASSUME NodesIInv
             PROVE  /\ NodesPage!NodesTypeOK
                    /\ NodesPage!AssignedIsNotUnassigned /\ NodesPage!SettledRowsAreTrue
                    /\ NodesPage!WindowOfTitle
  OBVIOUS
<1> USE DEF NodesIInv, NodesRowsIInv, NodesWindowIInv
<1>1. NodesPage!NodesTypeOK
  <2>1. \A row \in nodesData : row.of \in Nodes /\ row.k8sStatus \in {"Unknown", "Ready", "NotReady"}
    BY DEF NodeRowTypes, NodeRows
  <2> QED BY <2>1 DEF NodeRowTypes, NodeSources, RowsOfNodes, NodeWindowTypes, NodeWindows,
       NodesOrNone,
                      NodesPage!NodesTypeOK
<1>2. NodesPage!AssignedIsNotUnassigned
  BY DEF NodesOfDatabase, DatabaseAnswers, NodesPage!AssignedIsNotUnassigned
<1>3. NodesPage!WindowOfTitle
  BY DEF WindowInOrder, NodesPage!WindowOfTitle
<1>4. NodesPage!SettledRowsAreTrue
  <2> SUFFICES ASSUME loads = {}, failures = {}, NodesPage!Assigned # {}, NodesPage!Registered # {}
               PROVE  /\ table.show = "rows"
                      /\ filter = [role |-> "any", status |-> "any"] =>
                           {row.of : row \in table.rows} = NodesPage!Assigned \cup NodesPage!Registered
                      /\ \A row \in table.rows :
                           /\ row.role = "Not Assign" <=> row.of \notin NodesPage!Assigned
                           /\ row.role = "No Join Cluster" <=> row.of \notin NodesPage!Registered
                           /\ row.status = "OFFLINE" <=> db[row.of] = "OFFLINE"
    BY DEF NodesPage!SettledRowsAreTrue
  <2>1. /\ Of(nodesData) = NodesPage!Assigned \cup NodesPage!Registered
        /\ table = NodesPage!Table(nodesData, filter)
        /\ \A row \in nodesData :
             /\ RowIsTrue(row) /\ (row.unregistered <=> row.of \notin NodesPage!Registered)
             /\ row.unassigned <=> row.of \notin NodesPage!Assigned
    BY DEF NodesSettled, NodesOfDatabase, DatabaseAnswers
  <2>2. nodesData \in SUBSET NodeRows
    BY DEF NodeRowTypes
  <2>3. \A row \in nodesData : NodesPage!Shown(row).of = row.of
    BY <2>2, RowShown
  <2>4. table.show = "rows"
    BY <2>1, <2>2, TableShown
  <2>5. filter = [role |-> "any", status |-> "any"] =>
          {s.of : s \in table.rows} = NodesPage!Assigned \cup NodesPage!Registered
    <3> SUFFICES ASSUME filter = [role |-> "any", status |-> "any"]
                 PROVE  {s.of : s \in table.rows} = Of(nodesData)
      BY <2>1
    <3>1. \A row \in nodesData : NodesPage!Matches(row, filter.role, filter.status)
      BY DEF NodesPage!Matches
    <3>2. table.rows = {NodesPage!Shown(row) : row \in nodesData}
      BY <2>1, <3>1 DEF NodesPage!Table
    <3>3. {s.of : s \in table.rows} = {NodesPage!Shown(row).of : row \in nodesData}
      BY <3>2
    <3> QED BY <2>3, <3>3 DEF Of
  <2>6. ASSUME NEW s \in table.rows
        PROVE  /\ s.role = "Not Assign" <=> s.of \notin NodesPage!Assigned
               /\ s.role = "No Join Cluster" <=> s.of \notin NodesPage!Registered
               /\ s.status = "OFFLINE" <=> db[s.of] = "OFFLINE"
    <3>1. PICK row \in nodesData : s = NodesPage!Shown(row)
      BY <2>1, <2>2, TableShown
    <3>2. /\ s.of = row.of /\ (s.role = "Not Assign") = row.unassigned
          /\ s.role = "No Join Cluster" <=> ~row.unassigned /\ row.unregistered
          /\ s.status = "OFFLINE" <=> row.status = "OFFLINE"
      BY <2>2, <3>1, RowShown
    <3>3. /\ row.unassigned <=> row.of \notin NodesPage!Assigned
          /\ row.unregistered <=> row.of \notin NodesPage!Registered
          /\ row.of \in NodesPage!Assigned \cup NodesPage!Registered
      BY <2>1 DEF RowIsTrue
    <3>4. row.status = "OFFLINE" <=> db[row.of] = "OFFLINE"
      BY <2>1, <2>2 DEF RowIsTrue, NodeRowTypes, NodeSources, NodeRows, NodesPage!Assigned
    <3> QED BY <3>2, <3>3, <3>4
  <2> QED BY <2>4, <2>5, <2>6
<1> QED BY <1>1, <1>2, <1>3, <1>4
-------------------------------------------------------------------------------
(* The storage and service pages *)

NamespacesOrAll == Namespaces \cup {"all"}
TabLists == [at : Nat, ns : NamespacesOrAll]
TabShows == [show : {"spinner", "error", "list"}, rows : SUBSET Namespaces]
TabRequests ==
  [tab : ResourceTabs!Tabs, token : Nat, silent : BOOLEAN, since : Nat, ns : NamespacesOrAll]

TabTypes ==
  /\ page \in ResourcePages
  /\ cluster \in Seq(SUBSET Namespaces) /\ Len(cluster) > 0
  /\ data \in [ResourceTabs!Tabs -> TabLists] /\ loaded \in [ResourceTabs!Tabs -> BOOLEAN]
  /\ \A t \in ResourceTabs!Tabs :
       data[t].at <= Len(cluster) /\ (loaded[t] => data[t].at > 0)
  /\ screen \in [ResourceTabs!Tabs -> TabShows]
  /\ filter \in NamespacesOrAll /\ quiet \subseteq ResourceTabs!Tabs
  /\ deleting \subseteq [tab : ResourceTabs!Tabs, ns : Namespaces]

\* A token is of one request; a request with the newest is no older than the list the tab
\* has, and where it is silent the tab is known to be quiet.
TokensInOrder ==
  /\ token \in [ResourceTabs!Tabs -> Nat] /\ reqs \subseteq TabRequests
  /\ \A r, q \in reqs : r.tab = q.tab /\ r.token = q.token => r = q
  /\ \A r \in reqs :
       /\ r.token \in 1..token[r.tab] /\ r.since \in 1..Len(cluster)
       /\ r.token = token[r.tab] =>
            data[r.tab].at <= r.since /\ (r.silent => r.tab \in quiet)

TabsIInv ==
  /\ TabTypes /\ TokensInOrder
  /\ ResourceTabs!ListMatchesFilter /\ ResourceTabs!SpinnerHasRequest

\* The storage and service pages as they are opened.
LEMMA TabsInit == ResourceTabs!Init => TabsIInv
<1> SUFFICES ASSUME ResourceTabs!Init PROVE TabsIInv
  OBVIOUS
<1>1. /\ page \in ResourcePages /\ cluster = <<Namespaces>>
      /\ data = [t \in ResourceTabs!Tabs |-> [at |-> 0, ns |-> "all"]]
      /\ loaded = [t \in ResourceTabs!Tabs |-> FALSE]
      /\ screen = [t \in ResourceTabs!Tabs |-> [show |-> "spinner", rows |-> {}]]
      /\ filter = "all" /\ deleting = {} /\ quiet = {}
  BY DEF ResourceTabs!Init, ResourceTabs!NoData, ResourceTabs!All, ResourceTabs!Spinner
<1> DEFINE Ask(t, k) == [tab |-> t, token |-> k, silent |-> FALSE, since |-> 1, ns |-> "all"]
<1>2. PICK first \in ResourceTabs!Tabs :
        /\ token = [t \in ResourceTabs!Tabs |-> IF t = first THEN 2 ELSE 1]
        /\ reqs = {Ask(t, 1) : t \in ResourceTabs!Tabs} \cup {Ask(first, 2)}
  <2>1. PICK first \in ResourceTabs!Tabs :
        /\ token = [t \in ResourceTabs!Tabs |-> IF t = first THEN 2 ELSE 1]
        /\ reqs = [tab : ResourceTabs!Tabs, token : {1}, silent : {FALSE}, since : {1}, ns : {"all"}]
                  \cup [tab : {first}, token : {2}, silent : {FALSE}, since : {1}, ns : {"all"}]
    BY DEF ResourceTabs!Init, ResourceTabs!All
  <2> DEFINE Round(ts, k) == [tab : ts, token : {k}, silent : {FALSE}, since : {1}, ns : {"all"}]
  <2>4. \A k \in {1, 2}, ts \in SUBSET ResourceTabs!Tabs : Round(ts, k) = {Ask(t, k) : t \in ts}
    <3> TAKE k \in {1, 2}, ts \in SUBSET ResourceTabs!Tabs
    <3>1. \A t \in ts : Ask(t, k) \in Round(ts, k)
      OBVIOUS
    <3>2. \A r \in Round(ts, k) : r.tab \in ts /\ r = Ask(r.tab, k)
      <4> TAKE r \in Round(ts, k)
      <4>1. r = [tab |-> r.tab, token |-> r.token, silent |-> r.silent, since |-> r.since, ns |-> r.ns]
        OBVIOUS
      <4>2. r.tab \in ts /\ r.token = k /\ r.silent = FALSE /\ r.since = 1 /\ r.ns = "all"
        OBVIOUS
      <4> QED BY <4>1, <4>2
    <3> HIDE DEF Ask, Round
    <3> QED BY <3>1, <3>2
  <2>5. {Ask(t, 2) : t \in {first}} = {Ask(first, 2)}
    OBVIOUS
  <2>6. /\ [tab : ResourceTabs!Tabs, token : {1}, silent : {FALSE}, since : {1}, ns : {"all"}]
             = {Ask(t, 1) : t \in ResourceTabs!Tabs}
        /\ [tab : {first}, token : {2}, silent : {FALSE}, since : {1}, ns : {"all"}] = {Ask(first, 2)}
    <3> HIDE DEF Ask
    <3> QED BY <2>4, <2>5
  <2> HIDE DEF Ask
  <2> QED BY <2>1, <2>6
<1>3. \A t \in ResourceTabs!Tabs, k \in {1, 2} :
        /\ Ask(t, k) \in TabRequests /\ Ask(t, k).tab = t /\ Ask(t, k).token = k
        /\ Ask(t, k).since = 1 /\ ~Ask(t, k).silent
  BY DEF TabRequests, NamespacesOrAll
<1> HIDE DEF Ask
<1>4. cluster \in Seq(SUBSET Namespaces) /\ Len(cluster) = 1
  BY <1>1
<1>5. TabTypes
  BY <1>1, <1>4 DEF TabTypes, TabLists, TabShows, NamespacesOrAll
<1>6. token \in [ResourceTabs!Tabs -> Nat] /\ reqs \subseteq TabRequests
  BY <1>2, <1>3
<1>7. \A r, q \in reqs : r.tab = q.tab /\ r.token = q.token => r = q
  BY <1>2, <1>3
<1>8. \A r \in reqs :
        /\ r.token \in 1..token[r.tab] /\ r.since \in 1..Len(cluster)
        /\ data[r.tab].at <= r.since /\ ~r.silent
  BY <1>1, <1>2, <1>3, <1>4
<1>9. \A t \in ResourceTabs!Tabs : \E r \in reqs : r.tab = t /\ r.token = token[t]
  BY <1>2, <1>3
<1>10. ResourceTabs!ListMatchesFilter /\ ResourceTabs!SpinnerHasRequest
  BY <1>1, <1>9 DEF ResourceTabs!ListMatchesFilter, ResourceTabs!SpinnerHasRequest, ResourceTabs!All
<1> QED BY <1>5, <1>6, <1>7, <1>8, <1>10 DEF TabsIInv, TokensInOrder

\* A page has the same tabs throughout.
LEMMA TabsStay ==
  ASSUME UNCHANGED page
  PROVE  ResourceTabs!Tabs' = ResourceTabs!Tabs /\ TabRequests' = TabRequests
BY DEF ResourceTabs!Tabs, TabRequests

\* New requests for some tabs, a token for each: they are the newest of their tabs.
Issued(ts, new) ==
  /\ UNCHANGED page
  /\ ts \subseteq ResourceTabs!Tabs /\ new \subseteq TabRequests
  /\ \A t \in ts : \E r \in new : r.tab = t
  /\ \A r, q \in new : r.tab = q.tab => r = q
  /\ Len(cluster) <= Len(cluster') /\ Len(cluster') \in Nat
  /\ \A r \in new : /\ r.tab \in ts /\ r.token = token[r.tab] + 1 /\ r.since = Len(cluster')
                    /\ r.silent => r.tab \in quiet'
  /\ token' = [t \in ResourceTabs!Tabs |-> IF t \in ts THEN token[t] + 1 ELSE token[t]]
  /\ reqs' = reqs \cup new /\ quiet \ ts \subseteq quiet'
  /\ \A t \in ResourceTabs!Tabs : data'[t] \in TabLists /\ data'[t].at <= data[t].at

LEMMA TokensIssued ==
  ASSUME TabTypes, TokensInOrder, NEW ts, NEW new, Issued(ts, new)
  PROVE  TokensInOrder' /\ \A t \in ts : \E r \in reqs' : r.tab = t /\ r.token = token'[t]
<1>1. ResourceTabs!Tabs' = ResourceTabs!Tabs /\ TabRequests' = TabRequests
  BY TabsStay DEF Issued
<1>2. /\ ts \subseteq ResourceTabs!Tabs /\ new \subseteq TabRequests
      /\ token \in [ResourceTabs!Tabs -> Nat] /\ reqs' = reqs \cup new
      /\ token' = [t \in ResourceTabs!Tabs |-> IF t \in ts THEN token[t] + 1 ELSE token[t]]
  BY DEF Issued, TokensInOrder
<1>3. token' \in [ResourceTabs!Tabs -> Nat]
  BY <1>2
<1>4. \A r \in new : r.tab \in ResourceTabs!Tabs /\ r.token = token[r.tab] + 1 /\ r.token = token'[r.tab]
  BY <1>2 DEF Issued
<1>5. \A r \in reqs : /\ r.tab \in ResourceTabs!Tabs /\ r.token \in Nat /\ r.since \in Nat
                      /\ r.token \in 1..token[r.tab] /\ r.since \in 1..Len(cluster)
  BY DEF TokensInOrder, TabRequests
<1>6. \A r \in reqs : /\ r.token <= token[r.tab] /\ token[r.tab] \in Nat
                      /\ r.tab \in ts => r.token # token'[r.tab]
                      /\ r.token \in 1..token'[r.tab]
                      /\ r.tab \notin ts => token'[r.tab] = token[r.tab]
  BY <1>2, <1>5
<1>7. \A r, q \in reqs' : r.tab = q.tab /\ r.token = q.token => r = q
  <2>1. \A r \in reqs, q \in new : r.tab = q.tab => r.token # q.token
    <3> TAKE r \in reqs, q \in new
    <3>1. q.tab \in ts /\ q.token = token'[q.tab]
      BY <1>4 DEF Issued
    <3> QED BY <1>6, <3>1
  <2>2. \A r, q \in reqs : r.tab = q.tab /\ r.token = q.token => r = q
    BY DEF TokensInOrder
  <2>3. \A r, q \in new : r.tab = q.tab => r = q
    BY DEF Issued
  <2> QED BY <1>2, <2>1, <2>2, <2>3
<1>8. \A r \in reqs' : r.token \in 1..token'[r.tab] /\ r.since \in 1..Len(cluster')
  <2>1. Len(cluster) \in Nat /\ Len(cluster') \in Nat /\ Len(cluster) <= Len(cluster') /\ Len(cluster) > 0
    BY DEF TabTypes, Issued
  <2>2. \A r \in reqs : r.token \in 1..token'[r.tab] /\ r.since \in 1..Len(cluster')
    BY <1>5, <1>6, <2>1
  <2>3. \A r \in new : r.since = Len(cluster') /\ token[r.tab] \in Nat
    BY <1>2, <1>4 DEF Issued
  <2>4. \A r \in new : r.token \in 1..token'[r.tab] /\ r.since \in 1..Len(cluster')
    BY <1>4, <2>1, <2>3
  <2> QED BY <1>2, <2>2, <2>4
<1>9. \A r \in reqs' : r.token = token'[r.tab] =>
        data'[r.tab].at <= r.since /\ (r.silent => r.tab \in quiet')
  <2>1. \A t \in ResourceTabs!Tabs :
          data'[t].at \in Nat /\ data[t].at \in Nat /\ data'[t].at <= data[t].at
             /\ data[t].at <= Len(cluster) /\ Len(cluster) \in Nat
    BY DEF TabTypes, TabLists, Issued
  <2>2. \A r \in reqs : r.token = token'[r.tab] =>
          data'[r.tab].at <= r.since /\ (r.silent => r.tab \in quiet')
    <3> SUFFICES ASSUME NEW r \in reqs, r.token = token'[r.tab]
                 PROVE  data'[r.tab].at <= r.since /\ (r.silent => r.tab \in quiet')
      OBVIOUS
    <3>1. r.tab \notin ts /\ r.token = token[r.tab] /\ r.tab \in ResourceTabs!Tabs /\ r.since \in Nat
      BY <1>5, <1>6
    <3>2. data[r.tab].at <= r.since /\ (r.silent => r.tab \in quiet)
      BY <3>1 DEF TokensInOrder
    <3>3. quiet \ ts \subseteq quiet'
      BY DEF Issued
    <3> QED BY <2>1, <3>1, <3>2, <3>3
  <2>3. \A r \in new : data'[r.tab].at <= r.since /\ (r.silent => r.tab \in quiet')
    <3> TAKE r \in new
    <3>1. r.tab \in ResourceTabs!Tabs /\ r.since = Len(cluster') /\ (r.silent => r.tab \in quiet')
      BY <1>4 DEF Issued
    <3>2. Len(cluster) <= Len(cluster') /\ Len(cluster') \in Nat
      BY DEF Issued
    <3> QED BY <2>1, <3>1, <3>2
  <2> QED BY <1>2, <2>2, <2>3
<1>10. reqs' \subseteq TabRequests
  BY <1>2 DEF TokensInOrder
<1>11. TokensInOrder'
  BY <1>1, <1>3, <1>7, <1>8, <1>9, <1>10 DEF TokensInOrder
<1>12. \A t \in ts : \E r \in reqs' : r.tab = t /\ r.token = token'[t]
  <2>1. \A t \in ts : \E r \in new : r.tab = t
    BY DEF Issued
  <2> QED BY <1>2, <1>4, <2>1
<1> QED BY <1>11, <1>12

\* A request with another namespace, and one sent at another moment.
LEMMA AskedFor ==
  ASSUME NEW t, NEW k, NEW silent, NEW since, NEW ns, NEW other
  PROVE  [[tab |-> t, token |-> k, silent |-> silent, since |-> since, ns |-> ns] EXCEPT !.ns = other]
           = [tab |-> t, token |-> k, silent |-> silent, since |-> since, ns |-> other]
OBVIOUS

LEMMA AskedLater ==
  ASSUME NEW t, NEW k, NEW silent, NEW since, NEW ns, NEW other
  PROVE  [[tab |-> t, token |-> k, silent |-> silent, since |-> since, ns |-> ns] EXCEPT !.since = other]
           = [tab |-> t, token |-> k, silent |-> silent, since |-> other, ns |-> ns]
OBVIOUS

\* Some tabs are asked for again, with a spinner.
Asked(t) ==
  [tab |-> t, token |-> token[t] + 1, silent |-> FALSE, since |-> Len(cluster),
   ns |-> IF t \in ResourceTabs!Namespaced THEN filter' ELSE "all"]

AskedAgain(ts) ==
  /\ UNCHANGED <<page, cluster, deleting>>
  /\ data' \in [ResourceTabs!Tabs -> TabLists] /\ loaded' \in [ResourceTabs!Tabs -> BOOLEAN]
  /\ \A t \in ResourceTabs!Tabs :
       /\ data'[t] # data[t] => data'[t] = ResourceTabs!NoData /\ t \in ts
       /\ loaded'[t] => loaded[t] /\ t \notin ts
  /\ filter' \in NamespacesOrAll
  /\ filter' # filter => ResourceTabs!Tabs \cap ResourceTabs!Namespaced \subseteq ts
  /\ token' = [t \in ResourceTabs!Tabs |-> IF t \in ts THEN token[t] + 1 ELSE token[t]]
  /\ reqs' = reqs \cup {Asked(t) : t \in ts}
  /\ quiet' = quiet \ ts
  /\ screen' = [t \in ResourceTabs!Tabs |-> IF t \in ts THEN ResourceTabs!Spinner ELSE screen[t]]

LEMMA AskedIsNew ==
  ASSUME TabTypes, TokensInOrder, NEW t \in ResourceTabs!Tabs, filter' \in NamespacesOrAll
  PROVE  /\ Asked(t) \in TabRequests /\ Asked(t).tab = t /\ Asked(t).token = token[t] + 1
         /\ Asked(t).since = Len(cluster) /\ ~Asked(t).silent
<1>1. token[t] + 1 \in Nat /\ Len(cluster) \in Nat
  BY DEF TabTypes, TokensInOrder
<1> DEFINE ns == IF t \in ResourceTabs!Namespaced THEN filter' ELSE "all"
<1>2. ns \in NamespacesOrAll
  BY DEF NamespacesOrAll
<1>3. Asked(t) = [tab |-> t, token |-> token[t] + 1, silent |-> FALSE, since |-> Len(cluster), ns |-> ns]
  BY DEF Asked
<1> HIDE DEF ns
<1> QED BY <1>1, <1>2, <1>3 DEF TabRequests

LEMMA TabsAsked ==
  ASSUME TabsIInv, NEW ts \in SUBSET ResourceTabs!Tabs, AskedAgain(ts)
  PROVE  TabsIInv'
<1> USE DEF TabsIInv
<1> DEFINE new == {Asked(t) : t \in ts}
<1>1. ResourceTabs!Tabs' = ResourceTabs!Tabs /\ TabRequests' = TabRequests
  BY TabsStay DEF AskedAgain
<1>2. \A t \in ts : /\ Asked(t) \in TabRequests /\ Asked(t).tab = t /\ Asked(t).token = token[t] + 1
                    /\ Asked(t).since = Len(cluster) /\ ~Asked(t).silent
  BY AskedIsNew DEF AskedAgain
<1>3. reqs' = reqs \cup new
  BY DEF AskedAgain
<1>4. /\ new \in SUBSET TabRequests /\ \A r, q \in new : r.tab = q.tab => r = q
      /\ \A t \in ts : \E r \in new : r.tab = t
      /\ \A r \in new : /\ r.tab \in ts /\ r.token = token[r.tab] + 1 /\ r.since = Len(cluster')
                        /\ r.silent => r.tab \in quiet'
  BY <1>2 DEF AskedAgain
<1> HIDE DEF new
<1>5. Len(cluster') = Len(cluster) /\ Len(cluster) \in Nat
  BY DEF TabTypes, AskedAgain
<1>6. \A t \in ResourceTabs!Tabs : data'[t] \in TabLists /\ data'[t].at <= data[t].at
  <2>1. ResourceTabs!NoData.at = 0
    BY DEF ResourceTabs!NoData
  <2>2. \A t \in ResourceTabs!Tabs : data'[t] \in TabLists /\ data[t].at \in Nat
    BY DEF TabTypes, TabLists, AskedAgain
  <2>3. \A t \in ResourceTabs!Tabs : data'[t] = data[t] \/ data'[t] = ResourceTabs!NoData
    BY DEF AskedAgain
  <2> QED BY <2>1, <2>2, <2>3
<1>7. TokensInOrder' /\ \A t \in ts : \E r \in reqs' : r.tab = t /\ r.token = token'[t]
  <2>1. Issued(ts, new)
    BY <1>3, <1>4, <1>5, <1>6 DEF Issued, AskedAgain
  <2> QED BY <2>1, TokensIssued
<1>8. screen' \in [ResourceTabs!Tabs -> TabShows]
  BY DEF TabTypes, TabShows, ResourceTabs!Spinner, AskedAgain
<1>9. \A t \in ResourceTabs!Tabs :
        data'[t].at <= Len(cluster') /\ (loaded'[t] => data'[t].at > 0)
  <2> TAKE t \in ResourceTabs!Tabs
  <2>1. data'[t].at <= data[t].at /\ data'[t].at \in Nat /\ data[t].at \in Nat
    BY <1>6 DEF TabTypes, TabLists
  <2>2. loaded'[t] => loaded[t] /\ data'[t] = data[t]
    BY DEF AskedAgain
  <2> QED BY <1>5, <2>1, <2>2 DEF TabTypes
<1>10. TabTypes'
  BY <1>1, <1>8, <1>9 DEF TabTypes, AskedAgain
<1>11. ResourceTabs!ListMatchesFilter'
  BY <1>1 DEF ResourceTabs!ListMatchesFilter, ResourceTabs!Spinner, AskedAgain
<1>12. ResourceTabs!SpinnerHasRequest'
  BY <1>1, <1>3, <1>7 DEF ResourceTabs!SpinnerHasRequest, AskedAgain
<1> QED BY <1>7, <1>10, <1>11, <1>12

\* The tab's button, the page's, and the select.
LEMMA TabsReload ==
  ASSUME TabsIInv, NEW t \in ResourceTabs!Tabs, ResourceTabs!ReloadTab(t)
  PROVE  TabsIInv'
<1>1. ResourceTabs!Request(t, FALSE) = Asked(t)
  BY DEF ResourceTabs!ReloadTab, ResourceTabs!Request, ResourceTabs!Latest, ResourceTabs!All, Asked
<1>2. reqs' = reqs \cup {Asked(q) : q \in {t}}
  <2>1. reqs' = reqs \cup {ResourceTabs!Request(q, FALSE) : q \in {t}}
    BY DEF ResourceTabs!ReloadTab, ResourceTabs!Issue
  <2> QED BY <1>1, <2>1
<1>3. AskedAgain({t})
  BY <1>2 DEF TabsIInv, TabTypes, ResourceTabs!ReloadTab, ResourceTabs!Issue, AskedAgain
<1> QED BY <1>3, TabsAsked

LEMMA TabsReloadAll ==
  ASSUME TabsIInv, ResourceTabs!ReloadAll
  PROVE  TabsIInv'
<1>1. \A t \in ResourceTabs!Tabs : ResourceTabs!Request(t, FALSE) = Asked(t)
  BY DEF ResourceTabs!ReloadAll, ResourceTabs!Request, ResourceTabs!Latest, ResourceTabs!All, Asked
<1>2. reqs' = reqs \cup {Asked(t) : t \in ResourceTabs!Tabs}
  <2>1. reqs' = reqs \cup {ResourceTabs!Request(t, FALSE) : t \in ResourceTabs!Tabs}
    BY DEF ResourceTabs!ReloadAll, ResourceTabs!Issue
  <2> QED BY <1>1, <2>1
<1>3. ResourceTabs!NoData \in TabLists
  BY DEF ResourceTabs!NoData, ResourceTabs!All, TabLists, NamespacesOrAll
<1>4. AskedAgain(ResourceTabs!Tabs)
  BY <1>2, <1>3 DEF TabsIInv, TabTypes, ResourceTabs!ReloadAll, ResourceTabs!Issue, AskedAgain
<1> QED BY <1>4, TabsAsked

LEMMA TabsSelect ==
  ASSUME TabsIInv, NEW ns \in Namespaces \cup {ResourceTabs!All}, ResourceTabs!SelectNamespace(ns)
  PROVE  TabsIInv'
<1> DEFINE ts == ResourceTabs!Tabs \cap ResourceTabs!Namespaced
<1>1. ASSUME NEW t \in ts PROVE [ResourceTabs!Request(t, FALSE) EXCEPT !.ns = ns] = Asked(t)
  <2> DEFINE no == FALSE
             R(f) == [tab |-> t, token |-> token[t] + 1, silent |-> no, since |-> Len(cluster), ns |-> f]
  <2>1. ResourceTabs!Request(t, FALSE) = R(filter)
    BY DEF ResourceTabs!Request, ResourceTabs!Latest
  <2>2. Asked(t) = R(ns)
    BY DEF ResourceTabs!SelectNamespace, Asked
  <2> HIDE DEF no
  <2>3. [R(filter) EXCEPT !.ns = ns] = R(ns)
    BY AskedFor
  <2> HIDE DEF R
  <2> QED BY <2>1, <2>2, <2>3
<1>2. reqs' = reqs \cup {Asked(t) : t \in ts}
  <2>1. reqs' = reqs \cup {[ResourceTabs!Request(t, FALSE) EXCEPT !.ns = ns] : t \in ts}
    BY DEF ResourceTabs!SelectNamespace
  <2> QED BY <1>1, <2>1
<1>3. AskedAgain(ts)
  <2>1. loaded' = [t \in ResourceTabs!Tabs |-> loaded[t] /\ t \notin ts]
    BY DEF ResourceTabs!SelectNamespace
  <2>2. loaded' \in [ResourceTabs!Tabs -> BOOLEAN]
    BY <2>1
  <2>3. \A t \in ResourceTabs!Tabs : loaded'[t] => loaded[t] /\ t \notin ts
    BY <2>1
  <2> QED BY <1>2, <2>2, <2>3 DEF TabsIInv, TabTypes, ResourceTabs!SelectNamespace,
       ResourceTabs!All,
               AskedAgain, NamespacesOrAll
<1>4. ts \in SUBSET ResourceTabs!Tabs
  OBVIOUS
<1> HIDE DEF ts
<1> QED BY <1>3, <1>4, TabsAsked

\* The object goes, or stays; the tab is asked for again, silently.
LEMMA TabsDeleted ==
  ASSUME TabsIInv, NEW d \in deleting, ResourceTabs!Deleted(d)
  PROVE  TabsIInv'
<1> USE DEF TabsIInv
<1>1. d.tab \in ResourceTabs!Tabs /\ d.ns \in Namespaces
  BY DEF TabTypes
<1> DEFINE no == TRUE
           R(v) == [tab |-> d.tab, token |-> token[d.tab] + 1, silent |-> no, since |-> v,
                    ns |-> IF d.tab \in ResourceTabs!Namespaced THEN filter ELSE "all"]
           r == R(Len(cluster) + 1)
<1>2. reqs' = reqs \cup {r} /\ no = TRUE
  <2>1. reqs' = reqs \cup {[ResourceTabs!Request(d.tab, TRUE) EXCEPT !.since = Len(cluster) + 1]}
    BY DEF ResourceTabs!Deleted, ResourceTabs!Latest
  <2>2. ResourceTabs!Request(d.tab, TRUE) = R(Len(cluster))
    BY DEF ResourceTabs!Request, ResourceTabs!Latest, ResourceTabs!All
  <2>3. no = TRUE
    OBVIOUS
  <2> HIDE DEF no
  <2>4. [R(Len(cluster)) EXCEPT !.since = Len(cluster) + 1] = r
    BY AskedLater
  <2> HIDE DEF R
  <2> QED BY <2>1, <2>2, <2>3, <2>4
<1> HIDE DEF no
<1>3. /\ cluster' \in Seq(SUBSET Namespaces) /\ Len(cluster') = Len(cluster) + 1
      /\ Len(cluster) \in Nat
  <2>1. cluster \in Seq(SUBSET Namespaces) /\ Len(cluster) \in Nat /\ Len(cluster) > 0
    BY DEF TabTypes
  <2>2. cluster[Len(cluster)] \ {d.ns} \in SUBSET Namespaces
    BY <2>1
  <2> QED BY <2>1, <2>2 DEF ResourceTabs!Deleted, ResourceTabs!Latest
<1>4. /\ UNCHANGED <<page, data, loaded, screen, filter>> /\ quiet' = quiet \cup {d.tab}
      /\ token' = [token EXCEPT ![d.tab] = @ + 1] /\ deleting' = deleting \ {d}
  BY DEF ResourceTabs!Deleted, ResourceTabs!shown
<1>5. ResourceTabs!Tabs' = ResourceTabs!Tabs /\ TabRequests' = TabRequests
  BY <1>4, TabsStay
<1>6. /\ r \in TabRequests /\ r.tab = d.tab /\ r.token = token[d.tab] + 1
      /\ r.since = Len(cluster')
  <2>1. token[d.tab] + 1 \in Nat /\ Len(cluster) + 1 \in Nat
    BY <1>1, <1>3 DEF TokensInOrder
  <2> DEFINE f == IF d.tab \in ResourceTabs!Namespaced THEN filter ELSE "all"
  <2>2. f \in NamespacesOrAll
    BY DEF NamespacesOrAll, TabTypes
  <2>3. r = [tab |-> d.tab, token |-> token[d.tab] + 1, silent |-> no, since |-> Len(cluster) + 1, ns |-> f]
    OBVIOUS
  <2>4. no \in BOOLEAN
    BY <1>2
  <2> HIDE DEF f, r
  <2> QED BY <1>1, <1>3, <2>1, <2>2, <2>3, <2>4 DEF TabRequests
<1> HIDE DEF r
<1>7. TokensInOrder'
  <2>1. token' = [t \in ResourceTabs!Tabs |-> IF t \in {d.tab} THEN token[t] + 1 ELSE token[t]]
    BY <1>1, <1>4 DEF TokensInOrder
  <2>2. \A t \in ResourceTabs!Tabs : data'[t] \in TabLists /\ data'[t].at <= data[t].at
    BY <1>4 DEF TabTypes, TabLists
  <2>3. /\ {d.tab} \subseteq ResourceTabs!Tabs /\ {r} \subseteq TabRequests
        /\ \A t \in {d.tab} : \E q \in {r} : q.tab = t
        /\ \A p, q \in {r} : p.tab = q.tab => p = q
        /\ Len(cluster) <= Len(cluster') /\ Len(cluster') \in Nat
        /\ reqs' = reqs \cup {r} /\ quiet \ {d.tab} \subseteq quiet'
    BY <1>1, <1>2, <1>3, <1>4, <1>6
  <2>4. \A q \in {r} : /\ q.tab \in {d.tab} /\ q.token = token[q.tab] + 1 /\ q.since = Len(cluster')
                       /\ q.silent => q.tab \in quiet'
    BY <1>4, <1>6
  <2>5. Issued({d.tab}, {r})
    BY <1>4, <2>1, <2>2, <2>3, <2>4 DEF Issued
  <2> QED BY <2>5, TokensIssued
<1>8. TabTypes'
  <2>1. \A t \in ResourceTabs!Tabs : data[t].at \in Nat
    BY DEF TabTypes, TabLists
  <2> QED BY <1>1, <1>3, <1>4, <1>5, <2>1 DEF TabTypes
<1>9. ResourceTabs!ListMatchesFilter'
  BY <1>4, <1>5 DEF ResourceTabs!ListMatchesFilter
<1>10. ResourceTabs!SpinnerHasRequest'
  BY <1>1, <1>2, <1>4, <1>5 DEF ResourceTabs!SpinnerHasRequest, TokensInOrder
<1> QED BY <1>7, <1>8, <1>9, <1>10

LEMMA TabsDelete ==
  ASSUME TabsIInv, NEW t \in ResourceTabs!Tabs, NEW ns \in Namespaces, ResourceTabs!Delete(t, ns)
  PROVE  TabsIInv'
<1> USE DEF TabsIInv
<1>1. /\ UNCHANGED <<page, cluster, data, loaded, screen, filter, token, reqs, quiet>>
      /\ deleting' = deleting \cup {[tab |-> t, ns |-> ns]}
  BY DEF ResourceTabs!Delete, ResourceTabs!shown
<1>2. ResourceTabs!Tabs' = ResourceTabs!Tabs /\ TabRequests' = TabRequests
  BY <1>1, TabsStay
<1>3. TabTypes'
  BY <1>1, <1>2 DEF TabTypes
<1> QED BY <1>1, <1>2, <1>3 DEF TokensInOrder, ResourceTabs!ListMatchesFilter,
     ResourceTabs!SpinnerHasRequest

LEMMA TabsDeleteFails ==
  ASSUME TabsIInv, NEW d \in deleting, ResourceTabs!DeleteFails(d)
  PROVE  TabsIInv'
<1> USE DEF TabsIInv
<1>1. /\ UNCHANGED <<page, cluster, data, loaded, screen, filter, token, reqs, quiet>>
      /\ deleting' = deleting \ {d}
  BY DEF ResourceTabs!DeleteFails, ResourceTabs!shown
<1>2. ResourceTabs!Tabs' = ResourceTabs!Tabs /\ TabRequests' = TabRequests
  BY <1>1, TabsStay
<1>3. TabTypes'
  BY <1>1, <1>2 DEF TabTypes
<1> QED BY <1>1, <1>2, <1>3 DEF TokensInOrder, ResourceTabs!ListMatchesFilter,
     ResourceTabs!SpinnerHasRequest

\* Others create and delete objects.
LEMMA TabsChanges ==
  ASSUME TabsIInv, ResourceTabs!Changes
  PROVE  TabsIInv'
<1> USE DEF TabsIInv
<1>1. UNCHANGED <<page, data, loaded, screen, filter, token, reqs, deleting, quiet>>
  BY DEF ResourceTabs!Changes, ResourceTabs!shown
<1>2. cluster' \in Seq(SUBSET Namespaces) /\ Len(cluster') = Len(cluster) + 1 /\ Len(cluster) \in Nat
  <2>1. cluster \in Seq(SUBSET Namespaces) /\ Len(cluster) \in Nat /\ Len(cluster) > 0
    BY DEF TabTypes
  <2>2. PICK ns \in Namespaces :
          cluster' = Append(cluster, IF ns \in cluster[Len(cluster)] THEN cluster[Len(cluster)] \ {ns}
                                     ELSE cluster[Len(cluster)] \cup {ns})
    BY DEF ResourceTabs!Changes, ResourceTabs!Latest
  <2>3. cluster[Len(cluster)] \in SUBSET Namespaces
    BY <2>1
  <2> QED BY <2>1, <2>2, <2>3
<1>3. ResourceTabs!Tabs' = ResourceTabs!Tabs /\ TabRequests' = TabRequests
  BY <1>1, TabsStay
<1>4. TabTypes'
  <2>1. \A t \in ResourceTabs!Tabs : data[t].at \in Nat
    BY DEF TabTypes, TabLists
  <2> QED BY <1>1, <1>2, <1>3, <2>1 DEF TabTypes
<1>5. TokensInOrder'
  <2>1. \A r \in reqs : r.since \in 1..Len(cluster) => r.since \in 1..Len(cluster')
    BY <1>2
  <2> QED BY <1>1, <1>2, <1>3, <2>1 DEF TokensInOrder
<1> QED BY <1>1, <1>3, <1>4, <1>5 DEF ResourceTabs!ListMatchesFilter, ResourceTabs!SpinnerHasRequest

\* A request is answered or fails: nobody is asked for again.
LEMMA TokensLeft ==
  ASSUME TabTypes, TokensInOrder, NEW r \in reqs, reqs' = reqs \ {r},
         UNCHANGED <<page, cluster, token, quiet>>,
         \A t \in ResourceTabs!Tabs \ {r.tab} : data'[t] = data[t],
         r.token # token[r.tab] => data'[r.tab] = data[r.tab]
  PROVE  TokensInOrder'
<1>1. ResourceTabs!Tabs' = ResourceTabs!Tabs /\ TabRequests' = TabRequests
  BY TabsStay
<1>2. \A q \in reqs' : q.token = token[q.tab] =>
        data'[q.tab].at <= q.since /\ (q.silent => q.tab \in quiet)
  <2> SUFFICES ASSUME NEW q \in reqs', q.token = token[q.tab]
               PROVE  data'[q.tab].at <= q.since /\ (q.silent => q.tab \in quiet)
    OBVIOUS
  <2>1. q \in reqs /\ q # r /\ q.tab \in ResourceTabs!Tabs
    BY DEF TokensInOrder, TabRequests
  <2>2. q.tab = r.tab => r.token # token[r.tab]
    BY <2>1 DEF TokensInOrder
  <2>3. data'[q.tab] = data[q.tab]
    BY <2>1, <2>2
  <2> QED BY <2>1, <2>3 DEF TokensInOrder
<1> QED BY <1>1, <1>2 DEF TokensInOrder

\* The request was not the newest of its tab: the page stays as it is.
LEMMA SpinnersLeft ==
  ASSUME TabTypes, TokensInOrder, ResourceTabs!SpinnerHasRequest, NEW r \in reqs, reqs' = reqs \ {r},
         UNCHANGED <<page, token, quiet>>,
         \A t \in ResourceTabs!Tabs \ {r.tab} : screen'[t].show = "spinner" => screen[t].show = "spinner",
         \/ r.token # token[r.tab] /\ screen'[r.tab] = screen[r.tab]
         \/ screen'[r.tab].show = "spinner" => r.tab \in quiet
  PROVE  ResourceTabs!SpinnerHasRequest'
<1>1. ResourceTabs!Tabs' = ResourceTabs!Tabs
  BY TabsStay
<1> SUFFICES ASSUME NEW t \in ResourceTabs!Tabs, screen'[t].show = "spinner", t \notin quiet
             PROVE  \E q \in reqs' : q.tab = t /\ q.token = token[t]
  BY <1>1 DEF ResourceTabs!SpinnerHasRequest
<1>2. screen[t].show = "spinner"
  OBVIOUS
<1>3. PICK q \in reqs : q.tab = t /\ q.token = token[t]
  BY <1>2 DEF ResourceTabs!SpinnerHasRequest
<1>4. q # r
  BY <1>3
<1> QED BY <1>3, <1>4

\* What new data shows of a tab.
LEMMA RowsOfData ==
  ASSUME TabTypes, NEW d \in TabLists, d.at <= Len(cluster)
  PROVE  ResourceTabs!Rows(d) \subseteq Namespaces
<1>1. d.at \in Nat /\ (d.at # 0 => cluster[d.at] \subseteq Namespaces)
  BY DEF TabTypes, TabLists
<1> QED BY <1>1 DEF ResourceTabs!Rows

LEMMA TabsAnswer ==
  ASSUME TabsIInv, NEW r \in reqs, ResourceTabs!Answer(r)
  PROVE  TabsIInv' /\ ResourceTabs!ResNeverOlder /\ ResourceTabs!ErrorStays
<1> USE DEF TabsIInv
<1>1. UNCHANGED <<page, cluster, token, deleting, quiet>> /\ reqs' = reqs \ {r}
  BY DEF ResourceTabs!Answer
<1>2. ResourceTabs!Tabs' = ResourceTabs!Tabs /\ TabRequests' = TabRequests
  BY <1>1, TabsStay
<1>3. /\ r.tab \in ResourceTabs!Tabs /\ r.ns \in NamespacesOrAll /\ r.silent \in BOOLEAN
      /\ r.since \in 1..Len(cluster) /\ Len(cluster) \in Nat
  BY DEF TokensInOrder, TabRequests, TabTypes
<1>4. CASE r.token # token[r.tab]
  <2>1. UNCHANGED <<data, loaded, screen, filter>>
    BY <1>4 DEF ResourceTabs!Answer, ResourceTabs!IsValidToken, ResourceTabs!shown
  <2>2. TabTypes'
    BY <1>1, <1>2, <2>1 DEF TabTypes
  <2>3. TokensInOrder'
    BY <1>1, <2>1, TokensLeft
  <2>4. ResourceTabs!SpinnerHasRequest'
    BY <1>1, <1>4, <2>1, SpinnersLeft
  <2>5. ResourceTabs!ListMatchesFilter'
    BY <1>2, <2>1 DEF ResourceTabs!ListMatchesFilter
  <2>6. ResourceTabs!ResNeverOlder
    <3>1. \A t \in DOMAIN data : data[t].at \in Nat
      BY DEF TabTypes, TabLists
    <3> QED BY <2>1, <3>1 DEF ResourceTabs!ResNeverOlder
  <2> QED BY <2>1, <2>2, <2>3, <2>4, <2>5, <2>6 DEF ResourceTabs!ErrorStays
<1>5. CASE r.token = token[r.tab]
  <2>1. PICK v \in r.since..Len(cluster) :
          ResourceTabs!ApplyFilters([data EXCEPT ![r.tab] = [at |-> v, ns |-> r.ns]],
                                    [loaded EXCEPT ![r.tab] = @ \/ ResourceTabs!MarksLoaded(r)])
    BY <1>5 DEF ResourceTabs!Answer, ResourceTabs!IsValidToken, ResourceTabs!Latest
  <2>2. /\ data' = [data EXCEPT ![r.tab] = [at |-> v, ns |-> r.ns]]
        /\ loaded' = [loaded EXCEPT ![r.tab] = @ \/ ResourceTabs!MarksLoaded(r)]
        /\ filter' = filter \/ filter' = "all"
    BY <2>1 DEF ResourceTabs!ApplyFilters, ResourceTabs!All
  <2> DEFINE rows(t) == IF t \in ResourceTabs!Namespaced /\ filter # "all"
                        THEN ResourceTabs!Rows(data'[t]) \cap {filter} ELSE ResourceTabs!Rows(data'[t])
  <2>3. screen' = [t \in ResourceTabs!Tabs |->
                     IF loaded'[t] THEN [show |-> "list", rows |-> rows(t)] ELSE screen[t]]
    BY <2>1, <2>2 DEF ResourceTabs!ApplyFilters, ResourceTabs!Render, ResourceTabs!ListOf,
         ResourceTabs!All
  <2>4. v \in 1..Len(cluster) /\ v >= r.since
    BY <1>3
  <2>5. \A t \in ResourceTabs!Tabs :
          /\ data'[t] \in TabLists /\ data'[t].at <= Len(cluster)
          /\ t = r.tab => data'[t].at = v
          /\ t # r.tab => data'[t] = data[t] /\ (loaded'[t] <=> loaded[t])
    BY <1>3, <2>2, <2>4 DEF TabTypes, TabLists
  <2>6. loaded' \in [ResourceTabs!Tabs -> BOOLEAN]
    BY <2>2 DEF TabTypes, ResourceTabs!MarksLoaded
  <2>7. \A t \in ResourceTabs!Tabs : rows(t) \subseteq Namespaces
    BY <2>5, RowsOfData
  <2>8. data' \in [ResourceTabs!Tabs -> TabLists]
    BY <2>2, <2>5 DEF TabTypes
  <2>9. filter' \in NamespacesOrAll
    BY <2>2 DEF TabTypes, NamespacesOrAll
  <2>10. \A t \in ResourceTabs!Tabs : screen'[t] = IF loaded'[t] THEN [show |-> "list", rows |-> rows(t)] ELSE screen[t]
    BY <2>3
  <2>11. \A t \in ResourceTabs!Tabs :
           /\ loaded'[t] => screen'[t].show = "list" /\ screen'[t].rows = rows(t)
           /\ ~loaded'[t] => screen'[t] = screen[t]
    <3> TAKE t \in ResourceTabs!Tabs
    <3> HIDE DEF rows
    <3>1. loaded'[t] => screen'[t] = [show |-> "list", rows |-> rows(t)]
      BY <2>10
    <3>2. ~loaded'[t] => screen'[t] = screen[t]
      BY <2>10
    <3> QED BY <3>1, <3>2
  <2>12. screen' \in [ResourceTabs!Tabs -> TabShows]
    <3>1. \A t \in ResourceTabs!Tabs : [show |-> "list", rows |-> rows(t)] \in TabShows
      BY <2>7 DEF TabShows
    <3> HIDE DEF rows
    <3>2. \A t \in ResourceTabs!Tabs : screen'[t] \in TabShows
      BY <2>10, <3>1 DEF TabTypes
    <3> QED BY <2>3, <3>2
  <2>13. TabTypes'
    <3>1. \A t \in ResourceTabs!Tabs : loaded'[t] => data'[t].at > 0
      BY <2>4, <2>5 DEF TabTypes
    <3> QED BY <1>1, <1>2, <2>5, <2>6, <2>8, <2>9, <2>12, <3>1 DEF TabTypes
  <2>14. TokensInOrder'
    BY <1>1, <1>5, <2>5, TokensLeft
  <2>15. ResourceTabs!SpinnerHasRequest'
    <3>1. \A t \in ResourceTabs!Tabs \ {r.tab} :
            screen'[t].show = "spinner" => screen[t].show = "spinner"
      BY <2>11
    <3>2. screen'[r.tab].show = "spinner" => r.tab \in quiet
      <4> SUFFICES ASSUME screen'[r.tab].show = "spinner" PROVE r.tab \in quiet
        OBVIOUS
      <4>1. ~loaded'[r.tab]
        BY <1>3, <2>11
      <4>2. r.silent
        BY <1>3, <2>2, <4>1 DEF ResourceTabs!MarksLoaded, TabTypes
      <4> QED BY <1>5, <4>2 DEF TokensInOrder
    <3> QED BY <1>1, <3>1, <3>2, SpinnersLeft
  <2>16. ResourceTabs!ListMatchesFilter'
    <3> SUFFICES ASSUME NEW t \in ResourceTabs!Tabs \cap ResourceTabs!Namespaced,
                        filter' # "all", screen'[t].show = "list"
                 PROVE  screen'[t].rows \subseteq {filter'}
      BY <1>2 DEF ResourceTabs!ListMatchesFilter, ResourceTabs!All
    <3>1. filter' = filter
      BY <2>2
    <3>2. CASE loaded'[t]
      BY <2>11, <3>1, <3>2
    <3>3. CASE ~loaded'[t]
      <4>1. screen'[t] = screen[t]
        BY <2>11, <3>3
      <4> QED BY <3>1, <4>1 DEF ResourceTabs!ListMatchesFilter, ResourceTabs!All
    <3> QED BY <3>2, <3>3
  <2>17. ResourceTabs!ResNeverOlder
    <3>1. \A t \in DOMAIN data : data[t].at \in Nat /\ t \in ResourceTabs!Tabs
      BY DEF TabTypes, TabLists
    <3>2. data[r.tab].at <= r.since
      BY <1>5 DEF TokensInOrder
    <3> QED BY <1>3, <2>4, <2>5, <3>1, <3>2 DEF ResourceTabs!ResNeverOlder
  <2>18. ResourceTabs!ErrorStays
    <3>1. DOMAIN screen = ResourceTabs!Tabs
      BY DEF TabTypes
    <3>2. r \in reqs \ reqs'
      BY <1>1
    <3> QED BY <2>5, <2>10, <3>1, <3>2 DEF ResourceTabs!ErrorStays
  <2> QED BY <2>13, <2>14, <2>15, <2>16, <2>17, <2>18
<1> QED BY <1>4, <1>5

LEMMA TabsFail ==
  ASSUME TabsIInv, NEW r \in reqs, ResourceTabs!Fail(r)
  PROVE  TabsIInv'
<1> USE DEF TabsIInv
<1>1. /\ UNCHANGED <<page, cluster, data, loaded, filter, token, deleting, quiet>> /\ reqs' = reqs \ {r}
      /\ screen' = IF r.token = token[r.tab] /\ ~r.silent
                   THEN [screen EXCEPT ![r.tab] = ResourceTabs!ErrorText] ELSE screen
  BY DEF ResourceTabs!Fail, ResourceTabs!IsValidToken
<1>2. ResourceTabs!Tabs' = ResourceTabs!Tabs /\ TabRequests' = TabRequests
  BY <1>1, TabsStay
<1>3. r.tab \in ResourceTabs!Tabs /\ DOMAIN screen = ResourceTabs!Tabs
  BY DEF TokensInOrder, TabRequests, TabTypes
<1>4. TabTypes'
  <2>1. ResourceTabs!ErrorText \in TabShows
    BY DEF ResourceTabs!ErrorText, TabShows
  <2>2. screen' \in [ResourceTabs!Tabs -> TabShows]
    BY <1>1, <2>1 DEF TabTypes
  <2> QED BY <1>1, <1>2, <2>2 DEF TabTypes
<1>5. TokensInOrder'
  BY <1>1, TokensLeft
<1>6. \A t \in ResourceTabs!Tabs : screen'[t] = screen[t] \/ screen'[t].show = "error"
  BY <1>1, <1>3 DEF ResourceTabs!ErrorText
<1>7. ResourceTabs!ListMatchesFilter'
  BY <1>1, <1>2, <1>6 DEF ResourceTabs!ListMatchesFilter
<1>8. ResourceTabs!SpinnerHasRequest'
  <2>1. \A t \in ResourceTabs!Tabs \ {r.tab} :
          screen'[t].show = "spinner" => screen[t].show = "spinner"
    BY <1>6
  <2>2. CASE r.token # token[r.tab]
    BY <1>1, <2>1, <2>2, SpinnersLeft
  <2>3. CASE r.token = token[r.tab]
    <3>1. screen'[r.tab].show = "spinner" => r.tab \in quiet
      <4>1. CASE r.silent
        BY <2>3, <4>1 DEF TokensInOrder
      <4>2. CASE ~r.silent
        BY <1>1, <1>3, <2>3, <4>2 DEF ResourceTabs!ErrorText
      <4> QED BY <4>1, <4>2
    <3> QED BY <1>1, <2>1, <3>1, SpinnersLeft
  <2> QED BY <2>2, <2>3
<1> QED BY <1>4, <1>5, <1>7, <1>8

\* Each action of the storage and service pages keeps its invariant, and takes no tab back.
LEMMA TabsStep ==
  ASSUME TabsIInv, ResourceTabs!Next
  PROVE  TabsIInv' /\ ResourceTabs!ResNeverOlder /\ ResourceTabs!ErrorStays
<1>1. /\ data \in [ResourceTabs!Tabs -> TabLists] /\ token \in [ResourceTabs!Tabs -> Nat]
      /\ DOMAIN screen = ResourceTabs!Tabs /\ DOMAIN data = ResourceTabs!Tabs
  BY DEF TabsIInv, TabTypes, TokensInOrder
<1>2. \A t \in ResourceTabs!Tabs : data[t].at \in Nat /\ token[t] \in Nat
  BY <1>1 DEF TabLists
<1>3. UNCHANGED data => ResourceTabs!ResNeverOlder
  BY <1>1, <1>2 DEF ResourceTabs!ResNeverOlder
<1>4. UNCHANGED screen => ResourceTabs!ErrorStays
  BY DEF ResourceTabs!ErrorStays
<1>5. ASSUME NEW ts,
             token' = [t \in ResourceTabs!Tabs |-> IF t \in ts THEN token[t] + 1 ELSE token[t]],
             screen' = [t \in ResourceTabs!Tabs |-> IF t \in ts THEN ResourceTabs!Spinner ELSE screen[t]]
      PROVE  ResourceTabs!ErrorStays
  BY <1>1, <1>2, <1>5 DEF ResourceTabs!ErrorStays
<1>6. CASE \E t \in ResourceTabs!Tabs : ResourceTabs!ReloadTab(t)
  <2>1. PICK t \in ResourceTabs!Tabs : ResourceTabs!ReloadTab(t)
    BY <1>6
  <2>2. UNCHANGED data
    BY <2>1 DEF ResourceTabs!ReloadTab
  <2>3. ResourceTabs!ErrorStays
    BY <1>5, <2>1 DEF ResourceTabs!ReloadTab, ResourceTabs!Issue
  <2> QED BY <1>3, <2>1, <2>2, <2>3, TabsReload
<1>7. CASE ResourceTabs!ReloadAll
  <2>1. ResourceTabs!ResNeverOlder
    BY <1>1, <1>7 DEF ResourceTabs!ReloadAll, ResourceTabs!ResNeverOlder
  <2>2. ResourceTabs!ErrorStays
    BY <1>5, <1>7 DEF ResourceTabs!ReloadAll, ResourceTabs!Issue
  <2> QED BY <1>7, <2>1, <2>2, TabsReloadAll
<1>8. CASE \E ns \in Namespaces \cup {ResourceTabs!All} : ResourceTabs!SelectNamespace(ns)
  <2>1. PICK ns \in Namespaces \cup {ResourceTabs!All} : ResourceTabs!SelectNamespace(ns)
    BY <1>8
  <2>2. UNCHANGED data
    BY <2>1 DEF ResourceTabs!SelectNamespace
  <2>3. ResourceTabs!ErrorStays
    BY <1>5, <2>1 DEF ResourceTabs!SelectNamespace
  <2> QED BY <1>3, <2>1, <2>2, <2>3, TabsSelect
<1>9. CASE \E t \in ResourceTabs!Tabs : \E ns \in Namespaces : ResourceTabs!Delete(t, ns)
  <2>1. UNCHANGED <<data, screen>>
    BY <1>9 DEF ResourceTabs!Delete, ResourceTabs!shown
  <2> QED BY <1>3, <1>4, <1>9, <2>1, TabsDelete
<1>10. CASE \E d \in deleting : ResourceTabs!Deleted(d)
  <2>1. UNCHANGED <<data, screen>>
    BY <1>10 DEF ResourceTabs!Deleted, ResourceTabs!shown
  <2> QED BY <1>3, <1>4, <1>10, <2>1, TabsDeleted
<1>11. CASE \E d \in deleting : ResourceTabs!DeleteFails(d)
  <2>1. UNCHANGED <<data, screen>>
    BY <1>11 DEF ResourceTabs!DeleteFails, ResourceTabs!shown
  <2> QED BY <1>3, <1>4, <1>11, <2>1, TabsDeleteFails
<1>12. CASE \E r \in reqs : ResourceTabs!Answer(r)
  BY <1>12, TabsAnswer
<1>13. CASE \E r \in reqs : ResourceTabs!Fail(r)
  <2>1. PICK r \in reqs : ResourceTabs!Fail(r)
    BY <1>13
  <2>2. /\ UNCHANGED data
        /\ screen' = screen \/ screen' = [screen EXCEPT ![r.tab] = ResourceTabs!ErrorText]
    BY <2>1 DEF ResourceTabs!Fail
  <2>3. ResourceTabs!ErrorStays
    BY <1>1, <2>2 DEF ResourceTabs!ErrorStays
  <2> QED BY <1>3, <2>1, <2>2, <2>3, TabsFail
<1>14. CASE ResourceTabs!Changes
  <2>1. UNCHANGED <<data, screen>>
    BY <1>14 DEF ResourceTabs!Changes, ResourceTabs!shown
  <2> QED BY <1>3, <1>4, <1>14, <2>1, TabsChanges
<1> QED BY <1>6, <1>7, <1>8, <1>9, <1>10, <1>11, <1>12, <1>13, <1>14
     DEF ResourceTabs!Next, ResourceTabs!Replies

LEMMA TabsShown == TabsIInv => ResourceTabs!ResTypeOK
<1> SUFFICES ASSUME TabsIInv PROVE ResourceTabs!ResTypeOK
  OBVIOUS
<1> USE DEF TabsIInv
<1>1. \A i \in DOMAIN cluster : cluster[i] \subseteq Namespaces
  BY DEF TabTypes
<1>2. data \in [ResourceTabs!Tabs -> [at : 0..Len(cluster), ns : NamespacesOrAll]]
  <2>1. \A t \in ResourceTabs!Tabs : data[t] \in [at : 0..Len(cluster), ns : NamespacesOrAll]
    BY DEF TabTypes, TabLists
  <2> QED BY <2>1 DEF TabTypes
<1>3. \A r \in reqs : r.tab \in ResourceTabs!Tabs /\ r.token \in 1..token[r.tab]
  BY DEF TokensInOrder, TabRequests
<1> QED BY <1>1, <1>2, <1>3
     DEF ResourceTabs!ResTypeOK, ResourceTabs!Latest, ResourceTabs!All, TabTypes,
          NamespacesOrAll, TabShows
-------------------------------------------------------------------------------
(* The windows of a workload *)

DetailKinds == WorkloadDetails!Detail \ {"deployment"}
StepTexts ==
  {"none", "basic", "replicas", "resources", "events", "pods", "yaml", "info", "identity", "volumes",
   "logs", "jobs", "containers", "content", "output", "describe", "history"}
ViewSteps == [fills : StepTexts, onError : {"stop", "go", "none"}, shows : StepTexts]
ViewLoads == [id : 1..MaxViews, for : Names, todo : Seq(ViewSteps)]
Marks == {"blank", "loading", "problem"}

\* A script that is under way tells each failure in a section of the window that no later
\* answer covers.
Told(script) ==
  /\ \A i \in DOMAIN script :
       script[i].onError \in {"stop", "go"} => script[i].shows \in WorkloadDetails!SectionsOf(kind)
  /\ \A i, j \in DOMAIN script : i < j /\ script[i].onError = "go" =>
       script[j].fills # script[i].shows

DetailsTypes ==
  /\ kind \in Kinds /\ title \in Names \cup {"blank"}
  /\ section \in [WorkloadDetails!SectionsOf(kind) -> Names \cup Marks]
  /\ loads \subseteq ViewLoads /\ IsFiniteSet(loads) /\ Cardinality(loads) <= started
  /\ \A l \in loads : Len(l.todo) \in 1..5 /\ (kind \in DetailKinds => Told(l.todo))
  /\ started \in 0..MaxViews /\ crossed \in BOOLEAN /\ failures \in Nat

\* A window that was never opened is empty, the output window's title apart.
OpenedFirst ==
  title = "blank" /\ kind # "output" =>
    loads = {} /\ \A s \in DOMAIN section : section[s] = "blank"

\* Loads that never crossed are all for the title; the refresh button is bound to the
\* title's pod, or the answer that will bind it is under way.
LoadsOfTitle == ~crossed /\ kind # "output" => \A l \in loads : l.for = title
RefreshOfTitle ==
  ~crossed /\ kind = "logs" /\ section["refresh"] \in Names /\ section["refresh"] # title =>
    \E l \in loads : Len(l.todo) = 2

\* A spinner belongs to a step some load has yet to take.
SpinnersHaveSteps ==
  kind \in DetailKinds /\ failures = 0 =>
    \A s \in DOMAIN section : section[s] = "loading" =>
      \E l \in loads : \E i \in DOMAIN l.todo : l.todo[i].fills = s

DetailsIInv ==
  /\ DetailsTypes /\ OpenedFirst /\ LoadsOfTitle /\ RefreshOfTitle /\ SpinnersHaveSteps
  /\ WorkloadDetails!OneWorkload
  /\ WorkloadDetails!OutputMatchesTitle /\ WorkloadDetails!CommandRunsInTitle

\* The windows' module counts sets as this one does.
LEMMA DetailsCounted ==
  \A S : WorkloadDetails!Cardinality(S) = Cardinality(S)
BY DEF WorkloadDetails!Cardinality, Cardinality

\* What a name of a workload is not.
LEMMA NamesAreNoMarks == Names \cap Marks = {} /\ MaxViews \in Nat
BY PagesAssumption DEF WorkloadDetails!WorkloadDetailsAssumption, Marks

LEMMA StepsAreSteps ==
  \A f, s \in StepTexts, e \in {"stop", "go", "none"} :
    /\ WorkloadDetails!Step(f, e, s) \in ViewSteps
    /\ WorkloadDetails!Step(f, e, s).fills = f /\ WorkloadDetails!Step(f, e, s).onError = e
    /\ WorkloadDetails!Step(f, e, s).shows = s
BY DEF WorkloadDetails!Step, ViewSteps

\* The sections that the scripts name, and the three forms of their steps.
LEMMA ScriptTexts ==
  /\ "info" \in StepTexts /\ "identity" \in StepTexts /\ "volumes" \in StepTexts
  /\ "events" \in StepTexts /\ "yaml" \in StepTexts /\ "pods" \in StepTexts
  /\ "logs" \in StepTexts /\ "jobs" \in StepTexts /\ "containers" \in StepTexts
  /\ "content" \in StepTexts /\ "output" \in StepTexts /\ "describe" \in StepTexts
  /\ "history" \in StepTexts
BY DEF StepTexts

LEMMA StepForms ==
  /\ \A f, s \in StepTexts :
       /\ WorkloadDetails!Ask(f, s) \in ViewSteps /\ WorkloadDetails!Ask(f, s).fills = f
       /\ WorkloadDetails!Ask(f, s).onError = "stop" /\ WorkloadDetails!Ask(f, s).shows = s
  /\ \A f \in StepTexts :
       /\ WorkloadDetails!Try(f) \in ViewSteps /\ WorkloadDetails!Try(f).fills = f
       /\ WorkloadDetails!Try(f).onError = "go" /\ WorkloadDetails!Try(f).shows = f
  /\ \A f \in StepTexts :
       /\ WorkloadDetails!Fill(f) \in ViewSteps /\ WorkloadDetails!Fill(f).fills = f
       /\ WorkloadDetails!Fill(f).onError = "none" /\ WorkloadDetails!Fill(f).shows = f
BY StepsAreSteps DEF WorkloadDetails!Ask, WorkloadDetails!Try, WorkloadDetails!Fill

\* The steps that one answer takes are the first ones of the script.
LEMMA FirstSteps ==
  ASSUME NEW script \in Seq(ViewSteps), Len(script) \in 1..5
  PROVE  \E m \in 1..Len(script) :
           WorkloadDetails!FilledBy(script) = 1..m /\ Cardinality(1..m) = m
<1> DEFINE D == WorkloadDetails!FilledBy(script)
           n == Len(script)
<1>1. \A i \in D : i \in 1..n
  BY DEF WorkloadDetails!FilledBy
<1>2. 1 \in D
  BY DEF WorkloadDetails!FilledBy
<1>3. \A i \in D : \A j \in 1..n : j <= i => j \in D
  BY DEF WorkloadDetails!FilledBy
<1>4. n \in 1..5
  OBVIOUS
<1> HIDE DEF D, n
<1>5. \E m \in 1..n : m \in D /\ (m + 1 \notin D)
  <2>1. CASE 2 \notin D
    BY <1>2, <1>4, <2>1
  <2>2. CASE 2 \in D /\ 3 \notin D
    BY <1>1, <1>4, <2>2
  <2>3. CASE 3 \in D /\ 4 \notin D
    BY <1>1, <1>4, <2>3
  <2>4. CASE 4 \in D /\ 5 \notin D
    BY <1>1, <1>4, <2>4
  <2>5. CASE 5 \in D
    BY <1>1, <1>4, <2>5
  <2>6. 3 \in D => 2 \in D
    BY <1>1, <1>3, <1>4
  <2>7. 4 \in D => 3 \in D
    BY <1>1, <1>3, <1>4
  <2> QED BY <2>1, <2>2, <2>3, <2>4, <2>5, <2>6, <2>7
<1>6. PICK m \in 1..n : m \in D /\ (m + 1 \notin D)
  BY <1>5
<1>7. \A i \in D : i <= m
  BY <1>1, <1>3, <1>4, <1>6
<1>8. D = 1..m
  <2>1. \A i \in D : i \in 1..m
    BY <1>1, <1>4, <1>6, <1>7
  <2>2. \A i \in 1..m : i \in D
    BY <1>3, <1>4, <1>6
  <2> QED BY <2>1, <2>2
<1>9. Cardinality(1..m) = m
  BY <1>4, FS_Interval
<1> QED BY <1>6, <1>8, <1>9 DEF D, n

\* What is left of a script keeps its promises.
LEMMA RestOfScript ==
  ASSUME NEW script \in Seq(ViewSteps), Len(script) \in 1..5, NEW m \in 1..Len(script)
  PROVE  LET rest == SubSeq(script, m + 1, Len(script))
         IN /\ rest \in Seq(ViewSteps) /\ Len(rest) = Len(script) - m
            /\ rest # <<>> => Len(rest) \in 1..5
            /\ \A i \in (m + 1)..Len(script) : i - m \in DOMAIN rest /\ rest[i - m] = script[i]
            /\ Told(script) => Told(rest)
<1> DEFINE rest == SubSeq(script, m + 1, Len(script))
<1>1. \A i \in (m + 1)..Len(script) : script[i] \in ViewSteps
  OBVIOUS
<1>2. /\ rest \in Seq(ViewSteps) /\ Len(rest) = Len(script) - m
      /\ \A i \in 1..Len(script) - m : rest[i] = script[m + i]
  OBVIOUS
<1> HIDE DEF rest
<1>3. rest # <<>> => Len(rest) \in 1..5
  <2>1. \A q \in Seq(ViewSteps) : Len(q) = 0 => q = <<>>
    OBVIOUS
  <2>2. Len(rest) \in 0..4
    <3>1. \A k \in 1..5 : \A j \in 1..k : k - j \in 0..4
      OBVIOUS
    <3>2. Len(script) - m \in 0..4
      BY <3>1
    <3> QED BY <1>2, <3>2
  <2>3. Len(rest) = 0 => rest = <<>>
    BY <1>2, <2>1
  <2> QED BY <2>2, <2>3
<1>4. DOMAIN rest = 1..Len(script) - m
  BY <1>2
<1>5. \A i \in (m + 1)..Len(script) : i - m \in DOMAIN rest /\ rest[i - m] = script[i]
  BY <1>2, <1>4
<1>6. \A i \in DOMAIN rest : m + i \in DOMAIN script /\ rest[i] = script[m + i]
  BY <1>2, <1>4
<1>7. Told(script) => Told(rest)
  BY <1>4, <1>6 DEF Told
<1> QED BY <1>2, <1>3, <1>5, <1>7 DEF rest

\* A window is opened, a tab is shown, a button is pressed: one more load.
LEMMA LoadBegun ==
  ASSUME DetailsTypes, NEW n \in Names, NEW script \in Seq(ViewSteps), Len(script) \in 1..5,
         kind \in DetailKinds => Told(script), WorkloadDetails!Begin(n, script),
         UNCHANGED <<kind, failures>>
  PROVE  /\ loads' \subseteq ViewLoads /\ IsFiniteSet(loads') /\ Cardinality(loads') <= started'
         /\ \A l \in loads' : Len(l.todo) \in 1..5 /\ (kind' \in DetailKinds => Told(l.todo)')
         /\ started' \in 0..MaxViews /\ crossed' \in BOOLEAN /\ failures' \in Nat
         /\ loads \subseteq loads' /\ \E l \in loads' : l.todo = script
         /\ ~crossed' => ~crossed /\ \A l \in loads' : l.for = n
<1> DEFINE new == [id |-> started + 1, for |-> n, todo |-> script]
<1>1. /\ started < MaxViews /\ started' = started + 1 /\ loads' = loads \cup {new}
      /\ crossed' = (crossed \/ \E l \in loads : l.for # n)
  BY DEF WorkloadDetails!Begin
<1>2. started \in Nat /\ started + 1 \in 1..MaxViews /\ started' \in 0..MaxViews
  BY <1>1, NamesAreNoMarks DEF DetailsTypes
<1>3. new \in ViewLoads /\ new.todo = script /\ new.for = n
  BY <1>2 DEF ViewLoads
<1> HIDE DEF new
<1>4. IsFiniteSet(loads') /\ Cardinality(loads') <= started'
  <2>1. /\ IsFiniteSet(loads \cup {new}) /\ Cardinality(loads) \in Nat
        /\ Cardinality(loads \cup {new}) = IF new \in loads THEN Cardinality(loads) ELSE Cardinality(loads) + 1
    BY FS_AddElement, FS_CardinalityType DEF DetailsTypes
  <2> QED BY <1>1, <1>2, <2>1 DEF DetailsTypes
<1>5. \A l \in loads' : Len(l.todo) \in 1..5 /\ (kind' \in DetailKinds => Told(l.todo)')
  <2>1. \A l \in loads' : Told(l.todo)' <=> Told(l.todo)
    BY DEF Told, WorkloadDetails!SectionsOf, WorkloadDetails!Scripts
  <2>2. \A l \in loads' : Len(l.todo) \in 1..5 /\ (kind \in DetailKinds => Told(l.todo))
    BY <1>1, <1>3 DEF DetailsTypes
  <2> QED BY <2>1, <2>2
<1>6. crossed' \in BOOLEAN
  BY <1>1
<1>7. ~crossed' => ~crossed /\ \A l \in loads' : l.for = n
  BY <1>1, <1>3
<1>8. loads' \subseteq ViewLoads /\ failures' \in Nat
  BY <1>1, <1>3 DEF DetailsTypes
<1> QED BY <1>1, <1>2, <1>3, <1>4, <1>5, <1>6, <1>7, <1>8

\* A load takes its next steps, or is over.
LEMMA LoadProceeds ==
  ASSUME DetailsTypes, NEW l \in loads, NEW rest \in Seq(ViewSteps),
         rest # <<>> => Len(rest) \in 1..5, kind \in DetailKinds => Told(rest),
         loads' = (loads \ {l}) \cup (IF rest = <<>> THEN {} ELSE {[l EXCEPT !.todo = rest]}),
         UNCHANGED <<kind, started>>
  PROVE  /\ loads' \subseteq ViewLoads /\ IsFiniteSet(loads') /\ Cardinality(loads') <= started'
         /\ \A q \in loads' : /\ Len(q.todo) \in 1..5 /\ (kind' \in DetailKinds => Told(q.todo)')
                              /\ \E p \in loads : q.for = p.for
         /\ \A q \in loads : q # l => q \in loads'
         /\ rest # <<>> => \E q \in loads' : q.todo = rest /\ q.for = l.for
<1> DEFINE new == [l EXCEPT !.todo = rest]
<1>1. l \in ViewLoads /\ new \in ViewLoads /\ new.todo = rest /\ new.for = l.for
  BY DEF DetailsTypes, ViewLoads
<1> HIDE DEF new
<1>2. \/ loads' = loads \ {l} /\ rest = <<>>
      \/ loads' = (loads \ {l}) \cup {new} /\ rest # <<>>
  BY DEF new
<1>3. IsFiniteSet(loads') /\ Cardinality(loads') <= started'
  <2>1. /\ IsFiniteSet(loads \ {l}) /\ Cardinality(loads \ {l}) = Cardinality(loads) - 1
        /\ Cardinality(loads) \in Nat /\ started \in Nat
    BY FS_RemoveElement, FS_CardinalityType DEF DetailsTypes
  <2>2. /\ IsFiniteSet((loads \ {l}) \cup {new})
        /\ \/ Cardinality((loads \ {l}) \cup {new}) = Cardinality(loads) - 1
           \/ Cardinality((loads \ {l}) \cup {new}) = Cardinality(loads) - 1 + 1
    BY <2>1, FS_AddElement
  <2>3. started' = started /\ Cardinality(loads) <= started
    BY DEF DetailsTypes
  <2>4. CASE loads' = loads \ {l}
    <3>1. Cardinality(loads') = Cardinality(loads \ {l}) /\ IsFiniteSet(loads')
      BY <2>1, <2>4, Zenon
    <3> QED BY <2>1, <2>3, <3>1
  <2>5. CASE loads' = (loads \ {l}) \cup {new}
    <3>1. Cardinality(loads') = Cardinality((loads \ {l}) \cup {new}) /\ IsFiniteSet(loads')
      BY <2>2, <2>5, Zenon
    <3> QED BY <2>1, <2>2, <2>3, <3>1
  <2> QED BY <1>2, <2>4, <2>5
<1>4. \A q \in loads' : /\ Len(q.todo) \in 1..5 /\ (kind' \in DetailKinds => Told(q.todo)')
                        /\ \E p \in loads : q.for = p.for
  <2>1. \A q \in loads' : Told(q.todo)' <=> Told(q.todo)
    BY DEF Told, WorkloadDetails!SectionsOf, WorkloadDetails!Scripts
  <2>2. \A q \in loads' : q \in loads \/ (q = new /\ rest # <<>>)
    BY <1>2
  <2> QED BY <1>1, <2>1, <2>2 DEF DetailsTypes
<1> QED BY <1>1, <1>2, <1>3, <1>4 DEF DetailsTypes

\* A script tells its failures in the sections of its window, and fills each of them.
Promises(script, sections) ==
  /\ script \in Seq(ViewSteps) /\ Len(script) \in 1..5
  /\ \A i \in DOMAIN script : script[i].onError \in {"stop", "go"} => script[i].shows \in sections
  /\ \A i, j \in DOMAIN script : i < j /\ script[i].onError = "go" =>
       script[j].fills # script[i].shows
  /\ \A i \in DOMAIN script : script[i].fills \in sections
  /\ \A s \in sections : \E i \in DOMAIN script : script[i].fills = s

LEMMA StatefulSetScript ==
  Promises(WorkloadDetails!StatefulSetSteps, {"info", "identity", "volumes", "events", "yaml"})
<1> DEFINE s1 == WorkloadDetails!Ask("info", "info")
           s2 == WorkloadDetails!Ask("identity", "info")
           s3 == WorkloadDetails!Try("volumes")
           s4 == WorkloadDetails!Fill("events")
           s5 == WorkloadDetails!Try("yaml")
           script == <<s1, s2, s3, s4, s5>>
<1>1. s1 \in ViewSteps /\ s1.fills = "info" /\ s1.onError = "stop" /\ s1.shows = "info"
  BY StepForms, ScriptTexts
<1>2. s2 \in ViewSteps /\ s2.fills = "identity" /\ s2.onError = "stop" /\ s2.shows = "info"
  BY StepForms, ScriptTexts
<1>3. s3 \in ViewSteps /\ s3.fills = "volumes" /\ s3.onError = "go" /\ s3.shows = "volumes"
  BY StepForms, ScriptTexts
<1>4. s4 \in ViewSteps /\ s4.fills = "events" /\ s4.onError = "none" /\ s4.shows = "events"
  BY StepForms, ScriptTexts
<1>5. s5 \in ViewSteps /\ s5.fills = "yaml" /\ s5.onError = "go" /\ s5.shows = "yaml"
  BY StepForms, ScriptTexts
<1>6. WorkloadDetails!StatefulSetSteps = script
  BY DEF WorkloadDetails!StatefulSetSteps
<1> HIDE DEF s1, s2, s3, s4, s5
<1>7. /\ script \in Seq(ViewSteps) /\ Len(script) = 5 /\ DOMAIN script = 1..5
      /\ script[1] = s1 /\ script[2] = s2 /\ script[3] = s3 /\ script[4] = s4 /\ script[5] = s5
  BY <1>1, <1>2, <1>3, <1>4, <1>5
<1>8. \A i \in 1..5 : i = 1 \/ i = 2 \/ i = 3 \/ i = 4 \/ i = 5
  OBVIOUS
<1> HIDE DEF script
<1>9. \A i \in DOMAIN script : script[i].onError \in {"stop", "go"} =>
       script[i].shows \in {"info", "identity", "volumes", "events", "yaml"}
  BY <1>1, <1>2, <1>3, <1>4, <1>5, <1>7, <1>8
<1>10. \A i, j \in DOMAIN script : i < j /\ script[i].onError = "go" =>
       script[j].fills # script[i].shows
  BY <1>1, <1>2, <1>3, <1>4, <1>5, <1>7, <1>8
<1>11. \A i \in DOMAIN script : script[i].fills \in {"info", "identity", "volumes", "events", "yaml"}
  BY <1>1, <1>2, <1>3, <1>4, <1>5, <1>7, <1>8
<1>12. \A s \in {"info", "identity", "volumes", "events", "yaml"} : \E i \in DOMAIN script : script[i].fills = s
  <2>1. 1 \in DOMAIN script /\ 2 \in DOMAIN script /\ 3 \in DOMAIN script /\ 4 \in DOMAIN script /\ 5 \in DOMAIN script
    BY <1>7
  <2> QED BY <1>1, <1>2, <1>3, <1>4, <1>5, <1>7, <2>1
<1> QED BY <1>6, <1>7, <1>9, <1>10, <1>11, <1>12 DEF Promises

LEMMA DaemonSetScript ==
  Promises(WorkloadDetails!DaemonSetSteps, {"info", "pods", "events", "yaml"})
<1> DEFINE s1 == WorkloadDetails!Ask("info", "info")
           s2 == WorkloadDetails!Ask("pods", "info")
           s3 == WorkloadDetails!Fill("events")
           s4 == WorkloadDetails!Try("yaml")
           script == <<s1, s2, s3, s4>>
<1>1. s1 \in ViewSteps /\ s1.fills = "info" /\ s1.onError = "stop" /\ s1.shows = "info"
  BY StepForms, ScriptTexts
<1>2. s2 \in ViewSteps /\ s2.fills = "pods" /\ s2.onError = "stop" /\ s2.shows = "info"
  BY StepForms, ScriptTexts
<1>3. s3 \in ViewSteps /\ s3.fills = "events" /\ s3.onError = "none" /\ s3.shows = "events"
  BY StepForms, ScriptTexts
<1>4. s4 \in ViewSteps /\ s4.fills = "yaml" /\ s4.onError = "go" /\ s4.shows = "yaml"
  BY StepForms, ScriptTexts
<1>5. WorkloadDetails!DaemonSetSteps = script
  BY DEF WorkloadDetails!DaemonSetSteps
<1> HIDE DEF s1, s2, s3, s4
<1>6. /\ script \in Seq(ViewSteps) /\ Len(script) = 4 /\ DOMAIN script = 1..4
      /\ script[1] = s1 /\ script[2] = s2 /\ script[3] = s3 /\ script[4] = s4
  BY <1>1, <1>2, <1>3, <1>4
<1>7. \A i \in 1..4 : i = 1 \/ i = 2 \/ i = 3 \/ i = 4
  OBVIOUS
<1> HIDE DEF script
<1>8. \A i \in DOMAIN script : script[i].onError \in {"stop", "go"} =>
       script[i].shows \in {"info", "pods", "events", "yaml"}
  BY <1>1, <1>2, <1>3, <1>4, <1>6, <1>7
<1>9. \A i, j \in DOMAIN script : i < j /\ script[i].onError = "go" =>
       script[j].fills # script[i].shows
  BY <1>1, <1>2, <1>3, <1>4, <1>6, <1>7
<1>10. \A i \in DOMAIN script : script[i].fills \in {"info", "pods", "events", "yaml"}
  BY <1>1, <1>2, <1>3, <1>4, <1>6, <1>7
<1>11. \A s \in {"info", "pods", "events", "yaml"} : \E i \in DOMAIN script : script[i].fills = s
  <2>1. 1 \in DOMAIN script /\ 2 \in DOMAIN script /\ 3 \in DOMAIN script /\ 4 \in DOMAIN script
    BY <1>6
  <2> QED BY <1>1, <1>2, <1>3, <1>4, <1>6, <2>1
<1> QED BY <1>5, <1>6, <1>8, <1>9, <1>10, <1>11 DEF Promises

LEMMA JobScript ==
  ASSUME NEW pods \in BOOLEAN
  PROVE  Promises(WorkloadDetails!JobSteps(pods), {"info", "pods", "logs", "events", "yaml"})
<1> DEFINE s1 == WorkloadDetails!Ask("info", "info")
           s2 == WorkloadDetails!Ask("pods", "info")
           s3 == IF pods THEN WorkloadDetails!Try("logs") ELSE WorkloadDetails!Fill("logs")
           s4 == WorkloadDetails!Fill("events")
           s5 == WorkloadDetails!Try("yaml")
           script == <<s1, s2, s3, s4, s5>>
<1>1. s1 \in ViewSteps /\ s1.fills = "info" /\ s1.onError = "stop" /\ s1.shows = "info"
  BY StepForms, ScriptTexts
<1>2. s2 \in ViewSteps /\ s2.fills = "pods" /\ s2.onError = "stop" /\ s2.shows = "info"
  BY StepForms, ScriptTexts
<1>3. s3 \in ViewSteps /\ s3.fills = "logs" /\ s3.onError \in {"go", "none"} /\ s3.shows = "logs"
  <2> DEFINE a == WorkloadDetails!Try("logs")
             b == WorkloadDetails!Fill("logs")
  <2>1. a \in ViewSteps /\ a.fills = "logs" /\ a.onError = "go" /\ a.shows = "logs"
    BY StepForms, ScriptTexts
  <2>2. b \in ViewSteps /\ b.fills = "logs" /\ b.onError = "none" /\ b.shows = "logs"
    BY StepForms, ScriptTexts
  <2>3. s3 = a \/ s3 = b
    OBVIOUS
  <2> HIDE DEF a, b, s3
  <2> QED BY <2>1, <2>2, <2>3
<1>4. s4 \in ViewSteps /\ s4.fills = "events" /\ s4.onError = "none" /\ s4.shows = "events"
  BY StepForms, ScriptTexts
<1>5. s5 \in ViewSteps /\ s5.fills = "yaml" /\ s5.onError = "go" /\ s5.shows = "yaml"
  BY StepForms, ScriptTexts
<1>6. WorkloadDetails!JobSteps(pods) = script
  BY DEF WorkloadDetails!JobSteps
<1> HIDE DEF s1, s2, s3, s4, s5
<1>7. /\ script \in Seq(ViewSteps) /\ Len(script) = 5 /\ DOMAIN script = 1..5
      /\ script[1] = s1 /\ script[2] = s2 /\ script[3] = s3 /\ script[4] = s4 /\ script[5] = s5
  BY <1>1, <1>2, <1>3, <1>4, <1>5
<1>8. \A i \in 1..5 : i = 1 \/ i = 2 \/ i = 3 \/ i = 4 \/ i = 5
  OBVIOUS
<1> HIDE DEF script
<1>9. \A i \in DOMAIN script : script[i].onError \in {"stop", "go"} =>
       script[i].shows \in {"info", "pods", "logs", "events", "yaml"}
  BY <1>1, <1>2, <1>3, <1>4, <1>5, <1>7, <1>8
<1>10. \A i, j \in DOMAIN script : i < j /\ script[i].onError = "go" =>
       script[j].fills # script[i].shows
  BY <1>1, <1>2, <1>3, <1>4, <1>5, <1>7, <1>8
<1>11. \A i \in DOMAIN script : script[i].fills \in {"info", "pods", "logs", "events", "yaml"}
  BY <1>1, <1>2, <1>3, <1>4, <1>5, <1>7, <1>8
<1>12. \A s \in {"info", "pods", "logs", "events", "yaml"} : \E i \in DOMAIN script : script[i].fills = s
  <2>1. 1 \in DOMAIN script /\ 2 \in DOMAIN script /\ 3 \in DOMAIN script /\ 4 \in DOMAIN script /\ 5 \in DOMAIN script
    BY <1>7
  <2> QED BY <1>1, <1>2, <1>3, <1>4, <1>5, <1>7, <2>1
<1> QED BY <1>6, <1>7, <1>9, <1>10, <1>11, <1>12 DEF Promises

LEMMA CronJobScript ==
  Promises(WorkloadDetails!CronJobSteps, {"info", "jobs", "events", "yaml"})
<1> DEFINE s1 == WorkloadDetails!Ask("info", "info")
           s2 == WorkloadDetails!Try("jobs")
           s3 == WorkloadDetails!Fill("events")
           s4 == WorkloadDetails!Try("yaml")
           script == <<s1, s2, s3, s4>>
<1>1. s1 \in ViewSteps /\ s1.fills = "info" /\ s1.onError = "stop" /\ s1.shows = "info"
  BY StepForms, ScriptTexts
<1>2. s2 \in ViewSteps /\ s2.fills = "jobs" /\ s2.onError = "go" /\ s2.shows = "jobs"
  BY StepForms, ScriptTexts
<1>3. s3 \in ViewSteps /\ s3.fills = "events" /\ s3.onError = "none" /\ s3.shows = "events"
  BY StepForms, ScriptTexts
<1>4. s4 \in ViewSteps /\ s4.fills = "yaml" /\ s4.onError = "go" /\ s4.shows = "yaml"
  BY StepForms, ScriptTexts
<1>5. WorkloadDetails!CronJobSteps = script
  BY DEF WorkloadDetails!CronJobSteps
<1> HIDE DEF s1, s2, s3, s4
<1>6. /\ script \in Seq(ViewSteps) /\ Len(script) = 4 /\ DOMAIN script = 1..4
      /\ script[1] = s1 /\ script[2] = s2 /\ script[3] = s3 /\ script[4] = s4
  BY <1>1, <1>2, <1>3, <1>4
<1>7. \A i \in 1..4 : i = 1 \/ i = 2 \/ i = 3 \/ i = 4
  OBVIOUS
<1> HIDE DEF script
<1>8. \A i \in DOMAIN script : script[i].onError \in {"stop", "go"} =>
       script[i].shows \in {"info", "jobs", "events", "yaml"}
  BY <1>1, <1>2, <1>3, <1>4, <1>6, <1>7
<1>9. \A i, j \in DOMAIN script : i < j /\ script[i].onError = "go" =>
       script[j].fills # script[i].shows
  BY <1>1, <1>2, <1>3, <1>4, <1>6, <1>7
<1>10. \A i \in DOMAIN script : script[i].fills \in {"info", "jobs", "events", "yaml"}
  BY <1>1, <1>2, <1>3, <1>4, <1>6, <1>7
<1>11. \A s \in {"info", "jobs", "events", "yaml"} : \E i \in DOMAIN script : script[i].fills = s
  <2>1. 1 \in DOMAIN script /\ 2 \in DOMAIN script /\ 3 \in DOMAIN script /\ 4 \in DOMAIN script
    BY <1>6
  <2> QED BY <1>1, <1>2, <1>3, <1>4, <1>6, <2>1
<1> QED BY <1>5, <1>6, <1>8, <1>9, <1>10, <1>11 DEF Promises

LEMMA PodScript ==
  Promises(WorkloadDetails!PodSteps, {"info", "containers", "logs", "events", "yaml"})
<1> DEFINE s1 == WorkloadDetails!Ask("info", "info")
           s2 == WorkloadDetails!Fill("containers")
           s3 == WorkloadDetails!Try("logs")
           s4 == WorkloadDetails!Fill("events")
           s5 == WorkloadDetails!Try("yaml")
           script == <<s1, s2, s3, s4, s5>>
<1>1. s1 \in ViewSteps /\ s1.fills = "info" /\ s1.onError = "stop" /\ s1.shows = "info"
  BY StepForms, ScriptTexts
<1>2. s2 \in ViewSteps /\ s2.fills = "containers" /\ s2.onError = "none" /\ s2.shows = "containers"
  BY StepForms, ScriptTexts
<1>3. s3 \in ViewSteps /\ s3.fills = "logs" /\ s3.onError = "go" /\ s3.shows = "logs"
  BY StepForms, ScriptTexts
<1>4. s4 \in ViewSteps /\ s4.fills = "events" /\ s4.onError = "none" /\ s4.shows = "events"
  BY StepForms, ScriptTexts
<1>5. s5 \in ViewSteps /\ s5.fills = "yaml" /\ s5.onError = "go" /\ s5.shows = "yaml"
  BY StepForms, ScriptTexts
<1>6. WorkloadDetails!PodSteps = script
  BY DEF WorkloadDetails!PodSteps
<1> HIDE DEF s1, s2, s3, s4, s5
<1>7. /\ script \in Seq(ViewSteps) /\ Len(script) = 5 /\ DOMAIN script = 1..5
      /\ script[1] = s1 /\ script[2] = s2 /\ script[3] = s3 /\ script[4] = s4 /\ script[5] = s5
  BY <1>1, <1>2, <1>3, <1>4, <1>5
<1>8. \A i \in 1..5 : i = 1 \/ i = 2 \/ i = 3 \/ i = 4 \/ i = 5
  OBVIOUS
<1> HIDE DEF script
<1>9. \A i \in DOMAIN script : script[i].onError \in {"stop", "go"} =>
       script[i].shows \in {"info", "containers", "logs", "events", "yaml"}
  BY <1>1, <1>2, <1>3, <1>4, <1>5, <1>7, <1>8
<1>10. \A i, j \in DOMAIN script : i < j /\ script[i].onError = "go" =>
       script[j].fills # script[i].shows
  BY <1>1, <1>2, <1>3, <1>4, <1>5, <1>7, <1>8
<1>11. \A i \in DOMAIN script : script[i].fills \in {"info", "containers", "logs", "events", "yaml"}
  BY <1>1, <1>2, <1>3, <1>4, <1>5, <1>7, <1>8
<1>12. \A s \in {"info", "containers", "logs", "events", "yaml"} : \E i \in DOMAIN script : script[i].fills = s
  <2>1. 1 \in DOMAIN script /\ 2 \in DOMAIN script /\ 3 \in DOMAIN script /\ 4 \in DOMAIN script /\ 5 \in DOMAIN script
    BY <1>7
  <2> QED BY <1>1, <1>2, <1>3, <1>4, <1>5, <1>7, <2>1
<1> QED BY <1>6, <1>7, <1>9, <1>10, <1>11, <1>12 DEF Promises

LEMMA FillsOfScript ==
  ASSUME NEW script, NEW sections, Promises(script, sections)
  PROVE  WorkloadDetails!Fills(script) = sections
BY DEF Promises, WorkloadDetails!Fills

\* The scripts of a window keep their promises to it.
LEMMA ScriptsOfKind ==
  ASSUME kind \in DetailKinds, NEW script \in WorkloadDetails!Scripts(kind)
  PROVE  Promises(script, WorkloadDetails!SectionsOf(kind))
<1>1. CASE kind = "statefulset"
  <2>1. script = WorkloadDetails!StatefulSetSteps
    BY <1>1 DEF WorkloadDetails!Scripts
  <2>2. WorkloadDetails!SectionsOf(kind) = WorkloadDetails!Fills(script)
    <3>1. WorkloadDetails!Scripts(kind) = {script}
      BY <1>1, <2>1 DEF WorkloadDetails!Scripts
    <3> QED BY <1>1, <3>1 DEF WorkloadDetails!SectionsOf
  <2> QED BY <2>1, <2>2, StatefulSetScript, FillsOfScript
<1>2. CASE kind = "daemonset"
  <2>1. script = WorkloadDetails!DaemonSetSteps
    BY <1>2 DEF WorkloadDetails!Scripts
  <2>2. WorkloadDetails!SectionsOf(kind) = WorkloadDetails!Fills(script)
    <3>1. WorkloadDetails!Scripts(kind) = {script}
      BY <1>2, <2>1 DEF WorkloadDetails!Scripts
    <3> QED BY <1>2, <3>1 DEF WorkloadDetails!SectionsOf
  <2> QED BY <2>1, <2>2, DaemonSetScript, FillsOfScript
<1>3. CASE kind = "job"
  <2>1. PICK pods \in BOOLEAN : script = WorkloadDetails!JobSteps(pods)
    BY <1>3 DEF WorkloadDetails!Scripts
  <2>2. WorkloadDetails!SectionsOf(kind) = WorkloadDetails!Fills(WorkloadDetails!JobSteps(TRUE))
    BY <1>3 DEF WorkloadDetails!SectionsOf
  <2>3. WorkloadDetails!Fills(WorkloadDetails!JobSteps(TRUE)) = {"info", "pods", "logs", "events", "yaml"}
    BY JobScript, FillsOfScript
  <2> QED BY <2>1, <2>2, <2>3, JobScript
<1>4. CASE kind = "cronjob"
  <2>1. script = WorkloadDetails!CronJobSteps
    BY <1>4 DEF WorkloadDetails!Scripts
  <2>2. WorkloadDetails!SectionsOf(kind) = WorkloadDetails!Fills(script)
    <3>1. WorkloadDetails!Scripts(kind) = {script}
      BY <1>4, <2>1 DEF WorkloadDetails!Scripts
    <3> QED BY <1>4, <3>1 DEF WorkloadDetails!SectionsOf
  <2> QED BY <2>1, <2>2, CronJobScript, FillsOfScript
<1>5. CASE kind = "pod"
  <2>1. script = WorkloadDetails!PodSteps
    BY <1>5 DEF WorkloadDetails!Scripts
  <2>2. WorkloadDetails!Fills(script) = {"info", "containers", "logs", "events", "yaml"}
    BY <2>1, PodScript, FillsOfScript
  <2>3. WorkloadDetails!SectionsOf(kind) = WorkloadDetails!Fills(script)
    BY <1>5, <2>1, <2>2 DEF WorkloadDetails!SectionsOf
  <2> QED BY <2>1, <2>2, <2>3, PodScript
<1> QED BY <1>1, <1>2, <1>3, <1>4, <1>5 DEF DetailKinds, WorkloadDetails!Detail

LEMMA DeploymentScripts ==
  ASSUME NEW s \in WorkloadDetails!LazyTabs \cup {"basic"}
  PROVE  /\ WorkloadDetails!DeploymentSteps(s) \in Seq(ViewSteps)
         /\ Len(WorkloadDetails!DeploymentSteps(s)) \in 1..5
<1> DEFINE script == WorkloadDetails!DeploymentSteps(s)
<1> USE DEF WorkloadDetails!DeploymentSteps
<1>1. \A f, g \in StepTexts : WorkloadDetails!Ask(f, g) \in ViewSteps /\ WorkloadDetails!Fill(f) \in ViewSteps
  BY StepsAreSteps DEF WorkloadDetails!Ask, WorkloadDetails!Fill
<1>2. ASSUME NEW a \in ViewSteps, script = <<a>>
      PROVE  script \in Seq(ViewSteps) /\ Len(script) \in 1..5
  <2> HIDE DEF script
  <2> QED BY <1>2
<1>3. ASSUME NEW a \in ViewSteps, NEW b \in ViewSteps, script = <<a, b>>
      PROVE  script \in Seq(ViewSteps) /\ Len(script) \in 1..5
  <2> HIDE DEF script
  <2> QED BY <1>3
<1>4. CASE s = "basic"
  <2>1. script = <<WorkloadDetails!Ask("basic", "basic")>>
    BY <1>4 DEF WorkloadDetails!DeploymentBasicInfo
  <2>2. WorkloadDetails!Ask("basic", "basic") \in ViewSteps
    BY <1>1 DEF StepTexts
  <2> QED BY <2>1, <2>2, <1>2
<1>5. CASE s = "replicas"
  <2>1. script = <<WorkloadDetails!Ask("replicas", "none")>>
    BY <1>5 DEF WorkloadDetails!DeploymentReplicas
  <2>2. WorkloadDetails!Ask("replicas", "none") \in ViewSteps
    BY <1>1 DEF StepTexts
  <2> QED BY <2>1, <2>2, <1>2
<1>6. CASE s = "resources"
  <2>1. script = <<WorkloadDetails!Ask("none", "resources"), WorkloadDetails!Ask("resources", "resources")>>
    BY <1>6 DEF WorkloadDetails!DeploymentResources
  <2>2. WorkloadDetails!Ask("none", "resources") \in ViewSteps /\ WorkloadDetails!Ask("resources", "resources") \in ViewSteps
    BY <1>1 DEF StepTexts
  <2> QED BY <2>1, <2>2, <1>3
<1>7. CASE s = "events"
  <2>1. script = <<WorkloadDetails!Fill("events")>>
    BY <1>7 DEF WorkloadDetails!DeploymentEvents
  <2>2. WorkloadDetails!Fill("events") \in ViewSteps
    BY <1>1 DEF StepTexts
  <2> QED BY <2>1, <2>2, <1>2
<1>8. CASE s = "pods"
  <2>1. script = <<WorkloadDetails!Ask("none", "pods"), WorkloadDetails!Ask("pods", "pods")>>
    BY <1>8 DEF WorkloadDetails!DeploymentPods
  <2>2. WorkloadDetails!Ask("none", "pods") \in ViewSteps /\ WorkloadDetails!Ask("pods", "pods") \in ViewSteps
    BY <1>1 DEF StepTexts
  <2> QED BY <2>1, <2>2, <1>3
<1>9. CASE s = "yaml"
  <2>1. script = <<WorkloadDetails!Ask("yaml", "yaml")>>
    BY <1>9 DEF WorkloadDetails!DeploymentYAML
  <2>2. WorkloadDetails!Ask("yaml", "yaml") \in ViewSteps
    BY <1>1 DEF StepTexts
  <2> QED BY <2>1, <2>2, <1>2
<1> QED BY <1>4, <1>5, <1>6, <1>7, <1>8, <1>9 DEF WorkloadDetails!LazyTabs

\* The windows of a workload as it is opened.
LEMMA DetailsInit == WorkloadDetails!Init => DetailsIInv
<1> SUFFICES ASSUME WorkloadDetails!Init PROVE DetailsIInv
  OBVIOUS
<1>1. /\ kind \in Kinds /\ title = "blank" /\ loads = {} /\ started = 0 /\ crossed = FALSE /\ failures = 0
      /\ section = [s \in WorkloadDetails!SectionsOf(kind) |-> "blank"] /\ executed = <<"blank", "blank">>
  BY DEF WorkloadDetails!Init, WorkloadDetails!Blank
<1>2. IsFiniteSet(loads) /\ Cardinality(loads) = 0
  BY <1>1, FS_EmptySet
<1>3. \A s \in DOMAIN section : section[s] = "blank"
  BY <1>1
<1>4. section \in [WorkloadDetails!SectionsOf(kind) -> Names \cup Marks]
  BY <1>1 DEF Marks
<1>5. DetailsTypes
  <2>1. Cardinality(loads) <= started /\ started \in 0..MaxViews
    BY <1>1, <1>2, NamesAreNoMarks
  <2>2. loads \subseteq ViewLoads
    BY <1>1
  <2>3. \A l \in loads : Len(l.todo) \in 1..5 /\ (kind \in DetailKinds => Told(l.todo))
    BY <1>1
  <2>4. crossed \in BOOLEAN /\ failures \in Nat /\ title \in Names \cup {"blank"}
    BY <1>1
  <2> QED BY <1>1, <1>2, <1>4, <2>1, <2>2, <2>3, <2>4 DEF DetailsTypes
<1>6. kind = "logs" => section["refresh"] = "blank"
  BY <1>1 DEF WorkloadDetails!SectionsOf
<1>7. kind = "output" => section["content"] = "blank"
  BY <1>1 DEF WorkloadDetails!SectionsOf
<1>8. OpenedFirst /\ LoadsOfTitle /\ RefreshOfTitle /\ SpinnersHaveSteps
  BY <1>1, <1>3, <1>6, NamesAreNoMarks DEF OpenedFirst, LoadsOfTitle, RefreshOfTitle,
       SpinnersHaveSteps, Marks
<1>9. WorkloadDetails!OneWorkload
  BY <1>3, NamesAreNoMarks DEF WorkloadDetails!OneWorkload, Marks
<1>10. WorkloadDetails!OutputMatchesTitle /\ WorkloadDetails!CommandRunsInTitle
  BY <1>1, <1>7 DEF WorkloadDetails!OutputMatchesTitle, WorkloadDetails!CommandRunsInTitle,
       WorkloadDetails!Blank
<1> QED BY <1>5, <1>8, <1>9, <1>10 DEF DetailsIInv

LEMMA KindStays ==
  ASSUME UNCHANGED kind
  PROVE  WorkloadDetails!SectionsOf(kind)' = WorkloadDetails!SectionsOf(kind)
BY DEF WorkloadDetails!SectionsOf, WorkloadDetails!Scripts

\* A load begins, for the workload of the title unless loads have crossed.
LEMMA WindowBegun ==
  ASSUME DetailsIInv, NEW n \in Names, NEW script \in Seq(ViewSteps), Len(script) \in 1..5,
         kind \in DetailKinds => Told(script), WorkloadDetails!Begin(n, script),
         UNCHANGED <<kind, failures>>,
         section' \in [WorkloadDetails!SectionsOf(kind) -> Names \cup Marks],
         title' \in Names \cup {"blank"}, kind # "output" => title' # "blank",
         kind # "output" /\ ~crossed' => title' = n,
         kind # "output" =>
           \A s \in DOMAIN section :
             \/ section'[s] \in {"blank", "loading"}
             \/ section'[s] = section[s] /\ (s \in {"containers", "refresh"} \/ UNCHANGED title),
         kind = "logs" => \/ section'["refresh"] = section["refresh"] /\ UNCHANGED title
                          \/ Len(script) = 2,
         kind \in DetailKinds => \A s \in DOMAIN section : \E i \in DOMAIN script : script[i].fills = s,
         kind = "output" => section'["content"] \in {"blank", "loading", "problem", title'},
         executed'[1] = executed'[2]
  PROVE  DetailsIInv'
<1>1. /\ loads' \subseteq ViewLoads /\ IsFiniteSet(loads') /\ Cardinality(loads') <= started'
      /\ \A l \in loads' : Len(l.todo) \in 1..5 /\ (kind' \in DetailKinds => Told(l.todo)')
      /\ started' \in 0..MaxViews /\ crossed' \in BOOLEAN /\ failures' \in Nat
  BY LoadBegun DEF DetailsIInv
<1>2. /\ loads \subseteq loads' /\ \E l \in loads' : l.todo = script
      /\ ~crossed' => ~crossed /\ \A l \in loads' : l.for = n
  BY LoadBegun DEF DetailsIInv
<1>3. WorkloadDetails!SectionsOf(kind)' = WorkloadDetails!SectionsOf(kind) /\ kind' = kind
  BY KindStays
<1>4. DOMAIN section = WorkloadDetails!SectionsOf(kind) /\ DOMAIN section' = WorkloadDetails!SectionsOf(kind)
  BY DEF DetailsIInv, DetailsTypes
<1>5. DetailsTypes'
  BY <1>1, <1>3 DEF DetailsIInv, DetailsTypes
<1>6. OpenedFirst'
  BY <1>3 DEF OpenedFirst
<1>7. LoadsOfTitle'
  BY <1>2, <1>3 DEF LoadsOfTitle
<1>8. RefreshOfTitle'
  <2> SUFFICES ASSUME ~crossed', kind = "logs", section'["refresh"] \in Names, section'["refresh"] # title'
               PROVE  \E l \in loads' : Len(l.todo) = 2
    BY <1>3 DEF RefreshOfTitle
  <2>1. CASE Len(script) = 2
    BY <1>2, <2>1
  <2>2. CASE section'["refresh"] = section["refresh"] /\ UNCHANGED title
    BY <1>2, <2>2 DEF DetailsIInv, RefreshOfTitle
  <2> QED BY <2>1, <2>2
<1>9. SpinnersHaveSteps'
  BY <1>2, <1>3, <1>4 DEF SpinnersHaveSteps
<1>10. WorkloadDetails!OneWorkload'
  <2> SUFFICES ASSUME ~crossed', NEW s \in DOMAIN section' \ {"containers", "refresh", "content"},
                      section'[s] \in Names
               PROVE  section'[s] = title'
    BY DEF WorkloadDetails!OneWorkload
  <2>1. kind # "output"
    BY <1>4 DEF WorkloadDetails!SectionsOf
  <2>2. section'[s] \notin {"blank", "loading"}
    BY NamesAreNoMarks DEF Marks
  <2>3. section'[s] = section[s] /\ UNCHANGED title
    BY <1>4, <2>1, <2>2
  <2> QED BY <1>2, <1>4, <2>3 DEF DetailsIInv, WorkloadDetails!OneWorkload
<1>11. WorkloadDetails!OutputMatchesTitle' /\ WorkloadDetails!CommandRunsInTitle'
  BY <1>3 DEF WorkloadDetails!OutputMatchesTitle, WorkloadDetails!CommandRunsInTitle,
       WorkloadDetails!Blank, WorkloadDetails!Loading, WorkloadDetails!Problem
<1> QED BY <1>5, <1>6, <1>7, <1>8, <1>9, <1>10, <1>11 DEF DetailsIInv

\* A load of a window goes on, or is over.
LEMMA WindowProceeds ==
  ASSUME DetailsIInv, NEW l \in loads, kind # "output", NEW rest \in Seq(ViewSteps),
         rest # <<>> => Len(rest) \in 1..5, kind \in DetailKinds => Told(rest),
         NEW shown \in [WorkloadDetails!SectionsOf(kind) -> Names \cup Marks],
         WorkloadDetails!Proceed(l, shown, rest), failures' \in Nat,
         \A s \in DOMAIN section : shown[s] \in {section[s], l.for, "problem", "loading"},
         kind = "logs" => \/ shown["refresh"] = section["refresh"] /\ Len(l.todo) # 2
                          \/ shown["refresh"] = l.for,
         kind \in DetailKinds /\ failures' = 0 =>
           /\ failures = 0
           /\ \A s \in DOMAIN section : shown[s] = "loading" =>
                /\ section[s] = "loading"
                /\ \A i \in DOMAIN l.todo : l.todo[i].fills = s =>
                     rest # <<>> /\ \E j \in DOMAIN rest : rest[j].fills = s
  PROVE  DetailsIInv'
<1>1. /\ UNCHANGED <<kind, title, started, crossed, executed>> /\ section' = shown
      /\ loads' = (loads \ {l}) \cup (IF rest = <<>> THEN {} ELSE {[l EXCEPT !.todo = rest]})
  BY DEF WorkloadDetails!Proceed
<1>2. /\ loads' \subseteq ViewLoads /\ IsFiniteSet(loads') /\ Cardinality(loads') <= started'
      /\ \A q \in loads' : /\ Len(q.todo) \in 1..5 /\ (kind' \in DetailKinds => Told(q.todo)')
                           /\ \E p \in loads : q.for = p.for
      /\ \A q \in loads : q # l => q \in loads'
      /\ rest # <<>> => \E q \in loads' : q.todo = rest /\ q.for = l.for
  BY <1>1, LoadProceeds DEF DetailsIInv
<1>3. WorkloadDetails!SectionsOf(kind)' = WorkloadDetails!SectionsOf(kind) /\ kind' = kind
  BY <1>1, KindStays
<1>4. DOMAIN section = WorkloadDetails!SectionsOf(kind) /\ DOMAIN section' = WorkloadDetails!SectionsOf(kind)
  BY <1>1 DEF DetailsIInv, DetailsTypes
<1>5. DetailsTypes'
  BY <1>1, <1>2, <1>3 DEF DetailsIInv, DetailsTypes
<1>6. OpenedFirst'
  BY <1>1 DEF DetailsIInv, OpenedFirst
<1>7. LoadsOfTitle'
  BY <1>1, <1>2 DEF DetailsIInv, LoadsOfTitle
<1>8. RefreshOfTitle'
  <2> SUFFICES ASSUME ~crossed, kind = "logs", section'["refresh"] \in Names, section'["refresh"] # title
               PROVE  \E q \in loads' : Len(q.todo) = 2
    BY <1>1 DEF RefreshOfTitle
  <2>1. l.for = title
    BY DEF DetailsIInv, LoadsOfTitle
  <2>2. section["refresh"] = section'["refresh"] /\ Len(l.todo) # 2
    BY <1>1, <2>1
  <2>3. PICK q \in loads : Len(q.todo) = 2
    BY <2>2 DEF DetailsIInv, RefreshOfTitle
  <2> QED BY <1>2, <2>2, <2>3
<1>9. SpinnersHaveSteps'
  <2> SUFFICES ASSUME kind \in DetailKinds, failures' = 0, NEW s \in DOMAIN section, shown[s] = "loading"
               PROVE  \E q \in loads' : \E i \in DOMAIN q.todo : q.todo[i].fills = s
    BY <1>1, <1>3, <1>4 DEF SpinnersHaveSteps
  <2>1. failures = 0 /\ section[s] = "loading"
    OBVIOUS
  <2>2. PICK q \in loads : \E i \in DOMAIN q.todo : q.todo[i].fills = s
    BY <2>1 DEF DetailsIInv, SpinnersHaveSteps
  <2>3. CASE q # l
    BY <1>2, <2>2, <2>3
  <2>4. CASE q = l
    <3>1. rest # <<>> /\ \E j \in DOMAIN rest : rest[j].fills = s
      BY <2>2, <2>4
    <3> QED BY <1>2, <3>1
  <2> QED BY <2>3, <2>4
<1>10. WorkloadDetails!OneWorkload'
  <2> SUFFICES ASSUME ~crossed, NEW s \in DOMAIN section \ {"containers", "refresh", "content"},
                      section'[s] \in Names
               PROVE  section'[s] = title
    BY <1>1, <1>4 DEF WorkloadDetails!OneWorkload
  <2>1. section'[s] = section[s] \/ section'[s] = l.for
    BY <1>1, NamesAreNoMarks DEF Marks
  <2>2. l.for = title
    BY DEF DetailsIInv, LoadsOfTitle
  <2> QED BY <2>1, <2>2 DEF DetailsIInv, WorkloadDetails!OneWorkload
<1>11. WorkloadDetails!OutputMatchesTitle' /\ WorkloadDetails!CommandRunsInTitle'
  BY <1>1 DEF DetailsIInv, WorkloadDetails!OutputMatchesTitle, WorkloadDetails!CommandRunsInTitle
<1> QED BY <1>5, <1>6, <1>7, <1>8, <1>9, <1>10, <1>11 DEF DetailsIInv

\* viewDeploymentDetail and the other view...Detail.
LEMMA DetailsView ==
  ASSUME DetailsIInv, NEW n \in Names, WorkloadDetails!View(n)
  PROVE  DetailsIInv'
<1>1. PICK script \in WorkloadDetails!Scripts(kind) : WorkloadDetails!Begin(n, script)
  BY DEF WorkloadDetails!View
<1>2. /\ kind \in WorkloadDetails!Detail /\ title' = n /\ UNCHANGED <<kind, failures, executed>>
      /\ section' = [s \in WorkloadDetails!SectionsOf(kind) |-> "loading"]
  BY DEF WorkloadDetails!View, WorkloadDetails!Loading
<1>3. /\ script \in Seq(ViewSteps) /\ Len(script) \in 1..5
      /\ kind \in DetailKinds => /\ Told(script)
                                 /\ \A s \in WorkloadDetails!SectionsOf(kind) :
                                      \E i \in DOMAIN script : script[i].fills = s
  <2>1. CASE kind \in DetailKinds
    BY <2>1, ScriptsOfKind DEF Promises, Told
  <2>2. CASE kind = "deployment"
    <3>1. script = WorkloadDetails!DeploymentSteps("basic")
      BY <2>2 DEF WorkloadDetails!Scripts
    <3> QED BY <2>2, <3>1, DeploymentScripts DEF DetailKinds
  <2> QED BY <1>2, <2>1, <2>2 DEF DetailKinds
<1>4. kind # "output" /\ kind # "logs"
  BY <1>2 DEF WorkloadDetails!Detail
<1>5. DOMAIN section = WorkloadDetails!SectionsOf(kind) /\ n # "blank"
  BY NamesAreNoMarks DEF DetailsIInv, DetailsTypes, Marks
<1>6. section' \in [WorkloadDetails!SectionsOf(kind) -> Names \cup Marks]
  BY <1>2 DEF Marks
<1>7. \A s \in DOMAIN section : section'[s] \in {"blank", "loading"}
  BY <1>2, <1>5
<1>8. executed'[1] = executed'[2]
  BY <1>2 DEF DetailsIInv, WorkloadDetails!CommandRunsInTitle
<1> QED BY <1>1, <1>2, <1>3, <1>4, <1>5, <1>6, <1>7, <1>8, WindowBegun

LEMMA DetailsTab ==
  ASSUME DetailsIInv, NEW s \in WorkloadDetails!LazyTabs, WorkloadDetails!ShowDeploymentTab(s)
  PROVE  DetailsIInv'
<1> DEFINE script == WorkloadDetails!DeploymentSteps(s)
<1>1. /\ kind = "deployment" /\ title # "blank" /\ WorkloadDetails!Begin(title, script)
      /\ UNCHANGED <<kind, title, section, failures, executed>>
  BY DEF WorkloadDetails!ShowDeploymentTab, WorkloadDetails!Blank
<1>2. script \in Seq(ViewSteps) /\ Len(script) \in 1..5
  BY DeploymentScripts
<1> HIDE DEF script
<1>3. title \in Names /\ kind \notin DetailKinds /\ kind # "output" /\ kind # "logs"
  BY <1>1 DEF DetailsIInv, DetailsTypes, DetailKinds
<1>4. section' \in [WorkloadDetails!SectionsOf(kind) -> Names \cup Marks] /\ executed'[1] = executed'[2]
  BY <1>1 DEF DetailsIInv, DetailsTypes, WorkloadDetails!CommandRunsInTitle
<1> QED BY <1>1, <1>2, <1>3, <1>4, WindowBegun

\* The scripts of one step, and the one that starts the logs.
LEMMA ShortScripts ==
  /\ \A a \in ViewSteps : <<a>> \in Seq(ViewSteps) /\ Len(<<a>>) \in 1..5
  /\ \A a, b \in ViewSteps : <<a, b>> \in Seq(ViewSteps) /\ Len(<<a, b>>) = 2
OBVIOUS

LEMMA StepsOfWindows ==
  /\ WorkloadDetails!Step("content", "stop", "describe") \in ViewSteps
  /\ WorkloadDetails!Step("content", "stop", "history") \in ViewSteps
  /\ WorkloadDetails!Fill("containers") \in ViewSteps
  /\ WorkloadDetails!Ask("logs", "logs") \in ViewSteps
  /\ WorkloadDetails!Ask("output", "output") \in ViewSteps
BY StepsAreSteps, StepForms, ScriptTexts

LEMMA DetailsDescribe ==
  ASSUME DetailsIInv, NEW n \in Names, WorkloadDetails!Describe(n)
  PROVE  DetailsIInv'
<1> DEFINE script == <<WorkloadDetails!Step("content", "stop", "describe")>>
<1>1. /\ kind = "output" /\ WorkloadDetails!Begin(n, script)
      /\ UNCHANGED <<kind, title, section, failures, executed>>
  BY DEF WorkloadDetails!Describe
<1>2. script \in Seq(ViewSteps) /\ Len(script) \in 1..5
  BY ShortScripts, StepsOfWindows
<1> HIDE DEF script
<1>3. kind \notin DetailKinds /\ kind # "logs"
  BY <1>1 DEF DetailKinds, WorkloadDetails!Detail
<1>4. /\ section' \in [WorkloadDetails!SectionsOf(kind) -> Names \cup Marks] /\ executed'[1] = executed'[2]
      /\ title' \in Names \cup {"blank"} /\ section'["content"] \in {"blank", "loading", "problem", title'}
  BY <1>1 DEF DetailsIInv, DetailsTypes, WorkloadDetails!CommandRunsInTitle,
       WorkloadDetails!OutputMatchesTitle,
       WorkloadDetails!Blank, WorkloadDetails!Loading, WorkloadDetails!Problem
<1> QED BY <1>1, <1>2, <1>3, <1>4, WindowBegun

LEMMA DetailsHistory ==
  ASSUME DetailsIInv, NEW n \in Names, WorkloadDetails!ShowHistory(n)
  PROVE  DetailsIInv'
<1> DEFINE script == <<WorkloadDetails!Step("content", "stop", "history")>>
<1>1. /\ kind = "output" /\ WorkloadDetails!Begin(n, script) /\ title' = n
      /\ section' = [section EXCEPT !["content"] = "loading"]
      /\ UNCHANGED <<kind, failures, executed>>
  BY DEF WorkloadDetails!ShowHistory, WorkloadDetails!Output, WorkloadDetails!Loading
<1>2. script \in Seq(ViewSteps) /\ Len(script) \in 1..5
  BY ShortScripts, StepsOfWindows
<1> HIDE DEF script
<1>3. kind \notin DetailKinds /\ kind # "logs" /\ "content" \in WorkloadDetails!SectionsOf(kind)
  BY <1>1 DEF DetailKinds, WorkloadDetails!Detail, WorkloadDetails!SectionsOf
<1>4. /\ section' \in [WorkloadDetails!SectionsOf(kind) -> Names \cup Marks] /\ executed'[1] = executed'[2]
      /\ section'["content"] = "loading"
  BY <1>1, <1>3 DEF DetailsIInv, DetailsTypes, WorkloadDetails!CommandRunsInTitle, Marks
<1> QED BY <1>1, <1>2, <1>3, <1>4, WindowBegun

LEMMA DetailsPodLogs ==
  ASSUME DetailsIInv, NEW n \in Names, WorkloadDetails!ShowPodLogs(n)
  PROVE  DetailsIInv'
<1> DEFINE script == <<WorkloadDetails!Fill("containers"), WorkloadDetails!Ask("logs", "logs")>>
<1>1. /\ kind = "logs" /\ WorkloadDetails!Begin(n, script) /\ title' = n
      /\ section' = [section EXCEPT !["logs"] = "blank"]
      /\ UNCHANGED <<kind, failures, executed>>
  BY DEF WorkloadDetails!ShowPodLogs, WorkloadDetails!Blank
<1>2. script \in Seq(ViewSteps) /\ Len(script) = 2
  BY ShortScripts, StepsOfWindows
<1> HIDE DEF script
<1>3. /\ kind \notin DetailKinds /\ kind # "output" /\ n # "blank"
      /\ WorkloadDetails!SectionsOf(kind) = {"containers", "logs", "refresh"}
  BY <1>1, NamesAreNoMarks DEF DetailKinds, WorkloadDetails!Detail, WorkloadDetails!SectionsOf,
       Marks
<1>4. /\ section' \in [WorkloadDetails!SectionsOf(kind) -> Names \cup Marks] /\ executed'[1] = executed'[2]
      /\ DOMAIN section = {"containers", "logs", "refresh"}
  BY <1>1, <1>3 DEF DetailsIInv, DetailsTypes, WorkloadDetails!CommandRunsInTitle, Marks
<1>5. \A s \in DOMAIN section :
        \/ section'[s] \in {"blank", "loading"}
        \/ section'[s] = section[s] /\ s \in {"containers", "refresh"}
  BY <1>1, <1>4
<1> QED BY <1>1, <1>2, <1>3, <1>4, <1>5, WindowBegun

LEMMA DetailsRefresh ==
  ASSUME DetailsIInv, WorkloadDetails!RefreshLogs
  PROVE  DetailsIInv'
<1> DEFINE script == <<WorkloadDetails!Ask("logs", "logs")>>
           n == section["refresh"]
<1>1. /\ kind = "logs" /\ WorkloadDetails!Begin(n, script) /\ n \in Names
      /\ section' = [section EXCEPT !["logs"] = "loading"]
      /\ UNCHANGED <<kind, title, failures, executed>>
  BY DEF WorkloadDetails!RefreshLogs, WorkloadDetails!Loading
<1>2. script \in Seq(ViewSteps) /\ Len(script) \in 1..5
  BY ShortScripts, StepsOfWindows
<1> HIDE DEF script
<1>3. /\ kind \notin DetailKinds /\ kind # "output"
      /\ WorkloadDetails!SectionsOf(kind) = {"containers", "logs", "refresh"}
  BY <1>1 DEF DetailKinds, WorkloadDetails!Detail, WorkloadDetails!SectionsOf
<1>4. /\ section' \in [WorkloadDetails!SectionsOf(kind) -> Names \cup Marks] /\ executed'[1] = executed'[2]
      /\ DOMAIN section = {"containers", "logs", "refresh"} /\ title \in Names \cup {"blank"}
  BY <1>1, <1>3 DEF DetailsIInv, DetailsTypes, WorkloadDetails!CommandRunsInTitle, Marks
<1>5. \A s \in DOMAIN section : section'[s] \in {"blank", "loading"} \/ section'[s] = section[s]
  BY <1>1, <1>4
<1>6. title # "blank"
  BY <1>1, <1>3, <1>4, NamesAreNoMarks DEF DetailsIInv, OpenedFirst, Marks
<1>7. ~crossed' => title = n
  <2> SUFFICES ASSUME ~crossed', title # n PROVE FALSE
    OBVIOUS
  <2>1. ~crossed /\ \A l \in loads : l.for = n
    BY <1>1, <1>2, <1>3, LoadBegun DEF DetailsIInv
  <2>2. PICK l \in loads : Len(l.todo) = 2
    BY <1>1, <2>1 DEF DetailsIInv, RefreshOfTitle
  <2>3. l.for = title
    BY <1>3, <2>1 DEF DetailsIInv, LoadsOfTitle
  <2> QED BY <2>1, <2>3
<1>8. section'["refresh"] = section["refresh"]
  BY <1>1, <1>4
<1> HIDE DEF n
<1> QED BY <1>1, <1>2, <1>3, <1>4, <1>5, <1>6, <1>7, <1>8, WindowBegun

LEMMA DetailsExec ==
  ASSUME DetailsIInv, NEW n \in Names, WorkloadDetails!ShowExecPod(n)
  PROVE  DetailsIInv'
<1> DEFINE script == <<WorkloadDetails!Fill("containers")>>
<1>1. /\ kind = "exec" /\ WorkloadDetails!Begin(n, script) /\ title' = n
      /\ section' = [section EXCEPT !["output"] = "blank"]
      /\ UNCHANGED <<kind, failures, executed>>
  BY DEF WorkloadDetails!ShowExecPod, WorkloadDetails!Blank
<1>2. script \in Seq(ViewSteps) /\ Len(script) \in 1..5
  BY ShortScripts, StepsOfWindows
<1> HIDE DEF script
<1>3. /\ kind \notin DetailKinds /\ kind # "output" /\ kind # "logs" /\ n # "blank"
      /\ WorkloadDetails!SectionsOf(kind) = {"containers", "output"}
  BY <1>1, NamesAreNoMarks DEF DetailKinds, WorkloadDetails!Detail, WorkloadDetails!SectionsOf,
       Marks
<1>4. /\ section' \in [WorkloadDetails!SectionsOf(kind) -> Names \cup Marks] /\ executed'[1] = executed'[2]
      /\ DOMAIN section = {"containers", "output"}
  BY <1>1, <1>3 DEF DetailsIInv, DetailsTypes, WorkloadDetails!CommandRunsInTitle, Marks
<1>5. \A s \in DOMAIN section :
        \/ section'[s] \in {"blank", "loading"}
        \/ section'[s] = section[s] /\ s \in {"containers", "refresh"}
  BY <1>1, <1>4
<1> QED BY <1>1, <1>2, <1>3, <1>4, <1>5, WindowBegun

LEMMA DetailsCommand ==
  ASSUME DetailsIInv, WorkloadDetails!ExecPodCommand
  PROVE  DetailsIInv'
<1> DEFINE script == <<WorkloadDetails!Ask("output", "output")>>
<1>1. /\ kind = "exec" /\ section["containers"] \in Names /\ WorkloadDetails!Begin(title, script)
      /\ section' = [section EXCEPT !["output"] = "loading"] /\ executed' = <<title, title>>
      /\ UNCHANGED <<kind, title, failures>>
  BY DEF WorkloadDetails!ExecPodCommand, WorkloadDetails!Loading
<1>2. script \in Seq(ViewSteps) /\ Len(script) \in 1..5
  BY ShortScripts, StepsOfWindows
<1> HIDE DEF script
<1>3. /\ kind \notin DetailKinds /\ kind # "output" /\ kind # "logs"
      /\ WorkloadDetails!SectionsOf(kind) = {"containers", "output"}
  BY <1>1 DEF DetailKinds, WorkloadDetails!Detail, WorkloadDetails!SectionsOf
<1>4. /\ section' \in [WorkloadDetails!SectionsOf(kind) -> Names \cup Marks] /\ executed'[1] = executed'[2]
      /\ DOMAIN section = {"containers", "output"} /\ title \in Names \cup {"blank"}
  BY <1>1, <1>3 DEF DetailsIInv, DetailsTypes, Marks
<1>5. \A s \in DOMAIN section : section'[s] \in {"blank", "loading"} \/ section'[s] = section[s]
  BY <1>1, <1>4
<1>6. title \in Names /\ title # "blank"
  BY <1>1, <1>3, <1>4, NamesAreNoMarks DEF DetailsIInv, OpenedFirst, Marks
<1> QED BY <1>1, <1>2, <1>3, <1>4, <1>5, <1>6, WindowBegun

\* What an answer leaves of a load's script, and the sections it fills.
LEMMA StepsTaken ==
  ASSUME DetailsTypes, NEW l \in loads
  PROVE  \E m \in 1..Len(l.todo) :
           LET rest == SubSeq(l.todo, m + 1, Len(l.todo))
           IN /\ WorkloadDetails!FilledBy(l.todo) = 1..m
              /\ WorkloadDetails!Cardinality(WorkloadDetails!FilledBy(l.todo)) = m
              /\ rest \in Seq(ViewSteps) /\ (rest # <<>> => Len(rest) \in 1..5)
              /\ kind \in DetailKinds => Told(l.todo) /\ Told(rest)
              /\ \A i \in DOMAIN l.todo : i \notin 1..m =>
                   rest # <<>> /\ \E j \in DOMAIN rest : rest[j].fills = l.todo[i].fills
<1> DEFINE script == l.todo
<1>1. script \in Seq(ViewSteps) /\ Len(script) \in 1..5 /\ l.for \in Names
  BY DEF DetailsTypes, ViewLoads
<1>2. kind \in DetailKinds => Told(script)
  BY DEF DetailsTypes
<1> HIDE DEF script
<1>3. PICK m \in 1..Len(script) : WorkloadDetails!FilledBy(script) = 1..m /\ Cardinality(1..m) = m
  BY <1>1, FirstSteps
<1>4. WorkloadDetails!Cardinality(WorkloadDetails!FilledBy(script)) = m
  BY <1>3, DetailsCounted
<1> DEFINE rest == SubSeq(script, m + 1, Len(script))
<1>5. /\ rest \in Seq(ViewSteps) /\ Len(rest) = Len(script) - m
      /\ rest # <<>> => Len(rest) \in 1..5
      /\ \A i \in (m + 1)..Len(script) : i - m \in DOMAIN rest /\ rest[i - m] = script[i]
      /\ Told(script) => Told(rest)
  BY <1>1, RestOfScript
<1> HIDE DEF rest
<1>6. \A i \in DOMAIN script : i \notin 1..m =>
        rest # <<>> /\ \E j \in DOMAIN rest : rest[j].fills = script[i].fills
  <2> SUFFICES ASSUME NEW i \in DOMAIN script, i \notin 1..m
               PROVE  rest # <<>> /\ \E j \in DOMAIN rest : rest[j].fills = script[i].fills
    OBVIOUS
  <2>1. i \in (m + 1)..Len(script)
    BY <1>1
  <2>2. i - m \in DOMAIN rest /\ rest[i - m] = script[i]
    BY <1>5, <2>1
  <2>3. rest # <<>>
    BY <2>2
  <2> QED BY <2>2, <2>3
<1> QED BY <1>2, <1>3, <1>4, <1>5, <1>6 DEF script, rest

LEMMA DetailsAnswered ==
  ASSUME DetailsIInv, NEW l \in loads, kind # "output", ~(kind = "logs" /\ Len(l.todo) = 2),
         WorkloadDetails!Answered(l)
  PROVE  DetailsIInv'
<1>1. PICK m \in 1..Len(l.todo) :
        LET rest == SubSeq(l.todo, m + 1, Len(l.todo))
        IN /\ WorkloadDetails!FilledBy(l.todo) = 1..m
           /\ WorkloadDetails!Cardinality(WorkloadDetails!FilledBy(l.todo)) = m
           /\ rest \in Seq(ViewSteps) /\ (rest # <<>> => Len(rest) \in 1..5)
           /\ kind \in DetailKinds => Told(l.todo) /\ Told(rest)
           /\ \A i \in DOMAIN l.todo : i \notin 1..m =>
                rest # <<>> /\ \E j \in DOMAIN rest : rest[j].fills = l.todo[i].fills
  BY StepsTaken DEF DetailsIInv
<1> DEFINE rest == SubSeq(l.todo, m + 1, Len(l.todo))
           filled == {l.todo[i].fills : i \in 1..m}
           shown == [s \in DOMAIN section |-> IF s \in filled THEN l.for ELSE section[s]]
<1>2. WorkloadDetails!Proceed(l, shown, rest) /\ failures' = failures
  BY <1>1 DEF WorkloadDetails!Answered, WorkloadDetails!Show
<1>3. /\ rest \in Seq(ViewSteps) /\ (rest # <<>> => Len(rest) \in 1..5)
      /\ kind \in DetailKinds => Told(rest)
      /\ \A i \in DOMAIN l.todo : i \notin 1..m =>
           rest # <<>> /\ \E j \in DOMAIN rest : rest[j].fills = l.todo[i].fills
  BY <1>1
<1> HIDE DEF rest
<1>4. /\ l.for \in Names /\ l.todo \in Seq(ViewSteps) /\ failures \in Nat
      /\ section \in [WorkloadDetails!SectionsOf(kind) -> Names \cup Marks]
  BY DEF DetailsIInv, DetailsTypes, ViewLoads
<1>5. shown \in [WorkloadDetails!SectionsOf(kind) -> Names \cup Marks]
  BY <1>4
<1>6. \A s \in DOMAIN section : /\ shown[s] \in {section[s], l.for, "problem", "loading"}
                                /\ s \notin filled => shown[s] = section[s]
                                /\ s \in filled => shown[s] = l.for
  OBVIOUS
<1>7. kind = "logs" => shown["refresh"] = section["refresh"]
  <2>1. \A i \in 1..m : l.todo[i].fills # "refresh"
    <3>1. \A i \in 1..m : l.todo[i] \in ViewSteps
      BY <1>4
    <3>2. \A any \in ViewSteps : any.fills # "refresh"
      BY DEF ViewSteps, StepTexts
    <3> QED BY <3>1, <3>2
  <2>2. kind = "logs" => "refresh" \in DOMAIN section
    BY <1>4 DEF WorkloadDetails!SectionsOf
  <2> QED BY <1>6, <2>1, <2>2
<1>8. \A s \in DOMAIN section : shown[s] = "loading" =>
        /\ section[s] = "loading"
        /\ \A i \in DOMAIN l.todo : l.todo[i].fills = s =>
             rest # <<>> /\ \E j \in DOMAIN rest : rest[j].fills = s
  <2> SUFFICES ASSUME NEW s \in DOMAIN section, shown[s] = "loading"
               PROVE  /\ section[s] = "loading"
                      /\ \A i \in DOMAIN l.todo : l.todo[i].fills = s =>
                           rest # <<>> /\ \E j \in DOMAIN rest : rest[j].fills = s
    OBVIOUS
  <2>1. s \notin filled /\ section[s] = "loading"
    BY <1>4, <1>6, NamesAreNoMarks DEF Marks
  <2>2. \A i \in DOMAIN l.todo : l.todo[i].fills = s => i \notin 1..m
    BY <2>1
  <2> QED BY <1>3, <2>1, <2>2
<1> HIDE DEF shown, filled
<1> QED BY <1>2, <1>3, <1>4, <1>5, <1>6, <1>7, <1>8, WindowProceeds

\* A request of a window fails: it is told, and the window goes on or is over.
LEMMA DetailsFails ==
  ASSUME DetailsIInv, NEW l \in loads, kind # "output", ~(kind = "logs" /\ Len(l.todo) = 2),
         WorkloadDetails!Fails(l)
  PROVE  DetailsIInv' /\ WorkloadDetails!FailureIsTold
<1>1. PICK m \in 1..Len(l.todo) :
        LET rest == SubSeq(l.todo, m + 1, Len(l.todo))
        IN /\ WorkloadDetails!FilledBy(l.todo) = 1..m
           /\ WorkloadDetails!Cardinality(WorkloadDetails!FilledBy(l.todo)) = m
           /\ rest \in Seq(ViewSteps) /\ (rest # <<>> => Len(rest) \in 1..5)
           /\ kind \in DetailKinds => Told(l.todo) /\ Told(rest)
           /\ \A i \in DOMAIN l.todo : i \notin 1..m =>
                rest # <<>> /\ \E j \in DOMAIN rest : rest[j].fills = l.todo[i].fills
  BY StepsTaken DEF DetailsIInv
<1> DEFINE step == Head(l.todo)
           after == {l.todo[i].fills : i \in 1..m \ {1}}
           told == [s \in DOMAIN section |-> IF s = step.shows THEN "problem" ELSE section[s]]
           both == [s \in DOMAIN section |-> IF s \in after THEN l.for ELSE told[s]]
           left == SubSeq(l.todo, m + 1, Len(l.todo))
           rest == IF step.onError = "stop" THEN <<>> ELSE left
           shown == IF step.onError = "stop" THEN told ELSE both
<1>2. /\ WorkloadDetails!Proceed(l, shown, rest) /\ failures' = failures + 1
      /\ step.onError # "none"
  BY <1>1 DEF WorkloadDetails!Fails, WorkloadDetails!Problem
<1>3. left \in Seq(ViewSteps) /\ (left # <<>> => Len(left) \in 1..5) /\ (kind \in DetailKinds => Told(left))
  BY <1>1
<1> HIDE DEF left
<1>4. /\ l.for \in Names /\ l.todo \in Seq(ViewSteps) /\ failures \in Nat /\ Len(l.todo) \in 1..5
      /\ section \in [WorkloadDetails!SectionsOf(kind) -> Names \cup Marks]
  BY DEF DetailsIInv, DetailsTypes, ViewLoads
<1>5. step = l.todo[1] /\ 1 \in DOMAIN l.todo /\ step \in ViewSteps
  BY <1>4
<1> HIDE DEF step
<1>6. rest \in Seq(ViewSteps) /\ (rest # <<>> => Len(rest) \in 1..5) /\ (kind \in DetailKinds => Told(rest))
  <2>1. <<>> \in Seq(ViewSteps) /\ Told(<<>>)
    BY DEF Told
  <2> QED BY <1>3, <2>1
<1> HIDE DEF rest
<1>7. \A s \in DOMAIN section : told[s] = IF s = step.shows THEN "problem" ELSE section[s]
  OBVIOUS
<1>8. \A s \in DOMAIN section : shown[s] = told[s] \/ (s \in after /\ shown[s] = l.for)
  OBVIOUS
<1>9. shown \in [WorkloadDetails!SectionsOf(kind) -> Names \cup Marks]
  <2>1. told \in [WorkloadDetails!SectionsOf(kind) -> Names \cup Marks]
    BY <1>4 DEF Marks
  <2> HIDE DEF told
  <2>2. both \in [WorkloadDetails!SectionsOf(kind) -> Names \cup Marks]
    BY <1>4, <2>1
  <2> HIDE DEF both
  <2> QED BY <2>1, <2>2
<1>10. step.onError = "go" \/ step.onError = "stop"
  BY <1>2, <1>5 DEF ViewSteps
<1>11. ASSUME kind \in DetailKinds
       PROVE  step.shows \in DOMAIN section /\ shown[step.shows] = "problem"
  <2>1. Told(l.todo) /\ DOMAIN section = WorkloadDetails!SectionsOf(kind)
    BY <1>4, <1>11 DEF DetailsIInv, DetailsTypes
  <2>2. step.shows \in DOMAIN section
    BY <1>5, <1>10, <2>1 DEF Told
  <2>3. CASE step.onError = "stop"
    BY <2>2, <2>3
  <2>4. CASE step.onError = "go"
    <3>1. \A i \in 1..m \ {1} : i \in DOMAIN l.todo /\ 1 < i
      BY <1>4
    <3>2. \A i \in 1..m \ {1} : l.todo[i].fills # step.shows
      BY <1>5, <2>1, <2>4, <3>1 DEF Told
    <3> QED BY <2>2, <2>4, <3>2
  <2> QED BY <1>10, <2>2, <2>3, <2>4
<1> HIDE DEF shown, told
<1>12. \A s \in DOMAIN section : shown[s] \in {section[s], l.for, "problem", "loading"}
  BY <1>7, <1>8
<1>13. kind = "logs" => shown["refresh"] = section["refresh"]
  <2>1. \A i \in 1..m : l.todo[i].fills # "refresh"
    <3>1. \A i \in 1..m : l.todo[i] \in ViewSteps
      BY <1>4
    <3>2. \A any \in ViewSteps : any.fills # "refresh"
      BY DEF ViewSteps, StepTexts
    <3> QED BY <3>1, <3>2
  <2>2. kind = "logs" => "refresh" \in DOMAIN section
    BY <1>4 DEF WorkloadDetails!SectionsOf
  <2>3. step.shows # "refresh"
    BY <1>5 DEF ViewSteps, StepTexts
  <2> QED BY <1>7, <1>8, <2>1, <2>2, <2>3
<1>14. failures' \in Nat /\ failures' # 0
  BY <1>2, <1>4
<1>15. WorkloadDetails!FailureIsTold
  <2>1. section' = shown
    BY <1>2 DEF WorkloadDetails!Proceed
  <2> QED BY <1>11, <2>1 DEF WorkloadDetails!FailureIsTold, WorkloadDetails!Problem, DetailKinds
<1>16. DetailsIInv'
  BY <1>2, <1>4, <1>6, <1>9, <1>12, <1>13, <1>14, WindowProceeds
<1> QED BY <1>15, <1>16

\* What is left of a script of two steps when the first is done.
LEMMA OneLeft ==
  ASSUME NEW S, NEW script \in Seq(S), Len(script) = 2
  PROVE  Tail(script) \in Seq(S) /\ Len(Tail(script)) = 1
OBVIOUS

LEMMA DetailsContainers ==
  ASSUME DetailsIInv, NEW l \in loads, WorkloadDetails!GotContainers(l)
  PROVE  DetailsIInv'
<1> DEFINE rest == Tail(l.todo)
           shown == [section EXCEPT !["containers"] = l.for, !["refresh"] = l.for, !["logs"] = "loading"]
<1>1. /\ kind = "logs" /\ Len(l.todo) = 2 /\ WorkloadDetails!Proceed(l, shown, rest)
      /\ failures' = failures
  BY DEF WorkloadDetails!GotContainers, WorkloadDetails!Loading
<1>2. /\ l.for \in Names /\ l.todo \in Seq(ViewSteps) /\ failures \in Nat
      /\ section \in [WorkloadDetails!SectionsOf(kind) -> Names \cup Marks]
  BY DEF DetailsIInv, DetailsTypes, ViewLoads
<1>3. /\ kind \notin DetailKinds /\ kind # "output"
      /\ WorkloadDetails!SectionsOf(kind) = {"containers", "logs", "refresh"}
  BY <1>1 DEF DetailKinds, WorkloadDetails!Detail, WorkloadDetails!SectionsOf
<1>4. rest \in Seq(ViewSteps) /\ Len(rest) = 1
  BY <1>1, <1>2, OneLeft
<1> HIDE DEF rest
<1>5. shown \in [WorkloadDetails!SectionsOf(kind) -> Names \cup Marks]
  BY <1>2 DEF Marks
<1>6. \A s \in DOMAIN section : shown[s] \in {section[s], l.for, "problem", "loading"}
  BY <1>2, <1>3
<1>7. shown["refresh"] = l.for
  BY <1>2, <1>3
<1> HIDE DEF shown
<1> QED BY <1>1, <1>2, <1>3, <1>4, <1>5, <1>6, <1>7, WindowProceeds

\* The output window is answered, or its request fails.
LEMMA OutputProceeds ==
  ASSUME DetailsIInv, NEW l \in loads, kind = "output", loads' = loads \ {l},
         UNCHANGED <<kind, started, crossed, executed>>, failures' \in Nat,
         \/ UNCHANGED <<title, section>>
         \/ /\ title' = l.for
            /\ \E text \in {l.for, "problem"} : section' = [section EXCEPT !["content"] = text]
  PROVE  DetailsIInv'
<1>1. /\ WorkloadDetails!SectionsOf(kind) = {"content"} /\ kind \notin DetailKinds
      /\ l.for \in Names /\ section \in [WorkloadDetails!SectionsOf(kind) -> Names \cup Marks]
  BY DEF WorkloadDetails!SectionsOf, DetailKinds, WorkloadDetails!Detail, DetailsIInv,
       DetailsTypes, ViewLoads
<1>2. WorkloadDetails!SectionsOf(kind)' = WorkloadDetails!SectionsOf(kind) /\ kind' = kind
  BY KindStays
<1>3. section' \in [WorkloadDetails!SectionsOf(kind) -> Names \cup Marks] /\ title' \in Names \cup {"blank"}
  BY <1>1 DEF DetailsIInv, DetailsTypes, Marks
<1>4. IsFiniteSet(loads') /\ Cardinality(loads') <= started'
  <2>1. /\ IsFiniteSet(loads \ {l}) /\ Cardinality(loads \ {l}) = Cardinality(loads) - 1
        /\ Cardinality(loads) \in Nat /\ started \in Nat /\ Cardinality(loads) <= started
    BY FS_RemoveElement, FS_CardinalityType DEF DetailsIInv, DetailsTypes
  <2>2. Cardinality(loads') = Cardinality(loads \ {l}) /\ IsFiniteSet(loads')
    BY <2>1, Zenon
  <2> QED BY <2>1, <2>2
<1>5. DetailsTypes'
  BY <1>1, <1>2, <1>3, <1>4 DEF DetailsIInv, DetailsTypes
<1>6. section'["content"] \in {"blank", "loading", "problem", title'}
  BY <1>1 DEF DetailsIInv, WorkloadDetails!OutputMatchesTitle, WorkloadDetails!Blank,
       WorkloadDetails!Loading, WorkloadDetails!Problem
<1>7. WorkloadDetails!OutputMatchesTitle' /\ WorkloadDetails!CommandRunsInTitle'
  BY <1>6 DEF DetailsIInv, WorkloadDetails!OutputMatchesTitle, WorkloadDetails!CommandRunsInTitle,
       WorkloadDetails!Blank, WorkloadDetails!Loading, WorkloadDetails!Problem
<1>8. WorkloadDetails!OneWorkload'
  BY <1>1, <1>2, <1>3 DEF WorkloadDetails!OneWorkload
<1>9. OpenedFirst' /\ LoadsOfTitle' /\ RefreshOfTitle' /\ SpinnersHaveSteps'
  BY <1>1, <1>2 DEF OpenedFirst, LoadsOfTitle, RefreshOfTitle, SpinnersHaveSteps
<1> QED BY <1>5, <1>7, <1>8, <1>9 DEF DetailsIInv

\* Each action of the windows of a workload keeps its invariant, and tells what fails.
LEMMA DetailsStep ==
  ASSUME DetailsIInv, WorkloadDetails!Next
  PROVE  DetailsIInv' /\ WorkloadDetails!FailureIsTold
<1>1. UNCHANGED failures => WorkloadDetails!FailureIsTold
  BY DEF DetailsIInv, DetailsTypes, WorkloadDetails!FailureIsTold
<1>2. ASSUME NEW n \in Names, WorkloadDetails!Opens(n)
      PROVE  DetailsIInv' /\ UNCHANGED failures
  <2>1. CASE WorkloadDetails!View(n)
    BY <2>1, DetailsView DEF WorkloadDetails!View
  <2>2. CASE WorkloadDetails!Describe(n)
    BY <2>2, DetailsDescribe DEF WorkloadDetails!Describe
  <2>3. CASE WorkloadDetails!ShowHistory(n)
    BY <2>3, DetailsHistory DEF WorkloadDetails!ShowHistory
  <2>4. CASE WorkloadDetails!ShowPodLogs(n)
    BY <2>4, DetailsPodLogs DEF WorkloadDetails!ShowPodLogs
  <2>5. CASE WorkloadDetails!ShowExecPod(n)
    BY <2>5, DetailsExec DEF WorkloadDetails!ShowExecPod
  <2> QED BY <1>2, <2>1, <2>2, <2>3, <2>4, <2>5 DEF WorkloadDetails!Opens
<1>3. ASSUME NEW s \in WorkloadDetails!LazyTabs, WorkloadDetails!ShowDeploymentTab(s)
      PROVE  DetailsIInv' /\ UNCHANGED failures
  BY <1>3, DetailsTab DEF WorkloadDetails!ShowDeploymentTab
<1>4. CASE WorkloadDetails!RefreshLogs
  BY <1>1, <1>4, DetailsRefresh DEF WorkloadDetails!RefreshLogs
<1>5. CASE WorkloadDetails!ExecPodCommand
  BY <1>1, <1>5, DetailsCommand DEF WorkloadDetails!ExecPodCommand
<1>6. ASSUME NEW l \in loads, WorkloadDetails!Replies(l)
      PROVE  DetailsIInv' /\ WorkloadDetails!FailureIsTold
  <2>1. CASE kind # "output" /\ ~(kind = "logs" /\ Len(l.todo) = 2) /\ WorkloadDetails!Answered(l)
    BY <1>1, <2>1, DetailsAnswered DEF WorkloadDetails!Answered
  <2>2. CASE kind # "output" /\ ~(kind = "logs" /\ Len(l.todo) = 2) /\ WorkloadDetails!Fails(l)
    BY <2>2, DetailsFails
  <2>3. CASE WorkloadDetails!GotContainers(l)
    BY <1>1, <2>3, DetailsContainers DEF WorkloadDetails!GotContainers
  <2>4. CASE WorkloadDetails!OutputAnswered(l)
    <3>1. /\ kind = "output" /\ loads' = loads \ {l} /\ UNCHANGED <<kind, started, crossed, failures, executed>>
          /\ title' = l.for
          /\ \E text \in {l.for, "problem"} : section' = [section EXCEPT !["content"] = text]
      BY <2>4 DEF WorkloadDetails!OutputAnswered, WorkloadDetails!Output, WorkloadDetails!Problem
    <3>2. failures' \in Nat
      BY <3>1 DEF DetailsIInv, DetailsTypes
    <3> QED BY <1>1, <3>1, <3>2, OutputProceeds
  <2>5. CASE WorkloadDetails!OutputFails(l)
    <3>1. /\ kind = "output" /\ loads' = loads \ {l} /\ UNCHANGED <<kind, started, crossed, executed>>
          /\ failures' = failures + 1
          /\ \/ UNCHANGED <<title, section>>
             \/ /\ title' = l.for
                /\ \E text \in {l.for, "problem"} : section' = [section EXCEPT !["content"] = text]
      BY <2>5 DEF WorkloadDetails!OutputFails, WorkloadDetails!Output, WorkloadDetails!Problem
    <3>2. failures' \in Nat
      BY <3>1 DEF DetailsIInv, DetailsTypes
    <3>3. WorkloadDetails!FailureIsTold
      BY <3>1 DEF WorkloadDetails!FailureIsTold, WorkloadDetails!Detail
    <3> QED BY <3>1, <3>2, <3>3, OutputProceeds
  <2> QED BY <1>6, <2>1, <2>2, <2>3, <2>4, <2>5 DEF WorkloadDetails!Replies
<1> QED BY <1>1, <1>2, <1>3, <1>4, <1>5, <1>6 DEF WorkloadDetails!Next

LEMMA DetailsShown ==
  DetailsIInv => WorkloadDetails!DetailsTypeOK /\ WorkloadDetails!AllFilled
<1> SUFFICES ASSUME DetailsIInv PROVE WorkloadDetails!DetailsTypeOK /\ WorkloadDetails!AllFilled
  OBVIOUS
<1> USE DEF DetailsIInv
<1>1. \A l \in loads : l.id \in 1..MaxViews /\ l.for \in Names /\ l.todo # <<>>
  <2> SUFFICES ASSUME NEW l \in loads PROVE l.id \in 1..MaxViews /\ l.for \in Names /\ l.todo # <<>>
    OBVIOUS
  <2>1. l \in ViewLoads /\ Len(l.todo) \in 1..5
    BY DEF DetailsTypes
  <2>2. l.todo # <<>>
    BY <2>1
  <2> QED BY <2>1, <2>2 DEF ViewLoads
<1>2. WorkloadDetails!DetailsTypeOK
  BY <1>1, DetailsCounted DEF WorkloadDetails!DetailsTypeOK, DetailsTypes, Marks,
       WorkloadDetails!Blank, WorkloadDetails!Loading, WorkloadDetails!Problem
<1>3. WorkloadDetails!AllFilled
  BY DEF WorkloadDetails!AllFilled, SpinnersHaveSteps, DetailKinds, WorkloadDetails!Loading
<1> QED BY <1>2, <1>3

-------------------------------------------------------------------------------
(* All the pages *)

\* A step that changes nothing keeps the invariant of each page.
LEMMA DetailsSame ==
  ASSUME DetailsIInv, UNCHANGED vars PROVE DetailsIInv'
<1>1. UNCHANGED <<kind, title, section, loads, started, crossed, failures, executed>>
  BY DEF vars
<1>2. \A script : Told(script)' <=> Told(script)
  BY <1>1 DEF Told
<1>3. DetailsTypes'
  BY <1>1, <1>2 DEF DetailsIInv, DetailsTypes
<1>4. OpenedFirst' /\ LoadsOfTitle'
  BY <1>1 DEF DetailsIInv, OpenedFirst, LoadsOfTitle
<1>5. RefreshOfTitle' /\ SpinnersHaveSteps'
  BY <1>1 DEF DetailsIInv, RefreshOfTitle, SpinnersHaveSteps
<1>6. WorkloadDetails!OneWorkload'
  BY <1>1 DEF DetailsIInv, WorkloadDetails!OneWorkload
<1>7. WorkloadDetails!OutputMatchesTitle'
  BY <1>1 DEF DetailsIInv, WorkloadDetails!OutputMatchesTitle
<1>8. WorkloadDetails!CommandRunsInTitle'
  BY <1>1 DEF DetailsIInv, WorkloadDetails!CommandRunsInTitle
<1> QED BY <1>3, <1>4, <1>5, <1>6, <1>7, <1>8 DEF DetailsIInv

LEMMA TabsSame ==
  ASSUME TabsIInv, UNCHANGED vars PROVE TabsIInv'
BY DEF vars, NamespacesOrAll, TabLists, TabRequests, TabShows, TabTypes,
  TabsIInv, TokensInOrder, ResourceTabs!All, ResourceTabs!ListMatchesFilter,
  ResourceTabs!Namespaced,
  ResourceTabs!SpinnerHasRequest, ResourceTabs!Tabs

LEMMA ConfSame ==
  ASSUME ConfIInv, UNCHANGED vars PROVE ConfIInv'
BY DEF vars, ConfIInv, ConfInOrder, ConfRequests, ConfScreens, ConfSettled,
  ConfTypes, ConfigurationPage!In, ConfigurationPage!RBACTables,
  ConfigurationPage!SettledHasNoSpinner, ConfigurationPage!Tables

LEMMA NamespacesSame ==
  ASSUME NamespacesIInv, UNCHANGED vars PROVE NamespacesIInv'
BY DEF vars, DeletesAreMarked, NamespaceDeletes, NamespaceWindows, NamespacesIInv, NamespacesTypes,
  WindowIsAnswered, NamespacesPage!DetailIsAsked, NamespacesPage!DetailOfTitle,
  NamespacesPage!NamespacesTypeOK, NamespacesPage!OneDeletion,
  NamespacesPage!YamlIsAsked

LEMMA NodesSame ==
  ASSUME NodesIInv, UNCHANGED vars PROVE NodesIInv'
<1>1. NodesRowsIInv'
  BY NodeRowsKept DEF NodesIInv, vars
<1>2. NodesWindowIInv'
  BY DEF vars, NodesIInv, NodesWindowIInv, NodeWindowTypes, WindowInOrder, NodeQuestions,
       NodeWindows, NodesOrNone
<1> QED BY <1>1, <1>2 DEF NodesIInv

LEMMA OverviewSame ==
  ASSUME OverviewIInv, UNCHANGED vars PROVE OverviewIInv'
BY DEF vars, Asks, CellsAreAsked, HealthOfList, OverviewIInv, OverviewRequests,
  OverviewTypes, RowsOfNodes, Shows, OverviewPage!Cells, OverviewPage!Parts

LEMMA EventsSame ==
  ASSUME EventsIInv, UNCHANGED vars PROVE EventsIInv'
BY DEF vars, AnswerOfHeld, Choices, EventFilters, EventRows, EventsHeld,
  EventsIInv, EventsInOrder, EventsSettled, EventsTypes, EventsPage!Filtered,
  EventsPage!Is

\* The page on screen keeps its invariant; the variables of the others are not used.
PagesIInv ==
  /\ onScreen \in {"details", "resources", "configuration", "namespaces", "nodes", "overview", "events"}
  /\ onScreen = "details" => DetailsIInv
  /\ onScreen = "resources" => TabsIInv
  /\ onScreen = "configuration" => ConfIInv
  /\ onScreen = "namespaces" => NamespacesIInv
  /\ onScreen = "nodes" => NodesIInv
  /\ onScreen = "overview" => OverviewIInv
  /\ onScreen = "events" => EventsIInv

LEMMA PagesInit == Init => PagesIInv
<1> SUFFICES ASSUME Init PROVE PagesIInv
  OBVIOUS
<1>1. \/ onScreen = "details" /\ WorkloadDetails!Init
      \/ onScreen = "resources" /\ ResourceTabs!Init
      \/ onScreen = "configuration" /\ ConfigurationPage!Init
      \/ onScreen = "namespaces" /\ NamespacesPage!Init
      \/ onScreen = "nodes" /\ NodesPage!Init
      \/ onScreen = "overview" /\ OverviewPage!Init
      \/ onScreen = "events" /\ EventsPage!Init
  BY Zenon DEF Init
<1> QED BY <1>1, DetailsInit, TabsInit, ConfInit, NamespacesInit, NodesInit, OverviewInit,
     EventsInit
     DEF PagesIInv

\* What a step of a page may not do.
PagesMayNot ==
  /\ onScreen = "details" => WorkloadDetails!FailureIsTold
  /\ onScreen = "resources" => ResourceTabs!ResNeverOlder /\ ResourceTabs!ErrorStays
  /\ onScreen = "nodes" => NodesPage!YamlCanBeAsked

LEMMA PagesStep == ASSUME PagesIInv, Next PROVE PagesIInv' /\ PagesMayNot
<1>1. \/ onScreen = "details" /\ WorkloadDetails!Next /\ UNCHANGED onScreen
      \/ onScreen = "resources" /\ ResourceTabs!Next /\ UNCHANGED onScreen
      \/ onScreen = "configuration" /\ ConfigurationPage!Next /\ UNCHANGED onScreen
      \/ onScreen = "namespaces" /\ NamespacesPage!Next /\ UNCHANGED onScreen
      \/ onScreen = "nodes" /\ NodesPage!Next /\ UNCHANGED onScreen
      \/ onScreen = "overview" /\ OverviewPage!Next /\ UNCHANGED onScreen
      \/ onScreen = "events" /\ EventsPage!Next /\ UNCHANGED onScreen
  BY DEF Next
<1>2. CASE onScreen = "details" /\ WorkloadDetails!Next /\ UNCHANGED onScreen
  BY <1>2, DetailsStep DEF PagesIInv, PagesMayNot
<1>3. CASE onScreen = "resources" /\ ResourceTabs!Next /\ UNCHANGED onScreen
  BY <1>3, TabsStep DEF PagesIInv, PagesMayNot
<1>4. CASE onScreen = "configuration" /\ ConfigurationPage!Next /\ UNCHANGED onScreen
  BY <1>4, ConfStep DEF PagesIInv, PagesMayNot
<1>5. CASE onScreen = "namespaces" /\ NamespacesPage!Next /\ UNCHANGED onScreen
  BY <1>5, NamespacesStep DEF PagesIInv, PagesMayNot
<1>6. CASE onScreen = "nodes" /\ NodesPage!Next /\ UNCHANGED onScreen
  BY <1>6, NodesStep DEF PagesIInv, PagesMayNot
<1>7. CASE onScreen = "overview" /\ OverviewPage!Next /\ UNCHANGED onScreen
  BY <1>7, OverviewStep DEF PagesIInv, PagesMayNot
<1>8. CASE onScreen = "events" /\ EventsPage!Next /\ UNCHANGED onScreen
  BY <1>8, EventsStep DEF PagesIInv, PagesMayNot
<1> QED BY <1>1, <1>2, <1>3, <1>4, <1>5, <1>6, <1>7, <1>8

LEMMA PagesStay == ASSUME PagesIInv, UNCHANGED vars PROVE PagesIInv'
<1>1. UNCHANGED onScreen
  BY DEF vars
<1> QED BY <1>1, DetailsSame, TabsSame, ConfSame, NamespacesSame,
     NodesSame, OverviewSame, EventsSame DEF PagesIInv

\* The invariant of the page on screen holds throughout, whatever the order of clicks, answers,
\* failures and changes of the cluster.
THEOREM PagesInductive == Spec => []PagesIInv
<1>1. PagesIInv /\ [Next]_vars => PagesIInv'
  BY PagesStep, PagesStay
<1> QED BY <1>1, PagesInit, PTL DEF Spec

\* Each page's variables have their types; a list that is marked loaded is held, a load that is
\* under way has a step to come (k8sWorkloads.js, k8sStorage.js, k8sNodes.js and the others).
THEOREM PagesTyped == Spec => []PagesTypeOK
<1>1. PagesIInv => PagesTypeOK
  BY DetailsShown, TabsShown, ConfShown, NodesAreShown, OverviewShown
     DEF PagesIInv, PagesTypeOK, NamespacesIInv, NamespacesTypes
<1> QED BY <1>1, PagesInductive, PTL

\* What a window shows belongs to its title (WindowsMatchTitles): a workload's sections, its output
\* and commands, a namespace's details, a node's sections, for every order of their answers.
THEOREM WindowsMatch == Spec => []WindowsMatchTitles
<1>1. PagesIInv => WindowsMatchTitles
  BY NodesAreShown DEF PagesIInv, WindowsMatchTitles, DetailsIInv, NamespacesIInv, WindowIsAnswered
<1> QED BY <1>1, PagesInductive, PTL

\* No part of a page waits for what nobody asks (SpinnersAreAsked): a spinner has a request, a step
\* of a load or a silent reload behind it, and none is left where everything was answered.
THEOREM SpinnersEnd == Spec => []SpinnersAreAsked
<1>1. PagesIInv => SpinnersAreAsked
  BY DetailsShown, OverviewShown
     DEF PagesIInv, SpinnersAreAsked, TabsIInv, ConfIInv, NamespacesIInv, WindowIsAnswered
<1> QED BY <1>1, PagesInductive, PTL

\* A list is the one the filters ask for and tells what is there (ListsAreTrue), though filters and
\* the cluster change while loads are under way.
THEOREM ListsTell == Spec => []ListsAreTrue
<1>1. PagesIInv => ListsAreTrue
  BY ConfShown, EventsShown, NodesAreShown, OverviewShown DEF PagesIInv, ListsAreTrue, TabsIInv
<1> QED BY <1>1, PagesInductive, PTL

\* A namespace has at most one deletion the page waits for, and is marked as long as it lasts
\* (OneDeletion, k8sNamespaces.js).
THEOREM OneDeletionAtATime == Spec => []OneDeletion
<1>1. PagesIInv => OneDeletion
  BY DEF PagesIInv, OneDeletion, NamespacesIInv, DeletesAreMarked
<1> QED BY <1>1, PagesInductive, PTL

\* No step takes a tab of the storage and service pages back to an older list, and none but a new
\* question or its own answer removes its error (OvertakenLoses, the tokens of loadTabData).
THEOREM OvertakenLose == Spec => OvertakenLoses
<1>1. PagesIInv /\ [Next]_vars =>
        [onScreen = "resources" => ResourceTabs!ResNeverOlder /\ ResourceTabs!ErrorStays]_vars
  BY PagesStep DEF PagesMayNot
<1> QED BY <1>1, PagesInductive, PTL DEF Spec, OvertakenLoses

\* No step that fails a request of a workload's window leaves every section as it was, and a node's
\* emptied YAML tab can be asked for again (FailuresAreTold).
THEOREM FailuresTold == Spec => FailuresAreTold
<1>1. PagesIInv /\ [Next]_vars =>
        [/\ onScreen = "details" => WorkloadDetails!FailureIsTold
         /\ onScreen = "nodes" => NodesPage!YamlCanBeAsked]_vars
  BY PagesStep DEF PagesMayNot
<1> QED BY <1>1, PagesInductive, PTL DEF Spec, FailuresAreTold

================================================================================
