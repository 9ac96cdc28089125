------------------------------ MODULE ServersPage ------------------------------
(***************************************************************************)
(* The servers page, servers.js without its terminal: a grid of cards, the *)
(* operations their buttons start, and the windows to add, edit and        *)
(* reconnect a server. An operation that ends well loads the grid again.   *)
(* The two requests of a load count as empty lists when they fail, and     *)
(* loads carry no token. How the server does the operations is             *)
(* ServerRegistry's; here they only change what the next list says.        *)
(***************************************************************************)
EXTENDS Integers, FiniteSets

CONSTANTS
  Servers,
  MaxDetails,    \* the servers refreshAllMetrics reports one by one: 5 in the program
  Sessions,      \* bounds: the operations he uses, how many he starts, the loads under way
                 \* at once, and the requests that fail
  MaxOps         \* bound: operations of his under way at once

VARIABLES
  status,     \* the servers' rows, "gone" where there is none
  connected,  \* the session's connected servers
  grid,       \* the cards shown; work is the operation its metrics button shows
  loads,      \* loads under way: what was read for each, and which requests are left
  ops,        \* operations under way; one is "loading" while it awaits its load
  windows,    \* the windows that are shown
  form,       \* the server the edit and the reconnect window's form is of
  busy,       \* the buttons that are disabled while their operation runs
  closing,    \* the added servers' timers that will close the add window
  session, clicks, failures,
  mixed,      \* whether a load was started during another one
  crossed     \* windows whose save button a load's end enabled during a later save

pageVars ==
  <<status, connected, grid, loads, ops, windows, form, busy, closing,
    session, clicks, failures, mixed, crossed>>

Statuses == {"ONLINE", "OFFLINE", "DISABLED"}
Exist == {s \in Servers : status[s] # "gone"}
Forms == {"add", "edit", "reconnect"}
CardOps == {"delete", "shutdown", "disconnect", "metrics", "editOpen", "reconnectOpen"}
Uses == CardOps \cup Forms \cup {"reload", "check", "refresh"}

\* Assumed where the constants are given values.
ServersPageAssumption ==
  /\ "none" \notin Servers /\ {MaxDetails, MaxOps} \subseteq Nat
  /\ Sessions \subseteq [uses : SUBSET Uses, clicks : Nat, loads : Nat, failures : Nat]

\* One more operation.
Click(kind) == kind \in session.uses /\ clicks < session.clicks /\ clicks' = clicks + 1

\* One more load.
Loading(id, during) == during \cup {[id |-> id, list |-> {}, on |-> {}, left |-> {"servers", "connected"}]}
Load(id) ==
  /\ Cardinality(loads) < session.loads
  /\ loads' = Loading(id, loads) /\ mixed' = (mixed \/ loads # {})
NoLoad == UNCHANGED <<loads, mixed>>

Start(kind, s) ==
  /\ Click(kind)
  /\ Cardinality({op \in ops : op.kind # "auto"}) < MaxOps
  /\ ops' = ops \cup {[kind |-> kind, of |-> s, id |-> clicks', stage |-> "asked"]}

\* init shows the list and checks the servers at once, without a word of the outcome.
Init ==
  /\ \E there \in [Servers -> Statuses \cup {"gone"}], on \in SUBSET Servers :
       /\ on \subseteq {s \in Servers : there[s] = "ONLINE"}
       /\ status = there /\ connected = on
  /\ grid = {} /\ loads = Loading(0, {})
  /\ ops = {[kind |-> "auto", of |-> "none", id |-> -1, stage |-> "asked"]}
  /\ windows = {} /\ form = [w \in {"edit", "reconnect"} |-> "none"]
  /\ busy = {} /\ closing = {} /\ session \in Sessions
  /\ clicks = 0 /\ failures = 0 /\ mixed = FALSE /\ crossed = {}

-------------------------------------------------------------------------------
(* the cards                                                                   *)

Reload ==
  /\ windows = {} /\ Click("reload") /\ Load(clicks')
  /\ UNCHANGED <<status, connected, grid, ops, windows, form, busy, closing, session,
                 failures, crossed>>

\* The server answers one of a load's requests; a failure counts as an empty list.
ReadList(l) ==
  /\ l \in loads /\ "servers" \in l.left
  /\ \/ /\ loads' = (loads \ {l}) \cup {[l EXCEPT !.list = {<<s, status[s]>> : s \in Exist},
                                                   !.left = @ \ {"servers"}]}
        /\ UNCHANGED failures
     \/ /\ failures < session.failures /\ failures' = failures + 1
        /\ loads' = (loads \ {l}) \cup {[l EXCEPT !.left = @ \ {"servers"}]}
  /\ UNCHANGED <<status, connected, grid, ops, windows, form, busy, closing, session,
                 clicks, mixed, crossed>>

ReadConnected(l) ==
  /\ l \in loads /\ "connected" \in l.left
  /\ \/ /\ loads' = (loads \ {l}) \cup {[l EXCEPT !.on = connected, !.left = @ \ {"connected"}]}
        /\ UNCHANGED failures
     \/ /\ failures < session.failures /\ failures' = failures + 1
        /\ loads' = (loads \ {l}) \cup {[l EXCEPT !.left = @ \ {"connected"}]}
  /\ UNCHANGED <<status, connected, grid, ops, windows, form, busy, closing, session,
                 clicks, mixed, crossed>>

\* What awaited the load ends with it, and enables its button again (finally), also
\* when another save of that window, opened again meanwhile, has it disabled.
AwaitedEnd(l) ==
  LET ended == {op \in ops : op.stage = "loading" /\ op.id = l.id}
      kinds == {op.kind : op \in ended}
  IN /\ ops' = ops \ ended /\ busy' = busy \ kinds
     /\ crossed' = crossed \cup
          {k \in kinds : \E op \in ops : op.kind = k /\ op.stage # "loading"}

(* (variant) the grid is not emptied first. *)
ShowCardsAdding(l) ==
  /\ l \in loads /\ l.left = {}
  /\ grid' = grid \cup
       {[of |-> row[1], status |-> row[2], on |-> row[1] \in l.on, work |-> 0] : row \in l.list}
  /\ loads' = loads \ {l} /\ AwaitedEnd(l)
  /\ UNCHANGED <<status, connected, windows, form, closing, session, clicks, failures,
                 mixed>>

\* Both are there: the grid is built anew, whichever load this is.
ShowCards(l) ==
  /\ l \in loads /\ l.left = {}
  /\ grid' = {[of |-> row[1], status |-> row[2], on |-> row[1] \in l.on, work |-> 0] : row \in l.list}
  /\ loads' = loads \ {l} /\ AwaitedEnd(l)
  /\ UNCHANGED <<status, connected, windows, form, closing, session, clicks, failures,
                 mixed>>

\* A card's buttons depend on what it shows.
Offered(card) ==
  CASE card.on /\ card.status # "DISABLED" -> CardOps \ {"reconnectOpen"}
    [] card.on                             -> CardOps \ {"reconnectOpen", "shutdown"}
    [] OTHER                               -> CardOps \ {"disconnect", "shutdown"}

ClickCard(card, kind) ==
  /\ windows = {} /\ card \in grid /\ kind \in Offered(card)
  /\ kind = "metrics" => card.work = 0
  /\ Start(kind, card.of)
  /\ grid' = IF kind = "metrics" THEN (grid \ {card}) \cup {[card EXCEPT !.work = clicks']} ELSE grid
  /\ UNCHANGED <<status, connected, loads, windows, form, busy, closing, session,
                 failures, mixed, crossed>>

\* check-status-btn and refresh-all-metrics-btn.
ClickAll(kind) ==
  /\ kind \in {"check", "refresh"} /\ windows = {} /\ kind \notin busy
  /\ Start(kind, "none") /\ busy' = busy \cup {kind}
  /\ UNCHANGED <<status, connected, grid, loads, windows, form, closing, session,
                 failures, mixed, crossed>>

-------------------------------------------------------------------------------
(* the windows                                                                 *)

\* It resets the form, the save button too.
OpenAdd ==
  /\ windows = {} /\ "add" \in session.uses /\ clicks < session.clicks
  /\ windows' = {"add"} /\ busy' = busy \ {"add"}
  /\ UNCHANGED <<status, connected, grid, loads, ops, form, closing, session, clicks,
                 failures, mixed, crossed>>

\* Hiding a window calls nothing of the program.
Hide(w) ==
  /\ w \in windows /\ windows' = windows \ {w}
  /\ UNCHANGED <<status, connected, grid, loads, ops, form, busy, closing, session,
                 clicks, failures, mixed, crossed>>

\* The save buttons; the server is the one the form is of at that time.
Save(w) ==
  /\ w \in windows /\ w \notin busy
  /\ \/ w = "add" /\ \E s \in Servers \ Exist : Start(w, s)
     \/ w # "add" /\ Start(w, form[w])
  /\ busy' = busy \cup {w}
  /\ UNCHANGED <<status, connected, grid, loads, windows, form, closing, session,
                 failures, mixed, crossed>>

-------------------------------------------------------------------------------
(* an operation at the server, and its answer                                  *)

\* What the server may leave behind: rows and set.
Outcomes(op) ==
  LET s == op.of
      Now(st, on) == <<[status EXCEPT ![s] = st], on>>
  IN CASE op.kind = "add"        -> {Now("ONLINE", connected \cup {s}), Now("OFFLINE", connected)}
       [] op.kind = "edit"       -> {Now("DISABLED", connected \ {s}), Now("OFFLINE", connected \ {s}),
                                     Now("ONLINE", connected)}
       [] op.kind \in {"reconnect", "key"} -> {Now("ONLINE", connected \cup {s})}
       [] op.kind = "delete"     -> {Now("gone", connected)}
       [] op.kind = "shutdown"   -> {Now("OFFLINE", connected \ {s})}
       [] op.kind = "disconnect" -> {Now("DISABLED", connected \ {s})}
       [] op.kind \in {"check", "auto"} ->
            {<<[x \in Servers |-> IF status[x] \in {"gone", "DISABLED"} THEN status[x]
                                  ELSE IF x \in up THEN "ONLINE" ELSE "OFFLINE"],
               {x \in up : status[x] \notin {"gone", "DISABLED"}}>> : up \in SUBSET Exist}
       [] OTHER                  -> {<<status, connected>>}

\* The server does it. The list the edit and reconnect buttons ask for may no longer
\* have the server; other operations on a missing server are refused.
Serve(op) ==
  /\ op \in ops /\ op.stage = "asked"
  /\ op.kind = "add" => op.of \notin Exist
  /\ op.kind \notin {"add", "check", "auto", "refresh", "editOpen", "reconnectOpen"} => op.of \in Exist
  /\ \E after \in Outcomes(op) : status' = after[1] /\ connected' = after[2]
  /\ ops' = (ops \ {op}) \cup
       {[op EXCEPT !.stage = IF op.kind \in {"editOpen", "reconnectOpen"} /\ op.of \notin Exist
                             THEN "missing" ELSE "done"]}
  /\ UNCHANGED <<grid, loads, windows, form, busy, closing, session, clicks, failures,
                 mixed, crossed>>

\* The button of an operation is enabled again when the operation ends.
Enabled(op) == busy' = busy \ {op.kind}
WithoutWork(op) == {IF c.work = op.id /\ op.kind = "metrics" THEN [c EXCEPT !.work = 0] ELSE c : c \in grid}

\* The operation goes on until the list is loaded.
AwaitLoad(op) == Load(op.id) /\ ops' = (ops \ {op}) \cup {[op EXCEPT !.stage = "loading"]}

\* A saved form: its window goes, whoever it is of now. The add window goes later.
SavedForm(op) ==
  /\ op \in ops /\ op.kind \in Forms /\ op.stage = "done"
  /\ \/ /\ op.kind = "add" /\ ops' = ops \ {op}
        /\ closing' = closing \cup {op.id} /\ NoLoad /\ UNCHANGED windows
     \/ /\ op.kind # "add" /\ AwaitLoad(op)
        /\ windows' = windows \ {op.kind} /\ UNCHANGED closing
  /\ UNCHANGED <<status, connected, grid, form, session, clicks, failures, crossed>>

(* (variant) the button stays disabled until the list is loaded. *)
SavedKeeping(op) == SavedForm(op) /\ UNCHANGED busy

\* The button is enabled with the window's end, and once more when the load ends.
Saved(op) == SavedForm(op) /\ Enabled(op)

AddCloses ==
  /\ \E id \in closing : closing' = closing \ {id} /\ Load(id)
  /\ windows' = windows \ {"add"} /\ busy' = busy \ {"add"}
  /\ UNCHANGED <<status, connected, grid, ops, form, session, clicks, failures, crossed>>

\* The check's button stays disabled until the list is loaded.
Checked(op) ==
  /\ op \in ops /\ op.kind = "check" /\ op.stage = "done" /\ AwaitLoad(op)
  /\ UNCHANGED <<status, connected, grid, windows, form, busy, closing, session, clicks,
                 failures, crossed>>

\* The other operations: nothing happens after their load. Up to MaxDetails measured
\* servers, refreshAllMetrics calls a function that does not exist, twice: nothing is
\* shown and nothing is loaded.
Done(op) ==
  /\ op \in ops /\ op.stage = "done"
  /\ op.kind \in {"key", "delete", "shutdown", "disconnect", "auto", "metrics", "refresh"}
  /\ ops' = ops \ {op} /\ Enabled(op)
  /\ \/ Load(op.id)
     \/ op.kind = "refresh" /\ \E n \in 1..MaxDetails : n <= Cardinality(Exist) /\ NoLoad
  /\ grid' = WithoutWork(op)
  /\ UNCHANGED <<status, connected, windows, form, closing, session, clicks, failures,
                 crossed>>

\* The list for the edit form: the window shows the server that was asked for.
FillEdit(op) ==
  /\ op \in ops /\ op.kind = "editOpen" /\ op.stage = "done" /\ ops' = ops \ {op}
  /\ form' = [form EXCEPT !["edit"] = op.of] /\ windows' = windows \cup {"edit"}
  /\ NoLoad /\ UNCHANGED <<status, connected, grid, busy, closing, session, clicks,
                           failures, crossed>>

\* For a reconnection the key is tried first; only its refusal opens the window.
TryKey(op) ==
  /\ op \in ops /\ op.kind = "reconnectOpen" /\ op.stage = "done"
  /\ ops' = (ops \ {op}) \cup {[op EXCEPT !.kind = "key", !.stage = "asked"]}
  /\ NoLoad /\ UNCHANGED <<status, connected, grid, windows, form, busy, closing,
                           session, clicks, failures, crossed>>

KeyRefused(op) ==
  /\ op \in ops /\ op.kind = "key" /\ op.stage = "asked" /\ ops' = ops \ {op}
  /\ form' = [form EXCEPT !["reconnect"] = op.of] /\ windows' = windows \cup {"reconnect"}
  /\ NoLoad /\ UNCHANGED <<status, connected, grid, busy, closing, session, clicks,
                           failures, crossed>>

\* Refused, or gone from the list: an alert, and no load. (A request that was served may
\* fail as well: the client gives up after 30 s.)
Fails(op) ==
  /\ op \in ops /\ op.stage # "loading" /\ ops' = ops \ {op}
  /\ IF op.stage = "missing" \/ (op.stage = "asked" /\ op.of \notin Exist \cup {"none"} /\ op.kind # "add")
     THEN UNCHANGED failures
     ELSE failures < session.failures /\ failures' = failures + 1
  /\ IF op.kind = "key" /\ op.stage # "asked"
     THEN form' = [form EXCEPT !["reconnect"] = op.of] /\ windows' = windows \cup {"reconnect"}
     ELSE op.kind # "key" /\ UNCHANGED <<form, windows>>
  /\ Enabled(op) /\ grid' = WithoutWork(op)
  /\ NoLoad /\ UNCHANGED <<status, connected, closing, session, clicks, crossed>>

-------------------------------------------------------------------------------

Next ==
  \/ Reload \/ OpenAdd \/ AddCloses
  \/ \E l \in loads : ReadList(l) \/ ReadConnected(l) \/ ShowCards(l)
  \/ \E card \in grid, kind \in CardOps : ClickCard(card, kind)
  \/ \E kind \in {"check", "refresh"} : ClickAll(kind)
  \/ \E w \in Forms : Hide(w) \/ Save(w)
  \/ \E op \in ops : Serve(op) \/ Saved(op) \/ Checked(op) \/ Done(op) \/ FillEdit(op)
                     \/ TryKey(op) \/ KeyRefused(op) \/ Fails(op)

Spec == Init /\ [][Next]_pageVars

-------------------------------------------------------------------------------
(* Properties                                                                  *)

\* The variables have their types, and no card is shown twice.
ServersTypeOK ==
  /\ status \in [Servers -> Statuses \cup {"gone"}] /\ connected \subseteq Servers
  /\ grid \subseteq [of : Servers, status : Statuses, on : BOOLEAN, work : Nat]
  /\ \A c, d \in grid : c.of = d.of => c = d
  /\ windows \subseteq Forms /\ busy \subseteq Forms \cup {"check", "refresh"}
  /\ closing \subseteq Int /\ crossed \subseteq {"edit", "reconnect"}
  /\ \A op \in ops : /\ op.of \in Servers \cup {"none"} /\ op.id \in Int
                      /\ op.stage \in {"asked", "done", "missing", "loading"}
                      /\ op.stage = "loading" => op.kind \in {"edit", "reconnect", "check"}

\* Nothing under way, nothing failed, and no load during another: the cards are the
\* servers, with their status and their place in the session, whatever operations ran
\* meanwhile.
SettledCards ==
  loads = {} /\ ops = {} /\ closing = {} /\ failures = 0 /\ ~mixed =>
    {<<c.of, c.status, c.on>> : c \in grid} = {<<s, status[s], s \in connected>> : s \in Exist}

\* A save that only awaits the list is over for its window.
Saving(op) == op.kind \in {"edit", "reconnect"} /\ op.stage # "loading"
Pressed(op) == Saving(op) \/ op.kind \in {"check", "refresh"}

\* No two checks and no two refreshes of the administrator are under way, and no two
\* saves of one window, though it may be hidden and opened again, on another server,
\* while its save is: unless the end of an earlier save's load enabled its button
\* during the next save. (Adding resets the button: two may be.)
OneSave ==
  \A a, b \in ops : Pressed(a) /\ Pressed(b) /\ a.kind = b.kind /\ a.kind \notin crossed => a = b

\* A button says that it is at work only while its operation is: none stays disabled,
\* however the operation ends; and it does say so, but for that exception.
BusyIsAsked ==
  /\ \A b \in busy : \E op \in ops : op.kind = b /\ (b = "add" \/ Pressed(op))
  /\ \A op \in ops : Pressed(op) /\ op.kind \notin crossed => op.kind \in busy

===============================================================================
