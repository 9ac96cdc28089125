----------------------------- MODULE RequestsPage -----------------------------
(***************************************************************************)
(* The administrator's page of deployment requests (deploymentRequests.js):*)
(* the table of requests under a filter, the window of one request, and    *)
(* the console that polls the log of the request being deployed. Lists and *)
(* windows are asked for without a token, the answer that comes last is    *)
(* shown. ApiClient gives a call up after 30 seconds; the server goes on   *)
(* with it. What the console shows is left out.                            *)
(***************************************************************************)
EXTENDS Integers, FiniteSets

CONSTANTS
  Requests,
  MaxActs,      \* bound: what the administrator does, opening windows apart
  MaxWindows,   \* bound: windows opened
  MaxFailures   \* bound: calls that fail or are given up

\* Assumed where the constants are given values; no request is one of the marks below.
RequestsAssumption ==
  /\ Requests \cap {"nobody", "loading", "error"} = {}
  /\ {MaxActs, MaxWindows, MaxFailures} \subseteq Nat

VARIABLES
  db,        \* the status of each request
  filter,    \* the status selected, or "all"
  table,     \* the rows: requests and their status when they were read
  calls,     \* calls the page waits for
  jobs,      \* calls the server has still to carry out
  polling,   \* the request whose log is polled every second
  timers,    \* requests whose deployment has ended less than 30 seconds ago
  window,    \* the request whose window is open
  acts, opened, failures,
  unlisted,  \* whether a deployment has ended that no list was asked for after
  late       \* whether a list has been shown that was no longer true

requestsVars == <<db, filter, table, calls, jobs, polling, timers, window,
                  acts, opened, failures, unlisted, late>>

Statuses == {"PENDING", "RUNNING", "PAUSED", "ERROR", "REJECTED"}
Nobody == "nobody"
Loading == [loading |-> TRUE]
Error == [error |-> TRUE]
Rows(d, f) == [r \in {r \in Requests : f \in {"all", d[r]}} |-> d[r]]
Shown(r) == table \notin {Loading, Error} /\ r \in DOMAIN table

\* A call: the act it comes from, its request; for a list the filter and, once the
\* server has answered, the rows.
Call(id, what, of) == [id |-> id, what |-> what, of |-> of,
                       filter |-> "all", at |-> "sent", rows |-> Loading]
List(id) == [Call(id, "list", Nobody) EXCEPT !.filter = filter]

Deploys == {"approve", "retry", "run"}

\* One interval, of the request deployed last.
Polls(r) == polling' = r

Init ==
  /\ db \in [Requests -> {"PENDING", "RUNNING"}]
  /\ filter = "all" /\ table = Loading /\ calls = {List(0)} /\ jobs = {}
  /\ polling = Nobody /\ timers = {} /\ window = Nobody
  /\ acts = 0 /\ opened = 0 /\ failures = 0 /\ unlisted = FALSE /\ late = FALSE

Act == acts < MaxActs /\ acts' = acts + 1 /\ UNCHANGED <<db, opened, failures, late>>
Sends(c) == jobs' = jobs \cup {[id |-> c.id, what |-> c.what, of |-> c.of]}
Failure == failures < MaxFailures /\ failures' = failures + 1

-------------------------------------------------------------------------------
\* Refresh; and the filter, whose change is listened for twice.
Refresh ==
  /\ Act
  /\ table' = Loading
  /\ calls' = calls \cup {List(acts + 1)}
  /\ UNCHANGED <<filter, jobs, polling, timers, window, unlisted>>

SelectFilter(f) ==
  /\ f # filter
  /\ Act
  /\ filter' = f /\ table' = Loading
  /\ calls' = calls \cup {[List(acts + 1) EXCEPT !.filter = f, !.of = which] :
                         which \in {"first", "second"}}
  /\ UNCHANGED <<jobs, polling, timers, window, unlisted>>

\* Approve and retry of a row: its log is shown and polled from now on, not that of another.
Deploy(what, r) ==
  /\ Shown(r) /\ table[r] = IF what = "approve" THEN "PENDING" ELSE "ERROR"
  /\ Act
  /\ calls' = calls \cup {Call(acts + 1, what, r)}
  /\ Sends(Call(acts + 1, what, r))
  /\ Polls(r)
  /\ UNCHANGED <<filter, table, timers, window, unlisted>>

\* Reject, and scale: to none is a pause.
Change(what, r) ==
  /\ Shown(r)
  /\ table[r] \in IF what = "reject" THEN {"PENDING"} ELSE {"RUNNING", "PAUSED"}
  /\ Act
  /\ calls' = calls \cup {Call(acts + 1, what, r)}
  /\ Sends(Call(acts + 1, what, r))
  /\ UNCHANGED <<filter, table, polling, timers, window, unlisted>>

\* The window is asked for, and closed.
View(r) ==
  /\ Shown(r) /\ window = Nobody /\ opened < MaxWindows
  /\ opened' = opened + 1
  /\ calls' = calls \cup {Call(0, "view", r)}
  /\ UNCHANGED <<db, filter, table, jobs, polling, timers, window, acts, failures,
                 unlisted, late>>

Close ==
  /\ window # Nobody
  /\ window' = Nobody
  /\ UNCHANGED <<db, filter, table, calls, jobs, polling, timers, acts, opened, failures,
                 unlisted, late>>

\* The window's buttons: save, and save first to deploy then. Neither is disabled.
Save(what) ==
  /\ window # Nobody
  /\ Act
  /\ calls' = calls \cup {Call(acts + 1, what, window)}
  /\ UNCHANGED <<filter, table, jobs, polling, timers, window, unlisted>>

\* The console's button ends the polling too.
ClearLogs ==
  /\ polling # Nobody
  /\ polling' = Nobody
  /\ UNCHANGED <<db, filter, table, calls, jobs, timers, window, acts, opened, failures, unlisted, late>>

-------------------------------------------------------------------------------
\* The server carries out a call, whether or not the page still waits for it.
Outcomes(j) ==
  CASE j.what \in Deploys /\ db[j.of] \in {"PENDING", "ERROR"} -> {"RUNNING", "ERROR"}
    [] j.what = "reject" /\ db[j.of] = "PENDING" -> {"REJECTED"}
    [] j.what = "scale" /\ db[j.of] \in {"RUNNING", "PAUSED"} -> {"RUNNING", "PAUSED"}
    [] OTHER -> {"refused"}

Serve(j) ==
  /\ jobs' = jobs \ {j}
  /\ \E s \in Outcomes(j) :
       /\ db' = IF s = "refused" THEN db ELSE [db EXCEPT ![j.of] = s]
       /\ calls' = {IF c.id = j.id /\ c.what = j.what
                    THEN [c EXCEPT !.at = IF s = "refused" \/ s = "ERROR"
                                         THEN "refused" ELSE "done"]
                    ELSE c : c \in calls}
  /\ UNCHANGED <<filter, table, polling, timers, window, acts, opened, failures, unlisted, late>>

\* A deployment is over for the page, which polls p from now on. A good answer starts the
\* timer that would end the polling; telling of it throws, since there is no escapeHtml,
\* and ends the polling at once. Only an approval lists the requests again: the others'
\* part that does is not reached.
Over(c, p) ==
  /\ c.what \in Deploys /\ c.at \in {"done", "refused"}
  /\ polling' = p
  /\ timers' = IF c.at = "done" THEN timers \cup {c.of} ELSE timers
  /\ IF c.what = "approve"
     THEN /\ calls' = (calls \ {c}) \cup {List(c.id)}
          /\ table' = Loading /\ UNCHANGED unlisted
     ELSE /\ calls' = calls \ {c}
          /\ unlisted' = TRUE /\ UNCHANGED table
  /\ window' = IF c.what = "run" /\ window = c.of THEN Nobody ELSE window
  /\ UNCHANGED <<db, filter, jobs, acts, opened, failures, late>>

\* processDeploymentRequestWithParams hears of its deployment, good or bad.
Deployed(c) == Over(c, Nobody)

\* The 30 seconds are over: polling ends, of whichever request.
Timer(r) ==
  /\ r \in timers
  /\ timers' = timers \ {r}
  /\ polling' = Nobody
  /\ UNCHANGED <<db, filter, table, calls, jobs, window, acts, opened, failures, unlisted, late>>

\* A rejection or a new scale is answered: the list, unless it was refused.
Changed(c) ==
  /\ c.what \in {"reject", "scale"} /\ c.at \in {"done", "refused"}
  /\ IF c.at = "done"
     THEN calls' = (calls \ {c}) \cup {List(c.id)} /\ table' = Loading
     ELSE calls' = calls \ {c} /\ UNCHANGED table
  /\ UNCHANGED <<db, filter, jobs, polling, timers, window, acts, opened, failures,
                 unlisted, late>>

\* The request's details are there: a new window in the place of any other.
GotDetail(c) ==
  /\ c.what = "view"
  /\ window' = c.of
  /\ calls' = calls \ {c}
  /\ UNCHANGED <<db, filter, table, jobs, polling, timers, acts, opened, failures,
                 unlisted, late>>

\* The configuration is stored: the list, and a deployment of the request, whose body is
\* partly read from the window there is now. With no window there is nothing to read, and
\* no deployment.
Saved(c) ==
  /\ c.what \in {"save", "saveRun"}
  /\ table' = Loading
  /\ IF c.what = "saveRun" /\ window # Nobody
     THEN LET run == Call(c.id, "run", c.of)
          IN /\ calls' = (calls \ {c}) \cup {List(c.id), run}
             /\ Sends(run)
             /\ Polls(c.of)
     ELSE calls' = (calls \ {c}) \cup {List(c.id)} /\ UNCHANGED <<jobs, polling>>
  /\ UNCHANGED <<db, filter, timers, window, acts, opened, failures, unlisted, late>>

\* The rows the server has for a list, and the answer that shows them.
ServeList(c) ==
  /\ c.what = "list" /\ c.at = "sent"
  /\ calls' = (calls \ {c}) \cup {[c EXCEPT !.at = "done", !.rows = Rows(db, c.filter)]}
  /\ UNCHANGED <<db, filter, table, jobs, polling, timers, window, acts, opened, failures,
                 unlisted, late>>

GotList(c) ==
  /\ c.what = "list" /\ c.at = "done"
  /\ table' = c.rows
  /\ late' = (late \/ c.rows # Rows(db, filter))
  /\ calls' = calls \ {c}
  /\ UNCHANGED <<db, filter, jobs, polling, timers, window, acts, opened, failures, unlisted>>

\* A call fails or is given up: a deployment ends for the page as one that was refused, a
\* list shows its error as the rows given; the rest is only told.
GivenUp(c, rows) ==
  /\ Failure
  /\ calls' = (calls \ {c}) \cup IF c.what = "approve" THEN {List(c.id)} ELSE {}
  /\ polling' = IF c.what \in Deploys THEN Nobody ELSE polling
  /\ table' = CASE c.what = "list" -> rows [] c.what = "approve" -> Loading [] OTHER -> table
  /\ window' = IF c.what = "run" /\ window = c.of THEN Nobody ELSE window
  /\ UNCHANGED <<db, filter, jobs, timers, acts, opened, unlisted, late>>

(* (variant) a failed list leaves the table as it is. *)
FailsSilently(c) == GivenUp(c, table)

Fails(c) == GivenUp(c, Error)

Answer(c) ==
  \/ Deployed(c) \/ Changed(c) \/ GotDetail(c) \/ Saved(c)
  \/ ServeList(c) \/ GotList(c)

Next ==
  \/ Refresh \/ \E f \in {"all", "PENDING"} : SelectFilter(f)
  \/ \E r \in Requests :
       \/ \E what \in {"approve", "retry"} : Deploy(what, r)
       \/ \E what \in {"reject", "scale"} : Change(what, r)
       \/ View(r) \/ Timer(r)
  \/ \E what \in {"save", "saveRun"} : Save(what)
  \/ Close \/ ClearLogs
  \/ \E j \in jobs : Serve(j)
  \/ \E c \in calls : Answer(c) \/ Fails(c)

Spec == Init /\ [][Next]_requestsVars

-------------------------------------------------------------------------------
\* Each variable has its type.
RequestsTypeOK ==
  /\ db \in [Requests -> Statuses]
  /\ \/ table \in {Loading, Error}
     \/ DOMAIN table \subseteq Requests /\ \A r \in DOMAIN table : table[r] \in Statuses
  /\ \A c \in calls : c.id \in 0..MaxActs
  /\ polling \in Requests \cup {Nobody}
  /\ window \in Requests \cup {Nobody} /\ timers \subseteq Requests

\* The spinner of the table has a list to wait for, however lists overlap and fail.
LoadingIsAsked == table = Loading => \E c \in calls : c.what = "list"

\* No log is polled once the page has heard of every deployment, however deployments,
\* their failures and the timers of earlier ones overlap.
PollingHasCall ==
  polling # Nobody => \E c \in calls : c.what \in Deploys /\ c.of = polling

\* Once the page waits for nothing, the table holds the requests as they are under the
\* filter, unless a call failed, a retry or a window's deployment has ended, or a list
\* came late.
SettledRequests ==
  calls = {} /\ jobs = {} /\ failures = 0 /\ ~unlisted /\ ~late => table = Rows(db, filter)

\* A log is polled: it ends.
Polling == polling # Nobody
================================================================================
