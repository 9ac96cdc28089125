----------------------------- MODULE PlaybookRuns ------------------------------
(***************************************************************************)
(* Runs of playbooks: the threads and the status cache of                  *)
(* AnsibleService.java, and the pollers of playbook-manager.js that show   *)
(* a run's output on the page.                                             *)
(***************************************************************************)
EXTENDS Integers, FiniteSets

CONSTANTS
  MaxRuns,      \* bound: executions the page asks for
  PoolSize,     \* threads that run playbooks
  MaxOut,       \* bound: pieces of output a playbook prints
  MaxFailures   \* bound: requests that fail, lost connections and restarts

\* Assumed where the constants are given values.
RunsAssumption ==
  /\ MaxRuns \in Nat /\ MaxOut \in Nat /\ MaxFailures \in Nat
  /\ PoolSize \in Nat \ {0}

Runs == 1..MaxRuns
NoResult == -1

VARIABLES
  tasks,     \* executionStatusCache, and what each playbook printed so far
  monitors,  \* for each run the page asked for: its request, then its poller
  terminal,  \* the run whose terminal is on the page, 0 for none
  view,      \* what the page shows: the editor or an execution
  failures

rvars == <<tasks, monitors, terminal, view, failures>>
page == <<terminal, view>>

NoTask == [status |-> "unused", out |-> 0, result |-> NoResult]
NoMonitor == [at |-> "off", seen |-> 0, got |-> NoResult, status |-> "none"]

Init ==
  /\ tasks = [r \in Runs |-> NoTask]
  /\ monitors = [r \in Runs |-> NoMonitor]
  /\ terminal = 0 /\ view = "content" /\ failures = 0

-------------------------------------------------------------------------------
\* executePlaybook shows the execution view, then asks the server.
Execute(r) ==
  /\ monitors[r].at = "off"
  /\ monitors' = [monitors EXCEPT ![r].at = "starting"]
  /\ view' = "execution"
  /\ UNCHANGED <<tasks, terminal, failures>>

\* The run is in the cache, and queued, before the answer goes out.
ServeExecute(r) ==
  /\ monitors[r].at = "starting"
  /\ tasks' = [tasks EXCEPT ![r].status = "queued"]
  /\ monitors' = [monitors EXCEPT ![r].at = "started"]
  /\ UNCHANGED <<page, failures>>

\* Every run gets a poller of its own, and its terminal takes the area of the last one's.
StartMonitor(r) ==
  /\ monitors[r].at = "started"
  /\ monitors' = [monitors EXCEPT ![r].at = "sent"]
  /\ terminal' = r /\ view' = "execution"
  /\ UNCHANGED <<tasks, failures>>

\* The request or its answer is lost, or there is no controller: the editor is shown again,
\* while the run may be under way unseen.
ExecuteFails(r) ==
  /\ monitors[r].at \in {"starting", "started"} /\ failures < MaxFailures
  /\ monitors' = [monitors EXCEPT ![r].at = "refused"]
  /\ view' = "content"
  /\ failures' = failures + 1
  /\ UNCHANGED <<tasks, terminal>>

ShowContent ==
  /\ view' = "content"
  /\ UNCHANGED <<tasks, monitors, terminal, failures>>

ClearTerminal ==
  /\ terminal # 0 /\ terminal' = 0
  /\ UNCHANGED <<tasks, monitors, view, failures>>

-------------------------------------------------------------------------------
(* A run of a playbook on its thread. *)

Threads == {r \in Runs : tasks[r].status = "running"}

Elsewhere == UNCHANGED <<monitors, page>>

TakeThread(r) ==
  /\ tasks[r].status = "queued" /\ Cardinality(Threads) < PoolSize
  /\ tasks' = [tasks EXCEPT ![r].status = "running"]
  /\ Elsewhere /\ UNCHANGED failures

\* ansible-playbook prints on.
PrintMore(r) ==
  /\ r \in Threads /\ tasks[r].out < MaxOut
  /\ tasks' = [tasks EXCEPT ![r].out = @ + 1]
  /\ Elsewhere /\ UNCHANGED failures

\* Ten times a second the thread puts what has been printed into the cache.
Capture(r) ==
  /\ r \in Threads /\ tasks[r].out > (IF tasks[r].result = NoResult THEN 0 ELSE tasks[r].result)
  /\ tasks' = [tasks EXCEPT ![r].result = tasks[r].out]
  /\ Elsewhere /\ UNCHANGED failures

\* The command is over; how it ended is not asked.
Complete(r) ==
  /\ r \in Threads
  /\ tasks' = [tasks EXCEPT ![r].status = "completed", ![r].result = tasks[r].out]
  /\ Elsewhere /\ UNCHANGED failures

\* The connection to the controller fails: the entry that takes its place has no output.
Break(r) ==
  /\ r \in Threads /\ failures < MaxFailures
  /\ tasks' = [tasks EXCEPT ![r].status = "failed", ![r].result = NoResult]
  /\ failures' = failures + 1
  /\ Elsewhere

\* The server stops and starts: the cache and the threads are gone.
Restart ==
  /\ failures < MaxFailures
  /\ tasks' = [r \in Runs |->
                IF tasks[r].status = "unused" THEN tasks[r] ELSE [tasks[r] EXCEPT !.status = "not_found",
                                                                     !.result = NoResult]]
  /\ failures' = failures + 1
  /\ Elsewhere

-------------------------------------------------------------------------------
(* The poller of a run. *)

Cached(r) == tasks[r].status \in {"queued", "running"}

ServeStatus(r) ==
  /\ monitors[r].at = "sent"
  /\ monitors' = [monitors EXCEPT ![r].at = "served",
                     ![r].status = IF Cached(r) THEN "running" ELSE tasks[r].status,
                     ![r].got = tasks[r].result]
  /\ UNCHANGED <<tasks, page, failures>>

\* What is new of the output is added to the terminal; any status but running ends the poller.
Poll(r) ==
  /\ monitors[r].at = "served"
  /\ monitors' = [monitors EXCEPT
       ![r].seen = IF monitors[r].got > @ THEN monitors[r].got ELSE @,
       ![r].at = IF monitors[r].status = "running" THEN "waiting" ELSE "ended"]
  /\ UNCHANGED <<tasks, page, failures>>

PollAgain(r) ==
  /\ monitors[r].at = "waiting"
  /\ monitors' = [monitors EXCEPT ![r].at = "sent"]
  /\ UNCHANGED <<tasks, page, failures>>

\* One failed poll ends the poller, however the run goes on.
PollFails(r) ==
  /\ monitors[r].at \in {"sent", "served"} /\ failures < MaxFailures
  /\ monitors' = [monitors EXCEPT ![r].at = "ended", ![r].status = "unknown"]
  /\ failures' = failures + 1
  /\ UNCHANGED <<tasks, page>>

-------------------------------------------------------------------------------
Run(r) == TakeThread(r) \/ PrintMore(r) \/ Capture(r) \/ Complete(r)

Request(r) == ServeExecute(r) \/ StartMonitor(r)

Poller(r) == ServeStatus(r) \/ Poll(r) \/ PollAgain(r)

Next ==
  \/ \E r \in Runs :
       \/ Execute(r) \/ Request(r) \/ ExecuteFails(r)
       \/ Run(r) \/ Break(r) \/ Poller(r) \/ PollFails(r)
  \/ ShowContent \/ ClearTerminal \/ Restart

Spec == Init /\ [][Next]_rvars

-------------------------------------------------------------------------------
(* Properties *)

RunsTypeOK ==
  /\ \A r \in Runs :
       /\ tasks[r].status \in {"unused", "queued", "running", "completed", "failed", "not_found"}
       /\ tasks[r].result \in {NoResult} \cup 0..tasks[r].out
       /\ monitors[r].at \in {"off", "starting", "started", "refused", "sent", "served",
                             "waiting", "ended"}
  /\ Cardinality(Threads) <= PoolSize
  /\ terminal \in Runs \cup {0} /\ view \in {"content", "execution"}
  /\ failures \in 0..MaxFailures

\* When the terminal says that a run is completed, all it printed has been shown; and it
\* never shows more than what was printed.
TerminalComplete ==
  \A r \in Runs :
    /\ monitors[r].seen <= tasks[r].out
    /\ monitors[r].at = "ended" /\ monitors[r].status = "completed" => monitors[r].seen = tasks[r].out

\* A run is polled: that ends, wherever runs queue for threads, break off, or are forgotten
\* by a server that restarts.
Polling(r) == monitors[r].at \in {"sent", "served", "waiting"}

===============================================================================
