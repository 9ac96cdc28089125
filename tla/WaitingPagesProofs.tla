--------------------------- MODULE WaitingPagesProofs ---------------------------
(***************************************************************************)
(* Theorems about the pages that wait (MCWaitingPages), for any tabs,      *)
(* requests, runs and threads and any bounds.  Each page has an inductive  *)
(* invariant of its own: which socket of the initialisation may be open,   *)
(* what a run's poller has heard of its output, what a call of the         *)
(* deployment requests was asked for, and what the newest batch of the     *)
(* workloads, and the poll of an operation on one, rest on.                *)
(***************************************************************************)
EXTENDS MCWaitingPages, FiniteSetTheorems, SequenceTheorems, TLAPS

-------------------------------------------------------------------------------
(* The window that prepares Ansible *)

InitSteps == {"structure", "config", "sshkey", "ping"}
Sockets == [step : InitSteps, loop : Nat, state : {"connecting", "open", "closed"}]
Loops == [step : 1..5, completed : BOOLEAN]

\* Every socket but the newest is closed.
InitIInv ==
  /\ inits \in Seq(Sockets) /\ loops \in Seq(Loops) /\ alone \in Nat /\ lost \in Nat
  /\ \A i \in 1..Len(inits) : inits[i].loop <= Len(loops)
  /\ \A i \in 1..Len(inits) : i # Len(inits) => inits[i].state = "closed"
  /\ Len(loops) + alone <= MaxClicks /\ lost <= MaxFailures

\* The steps are four.
LEMMA FourSteps ==
  /\ DOMAIN AnsibleInit!Steps = 1..4 /\ Len(AnsibleInit!Steps) = 4
  /\ \A k \in 1..4 : AnsibleInit!Steps[k] \in InitSteps
  /\ \A k \in DOMAIN AnsibleInit!Steps : AnsibleInit!Steps[k] \in InitSteps
<1>1. AnsibleInit!Steps = <<"structure", "config", "sshkey", "ping">>
  BY DEF AnsibleInit!Steps
<1>2. DOMAIN AnsibleInit!Steps = 1..4 /\ Len(AnsibleInit!Steps) = 4
  BY <1>1
<1>3. \A k \in 1..4 : AnsibleInit!Steps[k] \in InitSteps
  BY <1>1 DEF InitSteps
<1> QED BY <1>2, <1>3

LEMMA InitInit == AnsibleInit!Init => InitIInv
<1> SUFFICES ASSUME AnsibleInit!Init PROVE InitIInv
  OBVIOUS
<1>1. inits = <<>> /\ loops = <<>> /\ alone = 0 /\ lost = 0
  BY DEF AnsibleInit!Init
<1>2. MaxClicks \in Nat /\ MaxFailures \in Nat
  BY PagesAssumption DEF AnsibleInit!InitAssumption
<1> QED BY <1>1, <1>2 DEF InitIInv

\* The newest socket is closed and another created: for a step of one of the runs there are.
LEMMA InitAction ==
  ASSUME InitIInv, NEW step \in InitSteps, NEW loop \in Nat, loop <= Len(loops'),
         AnsibleInit!RunInitAction(step, loop), loops' \in Seq(Loops), Len(loops) <= Len(loops'),
         alone' \in Nat, Len(loops') + alone' <= MaxClicks, UNCHANGED lost
  PROVE  InitIInv' /\ AnsibleInit!AskedInOrder
<1> DEFINE rest == [i \in 1..Len(inits) |-> IF i = Len(inits) THEN [inits[i] EXCEPT !.state = "closed"]
                                             ELSE inits[i]]
           new == [step |-> step, loop |-> loop, state |-> "connecting"]
<1>1. inits \in Seq(Sockets) /\ Len(inits) \in Nat /\ DOMAIN inits = 1..Len(inits)
  BY DEF InitIInv
<1>2. inits' = Append(rest, new)
  BY <1>1 DEF AnsibleInit!RunInitAction
<1>3. new \in Sockets /\ new.loop = loop /\ new.state = "connecting"
  BY DEF Sockets
<1>4. \A i \in 1..Len(inits) :
        rest[i] \in Sockets /\ rest[i].state = "closed" /\ rest[i].loop = inits[i].loop
  <2> TAKE i \in 1..Len(inits)
  <2>1. inits[i] \in Sockets
    BY <1>1
  <2>2. i # Len(inits) => inits[i].state = "closed"
    BY DEF InitIInv
  <2> QED BY <2>1, <2>2 DEF Sockets
<1> HIDE DEF new
<1>5. rest \in Seq(Sockets) /\ Len(rest) = Len(inits)
  BY <1>1, <1>4
<1> HIDE DEF rest
<1>6. /\ inits' \in Seq(Sockets) /\ Len(inits') = Len(inits) + 1
      /\ inits'[Len(inits) + 1] = new /\ \A i \in 1..Len(inits) : inits'[i] = rest[i]
  BY <1>1, <1>2, <1>3, <1>5
<1>7. \A i \in 1..Len(inits') : inits'[i].loop <= Len(loops')
  <2> TAKE i \in 1..Len(inits')
  <2>1. CASE i = Len(inits) + 1
    BY <2>1, <1>3, <1>6
  <2>2. CASE i \in 1..Len(inits)
    <3>4. inits[i] \in Sockets
      BY <2>2, <1>1
    <3>1. inits[i].loop <= Len(loops) /\ inits[i].loop \in Nat
      BY <2>2, <3>4 DEF InitIInv, Sockets
    <3>2. Len(loops) \in Nat /\ Len(loops') \in Nat
      BY DEF InitIInv
    <3>3. inits'[i].loop = inits[i].loop
      BY <2>2, <1>4, <1>6
    <3> QED BY <3>1, <3>2, <3>3
  <2> QED BY <2>1, <2>2, <1>1, <1>6
<1>8. \A i \in 1..Len(inits') : i # Len(inits') => inits'[i].state = "closed"
  BY <1>1, <1>4, <1>6
<1>9. InitIInv'
  BY <1>6, <1>7, <1>8 DEF InitIInv
<1>10. AnsibleInit!AskedInOrder
  BY <1>1, <1>4, <1>6 DEF AnsibleInit!AskedInOrder
<1> QED BY <1>9, <1>10

\* A socket opens or is lost.
LEMMA InitSocket ==
  ASSUME InitIInv, NEW i \in DOMAIN inits, AnsibleInit!SocketOpens(i) \/ AnsibleInit!SocketLost(i)
  PROVE  InitIInv' /\ AnsibleInit!AskedInOrder
<1>1. inits \in Seq(Sockets) /\ Len(inits) \in Nat /\ DOMAIN inits = 1..Len(inits)
  BY DEF InitIInv
<1>2. PICK s \in {"open", "closed"} :
        /\ inits' = [inits EXCEPT ![i].state = s] /\ UNCHANGED <<loops, alone>>
        /\ s = "open" => inits[i].state = "connecting"
  BY DEF AnsibleInit!SocketOpens, AnsibleInit!SocketLost
<1>3. lost' \in Nat /\ lost' <= MaxFailures
  BY PagesAssumption
     DEF AnsibleInit!SocketOpens, AnsibleInit!SocketLost, InitIInv, AnsibleInit!InitAssumption
<1>4. inits[i] \in Sockets
  BY <1>1
<1>5. i = Len(inits) \/ inits[i].state = "closed"
  BY <1>1 DEF InitIInv
<1>6. /\ inits' \in Seq(Sockets) /\ Len(inits') = Len(inits)
      /\ \A j \in 1..Len(inits) : inits'[j].loop = inits[j].loop
      /\ \A j \in 1..Len(inits) : j # i => inits'[j] = inits[j]
      /\ inits'[i].state = s
  BY <1>1, <1>2, <1>4 DEF Sockets
<1>7. \A j \in 1..Len(inits') : j # Len(inits') => inits'[j].state = "closed"
  BY <1>1, <1>2, <1>5, <1>6 DEF InitIInv
<1>8. InitIInv'
  BY <1>2, <1>3, <1>6, <1>7 DEF InitIInv
<1>9. AnsibleInit!AskedInOrder
  BY <1>1, <1>5, <1>6, <1>7, <1>2 DEF AnsibleInit!AskedInOrder
<1> QED BY <1>8, <1>9

\* A step of a run is ended, by its mark or by the time.
LEMMA InitResolve ==
  ASSUME InitIInv, NEW l \in DOMAIN loops, AnsibleInit!Waits(l), AnsibleInit!Resolve(l)
  PROVE  InitIInv' /\ AnsibleInit!AskedInOrder
<1> DEFINE next == loops[l].step + 1
<1>1. /\ loops \in Seq(Loops) /\ Len(loops) \in Nat /\ l \in 1..Len(loops) /\ DOMAIN loops = 1..Len(loops)
      /\ alone \in Nat /\ Len(loops) + alone <= MaxClicks
  BY DEF InitIInv
<1>2. loops[l] \in Loops /\ next \in 2..5
  <2>1. loops[l] \in Loops
    BY <1>1
  <2>2. loops[l].step \in 1..5 /\ loops[l].step <= 4
    BY <2>1, FourSteps DEF AnsibleInit!Waits, Loops
  <2> QED BY <2>1, <2>2
<1>3. loops' = [loops EXCEPT ![l] = [step |-> next, completed |-> FALSE]]
  BY DEF AnsibleInit!Resolve
<1> DEFINE begun == [step |-> next, completed |-> FALSE]
<1>4. begun \in Loops
  BY <1>2 DEF Loops
<1> HIDE DEF begun
<1>5. loops' \in Seq(Loops) /\ Len(loops') = Len(loops)
  <2>1. loops' = [loops EXCEPT ![l] = begun]
    BY <1>3 DEF begun
  <2> QED BY <2>1, <1>1, <1>4
<1>6. UNCHANGED <<alone, lost>>
  BY DEF AnsibleInit!Resolve
<1>7. CASE next \in DOMAIN AnsibleInit!Steps
  <2>1. AnsibleInit!RunInitAction(AnsibleInit!Steps[next], l) /\ AnsibleInit!Steps[next] \in InitSteps
    BY <1>7, FourSteps DEF AnsibleInit!Resolve
  <2> QED BY <2>1, <1>1, <1>5, <1>6, InitAction
<1>8. CASE next \notin DOMAIN AnsibleInit!Steps
  <2>1. UNCHANGED inits
    BY <1>8 DEF AnsibleInit!Resolve
  <2>2. InitIInv'
    BY <2>1, <1>5, <1>6 DEF InitIInv
  <2> QED BY <2>1, <2>2 DEF AnsibleInit!AskedInOrder
<1> QED BY <1>7, <1>8

\* Each action of the window keeps its invariant, and opens no socket but the newest.
LEMMA InitStep ==
  ASSUME InitIInv, AnsibleInit!Next PROVE InitIInv' /\ AnsibleInit!AskedInOrder
<1>1. /\ inits \in Seq(Sockets) /\ loops \in Seq(Loops) /\ Len(loops) \in Nat /\ alone \in Nat
      /\ DOMAIN loops = 1..Len(loops) /\ DOMAIN inits = 1..Len(inits) /\ MaxClicks \in Nat
  BY PagesAssumption DEF InitIInv, AnsibleInit!InitAssumption
<1>2. ASSUME NEW step \in {AnsibleInit!Steps[k] : k \in DOMAIN AnsibleInit!Steps}, AnsibleInit!ClickStep(step)
      PROVE  InitIInv' /\ AnsibleInit!AskedInOrder
  <2>1. step \in InitSteps
    BY FourSteps
  <2>2. /\ AnsibleInit!RunInitAction(step, 0) /\ UNCHANGED <<loops, lost>>
        /\ alone' = alone + 1 /\ Len(loops) + alone < MaxClicks
    BY <1>2 DEF AnsibleInit!ClickStep, AnsibleInit!NoLoop, AnsibleInit!Clicks
  <2> QED BY <2>1, <2>2, <1>1, InitAction
<1>3. CASE AnsibleInit!ClickAll
  <2> DEFINE first == [step |-> 1, completed |-> FALSE]
  <2>1. first \in Loops
    BY DEF Loops
  <2>2. /\ loops' = Append(loops, first) /\ UNCHANGED <<alone, lost>>
        /\ AnsibleInit!RunInitAction(AnsibleInit!Steps[1], Len(loops) + 1)
        /\ Len(loops) + alone < MaxClicks
    BY <1>3 DEF AnsibleInit!ClickAll, AnsibleInit!Clicks
  <2> HIDE DEF first
  <2>3. loops' \in Seq(Loops) /\ Len(loops') = Len(loops) + 1
    BY <1>1, <2>1, <2>2
  <2>4. AnsibleInit!Steps[1] \in InitSteps
    BY FourSteps
  <2> QED BY <1>1, <2>2, <2>3, <2>4, InitAction
<1>4. ASSUME NEW i \in DOMAIN inits, AnsibleInit!Marked(i)
      PROVE  InitIInv' /\ AnsibleInit!AskedInOrder
  <2> DEFINE l == inits[i].loop
  <2>1. l \in DOMAIN loops /\ loops' = [loops EXCEPT ![l].completed = TRUE] /\ UNCHANGED <<inits, alone, lost>>
    BY <1>4 DEF AnsibleInit!Marked, AnsibleInit!Waits
  <2> HIDE DEF l
  <2>2. loops[l] \in Loops
    BY <1>1, <2>1
  <2> DEFINE marked == [loops[l] EXCEPT !.completed = TRUE]
  <2>3. marked \in Loops
    BY <2>2 DEF Loops
  <2>4. loops' = [loops EXCEPT ![l] = marked]
    BY <2>1
  <2>7. loops \in Seq(Loops) /\ l \in DOMAIN loops
    BY <1>1, <2>1
  <2> HIDE DEF marked
  <2>5. loops' \in Seq(Loops) /\ Len(loops') = Len(loops)
    BY <2>3, <2>4, <2>7
  <2>6. InitIInv'
    BY <2>1, <2>5 DEF InitIInv
  <2> QED BY <2>1, <2>6 DEF AnsibleInit!AskedInOrder
<1>5. ASSUME NEW l \in DOMAIN loops, AnsibleInit!Soon(l) \/ AnsibleInit!Timeout(l)
      PROVE  InitIInv' /\ AnsibleInit!AskedInOrder
  BY <1>5, InitResolve DEF AnsibleInit!Soon, AnsibleInit!Timeout
<1> QED BY <1>2, <1>3, <1>4, <1>5, InitSocket DEF AnsibleInit!Next

LEMMA InitSame ==
  ASSUME UNCHANGED <<inits, loops, alone, lost>> PROVE InitIInv' = InitIInv
BY DEF InitIInv

LEMMA InitShown == InitIInv => AnsibleInit!InitTypeOK
<1> SUFFICES ASSUME InitIInv PROVE AnsibleInit!InitTypeOK
  OBVIOUS
<1>1. \A i \in DOMAIN inits : /\ inits[i].loop \in 0..Len(loops)
                              /\ inits[i].state \in {"connecting", "open", "closed"}
  <2> TAKE i \in DOMAIN inits
  <2>1. inits[i] \in Sockets /\ inits[i].loop <= Len(loops)
    BY DEF InitIInv
  <2> QED BY <2>1 DEF Sockets
<1>2. \A l \in DOMAIN loops : loops[l].step \in 1..(Len(AnsibleInit!Steps) + 1)
  <2> TAKE l \in DOMAIN loops
  <2>1. loops[l] \in Loops
    BY DEF InitIInv
  <2> QED BY <2>1, FourSteps DEF Loops
<1> QED BY <1>1, <1>2 DEF InitIInv, AnsibleInit!InitTypeOK, AnsibleInit!Clicks

-------------------------------------------------------------------------------
(* The executions of playbooks *)

TaskStatuses == {"unused", "queued", "running", "completed", "failed", "not_found"}
MonitorSteps == {"off", "starting", "started", "refused", "sent", "served", "waiting", "ended"}
Tasks == [status : TaskStatuses, out : Nat, result : Nat \cup {-1}]
Monitors ==
  [at : MonitorSteps, seen : Nat, got : Nat \cup {-1}, status : TaskStatuses \cup {"none", "unknown"}]

RunsTypes ==
  /\ tasks \in [1..MaxRuns -> Tasks] /\ monitors \in [1..MaxRuns -> Monitors]
  /\ terminal \in 0..MaxRuns /\ view \in {"content", "execution"} /\ failures \in 0..MaxFailures
  /\ Cardinality(PlaybookRuns!Threads) <= PoolSize

\* A run's result is what it printed, or less; all of it when it is completed.
ResultOfOutput(t) == t.result <= t.out /\ (t.status = "completed" => t.result = t.out)

\* A poller has heard of no more than was printed; once it has heard that the run is
\* completed, the run prints no more, and the answer or the terminal has all of it.
HeardOf(m, t) ==
  /\ m.seen <= t.out /\ m.got <= t.out
  /\ m.at \in {"served", "ended"} /\ m.status = "completed" =>
       /\ t.status \notin {"queued", "running"}
       /\ IF m.at = "served" THEN m.got = t.out ELSE m.seen = t.out

RunsIInv ==
  /\ RunsTypes
  /\ \A r \in 1..MaxRuns : ResultOfOutput(tasks[r]) /\ HeardOf(monitors[r], tasks[r])

\* A run that takes no thread leaves no more of them.
LEMMA ThreadsFew ==
  ASSUME RunsTypes, \A r \in 1..MaxRuns : tasks'[r].status = "running" => tasks[r].status = "running"
  PROVE  Cardinality(PlaybookRuns!Threads') <= PoolSize
<1>1. IsFiniteSet(1..MaxRuns)
  BY PagesAssumption, FS_Interval DEF PlaybookRuns!RunsAssumption
<1>2. PlaybookRuns!Threads \subseteq 1..MaxRuns /\ PlaybookRuns!Threads' \subseteq PlaybookRuns!Threads
  BY DEF PlaybookRuns!Threads, PlaybookRuns!Runs
<1>3. IsFiniteSet(PlaybookRuns!Threads)
  BY <1>1, <1>2, FS_Subset
<1>4. /\ Cardinality(PlaybookRuns!Threads') <= Cardinality(PlaybookRuns!Threads)
      /\ Cardinality(PlaybookRuns!Threads') \in Nat /\ Cardinality(PlaybookRuns!Threads) \in Nat
  BY <1>2, <1>3, FS_Subset, FS_CardinalityType
<1>5. PoolSize \in Nat
  BY PagesAssumption DEF PlaybookRuns!RunsAssumption
<1> QED BY <1>4, <1>5 DEF RunsTypes

LEMMA RunsInit == PlaybookRuns!Init => RunsIInv
<1> SUFFICES ASSUME PlaybookRuns!Init PROVE RunsIInv
  OBVIOUS
<1>1. /\ tasks = [r \in 1..MaxRuns |-> [status |-> "unused", out |-> 0, result |-> -1]]
      /\ monitors = [r \in 1..MaxRuns |-> [at |-> "off", seen |-> 0, got |-> -1, status |-> "none"]]
      /\ terminal = 0 /\ view = "content" /\ failures = 0
  BY DEF PlaybookRuns!Init, PlaybookRuns!Runs, PlaybookRuns!NoTask, PlaybookRuns!NoMonitor, PlaybookRuns!NoResult
<1>2. MaxRuns \in Nat /\ MaxFailures \in Nat /\ PoolSize \in Nat
  BY PagesAssumption DEF PlaybookRuns!RunsAssumption
<1>3. PlaybookRuns!Threads = {}
  BY <1>1 DEF PlaybookRuns!Threads, PlaybookRuns!Runs
<1>4. Cardinality(PlaybookRuns!Threads) = 0
  BY <1>3, FS_EmptySet
<1>5. RunsTypes
  BY <1>1, <1>2, <1>4 DEF RunsTypes, Tasks, TaskStatuses, Monitors, MonitorSteps
<1> QED BY <1>1, <1>5 DEF RunsIInv, ResultOfOutput, HeardOf

\* A step of the page with one run, its task left alone.
LEMMA MonitorMoves ==
  ASSUME RunsIInv, NEW r \in 1..MaxRuns, NEW m, monitors' = [monitors EXCEPT ![r] = m],
         m \in Monitors, HeardOf(m, tasks[r]), UNCHANGED tasks,
         terminal' \in 0..MaxRuns, view' \in {"content", "execution"}, failures' \in 0..MaxFailures
  PROVE  RunsIInv'
<1>1. Cardinality(PlaybookRuns!Threads') <= PoolSize
  BY ThreadsFew DEF RunsIInv
<1>2. RunsTypes'
  BY <1>1 DEF RunsIInv, RunsTypes
<1>3. \A q \in 1..MaxRuns : ResultOfOutput(tasks'[q]) /\ HeardOf(monitors'[q], tasks'[q])
  BY DEF RunsIInv, RunsTypes
<1> QED BY <1>2, <1>3 DEF RunsIInv

\* A step of one run on the server.
LEMMA TaskMoves ==
  ASSUME RunsIInv, NEW r \in 1..MaxRuns, NEW t, tasks' = [tasks EXCEPT ![r] = t],
         t \in Tasks, ResultOfOutput(t), t.out >= tasks[r].out,
         NEW m, monitors' = [monitors EXCEPT ![r] = m], m \in Monitors, HeardOf(m, t),
         failures' \in 0..MaxFailures, Cardinality(PlaybookRuns!Threads') <= PoolSize,
         UNCHANGED <<terminal, view>>
  PROVE  RunsIInv'
<1>2. RunsTypes'
  BY DEF RunsIInv, RunsTypes
<1>3. \A q \in 1..MaxRuns : ResultOfOutput(tasks'[q]) /\ HeardOf(monitors'[q], tasks'[q])
  BY DEF RunsIInv, RunsTypes
<1> QED BY <1>2, <1>3 DEF RunsIInv

LEMMA RunOf ==
  ASSUME RunsIInv, NEW r \in 1..MaxRuns
  PROVE  /\ tasks[r] \in Tasks /\ monitors[r] \in Monitors
         /\ ResultOfOutput(tasks[r]) /\ HeardOf(monitors[r], tasks[r])
         /\ tasks = [tasks EXCEPT ![r] = tasks[r]] /\ monitors = [monitors EXCEPT ![r] = monitors[r]]
         /\ failures \in 0..MaxFailures /\ MaxFailures \in Nat
         /\ terminal \in 0..MaxRuns /\ view \in {"content", "execution"}
BY PagesAssumption DEF RunsIInv, RunsTypes, PlaybookRuns!RunsAssumption

\* Asking for a run: the page's side of it.
LEMMA RunAsked ==
  ASSUME RunsIInv, NEW r \in 1..MaxRuns,
         \/ PlaybookRuns!Execute(r) \/ PlaybookRuns!StartMonitor(r) \/ PlaybookRuns!ExecuteFails(r)
  PROVE  RunsIInv'
<1>1. PICK s \in {"starting", "sent", "refused"} :
        monitors' = [monitors EXCEPT ![r].at = s] /\ UNCHANGED tasks
  BY DEF PlaybookRuns!Execute, PlaybookRuns!StartMonitor, PlaybookRuns!ExecuteFails
<1>2. /\ terminal' \in 0..MaxRuns /\ view' \in {"content", "execution"} /\ failures' \in 0..MaxFailures
  BY RunOf DEF PlaybookRuns!Execute, PlaybookRuns!StartMonitor, PlaybookRuns!ExecuteFails
<1> DEFINE m == [monitors[r] EXCEPT !.at = s]
<1>3. m \in Monitors /\ m.at = s /\ m.seen = monitors[r].seen /\ m.got = monitors[r].got
  BY RunOf DEF Monitors, MonitorSteps
<1>4. monitors' = [monitors EXCEPT ![r] = m]
  BY <1>1
<1> HIDE DEF m
<1>5. HeardOf(m, tasks[r])
  BY <1>3, RunOf DEF HeardOf
<1> QED BY <1>1, <1>2, <1>3, <1>4, <1>5, MonitorMoves

\* The server takes a request for a run.
LEMMA RunServed ==
  ASSUME RunsIInv, NEW r \in 1..MaxRuns, PlaybookRuns!ServeExecute(r) PROVE RunsIInv'
<1> DEFINE t == [tasks[r] EXCEPT !.status = "queued"]
           m == [monitors[r] EXCEPT !.at = "started"]
<1>1. t \in Tasks /\ t.out = tasks[r].out /\ t.result = tasks[r].result /\ t.status = "queued"
  BY RunOf DEF Tasks, TaskStatuses
<1>2. m \in Monitors /\ m.at = "started" /\ m.seen = monitors[r].seen /\ m.got = monitors[r].got
  BY RunOf DEF Monitors, MonitorSteps
<1>3. /\ tasks' = [tasks EXCEPT ![r] = t] /\ monitors' = [monitors EXCEPT ![r] = m]
      /\ UNCHANGED <<terminal, view, failures>>
  BY DEF PlaybookRuns!ServeExecute, PlaybookRuns!page
<1> HIDE DEF t, m
<1>4. ResultOfOutput(t) /\ HeardOf(m, t)
  BY <1>1, <1>2, RunOf DEF ResultOfOutput, HeardOf
<1>5. \A q \in 1..MaxRuns : tasks'[q].status = "running" => tasks[q].status = "running"
  BY <1>1, <1>3 DEF RunsIInv, RunsTypes
<1>6. Cardinality(PlaybookRuns!Threads') <= PoolSize
  BY <1>5, ThreadsFew DEF RunsIInv
<1>7. t.out >= tasks[r].out
  BY <1>1, RunOf DEF Tasks
<1> QED BY <1>1, <1>2, <1>3, <1>4, <1>6, <1>7, RunOf, TaskMoves

\* A queued run takes a thread that is free.
LEMMA ThreadTaken ==
  ASSUME RunsIInv, NEW r \in 1..MaxRuns, PlaybookRuns!TakeThread(r) PROVE RunsIInv'
<1> DEFINE t == [tasks[r] EXCEPT !.status = "running"]
<1>1. t \in Tasks /\ t.out = tasks[r].out /\ t.result = tasks[r].result /\ t.status = "running"
  BY RunOf DEF Tasks, TaskStatuses
<1>2. /\ tasks' = [tasks EXCEPT ![r] = t] /\ UNCHANGED <<monitors, terminal, view, failures>>
      /\ tasks[r].status = "queued"
  BY DEF PlaybookRuns!TakeThread, PlaybookRuns!Elsewhere, PlaybookRuns!page
<1>3. PlaybookRuns!Cardinality(PlaybookRuns!Threads) = Cardinality(PlaybookRuns!Threads)
  BY DEF PlaybookRuns!Cardinality, Cardinality
<1>4. Cardinality(PlaybookRuns!Threads) < PoolSize
  BY <1>3 DEF PlaybookRuns!TakeThread
<1> HIDE DEF t
<1>5. PlaybookRuns!Threads' = PlaybookRuns!Threads \cup {r}
  BY <1>1, <1>2 DEF PlaybookRuns!Threads, PlaybookRuns!Runs, RunsIInv, RunsTypes
<1>6. IsFiniteSet(PlaybookRuns!Threads)
  <2>1. IsFiniteSet(1..MaxRuns)
    BY PagesAssumption, FS_Interval DEF PlaybookRuns!RunsAssumption
  <2> QED BY <2>1, FS_Subset DEF PlaybookRuns!Threads, PlaybookRuns!Runs
<1>7. Cardinality(PlaybookRuns!Threads') <= Cardinality(PlaybookRuns!Threads) + 1
  BY <1>5, <1>6, FS_AddElement, FS_CardinalityType
<1>8. Cardinality(PlaybookRuns!Threads') <= PoolSize
  <2>1. IsFiniteSet(PlaybookRuns!Threads')
    BY <1>5, <1>6, FS_AddElement
  <2> QED BY <1>4, <1>6, <1>7, <2>1, FS_CardinalityType, PagesAssumption DEF PlaybookRuns!RunsAssumption
<1>9. ResultOfOutput(t) /\ HeardOf(monitors[r], t)
  BY <1>1, <1>2, RunOf DEF ResultOfOutput, HeardOf
<1>10. t.out >= tasks[r].out
  BY <1>1, RunOf DEF Tasks
<1>11. monitors' = [monitors EXCEPT ![r] = monitors[r]] /\ failures' \in 0..MaxFailures
  BY <1>2, RunOf
<1> QED BY <1>1, <1>2, <1>8, <1>9, <1>10, <1>11, RunOf, TaskMoves

\* A run on its thread prints, is looked at, ends or breaks off.
LEMMA ThreadRuns ==
  ASSUME RunsIInv, NEW r \in 1..MaxRuns,
         \/ PlaybookRuns!PrintMore(r) \/ PlaybookRuns!Capture(r)
         \/ PlaybookRuns!Complete(r) \/ PlaybookRuns!Break(r)
  PROVE  RunsIInv'
<1>1. tasks[r] \in Tasks /\ tasks[r].status = "running" /\ monitors[r] \in Monitors
  BY RunOf DEF PlaybookRuns!PrintMore, PlaybookRuns!Capture, PlaybookRuns!Complete,
               PlaybookRuns!Break, PlaybookRuns!Threads
<1>2. PICK t \in Tasks : /\ tasks' = [tasks EXCEPT ![r] = t] /\ t.out >= tasks[r].out
                         /\ ResultOfOutput(t)
  <2>0. tasks \in [1..MaxRuns -> Tasks]
    BY DEF RunsIInv, RunsTypes
  <2>1. CASE PlaybookRuns!PrintMore(r)
    <3> DEFINE t == [tasks[r] EXCEPT !.out = tasks[r].out + 1]
    <3>1. tasks' = [tasks EXCEPT ![r] = t]
      BY <2>1 DEF PlaybookRuns!PrintMore
    <3>2. t \in Tasks /\ t.out >= tasks[r].out /\ ResultOfOutput(t)
      BY <1>1, RunOf DEF Tasks, ResultOfOutput
    <3> QED BY <3>1, <3>2
  <2>2. CASE PlaybookRuns!Capture(r)
    <3> DEFINE t == [tasks[r] EXCEPT !.result = tasks[r].out]
    <3>1. tasks' = [tasks EXCEPT ![r] = t]
      BY <2>2 DEF PlaybookRuns!Capture
    <3>2. t \in Tasks /\ t.out >= tasks[r].out /\ ResultOfOutput(t)
      BY <1>1, RunOf DEF Tasks, ResultOfOutput
    <3> QED BY <3>1, <3>2
  <2>3. CASE PlaybookRuns!Complete(r)
    <3> DEFINE t == [tasks[r] EXCEPT !.status = "completed", !.result = tasks[r].out]
    <3>1. tasks' = [tasks EXCEPT ![r] = t]
      BY <2>0, <2>3, <1>1 DEF PlaybookRuns!Complete, Tasks
    <3>2. /\ t \in Tasks /\ t.out = tasks[r].out /\ t.status = "completed" /\ t.result = tasks[r].out
      BY <1>1 DEF Tasks, TaskStatuses
    <3> HIDE DEF t
    <3>3. t.out >= tasks[r].out /\ ResultOfOutput(t)
      BY <1>1, <3>2 DEF Tasks, ResultOfOutput
    <3> QED BY <3>1, <3>2, <3>3
  <2>4. CASE PlaybookRuns!Break(r)
    <3> DEFINE t == [tasks[r] EXCEPT !.status = "failed", !.result = -1]
    <3>1. tasks' = [tasks EXCEPT ![r] = t]
      BY <2>0, <2>4 DEF PlaybookRuns!Break, PlaybookRuns!NoResult, Tasks
    <3>2. /\ t \in Tasks /\ t.out = tasks[r].out /\ t.status = "failed" /\ t.result = -1
      BY <1>1 DEF Tasks, TaskStatuses
    <3> HIDE DEF t
    <3>3. t.out >= tasks[r].out /\ ResultOfOutput(t)
      BY <1>1, <3>2 DEF Tasks, ResultOfOutput
    <3> QED BY <3>1, <3>2, <3>3
  <2> QED BY <2>1, <2>2, <2>3, <2>4
<1>3. /\ UNCHANGED <<monitors, terminal, view>> /\ failures' \in 0..MaxFailures
  BY RunOf DEF PlaybookRuns!PrintMore, PlaybookRuns!Capture, PlaybookRuns!Complete,
               PlaybookRuns!Break, PlaybookRuns!Elsewhere, PlaybookRuns!page
<1>4. HeardOf(monitors[r], t)
  BY <1>1, <1>2, RunOf DEF HeardOf, Tasks, Monitors
<1>5. \A q \in 1..MaxRuns : tasks'[q].status = "running" => tasks[q].status = "running"
  BY <1>1, <1>2 DEF RunsIInv, RunsTypes
<1>6. Cardinality(PlaybookRuns!Threads') <= PoolSize
  BY <1>5, ThreadsFew DEF RunsIInv
<1>7. monitors' = [monitors EXCEPT ![r] = monitors[r]]
  BY <1>3, RunOf
<1> QED BY <1>1, <1>2, <1>3, <1>4, <1>6, <1>7, TaskMoves

\* The server restarts: no run is known any more.
LEMMA RunsRestart == ASSUME RunsIInv, PlaybookRuns!Restart PROVE RunsIInv'
<1> DEFINE t(r) == IF tasks[r].status = "unused" THEN tasks[r]
                   ELSE [tasks[r] EXCEPT !.status = "not_found", !.result = -1]
<1>1. /\ tasks' = [r \in 1..MaxRuns |-> t(r)]
      /\ UNCHANGED <<monitors, terminal, view>> /\ failures' = failures + 1 /\ failures < MaxFailures
  BY DEF PlaybookRuns!Restart, PlaybookRuns!Runs, PlaybookRuns!NoResult, PlaybookRuns!Elsewhere, PlaybookRuns!page
<1>2. \A r \in 1..MaxRuns :
        /\ t(r) \in Tasks /\ t(r).out = tasks[r].out /\ t(r).status \in {"unused", "not_found"}
        /\ t(r).result \in {-1, tasks[r].result}
  <2> TAKE r \in 1..MaxRuns
  <2>1. tasks[r] \in Tasks
    BY RunOf
  <2> QED BY <2>1 DEF Tasks, TaskStatuses
<1> HIDE DEF t
<1>3. \A r \in 1..MaxRuns : ResultOfOutput(tasks'[r]) /\ HeardOf(monitors'[r], tasks'[r])
  <2> TAKE r \in 1..MaxRuns
  <2>1. tasks[r] \in Tasks
    BY RunOf
  <2> QED BY <2>1, <1>1, <1>2, RunOf DEF ResultOfOutput, HeardOf, Tasks
<1>4. Cardinality(PlaybookRuns!Threads') <= PoolSize
  <2>1. \A q \in 1..MaxRuns : tasks'[q].status = "running" => tasks[q].status = "running"
    BY <1>1, <1>2
  <2> QED BY <2>1, ThreadsFew DEF RunsIInv
<1>5. RunsTypes'
  BY <1>1, <1>2, <1>4, PagesAssumption DEF RunsIInv, RunsTypes, PlaybookRuns!RunsAssumption
<1> QED BY <1>3, <1>5 DEF RunsIInv

\* The poller of a run.
LEMMA RunPolled ==
  ASSUME RunsIInv, NEW r \in 1..MaxRuns, PlaybookRuns!Poller(r) \/ PlaybookRuns!PollFails(r)
  PROVE  RunsIInv'
<1>1. PICK m \in Monitors : /\ monitors' = [monitors EXCEPT ![r] = m] /\ HeardOf(m, tasks[r])
  <2>0. /\ tasks[r] \in Tasks /\ monitors[r] \in Monitors /\ monitors \in [1..MaxRuns -> Monitors]
        /\ ResultOfOutput(tasks[r]) /\ HeardOf(monitors[r], tasks[r])
    BY RunOf DEF RunsIInv, RunsTypes
  <2>1. CASE PlaybookRuns!ServeStatus(r)
    <3> DEFINE s == IF PlaybookRuns!Cached(r) THEN "running" ELSE tasks[r].status
               m == [monitors[r] EXCEPT !.at = "served", !.status = s, !.got = tasks[r].result]
    <3>1. monitors' = [monitors EXCEPT ![r] = m]
      BY <2>0, <2>1 DEF PlaybookRuns!ServeStatus, Monitors
    <3>2. s \in TaskStatuses /\ (s = "completed" => tasks[r].status = "completed")
      BY <2>0 DEF Tasks, TaskStatuses
    <3> HIDE DEF s
    <3>3. /\ m \in Monitors /\ m.at = "served" /\ m.status = s /\ m.got = tasks[r].result
          /\ m.seen = monitors[r].seen
      BY <2>0, <3>2 DEF Monitors, MonitorSteps, Tasks
    <3> HIDE DEF m
    <3>4. HeardOf(m, tasks[r])
      BY <2>0, <3>2, <3>3 DEF HeardOf, ResultOfOutput
    <3> QED BY <3>1, <3>3, <3>4
  <2>2. CASE PlaybookRuns!Poll(r)
    <3> DEFINE seen == IF monitors[r].got > monitors[r].seen THEN monitors[r].got ELSE monitors[r].seen
               at == IF monitors[r].status = "running" THEN "waiting" ELSE "ended"
               m == [monitors[r] EXCEPT !.seen = seen, !.at = at]
    <3>1. monitors' = [monitors EXCEPT ![r] = m] /\ monitors[r].at = "served"
      BY <2>0, <2>2 DEF PlaybookRuns!Poll, Monitors
    <3>2. /\ seen \in Nat /\ seen >= monitors[r].got /\ seen <= tasks[r].out
          /\ at \in {"waiting", "ended"}
      BY <2>0 DEF Monitors, HeardOf, Tasks
    <3> HIDE DEF seen, at
    <3>3. /\ m \in Monitors /\ m.at = at /\ m.status = monitors[r].status /\ m.got = monitors[r].got
          /\ m.seen = seen
      BY <2>0, <3>2 DEF Monitors, MonitorSteps
    <3> HIDE DEF m
    <3>4. HeardOf(m, tasks[r])
      BY <2>0, <3>1, <3>2, <3>3 DEF HeardOf, Tasks, Monitors
    <3> QED BY <3>1, <3>3, <3>4
  <2>3. CASE PlaybookRuns!PollAgain(r)
    <3> DEFINE m == [monitors[r] EXCEPT !.at = "sent"]
    <3>1. monitors' = [monitors EXCEPT ![r] = m]
      BY <2>3 DEF PlaybookRuns!PollAgain
    <3>2. m \in Monitors /\ HeardOf(m, tasks[r])
      BY <2>0 DEF Monitors, MonitorSteps, HeardOf
    <3> QED BY <3>1, <3>2
  <2>4. CASE PlaybookRuns!PollFails(r)
    <3> DEFINE m == [monitors[r] EXCEPT !.at = "ended", !.status = "unknown"]
    <3>1. monitors' = [monitors EXCEPT ![r] = m]
      BY <2>0, <2>4 DEF PlaybookRuns!PollFails, Monitors
    <3>2. m \in Monitors /\ HeardOf(m, tasks[r])
      BY <2>0 DEF Monitors, MonitorSteps, HeardOf
    <3> QED BY <3>1, <3>2
  <2> QED BY <2>1, <2>2, <2>3, <2>4 DEF PlaybookRuns!Poller
<1>2. UNCHANGED <<tasks, terminal, view>> /\ failures' \in 0..MaxFailures
  BY RunOf DEF PlaybookRuns!Poller, PlaybookRuns!ServeStatus, PlaybookRuns!Poll,
               PlaybookRuns!PollAgain, PlaybookRuns!PollFails, PlaybookRuns!page
<1> QED BY <1>1, <1>2, RunOf, MonitorMoves

\* Each action of the executions keeps their invariant.
LEMMA RunsStep == ASSUME RunsIInv, PlaybookRuns!Next PROVE RunsIInv'
<1>1. ASSUME NEW r \in PlaybookRuns!Runs,
             \/ PlaybookRuns!Execute(r) \/ PlaybookRuns!Request(r) \/ PlaybookRuns!ExecuteFails(r)
             \/ PlaybookRuns!Run(r) \/ PlaybookRuns!Break(r) \/ PlaybookRuns!Poller(r)
             \/ PlaybookRuns!PollFails(r)
      PROVE  RunsIInv'
  <2>1. r \in 1..MaxRuns
    BY DEF PlaybookRuns!Runs
  <2> QED BY <1>1, <2>1, RunAsked, RunServed, ThreadTaken, ThreadRuns, RunPolled
             DEF PlaybookRuns!Request, PlaybookRuns!Run
<1>2. CASE PlaybookRuns!ShowContent \/ PlaybookRuns!ClearTerminal
  <2>1. /\ UNCHANGED <<tasks, monitors, failures>> /\ terminal' \in {terminal, 0}
        /\ view' \in {view, "content"}
    BY <1>2 DEF PlaybookRuns!ShowContent, PlaybookRuns!ClearTerminal
  <2>2. Cardinality(PlaybookRuns!Threads') <= PoolSize
    BY <2>1, ThreadsFew DEF RunsIInv
  <2>3. RunsTypes'
    BY <2>1, <2>2, PagesAssumption DEF RunsIInv, RunsTypes, PlaybookRuns!RunsAssumption
  <2> QED BY <2>1, <2>3 DEF RunsIInv
<1> QED BY <1>1, <1>2, RunsRestart DEF PlaybookRuns!Next

LEMMA RunsSame ==
  ASSUME UNCHANGED <<tasks, monitors, terminal, view, failures>>, RunsIInv PROVE RunsIInv'
<1>1. Cardinality(PlaybookRuns!Threads') <= PoolSize
  BY ThreadsFew DEF RunsIInv
<1> QED BY <1>1 DEF RunsIInv, RunsTypes

LEMMA RunsShown == RunsIInv => PlaybookRuns!RunsTypeOK /\ PlaybookRuns!TerminalComplete
<1> SUFFICES ASSUME RunsIInv PROVE PlaybookRuns!RunsTypeOK /\ PlaybookRuns!TerminalComplete
  OBVIOUS
<1>1. \A r \in 1..MaxRuns :
        /\ tasks[r].status \in TaskStatuses /\ tasks[r].result \in {-1} \cup 0..tasks[r].out
        /\ monitors[r].at \in MonitorSteps
        /\ monitors[r].seen <= tasks[r].out
        /\ monitors[r].at = "ended" /\ monitors[r].status = "completed" => monitors[r].seen = tasks[r].out
  <2> TAKE r \in 1..MaxRuns
  <2>1. tasks[r] \in Tasks /\ monitors[r] \in Monitors
    BY RunOf
  <2> QED BY <2>1, RunOf DEF Tasks, Monitors, ResultOfOutput, HeardOf
<1>2. PlaybookRuns!Cardinality(PlaybookRuns!Threads) = Cardinality(PlaybookRuns!Threads)
  BY DEF PlaybookRuns!Cardinality, Cardinality
<1>3. PlaybookRuns!RunsTypeOK
  BY <1>1, <1>2 DEF RunsIInv, RunsTypes, PlaybookRuns!RunsTypeOK, PlaybookRuns!Runs,
                    PlaybookRuns!NoResult, TaskStatuses, MonitorSteps
<1>4. PlaybookRuns!TerminalComplete
  BY <1>1 DEF PlaybookRuns!TerminalComplete, PlaybookRuns!Runs
<1> QED BY <1>3, <1>4

-------------------------------------------------------------------------------
(* The deployment requests *)

RowStatuses == {"PENDING", "RUNNING", "PAUSED", "ERROR", "REJECTED"}
RowChoices == RowStatuses \cup {"all"}
Nowhere == {"nobody", "first", "second"}
Deployments == {"approve", "retry", "run"}
Scalings == {"reject", "scale"}
Forms == {"save", "saveRun"}
CallKinds == Deployments \cup Scalings \cup Forms \cup {"list", "view"}

\* The rows of a list.
IsRows(t) == DOMAIN t \subseteq Requests /\ \A r \in DOMAIN t : t[r] \in RowStatuses

RequestTypes ==
  /\ db \in [Requests -> RowStatuses] /\ filter \in RowChoices
  /\ table \in {RequestsPage!Loading, RequestsPage!Error} \/ IsRows(table)
  /\ polling \in Requests \cup {"nobody"} /\ window \in Requests \cup {"nobody"}
  /\ timers \subseteq Requests /\ acts \in 0..MaxActs /\ failures \in Nat
  /\ unlisted \in BOOLEAN /\ late \in BOOLEAN

\* What a call is: its request is one of the page's, and a list that was answered has rows.
IsCall(c, n) ==
  /\ DOMAIN c = {"id", "what", "of", "filter", "at", "rows"}
  /\ c.id \in 0..n /\ c.what \in CallKinds /\ c.of \in Requests \cup Nowhere
  /\ c.at \in {"sent", "done", "refused"} /\ c.filter \in RowChoices
  /\ c.what \in Deployments \cup Scalings \cup Forms \cup {"view"} => c.of \in Requests
  /\ c.what = "list" /\ c.at = "done" => IsRows(c.rows)

IsJob(j, n) ==
  j.id \in 0..n /\ j.what \in Deployments \cup Scalings /\ j.of \in Requests

\* The calls an act makes, its lists and the windows apart: one.
Acting(c) == c.what \notin {"list", "view"}

\* A job of the server is what one call asked for that is not answered yet; unless the
\* call was given up, the page waits for it.
CallsInOrder ==
  /\ \A c \in calls : IsCall(c, acts) /\ (Acting(c) => c.id > 0)
  /\ \A j \in jobs : IsJob(j, acts) /\ j.id > 0
  /\ \A c, d \in calls : Acting(c) /\ Acting(d) /\ c.id = d.id => c = d
  /\ \A j, k \in jobs : j.id = k.id => j = k
  /\ \A j \in jobs, c \in calls : Acting(c) /\ c.id = j.id => c.what = j.what /\ c.at = "sent"
  /\ failures = 0 =>
       \A j \in jobs : \E c \in calls : Acting(c) /\ c.id = j.id

\* A call whose end asks for the list, or whose end the page keeps to itself.
Refreshes(c) ==
  \/ c.what \in Deployments \cup Forms \cup {"list"}
  \/ c.what \in Scalings /\ c.at = "done"

\* A table that is not what the database has is going to be.
TableIsAsked ==
  failures = 0 /\ ~unlisted /\ ~late =>
    table = RequestsPage!Rows(db, filter) \/ \E c \in calls : Refreshes(c)

RequestsIInv ==
  /\ RequestTypes /\ CallsInOrder /\ TableIsAsked
  /\ RequestsPage!LoadingIsAsked /\ RequestsPage!PollingHasCall

\* Rows are neither the spinner nor the error, and those of the database are rows.
LEMMA RowsTold ==
  /\ \A t : IsRows(t) => t # RequestsPage!Loading
  /\ RequestsPage!Error # RequestsPage!Loading
  /\ \A f : \A d \in [Requests -> RowStatuses] : IsRows(RequestsPage!Rows(d, f))
<1>1. DOMAIN RequestsPage!Loading = {"loading"} /\ DOMAIN RequestsPage!Error = {"error"}
  BY DEF RequestsPage!Loading, RequestsPage!Error
<1>2. "loading" \notin Requests
  BY PagesAssumption DEF RequestsPage!RequestsAssumption
<1>3. \A t : IsRows(t) => t # RequestsPage!Loading
  BY <1>1, <1>2 DEF IsRows
<1>4. RequestsPage!Error # RequestsPage!Loading
  BY <1>1
<1>5. \A f : \A d \in [Requests -> RowStatuses] : IsRows(RequestsPage!Rows(d, f))
  BY DEF IsRows, RequestsPage!Rows
<1> QED BY <1>3, <1>4, <1>5

\* New calls: what they are.
LEMMA NewCall ==
  ASSUME NEW n \in Nat, NEW id \in 0..n, NEW what \in CallKinds, NEW of \in Requests \cup Nowhere,
         what # "list" => of \in Requests
  PROVE  LET c == RequestsPage!Call(id, what, of)
         IN  /\ IsCall(c, n) /\ c.id = id /\ c.what = what /\ c.of = of /\ c.at = "sent"
BY DEF IsCall, RequestsPage!Call, RowChoices, CallKinds, Deployments, Scalings, Forms

LEMMA NewList ==
  ASSUME NEW n \in Nat, NEW id \in 0..n, filter \in RowChoices
  PROVE  LET c == RequestsPage!List(id)
         IN  IsCall(c, n) /\ c.id = id /\ c.what = "list" /\ c.at = "sent"
BY DEF IsCall, RequestsPage!Call, RequestsPage!List, RowChoices, CallKinds, RequestsPage!Nobody, Nowhere,
       Deployments, Scalings, Forms

LEMMA RequestsInit == RequestsPage!Init => RequestsIInv
<1> SUFFICES ASSUME RequestsPage!Init PROVE RequestsIInv
  OBVIOUS
<1> DEFINE c == RequestsPage!List(0)
<1>1. /\ db \in [Requests -> {"PENDING", "RUNNING"}]
      /\ filter = "all" /\ table = RequestsPage!Loading /\ calls = {c} /\ jobs = {}
      /\ polling = "nobody" /\ timers = {} /\ window = "nobody"
      /\ acts = 0 /\ failures = 0 /\ unlisted = FALSE /\ late = FALSE
  BY DEF RequestsPage!Init, RequestsPage!Nobody
<1>2. IsCall(c, 0) /\ c.id = 0 /\ c.what = "list"
  BY <1>1, NewList DEF RowChoices
<1> HIDE DEF c
<1>3. MaxActs \in Nat
  BY PagesAssumption DEF RequestsPage!RequestsAssumption
<1>4. RequestTypes
  <2>1. db \in [Requests -> RowStatuses]
    BY <1>1 DEF RowStatuses
  <2>2. unlisted \in BOOLEAN /\ late \in BOOLEAN
    BY <1>1, Zenon
  <2> QED BY <1>1, <1>3, <2>1, <2>2 DEF RequestTypes, RowChoices
<1>5. CallsInOrder
  BY <1>1, <1>2 DEF CallsInOrder, Acting
<1>6. TableIsAsked /\ RequestsPage!LoadingIsAsked
  BY <1>1, <1>2 DEF TableIsAsked, Refreshes, RequestsPage!LoadingIsAsked
<1>7. RequestsPage!PollingHasCall
  BY <1>1 DEF RequestsPage!PollingHasCall, RequestsPage!Nobody
<1> QED BY <1>4, <1>5, <1>6, <1>7 DEF RequestsIInv

\* An act is counted.
LEMMA RequestsAct ==
  ASSUME RequestsIInv, RequestsPage!Act
  PROVE  /\ acts' = acts + 1 /\ acts \in Nat /\ acts' \in 1..MaxActs
         /\ UNCHANGED <<db, failures, late>>
<1>1. MaxActs \in Nat
  BY PagesAssumption DEF RequestsPage!RequestsAssumption
<1> QED BY <1>1 DEF RequestsPage!Act, RequestsIInv, RequestTypes

\* With more acts a call is one still.
LEMMA CallsStay ==
  ASSUME NEW n \in Nat, NEW m \in Nat, n <= m, NEW c, IsCall(c, n)
  PROVE  IsCall(c, m)
BY DEF IsCall

\* Lists are asked for in an act.
LEMMA ListsAsked ==
  ASSUME RequestsIInv, RequestsPage!Act, NEW new, calls' = calls \cup new,
         \A c \in new : IsCall(c, acts') /\ c.what = "list", new # {},
         UNCHANGED <<jobs, polling, timers, window, unlisted>>,
         filter' \in RowChoices, table' = RequestsPage!Loading
  PROVE  RequestsIInv'
<1>1. /\ acts' = acts + 1 /\ acts \in Nat /\ acts' \in 1..MaxActs /\ UNCHANGED <<db, failures, late>>
  BY RequestsAct
<1>2. RequestTypes'
  BY <1>1 DEF RequestsIInv, RequestTypes
<1>3. CallsInOrder'
  BY <1>1, CallsStay DEF RequestsIInv, CallsInOrder, IsJob, Acting
<1>4. TableIsAsked' /\ RequestsPage!LoadingIsAsked'
  BY DEF TableIsAsked, Refreshes, RequestsPage!LoadingIsAsked
<1>5. RequestsPage!PollingHasCall'
  BY DEF RequestsIInv, RequestsPage!PollingHasCall
<1> QED BY <1>2, <1>3, <1>4, <1>5 DEF RequestsIInv

\* An act that is one call, carried out by the server or a form to store.
LEMMA CallAsked ==
  ASSUME RequestsIInv, RequestsPage!Act, NEW what \in Deployments \cup Scalings \cup Forms, NEW r \in Requests,
         calls' = calls \cup {RequestsPage!Call(acts + 1, what, r)},
         IF what \in Forms THEN UNCHANGED jobs ELSE RequestsPage!Sends(RequestsPage!Call(acts + 1, what, r)),
         polling' \in {polling, r}, polling' = r => polling = r \/ what \in Deployments,
         UNCHANGED <<filter, table, timers, window, unlisted>>
  PROVE  RequestsIInv'
<1> DEFINE new == RequestsPage!Call(acts + 1, what, r)
<1>1. /\ acts' = acts + 1 /\ acts \in Nat /\ acts' \in 1..MaxActs /\ UNCHANGED <<db, failures, late>>
  BY RequestsAct
<1>2. /\ IsCall(new, acts') /\ new.id = acts + 1 /\ new.what = what /\ new.of = r /\ new.at = "sent"
  BY <1>1, NewCall DEF CallKinds
<1>3. Acting(new)
  BY <1>2 DEF Acting, Deployments, Scalings, Forms
<1>4. \/ jobs' = jobs
      \/ /\ what \in Deployments \cup Scalings
         /\ jobs' = jobs \cup {[id |-> acts + 1, what |-> what, of |-> r]}
  BY <1>2 DEF RequestsPage!Sends
<1>5. calls' = calls \cup {new}
  OBVIOUS
<1> HIDE DEF new
<1>6. RequestTypes'
  BY <1>1 DEF RequestsIInv, RequestTypes
<1>7. \A c \in calls : c.id <= acts /\ IsCall(c, acts')
  BY <1>1, CallsStay DEF RequestsIInv, CallsInOrder, IsCall
<1>8. \A j \in jobs : j.id <= acts /\ IsJob(j, acts')
  BY <1>1 DEF RequestsIInv, CallsInOrder, IsJob
<1>9. \A c \in calls' : IsCall(c, acts') /\ (Acting(c) => c.id > 0)
  BY <1>1, <1>2, <1>5, <1>7 DEF RequestsIInv, CallsInOrder
<1>10. \A c, d \in calls' : Acting(c) /\ Acting(d) /\ c.id = d.id => c = d
  BY <1>1, <1>2, <1>5, <1>7 DEF RequestsIInv, CallsInOrder, IsCall
<1>11. ASSUME jobs' = jobs PROVE CallsInOrder'
  <2>1. \A j \in jobs', c \in calls' : Acting(c) /\ c.id = j.id => c.what = j.what /\ c.at = "sent"
    BY <1>1, <1>2, <1>5, <1>8, <1>11 DEF RequestsIInv, CallsInOrder, IsJob
  <2>2. \A j \in jobs' : IsJob(j, acts') /\ j.id > 0
    BY <1>8, <1>11 DEF RequestsIInv, CallsInOrder
  <2>3. \A j, k \in jobs' : j.id = k.id => j = k
    BY <1>11 DEF RequestsIInv, CallsInOrder
  <2>4. failures' = 0 => \A j \in jobs' : \E c \in calls' : Acting(c) /\ c.id = j.id
    BY <1>1, <1>5, <1>11 DEF RequestsIInv, CallsInOrder
  <2> QED BY <1>9, <1>10, <2>1, <2>2, <2>3, <2>4, Zenon DEF CallsInOrder
<1>12. ASSUME what \in Deployments \cup Scalings,
              jobs' = jobs \cup {[id |-> acts + 1, what |-> what, of |-> r]}
       PROVE  CallsInOrder'
  <2> DEFINE job == [id |-> acts + 1, what |-> what, of |-> r]
  <2>1. IsJob(job, acts') /\ job.id = acts + 1 /\ job.what = what
    BY <1>1, <1>12 DEF IsJob
  <2>2. jobs' = jobs \cup {job}
    BY <1>12
  <2> HIDE DEF job
  <2>3. \A j \in jobs' : IsJob(j, acts') /\ j.id > 0
    BY <1>1, <1>8, <2>1, <2>2 DEF RequestsIInv, CallsInOrder
  <2>4. \A j, k \in jobs' : j.id = k.id => j = k
    BY <1>1, <1>8, <2>1, <2>2 DEF RequestsIInv, CallsInOrder, IsJob
  <2>5. \A j \in jobs', c \in calls' : Acting(c) /\ c.id = j.id => c.what = j.what /\ c.at = "sent"
    BY <1>1, <1>2, <1>5, <1>7, <1>8, <2>1, <2>2 DEF RequestsIInv, CallsInOrder, IsJob, IsCall
  <2>6. failures' = 0 => \A j \in jobs' : \E c \in calls' : Acting(c) /\ c.id = j.id
    BY <1>1, <1>2, <1>3, <1>5, <2>1, <2>2 DEF RequestsIInv, CallsInOrder
  <2> QED BY <1>9, <1>10, <2>3, <2>4, <2>5, <2>6, Zenon DEF CallsInOrder
<1>13. TableIsAsked'
  BY <1>1, <1>5 DEF RequestsIInv, TableIsAsked
<1>14. RequestsPage!LoadingIsAsked'
  BY <1>5 DEF RequestsIInv, RequestsPage!LoadingIsAsked
<1>15. RequestsPage!PollingHasCall'
  <2>1. RequestsPage!Deploys = Deployments
    BY DEF RequestsPage!Deploys, Deployments
  <2> QED BY <2>1, <1>2, <1>5 DEF RequestsIInv, RequestsPage!PollingHasCall
<1> QED BY <1>4, <1>6, <1>11, <1>12, <1>13, <1>14, <1>15 DEF RequestsIInv

\* A call is over; lists may be asked for in its place. Nothing is to be carried out for it
\* any more, or it was given up.
LEMMA CallEnds ==
  ASSUME RequestsIInv, NEW c \in calls, NEW new, calls' = (calls \ {c}) \cup new,
         \A d \in new : IsCall(d, acts) /\ d.what = "list",
         UNCHANGED <<jobs, acts>>,
         failures' = 0 => failures = 0 /\ (Acting(c) => \A j \in jobs : j.id # c.id)
  PROVE  CallsInOrder'
<1>1. \A d \in calls' : d \in calls \/ (IsCall(d, acts) /\ ~Acting(d))
  BY DEF Acting
<1>2. \A d \in calls' : IsCall(d, acts') /\ (Acting(d) => d.id > 0)
  BY <1>1 DEF RequestsIInv, CallsInOrder
<1>3. \A d, e \in calls' : Acting(d) /\ Acting(e) /\ d.id = e.id => d = e
  BY <1>1 DEF RequestsIInv, CallsInOrder
<1>4. \A j \in jobs', d \in calls' : Acting(d) /\ d.id = j.id => d.what = j.what /\ d.at = "sent"
  BY <1>1 DEF RequestsIInv, CallsInOrder
<1>5. failures' = 0 => \A j \in jobs' : \E d \in calls' : Acting(d) /\ d.id = j.id
  <2> SUFFICES ASSUME failures' = 0, NEW j \in jobs PROVE \E d \in calls' : Acting(d) /\ d.id = j.id
    OBVIOUS
  <2>1. PICK d \in calls : Acting(d) /\ d.id = j.id
    BY DEF RequestsIInv, CallsInOrder
  <2>2. d # c
    BY <2>1
  <2> QED BY <2>1, <2>2
<1>6. /\ \A j \in jobs' : IsJob(j, acts') /\ j.id > 0
      /\ \A j, k \in jobs' : j.id = k.id => j = k
  BY DEF RequestsIInv, CallsInOrder
<1> QED BY <1>2, <1>3, <1>4, <1>5, <1>6, Zenon DEF CallsInOrder

LEMMA CallBecomes ==
  ASSUME RequestsIInv, NEW c \in calls, NEW d, calls' = (calls \ {c}) \cup {d},
         IsCall(d, acts), d.what = "list", UNCHANGED <<jobs, acts>>,
         failures' = 0 => failures = 0 /\ (Acting(c) => \A j \in jobs : j.id # c.id)
  PROVE  CallsInOrder'
<1> DEFINE new == {d}
<1>1. calls' = (calls \ {c}) \cup new /\ \A e \in new : IsCall(e, acts) /\ e.what = "list"
  OBVIOUS
<1> HIDE DEF new
<1> QED BY <1>1, CallEnds

LEMMA CallGone ==
  ASSUME RequestsIInv, NEW c \in calls, calls' = calls \ {c}, UNCHANGED <<jobs, acts>>,
         failures' = 0 => failures = 0 /\ (Acting(c) => \A j \in jobs : j.id # c.id)
  PROVE  CallsInOrder'
<1> DEFINE new == {}
<1>1. calls' = (calls \ {c}) \cup new /\ \A d \in new : IsCall(d, acts) /\ d.what = "list"
  OBVIOUS
<1> HIDE DEF new
<1> QED BY <1>1, CallEnds

\* What an answered call of the page's is.
LEMMA CallOf ==
  ASSUME RequestsIInv, NEW c \in calls
  PROVE  /\ IsCall(c, acts) /\ c.id \in 0..acts /\ c.at \in {"sent", "done", "refused"} /\ acts \in Nat
         /\ c.what \in Deployments \cup Scalings \cup Forms => c.of \in Requests /\ Acting(c) /\ c.id \in 1..acts
         /\ Acting(c) /\ (c.at # "sent" \/ c.what \in Forms) => \A j \in jobs : j.id # c.id
<1>1. IsCall(c, acts) /\ acts \in Nat /\ (Acting(c) => c.id > 0)
  BY DEF RequestsIInv, CallsInOrder, RequestTypes
<1>2. c.what \in Deployments \cup Scalings \cup Forms => c.of \in Requests /\ Acting(c)
  BY <1>1 DEF IsCall, Acting, Deployments, Scalings, Forms
<1>3. Acting(c) /\ (c.at # "sent" \/ c.what \in Forms) => \A j \in jobs : j.id # c.id
  <2>1. \A j \in jobs : j.what \notin Forms
    BY DEF RequestsIInv, CallsInOrder, IsJob, Deployments, Scalings, Forms
  <2> QED BY <2>1 DEF RequestsIInv, CallsInOrder
<1> QED BY <1>1, <1>2, <1>3 DEF IsCall

LEMMA DeploysAre == RequestsPage!Deploys = Deployments
BY DEF RequestsPage!Deploys, Deployments

\* The server carries a call out.
LEMMA ServeOutcomes ==
  ASSUME RequestsIInv, NEW j \in jobs, NEW s \in RequestsPage!Outcomes(j)
  PROVE  s = "refused" \/ (s \in RowStatuses /\ (j.what \in Scalings => s # "ERROR"))
BY DeploysAre DEF RequestsPage!Outcomes, RowStatuses, Scalings, Deployments

LEMMA RequestsServe ==
  ASSUME RequestsIInv, NEW j \in jobs, RequestsPage!Serve(j) PROVE RequestsIInv'
<1>1. PICK s \in RequestsPage!Outcomes(j) :
        /\ db' = IF s = "refused" THEN db ELSE [db EXCEPT ![j.of] = s]
        /\ calls' = {IF c.id = j.id /\ c.what = j.what
                     THEN [c EXCEPT !.at = IF s = "refused" \/ s = "ERROR" THEN "refused" ELSE "done"]
                     ELSE c : c \in calls}
  BY DEF RequestsPage!Serve
<1>2. /\ jobs' = jobs \ {j}
      /\ UNCHANGED <<filter, table, polling, timers, window, acts, opened, failures, unlisted, late>>
  BY DEF RequestsPage!Serve
<1>3. IsJob(j, acts) /\ j.id > 0 /\ j.what \notin {"list", "view"} \cup Forms
  BY DEF RequestsIInv, CallsInOrder, IsJob, Deployments, Scalings, Forms
<1> DEFINE at == IF s = "refused" \/ s = "ERROR" THEN "refused" ELSE "done"
           mine(c) == c.id = j.id /\ c.what = j.what
           g(c) == IF mine(c) THEN [c EXCEPT !.at = at] ELSE c
<1>4. calls' = {g(c) : c \in calls}
  BY <1>1
<1>5. \A c \in calls :
        /\ IsCall(g(c), acts) /\ g(c).id = c.id /\ g(c).what = c.what /\ g(c).of = c.of
        /\ mine(c) => g(c).at = at
        /\ ~mine(c) => g(c) = c
  <2> TAKE c \in calls
  <2>1. IsCall(c, acts)
    BY DEF RequestsIInv, CallsInOrder
  <2>2. CASE ~mine(c)
    BY <2>1, <2>2
  <2>3. CASE mine(c)
    <3>1. at \in {"done", "refused"}
      OBVIOUS
    <3> HIDE DEF at
    <3>2. g(c) = [c EXCEPT !.at = at]
      BY <2>3
    <3>3. /\ DOMAIN g(c) = DOMAIN c /\ g(c).id = c.id /\ g(c).what = c.what /\ g(c).of = c.of
          /\ g(c).at = at /\ g(c).filter = c.filter /\ g(c).rows = c.rows
      BY <2>1, <3>2 DEF IsCall
    <3>4. c.what # "list"
      BY <1>3, <2>3
    <3> QED BY <2>1, <2>3, <3>1, <3>3, <3>4 DEF IsCall
  <2> QED BY <2>2, <2>3
<1> HIDE DEF g
<1>6. \A c \in calls : Acting(g(c)) <=> Acting(c)
  BY <1>5 DEF Acting
<1>7. /\ db' \in [Requests -> RowStatuses]
      /\ db' # db => s # "refused"
  BY <1>1, <1>3, ServeOutcomes DEF RequestsIInv, RequestTypes, IsJob
<1>8. RequestTypes'
  BY <1>2, <1>7 DEF RequestsIInv, RequestTypes
<1>9. CallsInOrder'
  <2>1. \A c \in calls' : IsCall(c, acts') /\ (Acting(c) => c.id > 0)
    BY <1>2, <1>4, <1>5, <1>6 DEF RequestsIInv, CallsInOrder
  <2>2. /\ \A i \in jobs' : IsJob(i, acts') /\ i.id > 0
        /\ \A i, k \in jobs' : i.id = k.id => i = k
    BY <1>2 DEF RequestsIInv, CallsInOrder
  <2>3. \A c, d \in calls' : Acting(c) /\ Acting(d) /\ c.id = d.id => c = d
    BY <1>4, <1>5, <1>6 DEF RequestsIInv, CallsInOrder
  <2>4. \A i \in jobs', c \in calls' : Acting(c) /\ c.id = i.id => c.what = i.what /\ c.at = "sent"
    <3> TAKE i \in jobs', d \in calls'
    <3> HAVE Acting(d) /\ d.id = i.id
    <3>1. PICK c \in calls : d = g(c)
      BY <1>4
    <3>2. i \in jobs /\ i.id # j.id
      BY <1>2 DEF RequestsIInv, CallsInOrder
    <3>3. c.id = i.id /\ Acting(c) /\ d = c
      BY <1>5, <1>6, <3>1, <3>2
    <3> QED BY <3>2, <3>3 DEF RequestsIInv, CallsInOrder
  <2>5. failures' = 0 => \A i \in jobs' : \E c \in calls' : Acting(c) /\ c.id = i.id
    <3> SUFFICES ASSUME failures = 0, NEW i \in jobs PROVE \E d \in calls' : Acting(d) /\ d.id = i.id
      BY <1>2
    <3>1. PICK c \in calls : Acting(c) /\ c.id = i.id
      BY DEF RequestsIInv, CallsInOrder
    <3>2. g(c) \in calls' /\ Acting(g(c)) /\ g(c).id = i.id
      BY <1>4, <1>5, <1>6, <3>1
    <3> QED BY <3>2
  <2> QED BY <2>1, <2>2, <2>3, <2>4, <2>5, Zenon DEF CallsInOrder
<1>10. TableIsAsked'
  <2> SUFFICES ASSUME failures = 0, ~unlisted, ~late, table # RequestsPage!Rows(db', filter)
               PROVE  \E c \in calls' : Refreshes(c)
    BY <1>2 DEF TableIsAsked
  <2>1. CASE db' = db
    <3>1. PICK c \in calls : Refreshes(c)
      BY <2>1 DEF RequestsIInv, TableIsAsked
    <3>2. Acting(c) /\ c.id = j.id => c.at = "sent"
      BY DEF RequestsIInv, CallsInOrder
    <3>3. Refreshes(g(c))
      <4>1. CASE c.what \in Deployments \cup Forms \cup {"list"}
        BY <4>1, <1>5 DEF Refreshes
      <4>2. CASE c.what \in Scalings /\ c.at = "done"
        <5>1. Acting(c)
          BY <4>2 DEF Acting, Scalings
        <5>2. ~mine(c)
          BY <3>2, <4>2, <5>1
        <5> QED BY <3>1, <1>5, <5>2
      <4> QED BY <3>1, <4>1, <4>2 DEF Refreshes
    <3> QED BY <1>4, <3>3
  <2>2. CASE db' # db
    <3>1. PICK c \in calls : Acting(c) /\ c.id = j.id /\ c.what = j.what
      BY DEF RequestsIInv, CallsInOrder
    <3>2. mine(c) /\ s # "refused" /\ (j.what \in Scalings => at = "done")
      BY <3>1, <2>2, <1>7, ServeOutcomes
    <3>3. c.what \in Deployments \cup Scalings
      BY <3>1, <1>3 DEF IsJob
    <3> HIDE DEF at
    <3>4. Refreshes(g(c))
      BY <1>5, <3>1, <3>2, <3>3 DEF Refreshes
    <3> QED BY <1>4, <3>4
  <2> QED BY <2>1, <2>2
<1>11. RequestsPage!LoadingIsAsked' /\ RequestsPage!PollingHasCall'
  BY <1>2, <1>4, <1>5 DEF RequestsIInv, RequestsPage!LoadingIsAsked, RequestsPage!PollingHasCall
<1> QED BY <1>8, <1>9, <1>10, <1>11 DEF RequestsIInv

\* A deployment is over for the page.
LEMMA RequestsDeployed ==
  ASSUME RequestsIInv, NEW c \in calls, RequestsPage!Deployed(c) PROVE RequestsIInv'
<1>1. /\ c.what \in Deployments /\ c.at \in {"done", "refused"}
      /\ polling' = "nobody"
      /\ timers' = IF c.at = "done" THEN timers \cup {c.of} ELSE timers
      /\ window' = IF c.what = "run" /\ window = c.of THEN "nobody" ELSE window
      /\ UNCHANGED <<db, filter, jobs, acts, opened, failures, late>>
  BY DeploysAre DEF RequestsPage!Deployed, RequestsPage!Over, RequestsPage!Nobody
<1>2. IsCall(c, acts) /\ c.of \in Requests /\ Acting(c) /\ acts \in Nat /\ c.id \in 0..acts
      /\ (\A j \in jobs : j.id # c.id)
  BY <1>1, CallOf
<1>3. CASE c.what = "approve"
  <2> DEFINE new == RequestsPage!List(c.id)
  <2>1. calls' = (calls \ {c}) \cup {new} /\ table' = RequestsPage!Loading /\ UNCHANGED unlisted
    BY <1>3 DEF RequestsPage!Deployed, RequestsPage!Over
  <2>2. IsCall(new, acts) /\ new.what = "list"
    BY <1>2, NewList DEF RequestsIInv, RequestTypes
  <2> HIDE DEF new
  <2>3. RequestTypes'
    BY <1>1, <1>2, <2>1 DEF RequestsIInv, RequestTypes
  <2>4. CallsInOrder'
    BY <1>1, <1>2, <2>1, <2>2, CallBecomes
  <2>5. TableIsAsked' /\ RequestsPage!LoadingIsAsked'
    BY <2>1, <2>2 DEF TableIsAsked, Refreshes, RequestsPage!LoadingIsAsked
  <2>6. RequestsPage!PollingHasCall'
    BY <1>1 DEF RequestsPage!PollingHasCall, RequestsPage!Nobody
  <2> QED BY <2>3, <2>4, <2>5, <2>6 DEF RequestsIInv
<1>4. CASE c.what # "approve"
  <2>1. calls' = calls \ {c} /\ unlisted' = TRUE /\ UNCHANGED table
    BY <1>4 DEF RequestsPage!Deployed, RequestsPage!Over
  <2>2. unlisted' /\ unlisted' \in BOOLEAN
    BY <2>1, Zenon
  <2>3. RequestTypes'
    BY <1>1, <1>2, <2>1, <2>2 DEF RequestsIInv, RequestTypes
  <2>4. CallsInOrder'
    BY <1>1, <1>2, <2>1, CallGone
  <2>5. TableIsAsked'
    BY <2>2 DEF TableIsAsked
  <2>6. RequestsPage!LoadingIsAsked'
    BY <1>1, <2>1 DEF RequestsIInv, RequestsPage!LoadingIsAsked, Deployments
  <2>7. RequestsPage!PollingHasCall'
    BY <1>1 DEF RequestsPage!PollingHasCall, RequestsPage!Nobody
  <2> QED BY <2>3, <2>4, <2>5, <2>6, <2>7 DEF RequestsIInv
<1> QED BY <1>3, <1>4

\* A rejection or a new scale is answered.
LEMMA RequestsChanged ==
  ASSUME RequestsIInv, NEW c \in calls, RequestsPage!Changed(c) PROVE RequestsIInv'
<1>1. /\ c.what \in Scalings /\ c.at \in {"done", "refused"}
      /\ UNCHANGED <<db, filter, jobs, polling, timers, window, acts, opened, failures, unlisted, late>>
  BY DEF RequestsPage!Changed, Scalings
<1>2. IsCall(c, acts) /\ Acting(c) /\ acts \in Nat /\ c.id \in 0..acts
      /\ (\A j \in jobs : j.id # c.id)
  BY <1>1, CallOf
<1>3. RequestsPage!PollingHasCall'
  <2>1. \A d \in calls : d # c => d \in calls'
    BY DEF RequestsPage!Changed
  <2>2. c.what \notin RequestsPage!Deploys
    BY <1>1 DEF Scalings, RequestsPage!Deploys
  <2> QED BY <1>1, <2>1, <2>2 DEF RequestsIInv, RequestsPage!PollingHasCall
<1>4. CASE c.at = "done"
  <2> DEFINE new == RequestsPage!List(c.id)
  <2>1. calls' = (calls \ {c}) \cup {new} /\ table' = RequestsPage!Loading
    BY <1>4 DEF RequestsPage!Changed
  <2>2. IsCall(new, acts) /\ new.what = "list"
    BY <1>2, NewList DEF RequestsIInv, RequestTypes
  <2> HIDE DEF new
  <2>3. RequestTypes'
    BY <1>1, <2>1 DEF RequestsIInv, RequestTypes
  <2>4. CallsInOrder'
    BY <1>1, <1>2, <2>1, <2>2, CallBecomes
  <2>5. TableIsAsked' /\ RequestsPage!LoadingIsAsked'
    BY <2>1, <2>2 DEF TableIsAsked, Refreshes, RequestsPage!LoadingIsAsked
  <2> QED BY <1>3, <2>3, <2>4, <2>5 DEF RequestsIInv
<1>5. CASE c.at # "done"
  <2>1. calls' = calls \ {c} /\ UNCHANGED table
    BY <1>5 DEF RequestsPage!Changed
  <2>2. RequestTypes'
    BY <1>1, <2>1 DEF RequestsIInv, RequestTypes
  <2>3. CallsInOrder'
    BY <1>1, <1>2, <2>1, CallGone
  <2>4. ~Refreshes(c)
    BY <1>1, <1>5 DEF Refreshes, Scalings, Deployments, Forms
  <2>5. TableIsAsked'
    BY <1>1, <2>1, <2>4 DEF RequestsIInv, TableIsAsked
  <2>6. RequestsPage!LoadingIsAsked'
    BY <1>1, <2>1 DEF RequestsIInv, RequestsPage!LoadingIsAsked, Scalings
  <2> QED BY <1>3, <2>2, <2>3, <2>5, <2>6 DEF RequestsIInv
<1> QED BY <1>4, <1>5

\* A window is answered.
LEMMA RequestsDetail ==
  ASSUME RequestsIInv, NEW c \in calls, RequestsPage!GotDetail(c) PROVE RequestsIInv'
<1>1. /\ c.what = "view" /\ window' = c.of /\ calls' = calls \ {c}
      /\ UNCHANGED <<db, filter, table, jobs, polling, timers, acts, opened, failures, unlisted, late>>
  BY DEF RequestsPage!GotDetail
<1>2. c.of \in Requests /\ ~Acting(c)
  BY <1>1, CallOf DEF IsCall, Acting
<1>3. RequestTypes'
  BY <1>1, <1>2 DEF RequestsIInv, RequestTypes
<1>4. CallsInOrder'
  BY <1>1, <1>2, CallGone
<1>5. TableIsAsked' /\ RequestsPage!LoadingIsAsked' /\ RequestsPage!PollingHasCall'
  BY <1>1 DEF RequestsIInv, TableIsAsked, Refreshes, RequestsPage!LoadingIsAsked, RequestsPage!PollingHasCall,
              RequestsPage!Deploys, Deployments, Scalings, Forms
<1> QED BY <1>3, <1>4, <1>5 DEF RequestsIInv

\* A form is stored: the list, and a deployment where its window is still there.
LEMMA RequestsSaved ==
  ASSUME RequestsIInv, NEW c \in calls, RequestsPage!Saved(c) PROVE RequestsIInv'
<1> DEFINE new == RequestsPage!List(c.id)
           run == RequestsPage!Call(c.id, "run", c.of)
           job == [id |-> c.id, what |-> "run", of |-> c.of]
<1>1. /\ c.what \in Forms /\ table' = RequestsPage!Loading
      /\ UNCHANGED <<db, filter, timers, window, acts, opened, failures, unlisted, late>>
      /\ \/ calls' = (calls \ {c}) \cup {new} /\ UNCHANGED <<jobs, polling>>
         \/ /\ calls' = (calls \ {c}) \cup {new, run} /\ RequestsPage!Sends(run)
            /\ polling' = c.of
  BY DEF RequestsPage!Saved, RequestsPage!Polls, Forms
<1>2. /\ IsCall(c, acts) /\ c.of \in Requests /\ Acting(c) /\ acts \in Nat /\ c.id \in 0..acts /\ c.id > 0
      /\ \A j \in jobs : j.id # c.id
  BY <1>1, CallOf
<1>3. IsCall(new, acts) /\ new.what = "list"
  BY <1>2, NewList DEF RequestsIInv, RequestTypes
<1>4. /\ IsCall(run, acts) /\ run.id = c.id /\ run.what = "run" /\ run.of = c.of /\ run.at = "sent"
  BY <1>2, NewCall DEF CallKinds, Deployments
<1>5. RequestsPage!Sends(run) => jobs' = jobs \cup {job}
  BY <1>4 DEF RequestsPage!Sends
<1>6. IsJob(job, acts) /\ job.id = c.id /\ job.what = "run"
  BY <1>2 DEF IsJob, Deployments
<1> HIDE DEF new, run, job
<1>7. RequestTypes'
  BY <1>1, <1>2 DEF RequestsIInv, RequestTypes
<1>8. TableIsAsked' /\ RequestsPage!LoadingIsAsked'
  BY <1>1, <1>3 DEF TableIsAsked, Refreshes, RequestsPage!LoadingIsAsked
<1>9. RequestsPage!PollingHasCall'
  BY <1>1, <1>4, DeploysAre
     DEF RequestsIInv, RequestsPage!PollingHasCall, Deployments, Forms
<1>10. ASSUME calls' = (calls \ {c}) \cup {new}, UNCHANGED <<jobs, polling>> PROVE CallsInOrder'
  BY <1>1, <1>2, <1>3, <1>10, CallBecomes
<1>11. ASSUME calls' = (calls \ {c}) \cup {new, run}, jobs' = jobs \cup {job} PROVE CallsInOrder'
  <2>1. ~Acting(new) /\ Acting(run)
    BY <1>3, <1>4 DEF Acting
  <2>2. \A d \in calls : Acting(d) /\ d.id = c.id => d = c
    BY <1>2 DEF RequestsIInv, CallsInOrder
  <2>3. \A d \in calls' : IsCall(d, acts') /\ (Acting(d) => d.id > 0)
    BY <1>1, <1>2, <1>3, <1>4, <1>11, <2>1 DEF RequestsIInv, CallsInOrder
  <2>4. /\ \A j \in jobs' : IsJob(j, acts') /\ j.id > 0
        /\ \A j, k \in jobs' : j.id = k.id => j = k
    BY <1>1, <1>2, <1>6, <1>11 DEF RequestsIInv, CallsInOrder
  <2>5. \A d, e \in calls' : Acting(d) /\ Acting(e) /\ d.id = e.id => d = e
    BY <1>4, <1>11, <2>1, <2>2 DEF RequestsIInv, CallsInOrder
  <2>6. \A j \in jobs', d \in calls' : Acting(d) /\ d.id = j.id => d.what = j.what /\ d.at = "sent"
    BY <1>2, <1>4, <1>6, <1>11, <2>1, <2>2 DEF RequestsIInv, CallsInOrder
  <2>7. failures' = 0 => \A j \in jobs' : \E d \in calls' : Acting(d) /\ d.id = j.id
    <3> SUFFICES ASSUME failures = 0, NEW j \in jobs' PROVE \E d \in calls' : Acting(d) /\ d.id = j.id
      BY <1>1
    <3>1. CASE j = job
      BY <3>1, <1>4, <1>6, <1>11, <2>1
    <3>2. CASE j \in jobs
      <4>1. PICK d \in calls : Acting(d) /\ d.id = j.id
        BY <3>2 DEF RequestsIInv, CallsInOrder
      <4>2. d # c
        BY <1>2, <3>2, <4>1
      <4> QED BY <1>11, <4>1, <4>2
    <3> QED BY <3>1, <3>2, <1>11
  <2> QED BY <2>3, <2>4, <2>5, <2>6, <2>7, Zenon DEF CallsInOrder
<1> QED BY <1>1, <1>5, <1>7, <1>8, <1>9, <1>10, <1>11 DEF RequestsIInv

\* The server reads a list, and it is shown.
LEMMA RequestsListed ==
  ASSUME RequestsIInv, NEW c \in calls, RequestsPage!ServeList(c) \/ RequestsPage!GotList(c)
  PROVE  RequestsIInv'
<1>1. IsCall(c, acts) /\ c.what = "list" /\ ~Acting(c) /\ acts \in Nat
  BY CallOf DEF RequestsPage!ServeList, RequestsPage!GotList, Acting
<1>2. CASE RequestsPage!ServeList(c)
  <2> DEFINE rows == RequestsPage!Rows(db, c.filter)
             new == [c EXCEPT !.at = "done", !.rows = rows]
  <2>1. /\ calls' = (calls \ {c}) \cup {new}
        /\ UNCHANGED <<db, filter, table, jobs, polling, timers, window, acts, opened, failures,
                       unlisted, late>>
    BY <1>2 DEF RequestsPage!ServeList
  <2>2. IsRows(rows)
    BY RowsTold DEF RequestsIInv, RequestTypes
  <2> HIDE DEF rows
  <2>3. /\ DOMAIN new = DOMAIN c /\ new.id = c.id /\ new.what = c.what /\ new.of = c.of
        /\ new.filter = c.filter /\ new.at = "done" /\ new.rows = rows
    BY <1>1 DEF IsCall
  <2> HIDE DEF new
  <2>4. IsCall(new, acts) /\ new.what = "list"
    BY <1>1, <2>2, <2>3 DEF IsCall
  <2>5. CallsInOrder'
    BY <1>1, <2>1, <2>4, CallBecomes
  <2>6. RequestTypes'
    BY <2>1 DEF RequestsIInv, RequestTypes
  <2>7. TableIsAsked' /\ RequestsPage!LoadingIsAsked'
    BY <2>1, <2>4 DEF TableIsAsked, Refreshes, RequestsPage!LoadingIsAsked
  <2>8. RequestsPage!PollingHasCall'
    BY <1>1, <2>1, DeploysAre DEF RequestsIInv, RequestsPage!PollingHasCall, Deployments
  <2> QED BY <2>5, <2>6, <2>7, <2>8 DEF RequestsIInv
<1>3. CASE RequestsPage!GotList(c)
  <2>1. /\ c.at = "done" /\ table' = c.rows /\ calls' = calls \ {c}
        /\ late' = (late \/ c.rows # RequestsPage!Rows(db, filter))
        /\ UNCHANGED <<db, filter, jobs, polling, timers, window, acts, opened, failures, unlisted>>
    BY <1>3 DEF RequestsPage!GotList
  <2>2. IsRows(table')
    BY <1>1, <2>1 DEF IsCall
  <2>3. late' \in BOOLEAN /\ (~late' => table' = RequestsPage!Rows(db, filter))
    BY <2>1, Zenon
  <2>4. CallsInOrder'
    BY <1>1, <2>1, CallGone
  <2>5. RequestTypes'
    BY <2>1, <2>2, <2>3 DEF RequestsIInv, RequestTypes
  <2>6. TableIsAsked'
    BY <2>1, <2>3 DEF TableIsAsked
  <2>7. RequestsPage!LoadingIsAsked'
    BY <2>2, RowsTold DEF RequestsPage!LoadingIsAsked
  <2>8. RequestsPage!PollingHasCall'
    BY <1>1, <2>1, DeploysAre DEF RequestsIInv, RequestsPage!PollingHasCall, Deployments
  <2> QED BY <2>4, <2>5, <2>6, <2>7, <2>8 DEF RequestsIInv
<1> QED BY <1>2, <1>3

\* A call fails or is given up.
LEMMA RequestsFails ==
  ASSUME RequestsIInv, NEW c \in calls, RequestsPage!Fails(c) PROVE RequestsIInv'
<1>1. /\ failures' = failures + 1
      /\ calls' = (calls \ {c}) \cup IF c.what = "approve" THEN {RequestsPage!List(c.id)} ELSE {}
      /\ polling' = IF c.what \in Deployments THEN "nobody" ELSE polling
      /\ window' = IF c.what = "run" /\ window = c.of THEN "nobody" ELSE window
      /\ UNCHANGED <<db, filter, jobs, timers, acts, opened, unlisted, late>>
  BY DeploysAre DEF RequestsPage!Fails, RequestsPage!GivenUp, RequestsPage!Failure, RequestsPage!Nobody
<1>2. table' = CASE c.what = "list" -> RequestsPage!Error [] c.what = "approve" -> RequestsPage!Loading
                 [] OTHER -> table
  BY DEF RequestsPage!Fails, RequestsPage!GivenUp
<1>3. IsCall(c, acts) /\ acts \in Nat /\ c.id \in 0..acts
  BY CallOf
<1>4. failures' \in Nat /\ failures' # 0
  BY <1>1 DEF RequestsIInv, RequestTypes
<1>5. table' \in {RequestsPage!Error, RequestsPage!Loading, table}
  BY <1>2
<1>6. RequestTypes'
  BY <1>1, <1>4, <1>5 DEF RequestsIInv, RequestTypes
<1>7. TableIsAsked'
  BY <1>4 DEF TableIsAsked
<1>8. RequestsPage!PollingHasCall'
  BY <1>1, DeploysAre DEF RequestsIInv, RequestsPage!PollingHasCall, RequestsPage!Nobody
<1>9. CASE c.what = "approve"
  <2> DEFINE new == RequestsPage!List(c.id)
  <2>1. calls' = (calls \ {c}) \cup {new}
    BY <1>1, <1>9
  <2>2. IsCall(new, acts) /\ new.what = "list"
    BY <1>3, NewList DEF RequestsIInv, RequestTypes
  <2> HIDE DEF new
  <2>3. CallsInOrder'
    BY <1>1, <1>4, <2>1, <2>2, CallBecomes
  <2>4. RequestsPage!LoadingIsAsked'
    BY <2>1, <2>2 DEF RequestsPage!LoadingIsAsked
  <2> QED BY <1>6, <1>7, <1>8, <2>3, <2>4 DEF RequestsIInv
<1>10. CASE c.what # "approve"
  <2>1. calls' = calls \ {c}
    BY <1>1, <1>10
  <2>2. CallsInOrder'
    BY <1>1, <1>4, <2>1, CallGone
  <2>3. RequestsPage!LoadingIsAsked'
    <3>1. CASE c.what = "list"
      BY <1>2, <3>1, RowsTold DEF RequestsPage!LoadingIsAsked
    <3>2. CASE c.what # "list"
      <4>1. UNCHANGED table
        BY <1>2, <1>10, <3>2
      <4> QED BY <2>1, <3>2, <4>1 DEF RequestsIInv, RequestsPage!LoadingIsAsked
    <3> QED BY <3>1, <3>2
  <2> QED BY <1>6, <1>7, <1>8, <2>2, <2>3 DEF RequestsIInv
<1> QED BY <1>9, <1>10

\* A window is asked for or closed, the console is emptied, a timer fires.
LEMMA RequestsRest ==
  ASSUME RequestsIInv,
         \/ \E r \in Requests : RequestsPage!View(r) \/ RequestsPage!Timer(r)
         \/ RequestsPage!Close \/ RequestsPage!ClearLogs
  PROVE  RequestsIInv'
<1>1. /\ UNCHANGED <<db, filter, table, jobs, acts, failures, unlisted, late>>
      /\ timers' \subseteq timers /\ polling' \in {polling, "nobody"} /\ window' \in {window, "nobody"}
  BY DEF RequestsPage!View, RequestsPage!Timer, RequestsPage!Close, RequestsPage!ClearLogs, RequestsPage!Nobody
<1>2. RequestTypes'
  BY <1>1 DEF RequestsIInv, RequestTypes
<1>3. PICK new : /\ calls' = calls \cup new
                 /\ \A c \in new : IsCall(c, acts) /\ ~Acting(c)
  <2>1. CASE \E r \in Requests : RequestsPage!View(r)
    <3>1. PICK r \in Requests : calls' = calls \cup {RequestsPage!Call(0, "view", r)}
      BY <2>1 DEF RequestsPage!View
    <3> DEFINE new == {RequestsPage!Call(0, "view", r)}
    <3>2. acts \in Nat /\ 0 \in 0..acts
      BY DEF RequestsIInv, RequestTypes
    <3>3. \A c \in new : IsCall(c, acts) /\ ~Acting(c)
      BY <3>2, NewCall DEF CallKinds, Acting
    <3>4. calls' = calls \cup new
      BY <3>1
    <3> HIDE DEF new
    <3> QED BY <3>3, <3>4
  <2>2. CASE UNCHANGED calls
    <3> DEFINE new == {}
    <3>1. calls' = calls \cup new /\ \A c \in new : IsCall(c, acts) /\ ~Acting(c)
      BY <2>2
    <3> HIDE DEF new
    <3> QED BY <3>1
  <2> QED BY <2>1, <2>2 DEF RequestsPage!Timer, RequestsPage!Close, RequestsPage!ClearLogs
<1>4. CallsInOrder'
  <2>1. \A c \in calls' : IsCall(c, acts') /\ (Acting(c) => c.id > 0 /\ c \in calls)
    BY <1>1, <1>3 DEF RequestsIInv, CallsInOrder
  <2>2. /\ \A j \in jobs' : IsJob(j, acts') /\ j.id > 0
        /\ \A j, k \in jobs' : j.id = k.id => j = k
        /\ \A c, d \in calls' : Acting(c) /\ Acting(d) /\ c.id = d.id => c = d
        /\ \A j \in jobs', c \in calls' : Acting(c) /\ c.id = j.id => c.what = j.what /\ c.at = "sent"
        /\ failures' = 0 => \A j \in jobs' : \E c \in calls' : Acting(c) /\ c.id = j.id
    BY <1>1, <1>3, <2>1 DEF RequestsIInv, CallsInOrder
  <2> QED BY <2>1, <2>2, Zenon DEF CallsInOrder
<1>5. TableIsAsked' /\ RequestsPage!LoadingIsAsked' /\ RequestsPage!PollingHasCall'
  BY <1>1, <1>3 DEF RequestsIInv, TableIsAsked, RequestsPage!LoadingIsAsked, RequestsPage!PollingHasCall,
                    RequestsPage!Nobody
<1> QED BY <1>2, <1>4, <1>5 DEF RequestsIInv

\* Each action of the page keeps its invariant.
LEMMA RequestsStep == ASSUME RequestsIInv, RequestsPage!Next PROVE RequestsIInv'
<1>1. CASE RequestsPage!Refresh
  <2> DEFINE new == RequestsPage!List(acts + 1)
  <2>1. /\ RequestsPage!Act /\ table' = RequestsPage!Loading /\ calls' = calls \cup {new}
        /\ UNCHANGED <<filter, jobs, polling, timers, window, unlisted>>
    BY <1>1 DEF RequestsPage!Refresh
  <2>2. IsCall(new, acts') /\ new.what = "list" /\ filter' \in RowChoices
    BY <2>1, RequestsAct, NewList DEF RequestsIInv, RequestTypes
  <2> HIDE DEF new
  <2> DEFINE news == {new}
  <2>3. /\ calls' = calls \cup news /\ news # {}
        /\ \A c \in news : IsCall(c, acts') /\ c.what = "list"
    BY <2>1, <2>2
  <2> HIDE DEF news
  <2> QED BY <2>1, <2>2, <2>3, ListsAsked
<1>2. ASSUME NEW f \in {"all", "PENDING"}, RequestsPage!SelectFilter(f) PROVE RequestsIInv'
  <2> DEFINE new == {[RequestsPage!List(acts + 1) EXCEPT !.filter = f, !.of = which] :
                         which \in {"first", "second"}}
  <2>1. /\ RequestsPage!Act /\ table' = RequestsPage!Loading /\ calls' = calls \cup new /\ filter' = f
        /\ UNCHANGED <<jobs, polling, timers, window, unlisted>>
    BY <1>2 DEF RequestsPage!SelectFilter
  <2>2. acts + 1 = acts' /\ acts' \in Nat /\ f \in RowChoices
    BY <2>1, RequestsAct DEF RowChoices, RowStatuses
  <2>3. \A c \in new : IsCall(c, acts') /\ c.what = "list"
    <3> TAKE c \in new
    <3>1. PICK which \in {"first", "second"} :
            c = [RequestsPage!List(acts + 1) EXCEPT !.filter = f, !.of = which]
      OBVIOUS
    <3>2. /\ DOMAIN c = {"id", "what", "of", "filter", "at", "rows"}
          /\ c.id = acts + 1 /\ c.what = "list" /\ c.of = which /\ c.filter = f /\ c.at = "sent"
      BY <3>1 DEF RequestsPage!List, RequestsPage!Call
    <3> QED BY <2>2, <3>2 DEF IsCall, Nowhere, CallKinds, Deployments, Scalings, Forms
  <2>4. new # {}
    OBVIOUS
  <2> HIDE DEF new
  <2> QED BY <2>1, <2>2, <2>3, <2>4, ListsAsked
<1>3. ASSUME NEW r \in Requests, NEW what \in {"approve", "retry"}, RequestsPage!Deploy(what, r)
      PROVE  RequestsIInv'
  <2>1. what \in Deployments \cup Scalings \cup Forms /\ what \in Deployments /\ what \notin Forms
    BY DEF Deployments, Forms
  <2> QED BY <1>3, <2>1, CallAsked DEF RequestsPage!Deploy, RequestsPage!Polls
<1>4. ASSUME NEW r \in Requests, NEW what \in {"reject", "scale"}, RequestsPage!Change(what, r)
      PROVE  RequestsIInv'
  <2>1. what \in Deployments \cup Scalings \cup Forms /\ what \notin Forms
    BY DEF Scalings, Forms
  <2> QED BY <1>4, <2>1, CallAsked DEF RequestsPage!Change
<1>5. ASSUME NEW what \in {"save", "saveRun"}, RequestsPage!Save(what) PROVE RequestsIInv'
  <2>1. what \in Deployments \cup Scalings \cup Forms /\ what \in Forms
    BY DEF Forms
  <2>2. window \in Requests
    BY <1>5 DEF RequestsPage!Save, RequestsPage!Nobody, RequestsIInv, RequestTypes
  <2> QED BY <1>5, <2>1, <2>2, CallAsked DEF RequestsPage!Save
<1>6. ASSUME NEW c \in calls, RequestsPage!Answer(c) \/ RequestsPage!Fails(c) PROVE RequestsIInv'
  BY <1>6, RequestsDeployed, RequestsChanged, RequestsDetail, RequestsSaved, RequestsListed, RequestsFails
     DEF RequestsPage!Answer
<1> QED BY <1>1, <1>2, <1>3, <1>4, <1>5, <1>6, RequestsServe, RequestsRest DEF RequestsPage!Next

LEMMA RequestsSame ==
  ASSUME UNCHANGED <<db, filter, table, calls, jobs, polling, timers, window,
                     acts, opened, failures, unlisted, late>>, RequestsIInv
  PROVE  RequestsIInv'
BY DEF RequestsIInv, RequestTypes, CallsInOrder, TableIsAsked, RequestsPage!LoadingIsAsked,
       RequestsPage!PollingHasCall

LEMMA RequestsShown ==
  RequestsIInv => RequestsPage!RequestsTypeOK /\ RequestsPage!SettledRequests
<1> SUFFICES ASSUME RequestsIInv PROVE RequestsPage!RequestsTypeOK /\ RequestsPage!SettledRequests
  OBVIOUS
<1>1. \A c \in calls : c.id \in 0..MaxActs
  <2> TAKE c \in calls
  <2>1. c.id \in 0..acts /\ acts \in 0..MaxActs /\ MaxActs \in Nat
    BY CallOf, PagesAssumption DEF RequestsIInv, RequestTypes, RequestsPage!RequestsAssumption
  <2> QED BY <2>1
<1>2. RequestsPage!RequestsTypeOK
  BY <1>1 DEF RequestsIInv, RequestTypes, IsRows, RequestsPage!RequestsTypeOK, RequestsPage!Statuses,
              RowStatuses, RequestsPage!Nobody
<1>3. RequestsPage!SettledRequests
  BY DEF RequestsIInv, TableIsAsked, RequestsPage!SettledRequests
<1> QED BY <1>2, <1>3

-------------------------------------------------------------------------------
(* The workloads' tabs *)

WorkStates == {"gone", "waiting", "ready"}
TabScreens == {"loading", "error", "empty", "rows"}
OpKinds == {"delete", "scale", "image", "rollback"}
Operations ==
  [at : {"none", "posted", "reloading", "timer", "polling", "ended"}, kind : OpKinds,
   tab : Tabs \cup {"none"}, since : Nat, awaited : SUBSET Nat, attempts : Nat,
   last : WorkStates \cup {"none"}, verdict : {"none", "missing", "ready", "timeout"},
   read : Nat, alone : BOOLEAN]
Posted == IF op.at = "posted" THEN 1 ELSE 0

TabsTypes ==
  /\ cluster \in Seq(WorkStates) /\ Len(cluster) >= 1
  /\ data \in [Tabs -> 0..Len(cluster)]
  /\ loaded \in [Tabs -> BOOLEAN] /\ failed \in [Tabs -> BOOLEAN]
  /\ screen \in [Tabs -> TabScreens] /\ active \in Tabs /\ newest \subseteq Tabs
  /\ token \in Nat
  /\ budget \in [clicks : 0..MaxClicks, failures : Nat] /\ op \in Operations

\* A batch under way: what it was asked for, since when, and the answers it has; a silent one
\* is for one tab.
IsBatch(b, n) ==
  /\ DOMAIN b = {"tabs", "silent", "since", "got"}
  /\ b.tabs \subseteq Tabs /\ b.since \in 1..n
  /\ b.silent \in BOOLEAN /\ (b.silent => \E t \in Tabs : b.tabs = {t})
  /\ DOMAIN b.got \subseteq b.tabs
  /\ \A t \in DOMAIN b.got : b.got[t] = -1 \/ b.got[t] \in b.since..n

\* The batch with the newest token was asked for since the lists it is to replace.
BatchesInOrder ==
  /\ \A k \in DOMAIN batches :
       k \in 1..token /\ IsBatch(batches[k], Len(cluster)) /\ DOMAIN batches[k].got # batches[k].tabs
  /\ token \in DOMAIN batches =>
       batches[token].tabs = newest /\ \A t \in newest : data[t] <= batches[token].since

\* Each operation has spent a click, and may add one state to what the cluster said.
ClicksSpent ==
  /\ Len(cluster) + Posted <= MaxChanges + (MaxClicks - budget.clicks)
  /\ op.at = "posted" => budget.clicks < MaxClicks

\* The reload a poll waits for, or the list that reload has left.
PollIsOwn ==
  \/ /\ op.awaited = {token} /\ token \in DOMAIN batches
     /\ batches[token].silent /\ batches[token].tabs = {op.tab}
     /\ batches[token].since >= op.since /\ DOMAIN batches[token].got = {}
  \/ /\ op.awaited = {} /\ token \notin DOMAIN batches
     /\ data[op.tab] >= op.since

\* While nobody else reloads and nothing fails, a poll is of the newest token, and asked for
\* after the cluster has taken the change.
OperationInOrder ==
  /\ op.at # "none" => op.tab \in Tabs
  /\ op.at # "none" => op.since <= Len(cluster)
  /\ op.at = "polling" /\ op.alone => PollIsOwn
  /\ op.verdict = "ready" => op.at = "ended" /\ (op.alone => op.read >= op.since)

WaitingIInv ==
  TabsTypes /\ BatchesInOrder /\ ClicksSpent /\ OperationInOrder /\ WorkloadTabs!LatestIsShown

LEMMA TabsConstants ==
  /\ Tabs # {} /\ "none" \notin Tabs /\ MaxClicks \in Nat /\ MaxFailures \in Nat
  /\ MaxChanges \in Nat \ {0} /\ MaxAttempts \in Nat \ {0}
BY PagesAssumption DEF WorkloadTabs!WorkloadTabsAssumption, WorkloadTabs!AllTabs

LEMMA TabsInit == WorkloadTabs!Init => WaitingIInv
<1> SUFFICES ASSUME WorkloadTabs!Init PROVE WaitingIInv
  OBVIOUS
<1> DEFINE b == [tabs |-> Tabs, silent |-> FALSE, since |-> 1, got |-> <<>>]
<1>1. /\ data = [t \in Tabs |-> 0] /\ loaded = [t \in Tabs |-> FALSE]
      /\ failed = [t \in Tabs |-> FALSE] /\ screen = [t \in Tabs |-> "loading"]
      /\ active \in Tabs /\ token = 1 /\ newest = Tabs /\ batches = [k \in {1} |-> b]
      /\ budget = [clicks |-> MaxClicks, failures |-> MaxFailures]
  BY DEF WorkloadTabs!Init, WorkloadTabs!Nothing
<1>2. cluster \in Seq(WorkStates) /\ Len(cluster) = 1
  <2>1. PICK s \in WorkStates : cluster = <<s>>
    BY DEF WorkloadTabs!Init, WorkloadTabs!States, WorkStates
  <2> QED BY <2>1
<1>3. /\ op \in Operations /\ op.at = "none" /\ op.verdict = "none"
  BY DEF WorkloadTabs!Init, WorkloadTabs!Quiet, Operations, OpKinds
<1>4. /\ DOMAIN b = {"tabs", "silent", "since", "got"} /\ b.tabs = Tabs /\ b.since = 1
      /\ b.silent = FALSE /\ DOMAIN b.got = {}
  OBVIOUS
<1> HIDE DEF b
<1>5. b.silent \in BOOLEAN /\ ~b.silent
  BY <1>4, Zenon
<1>6. IsBatch(b, 1) /\ DOMAIN b.got # b.tabs
  BY <1>4, <1>5, TabsConstants DEF IsBatch
<1>7. loaded \in [Tabs -> BOOLEAN] /\ failed \in [Tabs -> BOOLEAN]
  BY <1>1, Zenon
<1>8. TabsTypes
  BY <1>1, <1>2, <1>3, <1>7, TabsConstants DEF TabsTypes, TabScreens
<1>9. DOMAIN batches = {1} /\ batches[1] = b
  BY <1>1
<1>10. BatchesInOrder
  BY <1>1, <1>2, <1>4, <1>6, <1>9 DEF BatchesInOrder
<1>11. ClicksSpent /\ OperationInOrder
  BY <1>1, <1>2, <1>3, TabsConstants DEF ClicksSpent, OperationInOrder, Posted
<1>12. WorkloadTabs!LatestIsShown
  BY <1>1, <1>9 DEF WorkloadTabs!LatestIsShown
<1> QED BY <1>8, <1>10, <1>11, <1>12 DEF WaitingIInv

\* A batch stays one while the cluster moves on.
LEMMA BatchStays ==
  ASSUME NEW n \in Nat, NEW m \in Nat, n <= m, NEW b, IsBatch(b, n)
  PROVE  IsBatch(b, m)
<1>1. \A i \in 1..n : i \in 1..m
  OBVIOUS
<1>2. b.since \in 1..n
  BY DEF IsBatch
<1>3. \A i \in b.since..n : i \in b.since..m
  BY <1>2
<1> QED BY <1>1, <1>2, <1>3 DEF IsBatch

\* A tab shows its error, its rows, or that there are none.
LEMMA Rendered ==
  ASSUME NEW d, NEW f, NEW t \in Tabs
  PROVE  /\ WorkloadTabs!Render(d, f) \in [Tabs -> TabScreens]
         /\ WorkloadTabs!Render(d, f)[t] # "loading"
BY DEF WorkloadTabs!Render, TabScreens

LEMMA RenderedNext ==
  ASSUME screen' = WorkloadTabs!Render(data', failed')
  PROVE  screen' \in [Tabs -> TabScreens] /\ \A t \in Tabs : screen'[t] # "loading"
BY DEF WorkloadTabs!Render, TabScreens

\* The newest token's batch is there and new; the others are new or as they were.
Issues(n) ==
  /\ token' \in Nat /\ token < token' /\ token' \in DOMAIN batches' /\ newest' \subseteq Tabs
  /\ batches'[token'].tabs = newest'
  /\ \A k \in DOMAIN batches' :
       \/ k \in DOMAIN batches /\ batches'[k] = batches[k]
       \/ /\ k \in 1..token' /\ IsBatch(batches'[k], n) /\ batches'[k].since = n
          /\ batches'[k].tabs # {} /\ DOMAIN batches'[k].got = {}

LEMMA BatchesIssued ==
  ASSUME WaitingIInv, NEW n \in Nat, Issues(n), n = Len(cluster'), Len(cluster) <= n,
         data' \in [Tabs -> 0..n]
  PROVE  BatchesInOrder' /\ WorkloadTabs!LatestIsShown'
<1>1. Len(cluster) \in Nat /\ token \in Nat
  BY DEF WaitingIInv, TabsTypes
<1>2. \A k \in DOMAIN batches' :
        k \in 1..token' /\ IsBatch(batches'[k], n) /\ DOMAIN batches'[k].got # batches'[k].tabs
  <2> TAKE k \in DOMAIN batches'
  <2>1. CASE k \in DOMAIN batches /\ batches'[k] = batches[k]
    <3>1. k \in 1..token /\ IsBatch(batches[k], Len(cluster)) /\ DOMAIN batches[k].got # batches[k].tabs
      BY <2>1 DEF WaitingIInv, BatchesInOrder
    <3>2. IsBatch(batches[k], n)
      BY <1>1, <3>1, BatchStays
    <3>3. k \in 1..token'
      BY <1>1, <3>1 DEF Issues
    <3> QED BY <2>1, <3>1, <3>2, <3>3
  <2>2. CASE /\ k \in 1..token' /\ IsBatch(batches'[k], n) /\ batches'[k].since = n
             /\ batches'[k].tabs # {} /\ DOMAIN batches'[k].got = {}
    BY <2>2
  <2> QED BY <2>1, <2>2 DEF Issues
<1>3. token' \in DOMAIN batches' /\ batches'[token'].tabs = newest' /\ newest' \subseteq Tabs
      /\ token' \notin 1..token
  BY <1>1 DEF Issues
<1>4. token' \notin DOMAIN batches
  BY <1>3 DEF WaitingIInv, BatchesInOrder
<1>5. batches'[token'].since = n
  BY <1>3, <1>4 DEF Issues
<1>6. \A t \in newest' : data'[t] <= batches'[token'].since
  BY <1>3, <1>5
<1> QED BY <1>2, <1>3, <1>6 DEF BatchesInOrder, WorkloadTabs!LatestIsShown

\* One call of loadTabsData, or of a silent reload.
LEMMA OneIssued ==
  ASSUME WaitingIInv, NEW ts \in SUBSET Tabs, ts # {}, NEW silent \in BOOLEAN,
         silent => \E t \in Tabs : ts = {t},
         WorkloadTabs!Issue(<<WorkloadTabs!Batch(ts, silent)>>)
  PROVE  /\ Issues(Len(cluster)) /\ token' = token + 1
         /\ batches'[token'] = WorkloadTabs!Batch(ts, silent)
         /\ IsBatch(WorkloadTabs!Batch(ts, silent), Len(cluster))
<1> DEFINE b == WorkloadTabs!Batch(ts, silent)
<1>1. Len(cluster) \in Nat /\ Len(cluster) >= 1 /\ token \in Nat
  BY DEF WaitingIInv, TabsTypes
<1>2. /\ DOMAIN b = {"tabs", "silent", "since", "got"} /\ b.tabs = ts /\ b.since = Len(cluster)
      /\ b.silent = silent /\ DOMAIN b.got = {}
  BY DEF WorkloadTabs!Batch, WorkloadTabs!Latest
<1>3. WorkloadTabs!Issue(<<b>>)
  OBVIOUS
<1> HIDE DEF b
<1>4. IsBatch(b, Len(cluster))
  BY <1>1, <1>2 DEF IsBatch
<1>5. /\ token' = token + 1 /\ newest' = b.tabs
      /\ batches' = [k \in DOMAIN batches \cup (token + 1 .. token + 1) |->
                       IF k > token THEN <<b>>[k - token] ELSE batches[k]]
  BY <1>1, <1>3 DEF WorkloadTabs!Issue
<1>6. /\ DOMAIN batches' = DOMAIN batches \cup {token + 1} /\ batches'[token + 1] = b
      /\ \A k \in DOMAIN batches : k <= token /\ batches'[k] = batches[k]
  <2>1. \A k \in DOMAIN batches : k \in 1..token
    BY DEF WaitingIInv, BatchesInOrder
  <2>2. token + 1 .. token + 1 = {token + 1} /\ <<b>>[(token + 1) - token] = b
    BY <1>1
  <2> QED BY <1>1, <1>5, <2>1, <2>2
<1>7. Issues(Len(cluster))
  BY <1>1, <1>2, <1>4, <1>5, <1>6 DEF Issues
<1> QED BY <1>4, <1>5, <1>6, <1>7 DEF b

\* Of silent reloads: one for each tab named, asked for now.
LEMMA SilentBatches ==
  ASSUME NEW ts \in Seq(Tabs)
  PROVE  /\ Len(WorkloadTabs!Silent(ts)) = Len(ts)
         /\ WorkloadTabs!Silent(ts) # <<>> => Len(ts) >= 1
         /\ \A i \in 1..Len(ts) :
              WorkloadTabs!Silent(ts)[i] = WorkloadTabs!Batch({ts[i]}, TRUE)
<1> DEFINE S == {WorkloadTabs!Batch({t}, TRUE) : t \in Tabs}
           made == [i \in 1..Len(ts) |-> WorkloadTabs!Batch({ts[i]}, TRUE)]
<1>1. Len(ts) \in Nat /\ \A i \in 1..Len(ts) : ts[i] \in Tabs
  OBVIOUS
<1>2. \A i \in 1..Len(ts) : made[i] = WorkloadTabs!Batch({ts[i]}, TRUE) /\ made[i] \in S
  BY <1>1
<1>3. DOMAIN made = 1..Len(ts) /\ made = [i \in 1..Len(ts) |-> made[i]]
  OBVIOUS
<1>4. WorkloadTabs!Silent(ts) = made
  BY DEF WorkloadTabs!Silent
<1> HIDE DEF made, S
<1>5. made \in [1..Len(ts) -> S]
  BY <1>2, <1>3
<1>6. made \in Seq(S)
  BY <1>1, <1>5, SeqDef
<1>7. Len(made) \in Nat /\ DOMAIN made = 1..Len(made)
  BY <1>6, LenProperties
<1>8. Len(made) = Len(ts)
  BY <1>1, <1>3, <1>7
<1>9. made # <<>> => Len(ts) >= 1
  BY <1>6, <1>8, EmptySeq
<1> QED BY <1>2, <1>4, <1>8, <1>9

\* The fields of one call.
LEMMA BatchFields ==
  ASSUME NEW ts, NEW silent
  PROVE  LET b == WorkloadTabs!Batch(ts, silent)
         IN  /\ DOMAIN b = {"tabs", "silent", "since", "got"} /\ b.tabs = ts
             /\ b.since = Len(cluster) /\ b.silent = silent /\ b.got = <<>>
             /\ DOMAIN b.got = {}
BY DEF WorkloadTabs!Batch, WorkloadTabs!Latest

\* One that was asked for at a later moment.
LEMMA SilentIsBatch ==
  ASSUME NEW t \in Tabs, NEW n \in Nat, n >= 1, NEW b,
         DOMAIN b = {"tabs", "silent", "since", "got"}, b.tabs = {t}, b.silent = TRUE,
         b.since = n, DOMAIN b.got = {}
  PROVE  IsBatch(b, n) /\ b.tabs # {} /\ b.silent
<1>1. b.silent \in BOOLEAN /\ b.silent
  BY Zenon
<1> QED BY <1>1 DEF IsBatch

\* What a step of the operation alone leaves as it was.
LEMMA OperationStep ==
  ASSUME WaitingIInv,
         UNCHANGED <<cluster, data, loaded, failed, screen, active, token, batches, newest>>,
         budget' \in [clicks : 0..MaxClicks, failures : Nat], op' \in Operations,
         ClicksSpent', OperationInOrder'
  PROVE  WaitingIInv' /\ WorkloadTabs!NeverOlder
<1>1. TabsTypes'
  BY DEF WaitingIInv, TabsTypes
<1>2. BatchesInOrder'
  BY DEF WaitingIInv, BatchesInOrder, IsBatch
<1>3. WorkloadTabs!LatestIsShown'
  BY DEF WaitingIInv, WorkloadTabs!LatestIsShown
<1>4. WorkloadTabs!NeverOlder
  BY DEF WaitingIInv, TabsTypes, WorkloadTabs!NeverOlder
<1> QED BY <1>1, <1>2, <1>3, <1>4 DEF WaitingIInv

LEMMA QuietFields ==
  LET q == WorkloadTabs!Quiet
  IN  q \in Operations /\ q.at = "none" /\ q.verdict = "none"
BY DEF WorkloadTabs!Quiet, Operations, OpKinds

\* Once the operation is over, nothing is left of it.
LEMMA OperationOver ==
  ASSUME WaitingIInv, op' = WorkloadTabs!Quiet, UNCHANGED cluster,
         budget' \in [clicks : 0..MaxClicks, failures : Nat], budget'.clicks = budget.clicks
  PROVE  op' \in Operations /\ ClicksSpent' /\ OperationInOrder'
<1>1. op' \in Operations /\ op'.at = "none" /\ op'.verdict = "none"
  BY QuietFields
<1>2. Len(cluster) \in Nat /\ budget.clicks \in 0..MaxClicks /\ MaxClicks \in Nat /\ MaxChanges \in Nat
  BY TabsConstants DEF WaitingIInv, TabsTypes
<1>3. ClicksSpent'
  BY <1>1, <1>2 DEF WaitingIInv, ClicksSpent, Posted
<1> QED BY <1>1, <1>3 DEF OperationInOrder

LEMMA StepRefused ==
  ASSUME WaitingIInv, WorkloadTabs!Refused PROVE WaitingIInv' /\ WorkloadTabs!NeverOlder
<1>1. /\ op' = WorkloadTabs!Quiet
      /\ UNCHANGED <<cluster, data, loaded, failed, screen, active, token, batches, newest>>
      /\ budget' = budget \/ (budget.failures > 0 /\ budget' = [budget EXCEPT !.failures = @ - 1])
  BY DEF WorkloadTabs!Refused, WorkloadTabs!tabs, WorkloadTabs!requests
<1>2. budget' \in [clicks : 0..MaxClicks, failures : Nat] /\ budget'.clicks = budget.clicks
  BY <1>1 DEF WaitingIInv, TabsTypes
<1>3. op' \in Operations /\ ClicksSpent' /\ OperationInOrder'
  BY <1>1, <1>2, OperationOver
<1> QED BY <1>1, <1>2, <1>3, OperationStep

LEMMA StepOver ==
  ASSUME WaitingIInv, WorkloadTabs!Deleted \/ WorkloadTabs!Forget
  PROVE  WaitingIInv' /\ WorkloadTabs!NeverOlder
<1>1. /\ op' = WorkloadTabs!Quiet
      /\ UNCHANGED <<cluster, data, loaded, failed, screen, active, token, batches, newest, budget>>
  BY DEF WorkloadTabs!Deleted, WorkloadTabs!Forget, WorkloadTabs!tabs, WorkloadTabs!requests
<1>2. budget' \in [clicks : 0..MaxClicks, failures : Nat] /\ budget'.clicks = budget.clicks
  BY <1>1 DEF WaitingIInv, TabsTypes
<1>3. op' \in Operations /\ ClicksSpent' /\ OperationInOrder'
  BY <1>1, <1>2, OperationOver
<1> QED BY <1>1, <1>2, <1>3, OperationStep

LEMMA StepStart ==
  ASSUME WaitingIInv, NEW kind \in OpKinds, NEW t \in Tabs, WorkloadTabs!Start(kind, t)
  PROVE  WaitingIInv' /\ WorkloadTabs!NeverOlder
<1>1. /\ UNCHANGED <<cluster, data, loaded, failed, screen, active, token, batches, newest>>
      /\ op.at = "none" /\ budget.clicks > 0
      /\ budget' = [budget EXCEPT !.clicks = @ - 1]
      /\ op' = [WorkloadTabs!Quiet EXCEPT !.at = "posted", !.kind = kind, !.tab = t]
  BY DEF WorkloadTabs!Start, WorkloadTabs!Click, WorkloadTabs!tabs, WorkloadTabs!requests
<1>2. budget \in [clicks : 0..MaxClicks, failures : Nat] /\ MaxClicks \in Nat /\ MaxChanges \in Nat
  BY TabsConstants DEF WaitingIInv, TabsTypes
<1>3. /\ budget' \in [clicks : 0..MaxClicks, failures : Nat]
      /\ budget'.clicks = budget.clicks - 1 /\ budget.clicks \in 0..MaxClicks
  BY <1>1, <1>2
<1>4. /\ op' \in Operations /\ op'.at = "posted" /\ op'.verdict = "none" /\ op'.tab = t
      /\ op'.since = 0
  BY <1>1 DEF WorkloadTabs!Quiet, Operations, OpKinds
<1>5. Len(cluster) \in Nat
  BY DEF WaitingIInv, TabsTypes
<1>6. ClicksSpent'
  BY <1>1, <1>2, <1>3, <1>4, <1>5 DEF WaitingIInv, ClicksSpent, Posted
<1>7. OperationInOrder'
  BY <1>1, <1>4, <1>5 DEF OperationInOrder
<1> QED BY <1>1, <1>3, <1>4, <1>6, <1>7, OperationStep

LEMMA StepChanges ==
  ASSUME WaitingIInv, WorkloadTabs!Changes PROVE WaitingIInv' /\ WorkloadTabs!NeverOlder
<1>1. /\ UNCHANGED <<data, loaded, failed, screen, active, token, batches, newest, op, budget>>
      /\ Len(cluster) < MaxChanges
  BY DEF WorkloadTabs!Changes, WorkloadTabs!tabs, WorkloadTabs!requests, WorkloadTabs!Latest
<1>2. cluster \in Seq(WorkStates) /\ Len(cluster) \in Nat /\ Len(cluster) >= 1
  BY DEF WaitingIInv, TabsTypes
<1>3. cluster' \in Seq(WorkStates) /\ Len(cluster') = Len(cluster) + 1
  <2>1. PICK s \in WorkStates : cluster' = Append(cluster, s)
    BY DEF WorkloadTabs!Changes, WorkloadTabs!States, WorkStates
  <2> QED BY <1>2, <2>1
<1>4. data' \in [Tabs -> 0..Len(cluster')]
  <2>1. data \in [Tabs -> 0..Len(cluster)]
    BY DEF WaitingIInv, TabsTypes
  <2>2. \A i \in 0..Len(cluster) : i \in 0..Len(cluster')
    BY <1>2, <1>3
  <2> QED BY <1>1, <2>1, <2>2
<1>5. TabsTypes'
  <2>1. /\ loaded \in [Tabs -> BOOLEAN] /\ failed \in [Tabs -> BOOLEAN]
        /\ screen \in [Tabs -> TabScreens] /\ active \in Tabs /\ newest \subseteq Tabs
        /\ token \in Nat
        /\ budget \in [clicks : 0..MaxClicks, failures : Nat] /\ op \in Operations
    BY DEF WaitingIInv, TabsTypes
  <2> QED BY <1>1, <1>2, <1>3, <1>4, <2>1 DEF TabsTypes
<1>6. BatchesInOrder'
  <2>1. \A k \in DOMAIN batches : IsBatch(batches[k], Len(cluster'))
    BY <1>2, <1>3, BatchStays DEF WaitingIInv, BatchesInOrder
  <2>2. \A k \in DOMAIN batches : k \in 1..token /\ DOMAIN batches[k].got # batches[k].tabs
    BY DEF WaitingIInv, BatchesInOrder
  <2>3. token \in DOMAIN batches =>
          batches[token].tabs = newest /\ \A t \in newest : data[t] <= batches[token].since
    BY DEF WaitingIInv, BatchesInOrder
  <2> QED BY <1>1, <2>1, <2>2, <2>3 DEF BatchesInOrder
<1>7. ClicksSpent'
  <2>1. budget.clicks \in 0..MaxClicks /\ MaxClicks \in Nat /\ MaxChanges \in Nat
    BY TabsConstants DEF WaitingIInv, TabsTypes
  <2> QED BY <1>1, <1>2, <1>3, <2>1 DEF WaitingIInv, ClicksSpent, Posted
<1>8. OperationInOrder'
  <2>1. op.since \in Nat
    BY DEF WaitingIInv, TabsTypes, Operations
  <2> QED BY <1>1, <1>2, <1>3, <2>1 DEF WaitingIInv, OperationInOrder, PollIsOwn
<1>9. WorkloadTabs!LatestIsShown'
  BY <1>1 DEF WaitingIInv, WorkloadTabs!LatestIsShown
<1>10. WorkloadTabs!NeverOlder
  BY <1>1 DEF WaitingIInv, TabsTypes, WorkloadTabs!NeverOlder
<1> QED BY <1>5, <1>6, <1>7, <1>8, <1>9, <1>10 DEF WaitingIInv

\* Whoever reloads meanwhile takes the wait its own.
LEMMA Disturbed ==
  ASSUME WaitingIInv, WorkloadTabs!Disturb, UNCHANGED cluster
  PROVE  op' \in Operations /\ OperationInOrder' /\ Posted' = Posted /\ op'.at = op.at
<1> DEFINE no == FALSE
<1>1. no \in BOOLEAN /\ ~no
  BY Zenon
<1>2. op' = [op EXCEPT !.alone = no] /\ op \in Operations
  BY DEF WorkloadTabs!Disturb, WaitingIInv, TabsTypes
<1> HIDE DEF no
<1>3. op' \in Operations
  BY <1>1, <1>2 DEF Operations
<1>4. /\ op'.at = op.at /\ op'.tab = op.tab /\ op'.since = op.since /\ op'.verdict = op.verdict
      /\ op'.alone = no
  BY <1>2 DEF Operations
<1>5. ~op'.alone
  BY <1>1, <1>4, Zenon
<1>6. OperationInOrder'
  BY <1>4, <1>5 DEF WaitingIInv, OperationInOrder
<1> QED BY <1>3, <1>4, <1>6 DEF Posted

\* A click less, and the operation no further.
LEMMA ClickSpent ==
  ASSUME WaitingIInv, WorkloadTabs!Click, UNCHANGED cluster, op'.at = op.at
  PROVE  budget' \in [clicks : 0..MaxClicks, failures : Nat] /\ ClicksSpent'
<1>1. budget \in [clicks : 0..MaxClicks, failures : Nat] /\ MaxClicks \in Nat /\ MaxChanges \in Nat
  BY TabsConstants DEF WaitingIInv, TabsTypes
<1>2. budget.clicks > 0 /\ budget' = [budget EXCEPT !.clicks = @ - 1]
  BY DEF WorkloadTabs!Click
<1>3. /\ budget' \in [clicks : 0..MaxClicks, failures : Nat]
      /\ budget'.clicks = budget.clicks - 1 /\ budget.clicks \in 0..MaxClicks
  BY <1>1, <1>2
<1>4. Len(cluster) \in Nat
  BY DEF WaitingIInv, TabsTypes
<1> QED BY <1>1, <1>3, <1>4 DEF WaitingIInv, ClicksSpent, Posted

LEMMA StepReloadTab ==
  ASSUME WaitingIInv, NEW t \in Tabs, WorkloadTabs!ReloadTab(t)
  PROVE  WaitingIInv' /\ WorkloadTabs!NeverOlder
<1> DEFINE ts == {t}  no == FALSE
<1>1. no \in BOOLEAN /\ ts \in SUBSET Tabs /\ ts # {} /\ (no => \E x \in Tabs : ts = {x})
  BY Zenon
<1>2. WorkloadTabs!Issue(<<WorkloadTabs!Batch(ts, no)>>)
  BY DEF WorkloadTabs!ReloadTab
<1>3. /\ active' \in {active, t} /\ loaded' = [loaded EXCEPT ![t] = no]
      /\ screen' = [screen EXCEPT ![t] = "loading"] /\ WorkloadTabs!Disturb
      /\ WorkloadTabs!Click /\ UNCHANGED <<cluster, data, failed>>
  BY DEF WorkloadTabs!ReloadTab
<1> HIDE DEF ts, no
<1>4. Issues(Len(cluster))
  BY <1>1, <1>2, OneIssued
<1>5. Len(cluster) \in Nat /\ data \in [Tabs -> 0..Len(cluster)]
  BY DEF WaitingIInv, TabsTypes
<1>6. BatchesInOrder' /\ WorkloadTabs!LatestIsShown'
  BY <1>3, <1>4, <1>5, BatchesIssued
<1>7. op' \in Operations /\ OperationInOrder' /\ op'.at = op.at
  BY <1>3, Disturbed
<1>8. budget' \in [clicks : 0..MaxClicks, failures : Nat] /\ ClicksSpent'
  BY <1>3, <1>7, ClickSpent
<1>9. TabsTypes'
  <2>1. /\ cluster \in Seq(WorkStates) /\ Len(cluster) >= 1
        /\ loaded \in [Tabs -> BOOLEAN] /\ failed \in [Tabs -> BOOLEAN]
        /\ screen \in [Tabs -> TabScreens] /\ active \in Tabs
    BY DEF WaitingIInv, TabsTypes
  <2>2. loaded' \in [Tabs -> BOOLEAN]
    BY <1>1, <1>3, <2>1
  <2>3. screen' \in [Tabs -> TabScreens]
    BY <1>3, <2>1 DEF TabScreens
  <2>4. token' \in Nat /\ newest' \subseteq Tabs
    BY <1>4 DEF Issues
  <2> QED BY <1>3, <1>5, <1>7, <1>8, <2>1, <2>2, <2>3, <2>4 DEF TabsTypes
<1>10. WorkloadTabs!NeverOlder
  BY <1>3, <1>5 DEF WorkloadTabs!NeverOlder
<1> QED BY <1>6, <1>7, <1>8, <1>9, <1>10 DEF WaitingIInv

LEMMA StepReloadAll ==
  ASSUME WaitingIInv, WorkloadTabs!ReloadAll
  PROVE  WaitingIInv' /\ WorkloadTabs!NeverOlder
<1> DEFINE ts == Tabs  no == FALSE
<1>1. no \in BOOLEAN /\ ts \in SUBSET Tabs /\ ts # {} /\ (no => \E x \in Tabs : ts = {x})
  BY TabsConstants, Zenon
<1>2. WorkloadTabs!Issue(<<WorkloadTabs!Batch(ts, no)>>)
  BY DEF WorkloadTabs!ReloadAll
<1>3. /\ data' = [t \in Tabs |-> 0] /\ loaded' = [t \in Tabs |-> no]
      /\ failed' = [t \in Tabs |-> no] /\ screen' = [t \in Tabs |-> "loading"]
      /\ WorkloadTabs!Disturb /\ WorkloadTabs!Click /\ UNCHANGED <<cluster, active>>
  BY DEF WorkloadTabs!ReloadAll, WorkloadTabs!Nothing
<1> HIDE DEF ts, no
<1>4. Issues(Len(cluster))
  BY <1>1, <1>2, OneIssued
<1>5. Len(cluster) \in Nat /\ data' \in [Tabs -> 0..Len(cluster)]
  BY <1>3 DEF WaitingIInv, TabsTypes
<1>6. BatchesInOrder' /\ WorkloadTabs!LatestIsShown'
  BY <1>3, <1>4, <1>5, BatchesIssued
<1>7. op' \in Operations /\ OperationInOrder' /\ op'.at = op.at
  BY <1>3, Disturbed
<1>8. budget' \in [clicks : 0..MaxClicks, failures : Nat] /\ ClicksSpent'
  BY <1>3, <1>7, ClickSpent
<1>9. TabsTypes'
  <2>1. cluster \in Seq(WorkStates) /\ Len(cluster) >= 1 /\ active \in Tabs
    BY DEF WaitingIInv, TabsTypes
  <2>2. loaded' \in [Tabs -> BOOLEAN] /\ failed' \in [Tabs -> BOOLEAN]
    BY <1>1, <1>3
  <2>3. screen' \in [Tabs -> TabScreens]
    BY <1>3 DEF TabScreens
  <2>4. token' \in Nat /\ newest' \subseteq Tabs
    BY <1>4 DEF Issues
  <2> QED BY <1>3, <1>5, <1>7, <1>8, <2>1, <2>2, <2>3, <2>4 DEF TabsTypes
<1>10. WorkloadTabs!NeverOlder
  BY <1>3 DEF WorkloadTabs!NeverOlder, WorkloadTabs!Nothing
<1> QED BY <1>6, <1>7, <1>8, <1>9, <1>10 DEF WaitingIInv

LEMMA StepFilters ==
  ASSUME WaitingIInv, WorkloadTabs!ApplyFilters
  PROVE  WaitingIInv' /\ WorkloadTabs!NeverOlder
<1>1. /\ UNCHANGED <<cluster, data, loaded, failed, active, token, batches, newest, op>>
      /\ screen' = WorkloadTabs!Render(data, failed) /\ WorkloadTabs!Click
  BY DEF WorkloadTabs!ApplyFilters, WorkloadTabs!requests
<1>2. screen' \in [Tabs -> TabScreens]
  <2>1. PICK t \in Tabs : TRUE
    BY TabsConstants
  <2> QED BY <1>1, <2>1, Rendered
<1>3. \A t \in Tabs : screen'[t] # "loading"
  BY <1>1, Rendered
<1>4. budget' \in [clicks : 0..MaxClicks, failures : Nat] /\ ClicksSpent'
  BY <1>1, ClickSpent
<1>5. TabsTypes'
  BY <1>1, <1>2, <1>4 DEF WaitingIInv, TabsTypes
<1>6. BatchesInOrder'
  BY <1>1 DEF WaitingIInv, BatchesInOrder, IsBatch
<1>7. OperationInOrder'
  BY <1>1 DEF WaitingIInv, OperationInOrder, PollIsOwn
<1>8. WorkloadTabs!LatestIsShown'
  BY <1>3, <1>5 DEF WorkloadTabs!LatestIsShown, TabsTypes
<1>9. WorkloadTabs!NeverOlder
  BY <1>1 DEF WaitingIInv, TabsTypes, WorkloadTabs!NeverOlder
<1> QED BY <1>4, <1>5, <1>6, <1>7, <1>8, <1>9 DEF WaitingIInv

LEMMA StepPoll ==
  ASSUME WaitingIInv, WorkloadTabs!Poll PROVE WaitingIInv' /\ WorkloadTabs!NeverOlder
<1> DEFINE tab == op.tab  ts == {tab}  yes == TRUE
           made == WorkloadTabs!Silent(<<tab>>)  b == WorkloadTabs!Batch(ts, yes)
           asked == token + 1 .. token + Len(made)
<1>1. op \in Operations /\ op.at \in {"reloading", "timer"} /\ op.verdict # "ready"
  BY DEF WorkloadTabs!Poll, WaitingIInv, TabsTypes, OperationInOrder
<1>2. tab \in Tabs /\ op.since <= Len(cluster) /\ op.since \in Nat
  BY <1>1 DEF WaitingIInv, OperationInOrder, Operations
<1>3. yes \in BOOLEAN /\ yes /\ ts \in SUBSET Tabs /\ ts # {} /\ \E x \in Tabs : ts = {x}
  BY <1>2, Zenon
<1>4. Len(cluster) \in Nat /\ token \in Nat /\ data \in [Tabs -> 0..Len(cluster)]
  BY DEF WaitingIInv, TabsTypes
<1>5. made = <<b>>
  <2>1. Len(<<tab>>) = 1 /\ <<tab>>[1] = tab /\ 1..1 = {1}
    OBVIOUS
  <2>2. made = [i \in {1} |-> WorkloadTabs!Batch({<<tab>>[i]}, TRUE)]
    BY <2>1 DEF WorkloadTabs!Silent
  <2>3. \A i \in {1} : WorkloadTabs!Batch({<<tab>>[i]}, TRUE) = b
    BY <2>1
  <2> HIDE DEF b, made
  <2>4. made = [i \in {1} |-> b]
    BY <2>2, <2>3
  <2> QED BY <2>4
<1>6. asked = {token + 1}
  <2> HIDE DEF b, made
  <2>1. Len(made) = 1
    BY <1>5
  <2> QED BY <1>4, <2>1
<1>7. /\ WorkloadTabs!Issue(<<b>>)
      /\ op' = [op EXCEPT !.at = "polling", !.awaited = asked, !.alone = yes]
      /\ UNCHANGED <<cluster, data, loaded, failed, screen, active, budget>>
  BY <1>5 DEF WorkloadTabs!Poll, WorkloadTabs!TokensOf, WorkloadTabs!tabs
<1> HIDE DEF made, asked, ts, yes, tab
<1>8. Issues(Len(cluster)) /\ token' = token + 1 /\ batches'[token'] = b
  BY <1>3, <1>7, OneIssued
<1>9. /\ op' \in Operations /\ op'.at = "polling" /\ op'.awaited = {token'}
      /\ op'.tab = tab /\ op'.since = op.since /\ op'.verdict = op.verdict
  <2>1. asked \in SUBSET Nat /\ asked = {token'}
    BY <1>4, <1>6, <1>8
  <2>2. op' \in Operations
    BY <1>1, <1>3, <1>7, <2>1 DEF Operations
  <2> QED BY <1>1, <1>7, <2>1, <2>2 DEF Operations, tab
<1>10. BatchesInOrder' /\ WorkloadTabs!LatestIsShown'
  BY <1>4, <1>7, <1>8, BatchesIssued
<1>11. b.tabs = ts /\ b.silent = yes /\ b.since = Len(cluster) /\ DOMAIN b.got = {}
  BY BatchFields
<1>12. batches'[token'].silent
  BY <1>3, <1>8, <1>11, Zenon
<1> HIDE DEF b
<1>13. PollIsOwn'
  BY <1>2, <1>8, <1>9, <1>11, <1>12 DEF PollIsOwn, Issues, ts
<1>14. OperationInOrder'
  BY <1>1, <1>2, <1>7, <1>9, <1>13 DEF OperationInOrder
<1>15. ClicksSpent'
  BY <1>1, <1>7, <1>9 DEF WaitingIInv, ClicksSpent, Posted
<1>16. TabsTypes'
  BY <1>7, <1>8, <1>9 DEF WaitingIInv, TabsTypes, Issues
<1>17. WorkloadTabs!NeverOlder
  BY <1>4, <1>7 DEF WorkloadTabs!NeverOlder
<1> QED BY <1>10, <1>14, <1>15, <1>16, <1>17 DEF WaitingIInv

LEMMA SilentTabs ==
  ASSUME NEW t PROVE WorkloadTabs!Batch({t}, TRUE).tabs = {t}
BY DEF WorkloadTabs!Batch

\* What reloads after a call, or after a look at the list: tabs, the workload's first.
LEMMA TabsToReload ==
  ASSUME WaitingIInv, op.tab \in Tabs, NEW success
  PROVE  /\ WorkloadTabs!RelatedTabs(op.tab) \in Seq(Tabs)
         /\ Len(WorkloadTabs!RelatedTabs(op.tab)) >= 1
         /\ WorkloadTabs!OnUpdate \in Seq(Tabs)
         /\ WorkloadTabs!OnComplete(success) \in Seq(Tabs)
<1>1. <<op.tab>> \in Seq(Tabs) /\ Len(<<op.tab>>) >= 1
  OBVIOUS
<1>2. "pods" \in Tabs => <<op.tab, "pods">> \in Seq(Tabs) /\ Len(<<op.tab, "pods">>) >= 1
  OBVIOUS
<1>3. /\ WorkloadTabs!RelatedTabs(op.tab) \in Seq(Tabs)
      /\ Len(WorkloadTabs!RelatedTabs(op.tab)) >= 1
  BY <1>1, <1>2 DEF WorkloadTabs!RelatedTabs
<1>4. WorkloadTabs!OnUpdate \in Seq(Tabs)
  BY <1>1, <1>2 DEF WorkloadTabs!OnUpdate
<1>5. <<>> \in Seq(Tabs)
  OBVIOUS
<1> HIDE DEF WorkloadTabs!RelatedTabs
<1>6. WorkloadTabs!OnComplete(success) \in Seq(Tabs)
  BY <1>3, <1>5 DEF WorkloadTabs!OnComplete
<1> QED BY <1>3, <1>4, <1>6

LEMMA StepAccepted ==
  ASSUME WaitingIInv, WorkloadTabs!Accepted PROVE WaitingIInv' /\ WorkloadTabs!NeverOlder
<1> DEFINE ts == WorkloadTabs!RelatedTabs(op.tab)  made == WorkloadTabs!Silent(ts)
           n == Len(cluster) + 1  asked == token + 1 .. token + Len(made)
           state == IF op.kind = "delete" THEN "gone" ELSE "waiting"
           later(i) == [made[i] EXCEPT !.since = n]
<1>1. /\ op.at = "posted" /\ op.verdict # "ready" /\ op \in Operations
      /\ cluster' = Append(cluster, state) /\ token' = token + Len(made)
      /\ batches' = [k \in DOMAIN batches \cup asked |->
                       IF k > token THEN later(k - token) ELSE batches[k]]
      /\ newest' = made[Len(made)].tabs
      /\ op' = [op EXCEPT !.at = "reloading", !.since = n, !.awaited = asked]
      /\ UNCHANGED <<data, loaded, failed, screen, active, budget>>
  BY DEF WorkloadTabs!Accepted, WorkloadTabs!TokensOf, WorkloadTabs!tabs, WorkloadTabs!Latest,
         WaitingIInv, TabsTypes, OperationInOrder
<1>2. /\ cluster \in Seq(WorkStates) /\ Len(cluster) \in Nat /\ Len(cluster) >= 1 /\ token \in Nat
      /\ data \in [Tabs -> 0..Len(cluster)] /\ op.tab \in Tabs
  BY <1>1 DEF WaitingIInv, TabsTypes, OperationInOrder
<1>3. ts \in Seq(Tabs) /\ Len(ts) >= 1
  BY <1>2, TabsToReload
<1> HIDE DEF ts
<1>4. /\ Len(made) = Len(ts) /\ Len(ts) \in Nat
      /\ \A i \in 1..Len(ts) : made[i] = WorkloadTabs!Batch({ts[i]}, TRUE) /\ ts[i] \in Tabs
  <2>1. ts \in Seq(Tabs) /\ Len(ts) \in Nat /\ \A i \in 1..Len(ts) : ts[i] \in Tabs
    BY <1>3
  <2>2. /\ Len(made) = Len(ts)
        /\ \A i \in 1..Len(ts) : made[i] = WorkloadTabs!Batch({ts[i]}, TRUE)
    BY <2>1, SilentBatches, Zenon
  <2> QED BY <2>1, <2>2, Zenon
<1> HIDE DEF made
<1>5. \A i \in 1..Len(ts) :
        LET b == later(i) IN /\ DOMAIN b = {"tabs", "silent", "since", "got"} /\ b.tabs = {ts[i]}
                             /\ b.since = n /\ b.silent = TRUE /\ DOMAIN b.got = {}
  <2> TAKE i \in 1..Len(ts)
  <2> DEFINE b == later(i)  t == ts[i]
  <2>1. b = [WorkloadTabs!Batch({t}, TRUE) EXCEPT !.since = n]
    BY <1>4, Zenon
  <2> HIDE DEF b, t, n
  <2>2. /\ DOMAIN b = {"tabs", "silent", "since", "got"} /\ b.tabs = {t}
        /\ b.since = n /\ b.silent = TRUE /\ DOMAIN b.got = {}
    BY <2>1 DEF WorkloadTabs!Batch
  <2> QED BY <2>2, Zenon DEF b, t
<1>6. n \in Nat /\ n >= 1 /\ n = Len(cluster')
  BY <1>1, <1>2
<1> HIDE DEF n, later
<1>7. \A i \in 1..Len(ts) : IsBatch(later(i), n) /\ later(i).tabs # {}
  <2> TAKE i \in 1..Len(ts)
  <2> DEFINE b == later(i)  t == ts[i]
  <2>1. /\ t \in Tabs /\ DOMAIN b = {"tabs", "silent", "since", "got"} /\ b.tabs = {t}
        /\ b.since = n /\ b.silent = TRUE /\ DOMAIN b.got = {}
    BY <1>4, <1>5, Zenon
  <2> HIDE DEF b, t
  <2>2. IsBatch(b, n) /\ b.tabs # {}
    BY <1>6, <2>1, SilentIsBatch, Zenon
  <2> QED BY <2>2 DEF b
<1>8. \A k \in DOMAIN batches : k \in Int /\ k <= token
  BY <1>2 DEF WaitingIInv, BatchesInOrder
<1>9. /\ DOMAIN batches' = DOMAIN batches \cup asked
      /\ \A k \in DOMAIN batches : batches'[k] = batches[k]
      /\ \A k \in asked : k - token \in 1..Len(ts) /\ batches'[k] = later(k - token)
  <2>1. \A k \in DOMAIN batches \cup asked :
          batches'[k] = IF k > token THEN later(k - token) ELSE batches[k]
    BY <1>1
  <2>2. \A k \in asked : k > token /\ k - token \in 1..Len(ts)
    BY <1>2, <1>4
  <2>3. \A k \in DOMAIN batches : ~(k > token)
    BY <1>2, <1>8
  <2>4. DOMAIN batches' = DOMAIN batches \cup asked
    BY <1>1
  <2> HIDE DEF asked
  <2> QED BY <2>1, <2>2, <2>3, <2>4
<1>10. token' \in asked /\ token' \in Nat /\ token < token' /\ token' - token = Len(ts)
  BY <1>1, <1>2, <1>3, <1>4
<1>11. newest' = later(Len(ts)).tabs /\ newest' \subseteq Tabs
  <2>1. Len(ts) \in 1..Len(ts)
    BY <1>3, <1>4
  <2>2. made[Len(ts)].tabs = {ts[Len(ts)]} /\ ts[Len(ts)] \in Tabs
    BY <1>4, <2>1, SilentTabs, Zenon
  <2> QED BY <1>1, <1>4, <1>5, <2>1, <2>2
<1>12. Issues(n)
  <2>1. \A k \in asked : k \in 1..token'
    BY <1>1, <1>2
  <2>2. \A k \in asked : /\ IsBatch(batches'[k], n) /\ batches'[k].since = n
                         /\ batches'[k].tabs # {} /\ DOMAIN batches'[k].got = {}
    BY <1>5, <1>7, <1>9
  <2>3. batches'[token'].tabs = newest'
    BY <1>9, <1>10, <1>11
  <2> HIDE DEF asked
  <2> QED BY <1>9, <1>10, <1>11, <2>1, <2>2, <2>3 DEF Issues
<1>13. data' \in [Tabs -> 0..n] /\ Len(cluster) <= n
  BY <1>1, <1>2 DEF n
<1>14. BatchesInOrder' /\ WorkloadTabs!LatestIsShown'
  BY <1>6, <1>12, <1>13, BatchesIssued
<1>15. /\ op' \in Operations /\ op'.at = "reloading" /\ op'.tab = op.tab /\ op'.since = n
       /\ op'.verdict = op.verdict
  <2>1. asked \in SUBSET Nat
    BY <1>2, <1>4
  <2> HIDE DEF asked
  <2> QED BY <1>1, <1>6, <2>1 DEF Operations
<1>16. OperationInOrder'
  BY <1>1, <1>2, <1>6, <1>15 DEF OperationInOrder
<1>17. ClicksSpent'
  <2>1. budget.clicks \in 0..MaxClicks /\ MaxClicks \in Nat /\ MaxChanges \in Nat
    BY TabsConstants DEF WaitingIInv, TabsTypes
  <2> QED BY <1>1, <1>2, <1>6, <1>15, <2>1 DEF WaitingIInv, ClicksSpent, Posted, n
<1>18. TabsTypes'
  <2>1. state \in WorkStates
    BY DEF WorkStates
  <2>2. cluster' \in Seq(WorkStates)
    BY <1>1, <1>2, <2>1
  <2>3. token' \in Nat /\ newest' \subseteq Tabs
    BY <1>10, <1>11
  <2>4. /\ loaded \in [Tabs -> BOOLEAN] /\ failed \in [Tabs -> BOOLEAN]
        /\ screen \in [Tabs -> TabScreens] /\ active \in Tabs
        /\ budget \in [clicks : 0..MaxClicks, failures : Nat]
    BY DEF WaitingIInv, TabsTypes
  <2> HIDE DEF asked, state
  <2> QED BY <1>1, <1>6, <1>13, <1>15, <2>2, <2>3, <2>4 DEF TabsTypes
<1>19. WorkloadTabs!NeverOlder
  BY <1>1, <1>2 DEF WorkloadTabs!NeverOlder
<1> QED BY <1>14, <1>16, <1>17, <1>18, <1>19 DEF WaitingIInv

\* Of reloads nobody waits for, the last one is under way.
LEMMA UnawaitedReload ==
  ASSUME WaitingIInv, NEW ts \in Seq(Tabs),
         WorkloadTabs!IssueUnawaited(WorkloadTabs!Silent(ts)),
         UNCHANGED <<cluster, data, screen>>
  PROVE  /\ BatchesInOrder' /\ WorkloadTabs!LatestIsShown'
         /\ token' \in Nat /\ newest' \subseteq Tabs
<1> DEFINE made == WorkloadTabs!Silent(ts)  b == WorkloadTabs!Batch({ts[Len(ts)]}, TRUE)
           n == Len(cluster)
<1>1. /\ Len(made) = Len(ts) /\ (made # <<>> => Len(ts) >= 1)
      /\ \A i \in 1..Len(ts) : made[i] = WorkloadTabs!Batch({ts[i]}, TRUE)
  BY SilentBatches, Zenon
<1>2. /\ token' = token + Len(made)
      /\ batches' = IF made = <<>> THEN batches ELSE WorkloadTabs!With(batches, token', made[Len(made)])
      /\ newest' = IF made = <<>> THEN newest ELSE made[Len(made)].tabs
  BY DEF WorkloadTabs!IssueUnawaited
<1>3. Len(ts) \in Nat /\ token \in Nat /\ newest \subseteq Tabs /\ n \in Nat /\ n >= 1
  BY DEF WaitingIInv, TabsTypes
<1> HIDE DEF made
<1>4. CASE made = <<>>
  <2>1. UNCHANGED <<token, batches, newest>>
    BY <1>2, <1>3, <1>4
  <2>2. BatchesInOrder'
    BY <2>1 DEF WaitingIInv, BatchesInOrder, IsBatch
  <2>3. WorkloadTabs!LatestIsShown'
    BY <2>1 DEF WaitingIInv, WorkloadTabs!LatestIsShown
  <2> QED BY <1>3, <2>1, <2>2, <2>3
<1>5. CASE made # <<>>
  <2> DEFINE t == ts[Len(ts)]
  <2>1. Len(ts) >= 1 /\ Len(ts) \in 1..Len(ts) /\ t \in Tabs
    BY <1>1, <1>3, <1>5
  <2>2. made[Len(made)] = b
    BY <1>1, <2>1, Zenon
  <2>3. /\ DOMAIN b = {"tabs", "silent", "since", "got"} /\ b.tabs = {t}
        /\ b.silent = TRUE /\ b.since = n /\ DOMAIN b.got = {}
    BY DEF WorkloadTabs!Batch, WorkloadTabs!Latest
  <2> HIDE DEF b, t, n
  <2>4. IsBatch(b, n) /\ b.tabs # {}
    BY <1>3, <2>1, <2>3, SilentIsBatch, Zenon
  <2>5. token' = token + Len(ts) /\ batches' = WorkloadTabs!With(batches, token', b) /\ newest' = b.tabs
    BY <1>1, <1>2, <1>5, <2>2
  <2>6. /\ DOMAIN batches' = DOMAIN batches \cup {token'} /\ batches'[token'] = b
        /\ \A k \in DOMAIN batches : k # token' => batches'[k] = batches[k]
    BY <2>5 DEF WorkloadTabs!With
  <2>7. token' \in Nat /\ token < token' /\ token' \notin DOMAIN batches /\ token' \in 1..token'
    BY <1>3, <2>1, <2>5 DEF WaitingIInv, BatchesInOrder
  <2>8. Issues(n)
    BY <2>1, <2>3, <2>4, <2>5, <2>6, <2>7 DEF Issues
  <2>9. data' \in [Tabs -> 0..n] /\ n = Len(cluster') /\ Len(cluster) <= n
    BY <1>3 DEF WaitingIInv, TabsTypes, n
  <2>10. BatchesInOrder' /\ WorkloadTabs!LatestIsShown'
    BY <1>3, <2>8, <2>9, BatchesIssued
  <2> QED BY <2>8, <2>10 DEF Issues
<1> QED BY <1>4, <1>5

\* A look at the list the reload has left: an end, or another poll.
Verdicts == {"missing", "ready", "timeout"}

LEMMA Looked ==
  ASSUME WaitingIInv, WorkloadTabs!Check
  PROVE  /\ op.at = "polling" /\ op.awaited = {} /\ op.tab \in Tabs
         /\ \E ts \in Seq(Tabs) : WorkloadTabs!IssueUnawaited(WorkloadTabs!Silent(ts))
         /\ \/ \E verdict \in Verdicts :
                 op' = [op EXCEPT !.at = "ended", !.verdict = verdict, !.read = data[op.tab]]
            \/ op' = [op EXCEPT !.at = "timer", !.attempts = @ + 1, !.last = "waiting"]
<1> DEFINE state == WorkloadTabs!WorkloadAt(data[op.tab])
           updates == IF state # op.last THEN WorkloadTabs!OnUpdate ELSE <<>>
           another == op.attempts + 1 < MaxAttempts
<1>1. op.at = "polling" /\ op.awaited = {} /\ op.tab \in Tabs
  BY DEF WorkloadTabs!Check, WaitingIInv, OperationInOrder
<1>2. \/ WorkloadTabs!End(<<>>, "missing")
      \/ WorkloadTabs!End(updates, "ready")
      \/ WorkloadTabs!End(updates, "timeout")
      \/ /\ state = "waiting"
         /\ WorkloadTabs!IssueUnawaited(WorkloadTabs!Silent(updates))
         /\ op' = [op EXCEPT !.at = "timer", !.attempts = @ + 1, !.last = state]
  BY Zenon DEF WorkloadTabs!Check
<1>3. updates \in Seq(Tabs) /\ <<>> \in Seq(Tabs)
  <2>1. WorkloadTabs!OnUpdate \in Seq(Tabs) /\ <<>> \in Seq(Tabs)
    BY <1>1, TabsToReload
  <2> QED BY <2>1
<1> HIDE DEF updates, state
<1>4. ASSUME NEW before \in Seq(Tabs), NEW verdict \in Verdicts, WorkloadTabs!End(before, verdict)
      PROVE  /\ \E ts \in Seq(Tabs) : WorkloadTabs!IssueUnawaited(WorkloadTabs!Silent(ts))
             /\ op' = [op EXCEPT !.at = "ended", !.verdict = verdict, !.read = data[op.tab]]
  <2> DEFINE after == WorkloadTabs!OnComplete(verdict = "ready")  ts == before \o after
  <2>1. after \in Seq(Tabs)
    BY <1>1, TabsToReload, Zenon
  <2> HIDE DEF after
  <2>2. ts \in Seq(Tabs)
    BY <2>1
  <2>3. /\ WorkloadTabs!IssueUnawaited(WorkloadTabs!Silent(ts))
        /\ op' = [op EXCEPT !.at = "ended", !.verdict = verdict, !.read = data[op.tab]]
    BY <1>4, Zenon DEF WorkloadTabs!End, after
  <2> QED BY <2>2, <2>3, Zenon
<1>5. "missing" \in Verdicts /\ "ready" \in Verdicts /\ "timeout" \in Verdicts
  BY DEF Verdicts
<1> QED BY <1>1, <1>2, <1>3, <1>4, <1>5, Zenon

LEMMA StepCheck ==
  ASSUME WaitingIInv, WorkloadTabs!Check PROVE WaitingIInv' /\ WorkloadTabs!NeverOlder
<1>1. /\ op.at = "polling" /\ op.awaited = {} /\ op.tab \in Tabs
      /\ UNCHANGED <<cluster, data, loaded, failed, screen, active, budget>>
  BY Looked DEF WorkloadTabs!Check, WorkloadTabs!tabs
<1>2. /\ BatchesInOrder' /\ WorkloadTabs!LatestIsShown'
      /\ token' \in Nat /\ newest' \subseteq Tabs
  <2>1. PICK ts \in Seq(Tabs) : WorkloadTabs!IssueUnawaited(WorkloadTabs!Silent(ts))
    BY Looked
  <2> QED BY <1>1, <2>1, UnawaitedReload
<1>3. op \in Operations /\ op.verdict # "ready" /\ data[op.tab] \in Nat /\ op.since <= Len(cluster)
  BY <1>1 DEF WaitingIInv, TabsTypes, OperationInOrder
<1>4. op.alone => data[op.tab] >= op.since
  BY <1>1 DEF WaitingIInv, OperationInOrder, PollIsOwn
<1>5. op' \in Operations /\ OperationInOrder' /\ op'.at # "posted"
  <2>1. ASSUME NEW verdict \in Verdicts,
               op' = [op EXCEPT !.at = "ended", !.verdict = verdict, !.read = data[op.tab]]
        PROVE  op' \in Operations /\ OperationInOrder' /\ op'.at # "posted"
    <3>1. op' \in Operations
      BY <1>3, <2>1 DEF Operations, Verdicts
    <3>2. /\ op'.at = "ended" /\ op'.tab = op.tab /\ op'.since = op.since /\ op'.alone = op.alone
          /\ op'.read = data[op.tab]
      BY <1>3, <2>1 DEF Operations
    <3>3. op'.alone => op'.read >= op'.since
      BY <1>4, <3>2
    <3> QED BY <1>1, <1>3, <3>1, <3>2, <3>3 DEF OperationInOrder
  <2>2. ASSUME op' = [op EXCEPT !.at = "timer", !.attempts = @ + 1, !.last = "waiting"]
        PROVE  op' \in Operations /\ OperationInOrder' /\ op'.at # "posted"
    <3> DEFINE more == op.attempts + 1
    <3>0. more \in Nat /\ op' = [op EXCEPT !.at = "timer", !.attempts = more, !.last = "waiting"]
      BY <1>3, <2>2 DEF Operations
    <3> HIDE DEF more
    <3>1. op' \in Operations
      BY <1>3, <3>0 DEF Operations, WorkStates
    <3>2. /\ op'.at = "timer" /\ op'.tab = op.tab /\ op'.since = op.since
          /\ op'.verdict = op.verdict
      BY <1>3, <2>2 DEF Operations
    <3> QED BY <1>1, <1>3, <3>1, <3>2 DEF OperationInOrder
  <2> QED BY <2>1, <2>2, Looked
<1>6. ClicksSpent'
  BY <1>1, <1>5 DEF WaitingIInv, ClicksSpent, Posted
<1>7. TabsTypes'
  BY <1>1, <1>2, <1>5 DEF WaitingIInv, TabsTypes
<1>8. WorkloadTabs!NeverOlder
  BY <1>1 DEF WaitingIInv, TabsTypes, WorkloadTabs!NeverOlder
<1> QED BY <1>2, <1>5, <1>6, <1>7, <1>8 DEF WaitingIInv

\* A batch with one answer more.
LEMMA AnsweredBatch ==
  ASSUME NEW n \in Nat, NEW c, IsBatch(c, n), NEW t \in c.tabs, NEW v,
         v = -1 \/ v \in c.since..n, NEW b, NEW got, DOMAIN b = DOMAIN c, b.tabs = c.tabs,
         b.since = c.since, b.silent = c.silent, b.got = got, got = WorkloadTabs!With(c.got, t, v)
  PROVE  IsBatch(b, n)
<1>1. /\ DOMAIN got = DOMAIN c.got \cup {t} /\ got[t] = v
      /\ \A x \in DOMAIN c.got : x # t => got[x] = c.got[x]
  BY DEF WorkloadTabs!With
<1>2. /\ c.tabs \subseteq Tabs /\ c.since \in 1..n /\ DOMAIN c.got \subseteq c.tabs
      /\ \A x \in DOMAIN c.got : c.got[x] = -1 \/ c.got[x] \in c.since..n
      /\ DOMAIN c = {"tabs", "silent", "since", "got"}
  BY DEF IsBatch
<1>3. /\ DOMAIN b.got \subseteq b.tabs
      /\ \A x \in DOMAIN b.got : b.got[x] = -1 \/ b.got[x] \in b.since..n
  BY <1>1, <1>2
<1>4. b.silent \in BOOLEAN /\ (b.silent => \E x \in Tabs : b.tabs = {x})
  BY Zenon DEF IsBatch
<1> QED BY <1>1, <1>2, <1>3, <1>4 DEF IsBatch

\* What the answers of a batch show, once all of them are in.
Shows(b) ==
  /\ data' \in [Tabs -> 0..Len(cluster)]
  /\ loaded' \in [Tabs -> BOOLEAN] /\ failed' \in [Tabs -> BOOLEAN]
  /\ screen' \in [Tabs -> TabScreens]
  /\ \A x \in b.tabs : screen'[x] # "loading"
  /\ \A x \in b.tabs : b.got[x] # -1 => data'[x] = b.got[x]
  /\ WorkloadTabs!NeverOlder

LEMMA LoadShows ==
  ASSUME WaitingIInv, NEW b, IsBatch(b, Len(cluster)), DOMAIN b.got = b.tabs,
         \A x \in b.tabs : data[x] <= b.since, WorkloadTabs!ShowLoad(b)
  PROVE  Shows(b)
<1>1. /\ data' = [t \in Tabs |-> IF t \notin b.tabs THEN data[t]
                                 ELSE IF b.got[t] = -1 THEN 0 ELSE b.got[t]]
      /\ loaded' = [t \in Tabs |-> t \in b.tabs \/ loaded[t]]
      /\ failed' = [t \in Tabs |-> t \notin b.tabs /\ failed[t]]
      /\ screen' = WorkloadTabs!Render(data', failed')
  BY DEF WorkloadTabs!ShowLoad, WorkloadTabs!Failed, WorkloadTabs!Nothing
<1>2. /\ Len(cluster) \in Nat /\ data \in [Tabs -> 0..Len(cluster)]
      /\ b.since \in 1..Len(cluster) /\ b.tabs \subseteq Tabs
      /\ \A x \in b.tabs : b.got[x] = -1 \/ b.got[x] \in b.since..Len(cluster)
  BY DEF WaitingIInv, TabsTypes, IsBatch
<1>3. data' \in [Tabs -> 0..Len(cluster)]
  <2>1. \A t \in Tabs : data'[t] \in 0..Len(cluster)
    BY <1>1, <1>2
  <2> QED BY <1>1, <2>1
<1>4. loaded' \in [Tabs -> BOOLEAN] /\ failed' \in [Tabs -> BOOLEAN]
  BY <1>1, Zenon
<1>5. \A t \in Tabs : data'[t] >= data[t] \/ data'[t] = 0
  BY <1>1, <1>2
<1>6. \A x \in b.tabs : b.got[x] # -1 => data'[x] = b.got[x]
  BY <1>1, <1>2
<1>7. screen' \in [Tabs -> TabScreens] /\ \A x \in Tabs : screen'[x] # "loading"
  BY <1>1, RenderedNext
<1> QED BY <1>2, <1>3, <1>4, <1>5, <1>6, <1>7 DEF Shows, WorkloadTabs!NeverOlder, WorkloadTabs!Nothing

LEMMA SilentShows ==
  ASSUME WaitingIInv, NEW b, IsBatch(b, Len(cluster)), DOMAIN b.got = b.tabs, b.silent,
         \A x \in b.tabs : data[x] <= b.since, WorkloadTabs!ShowSilent(b)
  PROVE  Shows(b)
<1> DEFINE t == CHOOSE x \in b.tabs : TRUE
<1>1. /\ t \in Tabs /\ b.tabs = {t} /\ b.since \in 1..Len(cluster)
      /\ b.got[t] = -1 \/ b.got[t] \in b.since..Len(cluster)
  <2>1. \E x \in Tabs : b.tabs = {x}
    BY Zenon DEF IsBatch
  <2>2. PICK x \in Tabs : b.tabs = {x}
    BY <2>1
  <2>3. t \in b.tabs
    BY <2>2
  <2> QED BY <2>2, <2>3 DEF IsBatch
<1>2. \/ /\ b.got[t] = -1
         /\ failed' = [failed EXCEPT ![t] = TRUE]
         /\ screen' = [screen EXCEPT ![t] = "error"]
         /\ UNCHANGED <<data, loaded>>
      \/ /\ b.got[t] # -1
         /\ data' = [data EXCEPT ![t] = b.got[t]]
         /\ loaded' = [loaded EXCEPT ![t] = TRUE]
         /\ failed' = [failed EXCEPT ![t] = FALSE]
         /\ screen' = WorkloadTabs!Render(data', failed')
  <2>1. WorkloadTabs!Failed = -1
    BY DEF WorkloadTabs!Failed
  <2> QED BY <2>1, Zenon DEF WorkloadTabs!ShowSilent
<1> HIDE DEF t
<1>3. /\ Len(cluster) \in Nat /\ data \in [Tabs -> 0..Len(cluster)]
      /\ loaded \in [Tabs -> BOOLEAN] /\ failed \in [Tabs -> BOOLEAN]
      /\ screen \in [Tabs -> TabScreens]
  BY DEF WaitingIInv, TabsTypes
<1> DEFINE yes == TRUE  no == FALSE
<1>4. yes \in BOOLEAN /\ no \in BOOLEAN
  OBVIOUS
<1>5. CASE /\ b.got[t] = -1
           /\ failed' = [failed EXCEPT ![t] = yes]
           /\ screen' = [screen EXCEPT ![t] = "error"]
           /\ UNCHANGED <<data, loaded>>
  <2> HIDE DEF yes, no
  <2>1. failed' \in [Tabs -> BOOLEAN]
    BY <1>1, <1>3, <1>4, <1>5
  <2>2. screen' \in [Tabs -> TabScreens] /\ screen'[t] # "loading"
    BY <1>1, <1>3, <1>5 DEF TabScreens
  <2>3. WorkloadTabs!NeverOlder
    BY <1>3, <1>5 DEF WorkloadTabs!NeverOlder
  <2> QED BY <1>1, <1>3, <1>5, <2>1, <2>2, <2>3 DEF Shows
<1>6. CASE /\ b.got[t] # -1
           /\ data' = [data EXCEPT ![t] = b.got[t]]
           /\ loaded' = [loaded EXCEPT ![t] = yes]
           /\ failed' = [failed EXCEPT ![t] = no]
           /\ screen' = WorkloadTabs!Render(data', failed')
  <2> HIDE DEF yes, no
  <2>1. loaded' \in [Tabs -> BOOLEAN] /\ failed' \in [Tabs -> BOOLEAN]
    BY <1>1, <1>3, <1>4, <1>6
  <2>2. screen' \in [Tabs -> TabScreens] /\ \A x \in Tabs : screen'[x] # "loading"
    BY <1>6, RenderedNext
  <2>3. b.got[t] \in 0..Len(cluster) /\ data'[t] = b.got[t] /\ data[t] <= b.got[t]
    BY <1>1, <1>3, <1>6
  <2>4. data' \in [Tabs -> 0..Len(cluster)] /\ \A x \in Tabs : x # t => data'[x] = data[x]
    BY <1>1, <1>3, <1>6, <2>3
  <2>5. WorkloadTabs!NeverOlder
    <3>1. ASSUME NEW x \in Tabs PROVE data'[x] >= data[x]
      <4>1. data[x] \in Nat
        BY <1>3
      <4>2. CASE x = t
        BY <1>3, <2>3, <4>1, <4>2
      <4>3. CASE x # t
        BY <2>4, <4>1, <4>3
      <4> QED BY <4>2, <4>3
    <3> QED BY <3>1 DEF WorkloadTabs!NeverOlder
  <2> QED BY <1>1, <2>1, <2>2, <2>3, <2>4, <2>5 DEF Shows
<1> QED BY <1>2, <1>5, <1>6, Zenon DEF yes, no

\* The operation hears of an answer: its request returns once all answers are in.
LEMMA OperationHears ==
  ASSUME WaitingIInv, NEW k, NEW t \in Tabs, NEW v, WorkloadTabs!Answer(k, t, v)
  PROVE  /\ op' \in Operations /\ op'.at = op.at /\ op'.tab = op.tab /\ op'.since = op.since
         /\ op'.verdict = op.verdict /\ op'.read = op.read
         /\ op'.alone => op.alone /\ v # -1
         /\ op'.awaited = IF DOMAIN WorkloadTabs!With(batches[k].got, t, v) = batches[k].tabs
                          THEN op.awaited \ {k} ELSE op.awaited
<1> DEFINE b == [batches[k] EXCEPT !.got = WorkloadTabs!With(@, t, v)]
           awaited == IF DOMAIN b.got = b.tabs THEN op.awaited \ {k} ELSE op.awaited
           stays == op.alone /\ v # -1
<1>1. op' = [op EXCEPT !.awaited = awaited, !.alone = stays]
  BY DEF WorkloadTabs!Answer, WorkloadTabs!AwaitedAfter, WorkloadTabs!Failed
<1>3. op \in Operations
  BY DEF WaitingIInv, TabsTypes
<1>4. awaited \in SUBSET Nat
  BY <1>3 DEF Operations
<1>5. stays \in BOOLEAN /\ (stays => op.alone /\ v # -1)
  BY Zenon
<1> HIDE DEF awaited, stays
<1>6. /\ op' \in Operations /\ op'.at = op.at /\ op'.tab = op.tab /\ op'.since = op.since
      /\ op'.verdict = op.verdict /\ op'.read = op.read /\ op'.alone = stays
      /\ op'.awaited = awaited
  BY <1>1, <1>3, <1>4, <1>5 DEF Operations
<1>7. op'.alone => op.alone /\ v # -1
  BY <1>5, <1>6, Zenon
<1> QED BY <1>6, <1>7 DEF awaited

LEMMA StepAnswer ==
  ASSUME WaitingIInv, NEW k \in DOMAIN batches, NEW t \in batches[k].tabs, NEW v,
         v = -1 \/ v \in batches[k].since..Len(cluster), WorkloadTabs!Answer(k, t, v),
         budget' \in [clicks : 0..MaxClicks, failures : Nat], budget'.clicks = budget.clicks
  PROVE  WaitingIInv' /\ WorkloadTabs!NeverOlder
<1> DEFINE c == batches[k]
           b == [c EXCEPT !.got = WorkloadTabs!With(@, t, v)]
           n == Len(cluster)
<1>1. /\ n \in Nat /\ token \in Nat /\ k \in 1..token /\ IsBatch(c, n) /\ DOMAIN c.got # c.tabs
      /\ c.tabs \subseteq Tabs /\ t \in Tabs
  BY DEF WaitingIInv, TabsTypes, BatchesInOrder, IsBatch
<1>2. /\ IsBatch(b, n) /\ b.tabs = c.tabs /\ b.since = c.since /\ b.silent = c.silent
      /\ DOMAIN b.got = DOMAIN c.got \cup {t} /\ b.got[t] = v
  <2> DEFINE got == WorkloadTabs!With(c.got, t, v)
  <2>1. b = [c EXCEPT !.got = got] /\ DOMAIN c = {"tabs", "silent", "since", "got"}
    BY <1>1 DEF IsBatch
  <2>2. DOMAIN got = DOMAIN c.got \cup {t} /\ got[t] = v
    BY DEF WorkloadTabs!With
  <2>3. t \in c.tabs /\ (v = -1 \/ v \in c.since..n) /\ got = WorkloadTabs!With(c.got, t, v)
    OBVIOUS
  <2> HIDE DEF b, c, n, got
  <2>4. DOMAIN b = DOMAIN c /\ b.tabs = c.tabs /\ b.since = c.since /\ b.silent = c.silent /\ b.got = got
    BY <2>1
  <2>5. IsBatch(b, n)
    BY <1>1, <2>3, <2>4, AnsweredBatch
  <2> QED BY <2>2, <2>4, <2>5
<1>3. /\ t \notin DOMAIN c.got /\ UNCHANGED <<cluster, active, token, newest>>
      /\ IF DOMAIN b.got = b.tabs
         THEN /\ batches' = [j \in DOMAIN batches \ {k} |-> batches[j]]
              /\ IF k = token THEN IF b.silent THEN WorkloadTabs!ShowSilent(b) ELSE WorkloadTabs!ShowLoad(b)
                              ELSE UNCHANGED <<data, loaded, failed, screen>>
         ELSE /\ batches' = [batches EXCEPT ![k] = b]
              /\ IF k = token /\ v = WorkloadTabs!Failed
                 THEN /\ failed' = [failed EXCEPT ![t] = TRUE]
                      /\ screen' = [screen EXCEPT ![t] = "error"]
                      /\ UNCHANGED <<data, loaded>>
                 ELSE UNCHANGED <<data, loaded, failed, screen>>
  BY Zenon DEF WorkloadTabs!Answer, WorkloadTabs!IsValidToken, WorkloadTabs!tabs
<1>4. /\ op' \in Operations /\ op'.at = op.at /\ op'.tab = op.tab /\ op'.since = op.since
      /\ op'.verdict = op.verdict /\ op'.read = op.read
      /\ op'.alone => op.alone /\ v # -1
      /\ op'.awaited = IF DOMAIN b.got = b.tabs THEN op.awaited \ {k} ELSE op.awaited
  <2>1. b.got = WorkloadTabs!With(c.got, t, v)
    BY <1>1 DEF IsBatch
  <2>2. /\ op' \in Operations /\ op'.at = op.at /\ op'.tab = op.tab /\ op'.since = op.since
        /\ op'.verdict = op.verdict /\ op'.read = op.read
        /\ op'.alone => op.alone /\ v # -1
        /\ op'.awaited = IF DOMAIN WorkloadTabs!With(c.got, t, v) = c.tabs
                         THEN op.awaited \ {k} ELSE op.awaited
    BY <1>1, OperationHears, Zenon
  <2> HIDE DEF b
  <2> QED BY <1>2, <2>1, <2>2, Zenon
<1> HIDE DEF b
<1>5. /\ data \in [Tabs -> 0..n] /\ loaded \in [Tabs -> BOOLEAN] /\ failed \in [Tabs -> BOOLEAN]
      /\ screen \in [Tabs -> TabScreens]
  BY DEF WaitingIInv, TabsTypes
<1>6. token \in DOMAIN batches =>
        batches[token].tabs = newest /\ \A x \in newest : data[x] <= batches[token].since
  BY DEF WaitingIInv, BatchesInOrder
<1>7. \A j \in DOMAIN batches :
        j \in 1..token /\ IsBatch(batches[j], n) /\ DOMAIN batches[j].got # batches[j].tabs
  BY DEF WaitingIInv, BatchesInOrder
<1> DEFINE Kept == /\ data' \in [Tabs -> 0..n]
                   /\ loaded' \in [Tabs -> BOOLEAN] /\ failed' \in [Tabs -> BOOLEAN]
                   /\ screen' \in [Tabs -> TabScreens]
                   /\ BatchesInOrder' /\ WorkloadTabs!LatestIsShown' /\ WorkloadTabs!NeverOlder
           Own == op'.at = "polling" /\ op'.alone => PollIsOwn'
<1>8. op'.at = "polling" /\ op'.alone => PollIsOwn
  BY <1>4, Zenon DEF WaitingIInv, OperationInOrder
<1>9. ASSUME DOMAIN b.got = b.tabs, k = token PROVE Kept /\ Own
  <2>1. /\ batches' = [j \in DOMAIN batches \ {token} |-> batches[j]]
        /\ IF b.silent THEN WorkloadTabs!ShowSilent(b) ELSE WorkloadTabs!ShowLoad(b)
    BY <1>3, <1>9, Zenon
  <2>2. b.tabs = newest /\ \A x \in b.tabs : data[x] <= b.since
    BY <1>2, <1>6, <1>9
  <2>3. Shows(b)
    BY <1>2, <1>9, <2>1, <2>2, LoadShows, SilentShows, Zenon
  <2>4. /\ DOMAIN batches' = DOMAIN batches \ {token}
        /\ \A j \in DOMAIN batches' : batches'[j] = batches[j]
    BY <2>1
  <2>5. BatchesInOrder'
    BY <1>3, <1>7, <2>4 DEF BatchesInOrder
  <2>6. WorkloadTabs!LatestIsShown'
    BY <1>3, <2>2, <2>3 DEF Shows, WorkloadTabs!LatestIsShown
  <2>7. ASSUME op'.at = "polling" /\ op'.alone PROVE PollIsOwn'
    <3>1. /\ op.awaited = {token} /\ c.tabs = {op.tab} /\ c.since >= op.since
          /\ v # -1
      BY <1>4, <1>8, <1>9, <2>7 DEF PollIsOwn
    <3>2. data'[op.tab] = v
      BY <1>2, <2>3, <3>1 DEF Shows
    <3>3. op.since \in Nat /\ c.since \in Nat
      BY <1>1 DEF WaitingIInv, TabsTypes, Operations, IsBatch
    <3>4. v \in Nat /\ v >= op.since
      BY <1>1, <3>1, <3>3
    <3>5. op'.awaited = {} /\ token' \notin DOMAIN batches'
      BY <1>3, <1>4, <1>9, <2>4, <3>1
    <3> QED BY <1>4, <3>2, <3>4, <3>5 DEF PollIsOwn
  <2>8. Kept
    BY <2>3, <2>5, <2>6 DEF Shows
  <2> HIDE DEF Kept
  <2> QED BY <2>7, <2>8, Zenon
<1>10. ASSUME UNCHANGED <<data, loaded, failed, screen>>, k # token,
              \A j \in DOMAIN batches' : j \in DOMAIN batches,
              \A j \in DOMAIN batches : j # k => j \in DOMAIN batches' /\ batches'[j] = batches[j],
              k \in DOMAIN batches' => batches'[k] = b /\ DOMAIN b.got # b.tabs,
              DOMAIN b.got # b.tabs => k \in DOMAIN batches'
       PROVE  Kept /\ Own
  <2>1. BatchesInOrder'
    <3>1. \A j \in DOMAIN batches' :
            j \in 1..token /\ IsBatch(batches'[j], n) /\ DOMAIN batches'[j].got # batches'[j].tabs
      BY <1>2, <1>7, <1>10
    <3>2. token \in DOMAIN batches' => token \in DOMAIN batches /\ batches'[token] = batches[token]
      BY <1>10
    <3> QED BY <1>3, <1>6, <1>10, <3>1, <3>2 DEF BatchesInOrder
  <2>2. token' \in DOMAIN batches' <=> token \in DOMAIN batches
    BY <1>3, <1>10
  <2>3. WorkloadTabs!LatestIsShown'
    BY <1>3, <1>10, <2>2 DEF WaitingIInv, WorkloadTabs!LatestIsShown
  <2>4. WorkloadTabs!NeverOlder
    BY <1>5, <1>10 DEF WorkloadTabs!NeverOlder
  <2>5. ASSUME op'.at = "polling" /\ op'.alone PROVE PollIsOwn'
    <3>1. CASE /\ op.awaited = {token} /\ token \in DOMAIN batches
               /\ batches[token].silent /\ batches[token].tabs = {op.tab}
               /\ batches[token].since >= op.since /\ DOMAIN batches[token].got = {}
      <4>1. op'.awaited = {token'} /\ token' \in DOMAIN batches' /\ batches'[token'] = batches[token]
        BY <1>3, <1>4, <1>10, <3>1
      <4> QED BY <1>4, <3>1, <4>1 DEF PollIsOwn
    <3>2. CASE op.awaited = {} /\ token \notin DOMAIN batches /\ data[op.tab] >= op.since
      <4>1. op'.awaited = {} /\ token' \notin DOMAIN batches'
        BY <1>4, <2>2, <3>2
      <4> QED BY <1>4, <1>10, <3>2, <4>1 DEF PollIsOwn
    <3> QED BY <1>8, <2>5, <3>1, <3>2 DEF PollIsOwn
  <2>6. Kept
    BY <1>5, <1>10, <2>1, <2>3, <2>4
  <2> HIDE DEF Kept
  <2> QED BY <2>5, <2>6, Zenon
<1>11. ASSUME DOMAIN b.got = b.tabs, k # token PROVE Kept /\ Own
  <2>1. /\ batches' = [j \in DOMAIN batches \ {k} |-> batches[j]]
        /\ UNCHANGED <<data, loaded, failed, screen>>
    BY <1>3, <1>11, Zenon
  <2> HIDE DEF Kept, Own
  <2> QED BY <1>10, <1>11, <2>1
<1>12. ASSUME DOMAIN b.got # b.tabs, k # token PROVE Kept /\ Own
  <2>1. batches' = [batches EXCEPT ![k] = b] /\ UNCHANGED <<data, loaded, failed, screen>>
    BY <1>3, <1>12, Zenon
  <2> HIDE DEF Kept, Own
  <2> QED BY <1>10, <1>12, <2>1
<1>13. ASSUME DOMAIN b.got # b.tabs, k = token PROVE Kept /\ Own
  <2>1. /\ batches' = [batches EXCEPT ![token] = b] /\ UNCHANGED data
        /\ loaded' = loaded
        /\ \/ UNCHANGED <<failed, screen>>
           \/ /\ failed' = [failed EXCEPT ![t] = TRUE] /\ screen' = [screen EXCEPT ![t] = "error"]
    BY <1>3, <1>13, Zenon
  <2>2. /\ DOMAIN batches' = DOMAIN batches /\ batches'[token] = b
        /\ \A j \in DOMAIN batches : j # token => batches'[j] = batches[j]
    BY <1>13, <2>1
  <2>3. failed' \in [Tabs -> BOOLEAN] /\ screen' \in [Tabs -> TabScreens]
    <3> DEFINE yes == TRUE
    <3>1. yes \in BOOLEAN /\ (failed' = failed \/ failed' = [failed EXCEPT ![t] = yes])
      BY <2>1, Zenon
    <3> HIDE DEF yes
    <3> QED BY <1>1, <1>5, <2>1, <3>1 DEF TabScreens
  <2>4. BatchesInOrder'
    BY <1>2, <1>3, <1>6, <1>7, <1>13, <2>1, <2>2 DEF BatchesInOrder
  <2>5. WorkloadTabs!LatestIsShown'
    BY <1>3, <1>13, <2>2 DEF WorkloadTabs!LatestIsShown
  <2>6. WorkloadTabs!NeverOlder
    BY <1>5, <2>1 DEF WorkloadTabs!NeverOlder
  <2>7. ~(op'.at = "polling" /\ op'.alone)
    <3>1. SUFFICES ASSUME op'.at = "polling" /\ op'.alone PROVE FALSE
      OBVIOUS
    <3>2. c.tabs = {op.tab} /\ DOMAIN c.got = {}
      BY <1>8, <1>13, <3>1 DEF PollIsOwn
    <3> QED BY <1>2, <1>13, <3>2
  <2>8. Kept
    BY <1>5, <2>1, <2>3, <2>4, <2>5, <2>6
  <2> HIDE DEF Kept
  <2> QED BY <2>7, <2>8, Zenon
<1>14. Kept /\ Own
  <2> HIDE DEF Kept, Own
  <2> QED BY <1>9, <1>11, <1>12, <1>13, Zenon
<1>15. OperationInOrder'
  <2>1. /\ op'.at # "none" => op'.tab \in Tabs
        /\ op'.at # "none" => op'.since <= Len(cluster')
        /\ op'.verdict = "ready" => op'.at = "ended"
    BY <1>3, <1>4 DEF WaitingIInv, OperationInOrder
  <2>2. op'.verdict = "ready" => (op'.alone => op'.read >= op'.since)
    BY <1>4 DEF WaitingIInv, OperationInOrder
  <2> QED BY <1>14, <2>1, <2>2 DEF OperationInOrder
<1>16. ClicksSpent'
  BY <1>3, <1>4 DEF WaitingIInv, ClicksSpent, Posted
<1>17. TabsTypes'
  BY <1>3, <1>4, <1>14 DEF WaitingIInv, TabsTypes
<1> QED BY <1>14, <1>15, <1>16, <1>17 DEF WaitingIInv

LEMMA StepAnswers ==
  ASSUME WaitingIInv, WorkloadTabs!Replies PROVE WaitingIInv' /\ WorkloadTabs!NeverOlder
<1>1. PICK k \in DOMAIN batches : \E t \in batches[k].tabs : WorkloadTabs!Answers(k, t)
  BY DEF WorkloadTabs!Replies
<1> PICK t \in batches[k].tabs : WorkloadTabs!Answers(k, t)
  BY <1>1
<1>2. budget \in [clicks : 0..MaxClicks, failures : Nat]
  BY DEF WaitingIInv, TabsTypes
<1>3. CASE \E v \in batches[k].since..Len(cluster) : WorkloadTabs!Answer(k, t, v) /\ UNCHANGED budget
  BY <1>2, <1>3, StepAnswer
<1>4. CASE /\ budget.failures > 0 /\ budget' = [budget EXCEPT !.failures = @ - 1]
           /\ WorkloadTabs!Answer(k, t, -1)
  <2>1. /\ budget' \in [clicks : 0..MaxClicks, failures : Nat]
        /\ budget'.clicks = budget.clicks
    BY <1>2, <1>4
  <2> QED BY <1>4, <2>1, StepAnswer
<1> QED BY <1>3, <1>4 DEF WorkloadTabs!Answers, WorkloadTabs!Latest, WorkloadTabs!Failed

\* Each action of the tabs keeps their invariant, and no tab goes back to an older list.
LEMMA TabsStep ==
  ASSUME WaitingIInv, WorkloadTabs!Next PROVE WaitingIInv' /\ WorkloadTabs!NeverOlder
<1>1. WorkloadTabs!Operations = OpKinds
  BY DEF WorkloadTabs!Operations, OpKinds
<1>2. CASE WorkloadTabs!Waits
  BY <1>2, StepAccepted, StepRefused, StepPoll, StepOver, StepCheck DEF WorkloadTabs!Waits
<1>3. CASE \E kind \in OpKinds, t \in Tabs : WorkloadTabs!Start(kind, t)
  BY <1>3, StepStart
<1>4. CASE \E t \in Tabs : WorkloadTabs!ReloadTab(t)
  BY <1>4, StepReloadTab
<1> QED BY <1>1, <1>2, <1>3, <1>4, StepReloadAll, StepFilters, StepAnswers, StepChanges
        DEF WorkloadTabs!Next

LEMMA TabsSame ==
  ASSUME UNCHANGED <<cluster, data, loaded, failed, screen, active, token, batches, op, newest,
                     budget>>
  PROVE  WaitingIInv' = WaitingIInv
BY DEF WaitingIInv, TabsTypes, BatchesInOrder, IsBatch, ClicksSpent, Posted, OperationInOrder,
       PollIsOwn, WorkloadTabs!LatestIsShown

LEMMA TabsShown == WaitingIInv => WorkloadTabs!TabsTypeOK /\ WorkloadTabs!ReadyIsFresh
<1> SUFFICES ASSUME WaitingIInv PROVE WorkloadTabs!TabsTypeOK /\ WorkloadTabs!ReadyIsFresh
  OBVIOUS
<1>1. WorkloadTabs!ReadyIsFresh
  BY DEF WaitingIInv, OperationInOrder, WorkloadTabs!ReadyIsFresh
<1>2. Len(cluster) \in 1 .. MaxChanges + MaxClicks
  <2>1. /\ Len(cluster) \in Nat /\ Len(cluster) >= 1 /\ budget.clicks \in 0..MaxClicks
        /\ MaxClicks \in Nat /\ MaxChanges \in Nat
    BY TabsConstants DEF WaitingIInv, TabsTypes
  <2> QED BY <2>1 DEF WaitingIInv, ClicksSpent, Posted
<1>3. \A k \in DOMAIN batches :
        /\ k \in 1..token
        /\ DOMAIN batches[k].got \subseteq batches[k].tabs
        /\ DOMAIN batches[k].got # batches[k].tabs
  BY DEF WaitingIInv, BatchesInOrder, IsBatch
<1> QED BY <1>1, <1>2, <1>3 DEF WaitingIInv, TabsTypes, WorkloadTabs!TabsTypeOK,
        WorkloadTabs!Latest, WorkloadTabs!States, WorkStates, WorkloadTabs!Screens, TabScreens

-------------------------------------------------------------------------------
(* The page on screen *)

PagesIInv ==
  /\ onScreen \in {"tabs", "requests", "runs", "init"}
  /\ onScreen = "tabs" => WaitingIInv
  /\ onScreen = "requests" => RequestsIInv
  /\ onScreen = "runs" => RunsIInv
  /\ onScreen = "init" => InitIInv

LEMMA PagesInit == Init => PagesIInv
<1> SUFFICES ASSUME Init PROVE PagesIInv
  OBVIOUS
<1>1. \/ onScreen = "tabs" /\ WorkloadTabs!Init
      \/ onScreen = "requests" /\ RequestsPage!Init
      \/ onScreen = "runs" /\ PlaybookRuns!Init
      \/ onScreen = "init" /\ AnsibleInit!Init
  BY Zenon DEF Init
<1> QED BY <1>1, TabsInit, RequestsInit, RunsInit, InitInit DEF PagesIInv

\* What a step of a page may not do.
PagesMayNot ==
  /\ onScreen = "tabs" => WorkloadTabs!NeverOlder
  /\ onScreen = "init" => AnsibleInit!AskedInOrder

LEMMA PagesStep == ASSUME PagesIInv, Next PROVE PagesIInv' /\ PagesMayNot
<1>1. \/ onScreen = "tabs" /\ WorkloadTabs!Next /\ UNCHANGED onScreen
      \/ onScreen = "requests" /\ RequestsPage!Next /\ UNCHANGED onScreen
      \/ onScreen = "runs" /\ PlaybookRuns!Next /\ UNCHANGED onScreen
      \/ onScreen = "init" /\ AnsibleInit!Next /\ UNCHANGED onScreen
  BY DEF Next
<1>2. CASE onScreen = "tabs" /\ WorkloadTabs!Next /\ UNCHANGED onScreen
  BY <1>2, TabsStep DEF PagesIInv, PagesMayNot
<1>3. CASE onScreen = "requests" /\ RequestsPage!Next /\ UNCHANGED onScreen
  BY <1>3, RequestsStep DEF PagesIInv, PagesMayNot
<1>4. CASE onScreen = "runs" /\ PlaybookRuns!Next /\ UNCHANGED onScreen
  BY <1>4, RunsStep DEF PagesIInv, PagesMayNot
<1>5. CASE onScreen = "init" /\ AnsibleInit!Next /\ UNCHANGED onScreen
  BY <1>5, InitStep DEF PagesIInv, PagesMayNot
<1> QED BY <1>1, <1>2, <1>3, <1>4, <1>5

LEMMA PagesStay == ASSUME PagesIInv, UNCHANGED vars PROVE PagesIInv'
<1>1. UNCHANGED onScreen
  BY DEF vars
<1>2. InitIInv' = InitIInv
  BY InitSame DEF vars
<1>3. RunsIInv => RunsIInv'
  BY RunsSame DEF vars
<1>4. RequestsIInv => RequestsIInv'
  BY RequestsSame DEF vars
<1>5. WaitingIInv' = WaitingIInv
  BY TabsSame DEF vars
<1> QED BY <1>1, <1>2, <1>3, <1>4, <1>5 DEF PagesIInv

\* The invariant of the page on screen holds throughout, whatever the order of clicks, answers,
\* timers, threads, failures and restarts.
THEOREM WaitingInductive == Spec => []PagesIInv
<1>1. PagesIInv /\ [Next]_vars => PagesIInv'
  BY PagesStep, PagesStay
<1> QED BY <1>1, PagesInit, PTL DEF Spec

\* Each page's variables have their types (PagesTypeOK): a batch of the workloads under way has a
\* token of the page's and lacks an answer, no more runs than threads are running, and the cluster
\* has not said more than its own changes and the administrator's clicks allow.
THEOREM WaitingTyped == Spec => []PagesTypeOK
<1>1. PagesIInv => PagesTypeOK
  BY TabsShown, RequestsShown, RunsShown, InitShown DEF PagesIInv, PagesTypeOK
<1> QED BY <1>1, WaitingInductive, PTL

\* A page waits for nothing that nobody will answer (WaitsAreAsked): the spinners of loadTabsData
\* and loadList, and the logs that startPollingDeploymentLogs polls, have a request behind them.
THEOREM WaitsAsked == Spec => []WaitsAreAsked
<1>1. PagesIInv => WaitsAreAsked
  BY DEF PagesIInv, WaitsAreAsked, WaitingIInv, RequestsIInv
<1> QED BY <1>1, WaitingInductive, PTL

\* What a page tells at the end of a wait is true (EndsAreTrue): the verdict of waitForWorkloadReady
\* rests on a list read after the change, the terminal of a completed run shows all of its output,
\* and the settled table holds the deployment requests as they are.
THEOREM EndsTrue == Spec => []EndsAreTrue
<1>1. PagesIInv => EndsAreTrue
  BY TabsShown, RequestsShown, RunsShown DEF PagesIInv, EndsAreTrue
<1> QED BY <1>1, WaitingInductive, PTL

\* No step takes a tab of the workloads back to an older list, and no initialisation step is carried
\* out after one that overtook it (OvertakenLoses; workloadsRequestToken, runInitActionWS).
THEOREM OvertakenOnesLose == Spec => OvertakenLoses
<1>1. PagesIInv /\ [Next]_vars =>
        [/\ onScreen = "tabs" => WorkloadTabs!NeverOlder
         /\ onScreen = "init" => AnsibleInit!AskedInOrder]_vars
  BY PagesStep DEF PagesMayNot
<1> QED BY <1>1, WaitingInductive, PTL DEF Spec, OvertakenLoses

================================================================================
