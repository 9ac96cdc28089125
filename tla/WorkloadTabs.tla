----------------------------- MODULE WorkloadTabs ------------------------------
(***************************************************************************)
(* The workloads page, k8sWorkloads.js: the tables of its tabs, loaded by  *)
(* requests that overlap under one token, and the operations on a          *)
(* workload, which reload the tabs and wait until the workload is ready.   *)
(*                                                                         *)
(* Every table lists at most one workload, the one the operations are      *)
(* about (its pod, its job); what the cluster says of it is a sequence of  *)
(* states, and what a tab holds is the index at which it was read, with    *)
(* Nothing for the empty list the page starts from.                        *)
(***************************************************************************)
EXTENDS Integers, Sequences, FiniteSets

CONSTANTS
  Tabs,         \* the tabs of this instance, among AllTabs
  MaxChanges,   \* bound: states of the workload, those that operations bring apart
  MaxClicks,    \* bound: what the administrator does on the page
  MaxAttempts,  \* maxAttempts of waitForWorkloadReady (60, 90 in the code)
  MaxFailures   \* bound: requests that fail

AllTabs == {"deployments", "statefulsets", "daemonsets", "cronjobs", "jobs", "pods"}

\* Assumed where the constants are given values.
WorkloadTabsAssumption ==
  /\ Tabs \subseteq AllTabs /\ Tabs # {}
  /\ MaxChanges \in Nat \ {0} /\ MaxClicks \in Nat /\ MaxFailures \in Nat
  /\ MaxAttempts \in Nat \ {0}

Nothing == 0   \* [] in workloadsData
Failed == -1   \* an answer that is an error
States == {"gone", "waiting", "ready"}
Operations == {"delete", "scale", "image", "rollback"}
Screens == {"loading", "error", "empty", "rows"}

VARIABLES
  cluster,   \* what the cluster said of the workload, oldest first
  data,      \* workloadsData: the index each tab was read at
  loaded,    \* loadedTabs
  failed,    \* tabs with an entry in tabErrors
  screen,    \* what the body of each tab's table shows
  active,    \* the tab in front
  token,     \* workloadsRequestToken
  batches,   \* requests under way, by their token
  op,        \* the operation on the workload, and its wait
  newest,    \* the tabs the request with the newest token is for
  budget     \* clicks and failures left

tabs == <<data, loaded, failed, screen>>
requests == <<token, batches, newest>>
vars == <<cluster, tabs, active, requests, op, budget>>

Quiet == [at |-> "none", kind |-> "delete", tab |-> "none", since |-> 0,
          awaited |-> {}, attempts |-> 0, last |-> "none", verdict |-> "none",
          read |-> 0, alone |-> TRUE]

WorkloadAt(n) == IF n = Nothing THEN "gone" ELSE cluster[n]
Latest == Len(cluster)

-------------------------------------------------------------------------------
\* A batch is one call of loadTabsData, or of reloadTabDataSilent; got holds the
\* answers that came.
Batch(ts, silent) == [tabs |-> ts, silent |-> silent, since |-> Latest, got |-> <<>>]

\* Every call takes the next token, in the order of the calls.
Issue(calls) ==
  /\ token' = token + Len(calls)
  /\ batches' = [k \in DOMAIN batches \cup (token + 1 .. token + Len(calls)) |->
                   IF k > token THEN calls[k - token] ELSE batches[k]]
  /\ newest' = calls[Len(calls)].tabs

\* A function with one value more, or another.
With(f, x, v) == [y \in DOMAIN f \cup {x} |-> IF y = x THEN v ELSE f[y]]

Silent(ts) == [i \in 1..Len(ts) |-> Batch({ts[i]}, TRUE)]
TokensOf(calls) == token + 1 .. token + Len(calls)

IsValidToken(k) == k = token

\* renderWorkloads: a tab shows its error, else its rows, else that there are none.
Render(d, f) == [t \in Tabs |-> IF f[t] THEN "error"
                                ELSE IF WorkloadAt(d[t]) = "gone" THEN "empty" ELSE "rows"]

(* (variant) a failed load leaves undefined where the list was. *)
ShowLoadUndefined(b) ==
  /\ data' = [t \in Tabs |-> IF t \in b.tabs THEN b.got[t] ELSE data[t]]
  /\ loaded' = [t \in Tabs |-> t \in b.tabs \/ loaded[t]]
  /\ failed' = [t \in Tabs |-> t \notin b.tabs /\ failed[t]]
  /\ screen' = [t \in Tabs |-> "rows"]

\* loadTabsData, all answers in: a failed tab holds [] and its error is forgotten;
\* every tab of the page is rendered again.
ShowLoad(b) ==
  /\ data' = [t \in Tabs |-> IF t \notin b.tabs THEN data[t]
                             ELSE IF b.got[t] = Failed THEN Nothing ELSE b.got[t]]
  /\ loaded' = [t \in Tabs |-> t \in b.tabs \/ loaded[t]]
  /\ failed' = [t \in Tabs |-> t \notin b.tabs /\ failed[t]]
  /\ screen' = Render(data', failed')

\* reloadTabDataSilent: a failure shows its error and leaves the data.
ShowSilent(b) ==
  LET t == CHOOSE x \in b.tabs : TRUE IN
  IF b.got[t] = Failed
  THEN /\ failed' = [failed EXCEPT ![t] = TRUE]
       /\ screen' = [screen EXCEPT ![t] = "error"]
       /\ UNCHANGED <<data, loaded>>
  ELSE /\ data' = [data EXCEPT ![t] = b.got[t]]
       /\ loaded' = [loaded EXCEPT ![t] = TRUE]
       /\ failed' = [failed EXCEPT ![t] = FALSE]
       /\ screen' = Render(data', failed')

\* A request that was overtaken returns to its caller all the same.
AwaitedAfter(k) == op.awaited \ {k}

\* One answer more, with tab t's list as it was at some moment since the request.
Answer(k, t, v) ==
  LET b == [batches[k] EXCEPT !.got = With(@, t, v)] IN
  /\ t \in batches[k].tabs \ DOMAIN batches[k].got
  /\ IF DOMAIN b.got = b.tabs
     THEN /\ batches' = [j \in DOMAIN batches \ {k} |-> batches[j]]
          /\ IF IsValidToken(k) THEN IF b.silent THEN ShowSilent(b) ELSE ShowLoad(b)
                                ELSE UNCHANGED tabs
     ELSE /\ batches' = [batches EXCEPT ![k] = b]
          /\ IF IsValidToken(k) /\ v = Failed   \* handleApiError, at once
             THEN /\ failed' = [failed EXCEPT ![t] = TRUE]
                  /\ screen' = [screen EXCEPT ![t] = "error"]
                  /\ UNCHANGED <<data, loaded>>
             ELSE UNCHANGED tabs
  /\ op' = [op EXCEPT !.awaited = IF DOMAIN b.got = b.tabs THEN AwaitedAfter(k) ELSE @,
                      !.alone = @ /\ v # Failed]
  /\ UNCHANGED <<cluster, active, token, newest>>

Answers(k, t) ==
  \/ \E v \in batches[k].since..Latest : Answer(k, t, v) /\ UNCHANGED budget
  \/ /\ budget.failures > 0
     /\ budget' = [budget EXCEPT !.failures = @ - 1]
     /\ Answer(k, t, Failed)

-------------------------------------------------------------------------------
\* init: the page opens on a tab, and loads all of them.
Init ==
  /\ cluster \in {<<s>> : s \in States}
  /\ data = [t \in Tabs |-> Nothing]
  /\ loaded = [t \in Tabs |-> FALSE] /\ failed = [t \in Tabs |-> FALSE]
  /\ screen = [t \in Tabs |-> "loading"]
  /\ active \in Tabs
  /\ token = 1 /\ newest = Tabs
  /\ batches = [k \in {1} |-> [tabs |-> Tabs, silent |-> FALSE, since |-> 1, got |-> <<>>]]
  /\ op = Quiet
  /\ budget = [clicks |-> MaxClicks, failures |-> MaxFailures]

Click == /\ budget.clicks > 0
         /\ budget' = [budget EXCEPT !.clicks = @ - 1]
Disturb == op' = [op EXCEPT !.alone = FALSE]

\* reloadTabData: the tab's button, the tab shown, back and forward.
ReloadTab(t) ==
  /\ Click
  /\ active' \in {active, t}
  /\ loaded' = [loaded EXCEPT ![t] = FALSE]
  /\ screen' = [screen EXCEPT ![t] = "loading"]
  /\ Issue(<<Batch({t}, FALSE)>>)
  /\ Disturb
  /\ UNCHANGED <<cluster, data, failed>>

\* The page's reload button: resetAllData, then loadAllWorkloads(true).
ReloadAll ==
  /\ Click
  /\ data' = [t \in Tabs |-> Nothing]
  /\ loaded' = [t \in Tabs |-> FALSE] /\ failed' = [t \in Tabs |-> FALSE]
  /\ screen' = [t \in Tabs |-> "loading"]
  /\ Issue(<<Batch(Tabs, FALSE)>>)
  /\ Disturb
  /\ UNCHANGED <<cluster, active>>

\* A word in the search box, or a filter: every tab is rendered, loaded or not.
ApplyFilters ==
  /\ Click
  /\ screen' = Render(data, failed)
  /\ UNCHANGED <<cluster, data, loaded, failed, active, requests, op>>

-------------------------------------------------------------------------------
MainTab(kind) == CASE kind = "delete" -> Tabs
                   [] kind = "scale" -> {"deployments", "statefulsets"}
                   [] kind = "image" -> {"deployments", "statefulsets", "daemonsets"}
                   [] kind = "rollback" -> {"deployments"}

\* reloadRelatedTabs: the workload's tab, and the pods if they were loaded. Its
\* branch for suspend and resume is never reached: both handlers stop at a name
\* that is defined nowhere (isSystemNamespace), and so does Restart.
RelatedTabs(t) ==
  IF t \in {"deployments", "statefulsets", "daemonsets"} /\ "pods" \in Tabs /\ loaded["pods"]
  THEN <<t, "pods">> ELSE <<t>>

\* deleteWorkload, performScale, rollbackToRevision and the three showUpdate...Image:
\* a row on the screen, confirmed by the administrator.
Start(kind, t) ==
  /\ op.at = "none"
  /\ t \in MainTab(kind) \cap Tabs /\ screen[t] = "rows"
  /\ Click
  /\ op' = [Quiet EXCEPT !.at = "posted", !.kind = kind, !.tab = t]
  /\ UNCHANGED <<cluster, tabs, active, requests>>

\* The cluster carries the call out; the answer reloads the related tabs.
Accepted ==
  LET calls == Silent(RelatedTabs(op.tab)) IN
  /\ op.at = "posted" /\ WorkloadAt(Latest) # "gone"
  /\ cluster' = Append(cluster, IF op.kind = "delete" THEN "gone" ELSE "waiting")
  /\ token' = token + Len(calls)
  /\ batches' = [k \in DOMAIN batches \cup TokensOf(calls) |->
                   IF k > token THEN [calls[k - token] EXCEPT !.since = Latest + 1]
                                ELSE batches[k]]
  /\ newest' = calls[Len(calls)].tabs
  /\ op' = [op EXCEPT !.at = "reloading", !.since = Latest + 1, !.awaited = TokensOf(calls)]
  /\ UNCHANGED <<tabs, active, budget>>

\* The call fails: an alert, and nothing is reloaded.
Refused ==
  /\ op.at = "posted"
  /\ \/ WorkloadAt(Latest) = "gone" /\ UNCHANGED budget
     \/ budget.failures > 0 /\ budget' = [budget EXCEPT !.failures = @ - 1]
  /\ op' = Quiet
  /\ UNCHANGED <<cluster, tabs, active, requests>>

\* What onUpdate and onComplete reload is not waited for: of calls made in one go the
\* last alone can be valid when answers come, so only its request is kept.
IssueUnawaited(calls) ==
  /\ token' = token + Len(calls)
  /\ batches' = IF calls = <<>> THEN batches ELSE With(batches, token', calls[Len(calls)])
  /\ newest' = IF calls = <<>> THEN newest ELSE calls[Len(calls)].tabs

(* (variant) the poll does not wait for its reload. *)
PollUnawaited ==
  LET calls == Silent(<<op.tab>>) IN
  /\ \/ op.at = "reloading" /\ op.awaited = {} /\ op.kind # "delete"
     \/ op.at = "timer"
  /\ Issue(calls)
  /\ op' = [op EXCEPT !.at = "polling", !.alone = TRUE]
  /\ UNCHANGED <<cluster, tabs, active, budget>>

\* poll of waitForWorkloadReady: a silent reload of the workload's tab.
Poll ==
  LET calls == Silent(<<op.tab>>) IN
  /\ \/ op.at = "reloading" /\ op.awaited = {} /\ op.kind # "delete"
     \/ op.at = "timer"
  /\ Issue(calls)
  /\ op' = [op EXCEPT !.at = "polling", !.awaited = TokensOf(calls), !.alone = TRUE]
  /\ UNCHANGED <<cluster, tabs, active, budget>>

\* A deletion waits for its reloads only.
Deleted ==
  /\ op.at = "reloading" /\ op.awaited = {} /\ op.kind = "delete"
  /\ op' = Quiet
  /\ UNCHANGED <<cluster, tabs, active, requests, budget>>

-------------------------------------------------------------------------------
\* onUpdate: another silent reload of the tab, and of the pods: after a scaling if
\* they were loaded, else if they are also in front. Nothing waits for them.
OnUpdate ==
  IF "pods" \in Tabs /\ loaded["pods"] /\ (op.kind = "scale" \/ active = "pods")
  THEN <<op.tab, "pods">> ELSE <<op.tab>>

\* onComplete tells the verdict and reloads the related tabs. For a deployment that
\* did not get ready, rollback and image update call showAlertOrFallback, which is
\* defined nowhere: the wait ends there, without a word and without a reload.
OnComplete(success) ==
  IF ~success /\ op.kind # "scale" /\ op.tab = "deployments" THEN <<>> ELSE RelatedTabs(op.tab)

End(updates, verdict) ==
  /\ IssueUnawaited(Silent(updates \o OnComplete(verdict = "ready")))
  /\ op' = [op EXCEPT !.at = "ended", !.verdict = verdict, !.read = data[op.tab]]

\* The reload is back, valid or not: poll looks at the data the page has.
Check ==
  LET state == WorkloadAt(data[op.tab])
      updates == IF state # op.last THEN OnUpdate ELSE <<>>
      another == op.attempts + 1 < MaxAttempts
  IN /\ op.at = "polling" /\ op.awaited = {}
     /\ \/ state = "gone" /\ End(<<>>, "missing")
        \/ state = "ready" /\ End(updates, "ready")
        \/ state = "waiting" /\ ~another /\ End(updates, "timeout")
        \/ /\ state = "waiting" /\ another
           /\ IssueUnawaited(Silent(updates))
           /\ op' = [op EXCEPT !.at = "timer", !.attempts = @ + 1, !.last = state]
     /\ UNCHANGED <<cluster, tabs, active, budget>>

\* The administrator has read the verdict.
Forget == /\ op.at = "ended" /\ op' = Quiet
          /\ UNCHANGED <<cluster, tabs, active, requests, budget>>

-------------------------------------------------------------------------------
\* The cluster moves on: a rollout proceeds, a pod stops, someone else deletes or creates.
Changes ==
  /\ Latest < MaxChanges
  /\ \E s \in States \ {cluster[Latest]} : cluster' = Append(cluster, s)
  /\ UNCHANGED <<tabs, active, requests, op, budget>>

Replies == \E k \in DOMAIN batches : \E t \in batches[k].tabs : Answers(k, t)
Waits == Accepted \/ Refused \/ Poll \/ Deleted \/ Check \/ Forget

Next ==
  \/ \E t \in Tabs : ReloadTab(t)
  \/ ReloadAll
  \/ ApplyFilters
  \/ \E kind \in Operations, t \in Tabs : Start(kind, t)
  \/ Replies
  \/ Waits
  \/ Changes

Spec == Init /\ [][Next]_vars

-------------------------------------------------------------------------------
\* Each variable has its type; a request under way has a token of the page's, and
\* got holds answers of its own tabs, of which at least one is missing.
TabsTypeOK ==
  /\ cluster \in Seq(States) /\ Latest \in 1 .. MaxChanges + MaxClicks
  /\ data \in [Tabs -> 0..Latest]
  /\ loaded \in [Tabs -> BOOLEAN] /\ failed \in [Tabs -> BOOLEAN]
  /\ screen \in [Tabs -> Screens] /\ active \in Tabs
  /\ newest \subseteq Tabs
  /\ \A k \in DOMAIN batches :
       /\ k \in 1..token
       /\ DOMAIN batches[k].got \subseteq batches[k].tabs
       /\ DOMAIN batches[k].got # batches[k].tabs

\* A tab never goes back to a list that was read earlier than the one it has, however
\* answers overtake each other: the comment at workloadsRequestToken (line 43).
NeverOlder == \A t \in Tabs : data'[t] >= data[t] \/ data'[t] = Nothing

\* When the newest request is answered, none of the tabs it was for is left with the
\* spinner, whatever failed or was overtaken before.
LatestIsShown == token \notin DOMAIN batches => \A t \in newest : screen[t] # "loading"

\* Where nobody else reloads and nothing fails during the last poll, "đã đạt trạng thái mong muốn"
\* rests on a list read after the cluster had taken the change.
ReadyIsFresh == op.verdict = "ready" /\ op.alone => op.read >= op.since

\* An operation is under way: it comes to an end, whatever fails and whoever reloads.
Operating == op.at # "none"
===============================================================================
