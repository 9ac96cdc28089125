----------------------------- MODULE MCServerParts -----------------------------
(***************************************************************************)
(* Instances of three parts of the server that share nothing: accounts and *)
(* sessions, the names made for Kubernetes, and the usage the overview     *)
(* shows.  One of them is looked at, the variables of the others stay as   *)
(* they begin.  Accounts are looked at twice: with requests that overlap,  *)
(* on little data, and with one request at a time, on more.                *)
(***************************************************************************)
EXTENDS Accounts, FiniteSets, SequencesExt

CONSTANTS
  TypedNames, AppNames, AppIds, Owners,          \* of K8sNames: what is typed, and ids
  MaxPart, MaxLabel, MaxAccounts, MaxApps,
  Nodes, SizeOf, Uses, Servers, Outcomes,        \* of ResourceUsage
  Thousand, Kilo, PlainCores, Sampled, SampledDisks,
  n1, n2, s1, s2                                 \* nodes and servers of the instance

VARIABLES
  part,                            \* the part that is looked at
  accounts, apps,                  \* of K8sNames
  nodes, metrics, ask              \* of ResourceUsage

Names == INSTANCE K8sNames WITH Usernames <- TypedNames, Ids <- AppIds

Usage == INSTANCE ResourceUsage

ASSUME PartsAssumption == Names!NamesAssumption /\ Usage!UsageAssumption

-------------------------------------------------------------------------------
\* The values that the run gives the constants.

\* A small letter, a capital, a digit, the n a digit gets, a dash, another sign, a blank.
ShortNames == BoundedSeq({"a", "A", "1", "n", "-", "_", " "}, 3)
SomeNames  == BoundedSeq({"a", "1", "-", " "}, 2)

SomeIds    == {<<"1">>, <<"2">>, <<"1", "1">>}
TwoOwners  == {<<"a">>, <<"A">>}

Q(n, unit) == [n |-> n, unit |-> unit]

\* Cores, and memory in Ki, as a kubelet gives them.
TwoSizes == n1 :> [cpu |-> Q(2, ""), memory |-> Q(400, "Ki")]
         @@ n2 :> [cpu |-> Q(1, ""), memory |-> Q(90, "Ki")]

\* Billionths of a core, and memory in Ki, as a metrics server gives them.
InUse == {[cpu |-> Q(500, "n"),  memory |-> Q(80, "Ki")],
          [cpu |-> Q(20, "n"),   memory |-> Q(300, "Ki")],
          [cpu |-> Q(0, "n"),    memory |-> Q(0, "Ki")],
          [cpu |-> Q(1000, "n"), memory |-> Q(90, "Ki")]}

Measured(cpu, used, total, disk) ==
  [cpu |-> cpu, used |-> used, total |-> total, disk |-> disk]

SshOutcomes ==
  {Measured(40, Q(7, "Mi"), Q(2, "Gi"), 10), Measured(75, Q(1, "Gi"), Q(3, "Gi"), 80),
   Measured(10, Q(1, "Gi"), Q(1, "Ti"), 20),
   Measured(None, None, None, None)}

-------------------------------------------------------------------------------
Init ==
  /\ part \in {"overlapping requests", "single requests", "names", "usage"}
  /\ AccountInit /\ Names!NameInit /\ Usage!UsageInit
  /\ part # "usage" => nodes = {}

OneRequestNext ==
  \/ \E t \in Threads : (\A u \in Threads \ {t} : req[u] = Idle) /\ ThreadStep(t)
  \/ SessionExpires \/ Restart

\* At most one account has another password, and at most one is inactive.
FewDiffer ==
  /\ Cardinality({i \in Ids : users[i] # Absent /\ users[i].password # FirstPassword}) <= 1
  /\ Cardinality({i \in Ids : users[i] # Absent /\ users[i].status = "INACTIVE"}) <= 1

\* How much there is of what overlapping requests do not contend for.
FewData ==
  /\ Cardinality({b \in Browsers : cookie[b] # None}) <= 1
  /\ Cardinality({s \in Sessions : session[s] # Absent}) <= 1
  /\ activity.entries <= 1
  /\ \A t \in Threads :
       /\ req[t].password \in {None, FirstPassword} /\ req[t].status \in {None, "ACTIVE"}
       /\ req[t].row # Absent =>
            req[t].row.password = FirstPassword /\ req[t].row.status = "ACTIVE"

Next ==
  \/ /\ part = "overlapping requests" /\ AccountNext /\ FewData'
     /\ UNCHANGED <<part, accounts, apps, nodes, metrics, ask>>
  \/ /\ part = "single requests" /\ OneRequestNext /\ FewDiffer'
     /\ UNCHANGED <<part, accounts, apps, nodes, metrics, ask>>
  \/ part = "names" /\ Names!NameNext /\ UNCHANGED <<part, accountVars, nodes, metrics, ask>>
  \/ part = "usage" /\ Usage!UsageNext /\ UNCHANGED <<part, accountVars, accounts, apps>>

vars == <<part, accountVars, accounts, apps, nodes, metrics, ask>>

Spec == Init /\ [][Next]_vars

\* Browsers, sessions and threads are alike.
Alike == Permutations(Browsers) \cup Permutations(Sessions) \cup Permutations(Threads)

-------------------------------------------------------------------------------
\* The variables of each part have their types.
PartsTypeOK == AccountTypeOK /\ Names!NameTypeOK /\ Usage!UsageTypeOK

\* Where requests wait for each other an account changes in nothing but what one asked
\* for, though every column is written (UserService.updateUser, resetPassword), and the
\* end of a session is entered for its own account as long as there is one, though the
\* account is found by a name (AuthController.logout).
ServedAsAsked == [][part = "single requests" => OnlyTheAsked /\ OwnLogout]_vars

\* Whatever is typed for a name, Kubernetes takes what is made of it
\* (AdminController.sanitizeUserNamespace); two accounts get one namespace, which the
\* deletion of either deletes, only when their names look alike in one of the ways
\* SharersLookAlike lists; and no two applications get one Deployment's name.
NamesHold ==
  /\ Names!NamespacesAreLabels
  /\ Names!SharersLookAlike
  /\ Names!DeploymentsAreDistinct

\* The usage that is shown is that of the nodes that were measured and are still there,
\* though nodes come and go between the calls and numbers lose their units, or else of
\* the servers that answered over SSH (ClusterAdminController.getOverviewResourceUsage).
UsageHolds ==
  /\ [](Usage!UsedIsWithinTotal /\ Usage!AverageIsTrue)
  /\ Usage!SharesAreTrue

===============================================================================
