---------------------------- MODULE AnsibleProofs -----------------------------
(***************************************************************************)
(* What Ansible is used for: building the cluster, the manager of its      *)
(* playbooks, its installation and the editors of its files, on any finite *)
(* inventory, any number of runs, clicks and answers, and of faults, one   *)
(* run after another that may break off anywhere.                          *)
(*                                                                         *)
(* A deployment in which nothing failed by accident makes one cluster of   *)
(* all machines, whatever was there before (DeployRepairs), and does not   *)
(* break off where it finds containerd (DeployCompletes); where joining    *)
(* can succeed it does (WorkersJoined); and a repair leaves the workers    *)
(* that are Ready alone (RepairLeavesReadyAlone).  The inductive invariant *)
(* is BootstrapIInv.  What is left of a run is the end of its playbook     *)
(* (LeftPart), so how many tasks are left says which the next one is;      *)
(* DeployGoes and JoinGoes say what those already done have achieved.      *)
(* Took says what a task does that the rest needs of it.                   *)
(*                                                                         *)
(* The lemmas of the three pages end in ...Step and ...Gives: a step of    *)
(* the page keeps its invariant, which gives its properties.               *)
(* AdminPagesProofs makes theorems of them.                                *)
(***************************************************************************)
EXTENDS MCAdminPages, FiniteSetTheorems, SequenceTheorems, TLAPS

-------------------------------------------------------------------------------
(* The playbooks of the cluster *)

TaskNames ==
  {"reset", "removeConfig", "restartContainerd", "names", "kernel", "containerd", "packages",
   "wipeMaster", "init", "kubeconfig", "token", "calico", "flannel", "ping", "joinCommand",
   "saveScript", "wipeWorker", "join", "verify", "fetchHelm", "helmVersion", "metrics", "ingress",
   "metallb", "addressPool", "nfsServer", "nfsClient", "provisioner", "precheck"}
MasterNames == {"wipeMaster", "init", "kubeconfig", "calico", "flannel", "precheck"}
JoinNames == {"ping", "joinCommand", "saveScript", "wipeWorker", "join"}
BookTasks ==
  {t \in [name : TaskNames, on : {"all", "master", "workers", "targets", "pinged"}, ignored : BOOLEAN] :
     /\ t.name \in MasterNames => t.on = "master"
     /\ t.name \in JoinNames => t.on \in {"workers", "targets", "pinged"}}
PlainTasks == {t \in BookTasks : t.name # "init"}

LEMMA TaskShapes ==
  \A task \in TaskNames, on \in {"all", "master", "workers", "targets", "pinged"} :
    /\ ClusterBootstrap!T(task, on).name = task /\ ClusterBootstrap!T(task, on).on = on
    /\ ClusterBootstrap!T(task, on).ignored = FALSE
    /\ ClusterBootstrap!Ignoring(task, on).name = task /\ ClusterBootstrap!Ignoring(task, on).on = on
    /\ ClusterBootstrap!Ignoring(task, on).ignored = TRUE
    /\ (task \in MasterNames => on = "master")
         /\ (task \in JoinNames => on \in {"workers", "targets", "pinged"}) =>
         ClusterBootstrap!T(task, on) \in BookTasks /\ ClusterBootstrap!Ignoring(task, on) \in BookTasks
BY DEF ClusterBootstrap!T, ClusterBootstrap!Ignoring, BookTasks

LEMMA PlainShapes ==
  \A task \in TaskNames, on \in {"all", "master", "workers", "targets", "pinged"} :
    task # "init" /\ (task \in MasterNames => on = "master")
       /\ (task \in JoinNames => on \in {"workers", "targets", "pinged"}) =>
      ClusterBootstrap!T(task, on) \in PlainTasks /\ ClusterBootstrap!Ignoring(task, on) \in PlainTasks
BY TaskShapes DEF PlainTasks

\* The tasks by their names.
LEMMA NamedTasks ==
  /\ "reset" \in TaskNames /\ "removeConfig" \in TaskNames /\ "restartContainerd" \in TaskNames
  /\ "names" \in TaskNames /\ "kernel" \in TaskNames /\ "containerd" \in TaskNames
  /\ "packages" \in TaskNames /\ "wipeMaster" \in TaskNames /\ "init" \in TaskNames
  /\ "kubeconfig" \in TaskNames /\ "token" \in TaskNames /\ "calico" \in TaskNames
  /\ "flannel" \in TaskNames /\ "ping" \in TaskNames /\ "joinCommand" \in TaskNames
  /\ "saveScript" \in TaskNames /\ "wipeWorker" \in TaskNames /\ "join" \in TaskNames
  /\ "verify" \in TaskNames /\ "fetchHelm" \in TaskNames /\ "helmVersion" \in TaskNames
  /\ "metrics" \in TaskNames /\ "ingress" \in TaskNames /\ "metallb" \in TaskNames
  /\ "addressPool" \in TaskNames /\ "nfsServer" \in TaskNames /\ "nfsClient" \in TaskNames
  /\ "provisioner" \in TaskNames /\ "precheck" \in TaskNames
BY DEF TaskNames

\* Short lists.
LEMMA ListOfOne ==
  ASSUME NEW S, NEW a \in S PROVE <<a>> \in Seq(S) /\ Len(<<a>>) = 1 /\ <<a>>[1] = a
OBVIOUS
LEMMA ListOfTwo ==
  ASSUME NEW S, NEW a \in S, NEW b \in S
  PROVE  <<a, b>> \in Seq(S) /\ Len(<<a, b>>) = 2 /\ <<a, b>>[1] = a /\ <<a, b>>[2] = b
OBVIOUS
LEMMA ListOfThree ==
  ASSUME NEW S, NEW a \in S, NEW b \in S, NEW c \in S
  PROVE  /\ <<a, b, c>> \in Seq(S) /\ Len(<<a, b, c>>) = 3
         /\ <<a, b, c>>[1] = a /\ <<a, b, c>>[2] = b /\ <<a, b, c>>[3] = c
OBVIOUS
LEMMA ListOfFour ==
  ASSUME NEW S, NEW a \in S, NEW b \in S, NEW c \in S, NEW d \in S
  PROVE  /\ <<a, b, c, d>> \in Seq(S) /\ Len(<<a, b, c, d>>) = 4
         /\ <<a, b, c, d>>[1] = a /\ <<a, b, c, d>>[2] = b /\ <<a, b, c, d>>[3] = c
         /\ <<a, b, c, d>>[4] = d
OBVIOUS
LEMMA ListOfFive ==
  ASSUME NEW S, NEW a \in S, NEW b \in S, NEW c \in S, NEW d \in S, NEW e \in S
  PROVE  /\ <<a, b, c, d, e>> \in Seq(S) /\ Len(<<a, b, c, d, e>>) = 5
         /\ <<a, b, c, d, e>>[1] = a /\ <<a, b, c, d, e>>[2] = b /\ <<a, b, c, d, e>>[3] = c
         /\ <<a, b, c, d, e>>[4] = d /\ <<a, b, c, d, e>>[5] = e
OBVIOUS

LEMMA ResetClusterList ==
  /\ ClusterBootstrap!ResetCluster \in Seq(PlainTasks) /\ Len(ClusterBootstrap!ResetCluster) = 3
  /\ ClusterBootstrap!ResetCluster[1] = ClusterBootstrap!Ignoring("reset", "all")
  /\ ClusterBootstrap!ResetCluster[2] = ClusterBootstrap!T("removeConfig", "all")
  /\ ClusterBootstrap!ResetCluster[3] = ClusterBootstrap!T("restartContainerd", "all")
<1>1. ClusterBootstrap!Ignoring("reset", "all") \in PlainTasks
  BY PlainShapes DEF TaskNames, MasterNames, JoinNames
<1>2. ClusterBootstrap!T("removeConfig", "all") \in PlainTasks
  BY PlainShapes DEF TaskNames, MasterNames, JoinNames
<1>3. ClusterBootstrap!T("restartContainerd", "all") \in PlainTasks
  BY PlainShapes DEF TaskNames, MasterNames, JoinNames
<1> QED BY <1>1, <1>2, <1>3, ListOfThree DEF ClusterBootstrap!ResetCluster

LEMMA UpdateHostsList ==
  /\ ClusterBootstrap!UpdateHosts \in Seq(PlainTasks) /\ Len(ClusterBootstrap!UpdateHosts) = 1
  /\ ClusterBootstrap!UpdateHosts[1] = ClusterBootstrap!T("names", "all")
<1>1. ClusterBootstrap!T("names", "all") \in PlainTasks
  BY PlainShapes DEF TaskNames, MasterNames, JoinNames
<1> QED BY <1>1, ListOfOne DEF ClusterBootstrap!UpdateHosts

LEMMA KernelSysctlList ==
  /\ ClusterBootstrap!KernelSysctl \in Seq(PlainTasks) /\ Len(ClusterBootstrap!KernelSysctl) = 1
  /\ ClusterBootstrap!KernelSysctl[1] = ClusterBootstrap!T("kernel", "all")
<1>1. ClusterBootstrap!T("kernel", "all") \in PlainTasks
  BY PlainShapes DEF TaskNames, MasterNames, JoinNames
<1> QED BY <1>1, ListOfOne DEF ClusterBootstrap!KernelSysctl

LEMMA InstallContainerdList ==
  /\ ClusterBootstrap!InstallContainerd \in Seq(PlainTasks) /\ Len(ClusterBootstrap!InstallContainerd) = 2
  /\ ClusterBootstrap!InstallContainerd[1] = ClusterBootstrap!T("containerd", "all")
  /\ ClusterBootstrap!InstallContainerd[2] = ClusterBootstrap!T("restartContainerd", "all")
<1>1. ClusterBootstrap!T("containerd", "all") \in PlainTasks
  BY PlainShapes DEF TaskNames, MasterNames, JoinNames
<1>2. ClusterBootstrap!T("restartContainerd", "all") \in PlainTasks
  BY PlainShapes DEF TaskNames, MasterNames, JoinNames
<1> QED BY <1>1, <1>2, ListOfTwo DEF ClusterBootstrap!InstallContainerd

LEMMA InstallKubernetesList ==
  /\ ClusterBootstrap!InstallKubernetes \in Seq(PlainTasks) /\ Len(ClusterBootstrap!InstallKubernetes) = 1
  /\ ClusterBootstrap!InstallKubernetes[1] = ClusterBootstrap!T("packages", "all")
<1>1. ClusterBootstrap!T("packages", "all") \in PlainTasks
  BY PlainShapes DEF TaskNames, MasterNames, JoinNames
<1> QED BY <1>1, ListOfOne DEF ClusterBootstrap!InstallKubernetes

LEMMA InitMasterList ==
  /\ ClusterBootstrap!InitMaster \in Seq(BookTasks) /\ Len(ClusterBootstrap!InitMaster) = 4
  /\ ClusterBootstrap!InitMaster[1] = ClusterBootstrap!Ignoring("wipeMaster", "master")
  /\ ClusterBootstrap!InitMaster[2] = ClusterBootstrap!T("init", "master")
  /\ ClusterBootstrap!InitMaster[3] = ClusterBootstrap!T("kubeconfig", "master")
  /\ ClusterBootstrap!InitMaster[4] = ClusterBootstrap!T("token", "master")
<1>1. ClusterBootstrap!Ignoring("wipeMaster", "master") \in BookTasks
  BY TaskShapes DEF TaskNames, MasterNames, JoinNames
<1>2. ClusterBootstrap!T("init", "master") \in BookTasks
  BY TaskShapes DEF TaskNames, MasterNames, JoinNames
<1>3. ClusterBootstrap!T("kubeconfig", "master") \in BookTasks
  BY TaskShapes DEF TaskNames, MasterNames, JoinNames
<1>4. ClusterBootstrap!T("token", "master") \in BookTasks
  BY TaskShapes DEF TaskNames, MasterNames, JoinNames
<1> QED BY <1>1, <1>2, <1>3, <1>4, ListOfFour DEF ClusterBootstrap!InitMaster

LEMMA InstallCalicoList ==
  /\ ClusterBootstrap!InstallCalico \in Seq(PlainTasks) /\ Len(ClusterBootstrap!InstallCalico) = 1
  /\ ClusterBootstrap!InstallCalico[1] = ClusterBootstrap!T("calico", "master")
<1>1. ClusterBootstrap!T("calico", "master") \in PlainTasks
  BY PlainShapes DEF TaskNames, MasterNames, JoinNames
<1> QED BY <1>1, ListOfOne DEF ClusterBootstrap!InstallCalico

LEMMA InstallFlannelList ==
  /\ ClusterBootstrap!InstallFlannel \in Seq(PlainTasks) /\ Len(ClusterBootstrap!InstallFlannel) = 1
  /\ ClusterBootstrap!InstallFlannel[1] = ClusterBootstrap!T("flannel", "master")
<1>1. ClusterBootstrap!T("flannel", "master") \in PlainTasks
  BY PlainShapes DEF TaskNames, MasterNames, JoinNames
<1> QED BY <1>1, ListOfOne DEF ClusterBootstrap!InstallFlannel

LEMMA JoinWorkersList ==
  /\ ClusterBootstrap!JoinWorkers \in Seq(PlainTasks) /\ Len(ClusterBootstrap!JoinWorkers) = 5
  /\ ClusterBootstrap!JoinWorkers[1] = ClusterBootstrap!Ignoring("ping", "workers")
  /\ ClusterBootstrap!JoinWorkers[2] = ClusterBootstrap!T("joinCommand", "pinged")
  /\ ClusterBootstrap!JoinWorkers[3] = ClusterBootstrap!Ignoring("saveScript", "pinged")
  /\ ClusterBootstrap!JoinWorkers[4] = ClusterBootstrap!Ignoring("wipeWorker", "pinged")
  /\ ClusterBootstrap!JoinWorkers[5] = ClusterBootstrap!Ignoring("join", "pinged")
<1>1. ClusterBootstrap!Ignoring("ping", "workers") \in PlainTasks
  BY PlainShapes DEF TaskNames, MasterNames, JoinNames
<1>2. ClusterBootstrap!T("joinCommand", "pinged") \in PlainTasks
  BY PlainShapes DEF TaskNames, MasterNames, JoinNames
<1>3. ClusterBootstrap!Ignoring("saveScript", "pinged") \in PlainTasks
  BY PlainShapes DEF TaskNames, MasterNames, JoinNames
<1>4. ClusterBootstrap!Ignoring("wipeWorker", "pinged") \in PlainTasks
  BY PlainShapes DEF TaskNames, MasterNames, JoinNames
<1>5. ClusterBootstrap!Ignoring("join", "pinged") \in PlainTasks
  BY PlainShapes DEF TaskNames, MasterNames, JoinNames
<1> QED BY <1>1, <1>2, <1>3, <1>4, <1>5, ListOfFive DEF ClusterBootstrap!JoinWorkers,
           ClusterBootstrap!Join

LEMMA VerifyClusterList ==
  /\ ClusterBootstrap!VerifyCluster \in Seq(PlainTasks) /\ Len(ClusterBootstrap!VerifyCluster) = 1
  /\ ClusterBootstrap!VerifyCluster[1] = ClusterBootstrap!T("verify", "master")
<1>1. ClusterBootstrap!T("verify", "master") \in PlainTasks
  BY PlainShapes DEF TaskNames, MasterNames, JoinNames
<1> QED BY <1>1, ListOfOne DEF ClusterBootstrap!VerifyCluster

LEMMA InstallHelmList ==
  /\ ClusterBootstrap!InstallHelm \in Seq(PlainTasks) /\ Len(ClusterBootstrap!InstallHelm) = 2
  /\ ClusterBootstrap!InstallHelm[1] = ClusterBootstrap!Ignoring("fetchHelm", "master")
  /\ ClusterBootstrap!InstallHelm[2] = ClusterBootstrap!T("helmVersion", "master")
<1>1. ClusterBootstrap!Ignoring("fetchHelm", "master") \in PlainTasks
  BY PlainShapes DEF TaskNames, MasterNames, JoinNames
<1>2. ClusterBootstrap!T("helmVersion", "master") \in PlainTasks
  BY PlainShapes DEF TaskNames, MasterNames, JoinNames
<1> QED BY <1>1, <1>2, ListOfTwo DEF ClusterBootstrap!InstallHelm

LEMMA InstallMetricsList ==
  /\ ClusterBootstrap!InstallMetrics \in Seq(PlainTasks) /\ Len(ClusterBootstrap!InstallMetrics) = 1
  /\ ClusterBootstrap!InstallMetrics[1] = ClusterBootstrap!T("metrics", "master")
<1>1. ClusterBootstrap!T("metrics", "master") \in PlainTasks
  BY PlainShapes DEF TaskNames, MasterNames, JoinNames
<1> QED BY <1>1, ListOfOne DEF ClusterBootstrap!InstallMetrics

LEMMA InstallIngressList ==
  /\ ClusterBootstrap!InstallIngress \in Seq(PlainTasks) /\ Len(ClusterBootstrap!InstallIngress) = 1
  /\ ClusterBootstrap!InstallIngress[1] = ClusterBootstrap!T("ingress", "master")
<1>1. ClusterBootstrap!T("ingress", "master") \in PlainTasks
  BY PlainShapes DEF TaskNames, MasterNames, JoinNames
<1> QED BY <1>1, ListOfOne DEF ClusterBootstrap!InstallIngress

LEMMA InstallMetallbList ==
  /\ ClusterBootstrap!InstallMetallb \in Seq(PlainTasks) /\ Len(ClusterBootstrap!InstallMetallb) = 2
  /\ ClusterBootstrap!InstallMetallb[1] = ClusterBootstrap!T("metallb", "master")
  /\ ClusterBootstrap!InstallMetallb[2] = ClusterBootstrap!T("addressPool", "master")
<1>1. ClusterBootstrap!T("metallb", "master") \in PlainTasks
  BY PlainShapes DEF TaskNames, MasterNames, JoinNames
<1>2. ClusterBootstrap!T("addressPool", "master") \in PlainTasks
  BY PlainShapes DEF TaskNames, MasterNames, JoinNames
<1> QED BY <1>1, <1>2, ListOfTwo DEF ClusterBootstrap!InstallMetallb

LEMMA SetupStorageList ==
  /\ ClusterBootstrap!SetupStorage \in Seq(PlainTasks) /\ Len(ClusterBootstrap!SetupStorage) = 3
  /\ ClusterBootstrap!SetupStorage[1] = ClusterBootstrap!T("nfsServer", "master")
  /\ ClusterBootstrap!SetupStorage[2] = ClusterBootstrap!T("nfsClient", "all")
  /\ ClusterBootstrap!SetupStorage[3] = ClusterBootstrap!T("provisioner", "master")
<1>1. ClusterBootstrap!T("nfsServer", "master") \in PlainTasks
  BY PlainShapes DEF TaskNames, MasterNames, JoinNames
<1>2. ClusterBootstrap!T("nfsClient", "all") \in PlainTasks
  BY PlainShapes DEF TaskNames, MasterNames, JoinNames
<1>3. ClusterBootstrap!T("provisioner", "master") \in PlainTasks
  BY PlainShapes DEF TaskNames, MasterNames, JoinNames
<1> QED BY <1>1, <1>2, <1>3, ListOfThree DEF ClusterBootstrap!SetupStorage

\* A deployment is its parts in order, with its network plug-in.
DeployWith(Y) ==
  ClusterBootstrap!ResetCluster \o ClusterBootstrap!UpdateHosts \o ClusterBootstrap!KernelSysctl
  \o ClusterBootstrap!InstallContainerd \o ClusterBootstrap!InstallKubernetes
    \o ClusterBootstrap!InitMaster \o Y \o ClusterBootstrap!JoinWorkers \o ClusterBootstrap!VerifyCluster

LEMMA Joined2 ==
  ASSUME NEW S, NEW s \in Seq(S), NEW t \in Seq(S)
  PROVE  /\ s \o t \in Seq(S) /\ Len(s \o t) = Len(s) + Len(t)
         /\ \A i \in 1..Len(s) : (s \o t)[i] = s[i]
         /\ \A i \in 1..Len(t) : (s \o t)[Len(s) + i] = t[i]
<1>1. /\ s \o t \in Seq(S) /\ Len(s \o t) = Len(s) + Len(t)
      /\ \A i \in 1..(Len(s) + Len(t)) : (s \o t)[i] = IF i <= Len(s) THEN s[i] ELSE t[i - Len(s)]
  BY ConcatProperties
<1>2. Len(s) \in Nat /\ Len(t) \in Nat
  OBVIOUS
<1>3. \A i \in 1..Len(s) : i \in 1..(Len(s) + Len(t)) /\ i <= Len(s)
  BY <1>2
<1>4. \A i \in 1..Len(t) : /\ Len(s) + i \in 1..(Len(s) + Len(t)) /\ ~(Len(s) + i <= Len(s))
                          /\ (Len(s) + i) - Len(s) = i
  BY <1>2
<1> QED BY <1>1, <1>3, <1>4

LEMMA PlainAreTasks == PlainTasks \subseteq BookTasks /\ Seq(PlainTasks) \subseteq Seq(BookTasks)
<1>1. PlainTasks \subseteq BookTasks
  BY DEF PlainTasks
<1>2. ASSUME NEW s \in Seq(PlainTasks) PROVE s \in Seq(BookTasks)
  BY <1>1
<1> QED BY <1>1, <1>2

LEMMA DeployTasks ==
  ASSUME NEW Y \in Seq(BookTasks), Len(Y) = 1
  PROVE  /\ DeployWith(Y) \in Seq(BookTasks) /\ Len(DeployWith(Y)) = 19
         /\ DeployWith(Y)[1] = ClusterBootstrap!Ignoring("reset", "all")
         /\ DeployWith(Y)[2] = ClusterBootstrap!T("removeConfig", "all")
         /\ DeployWith(Y)[3] = ClusterBootstrap!T("restartContainerd", "all")
         /\ DeployWith(Y)[4] = ClusterBootstrap!T("names", "all")
         /\ DeployWith(Y)[5] = ClusterBootstrap!T("kernel", "all")
         /\ DeployWith(Y)[6] = ClusterBootstrap!T("containerd", "all")
         /\ DeployWith(Y)[7] = ClusterBootstrap!T("restartContainerd", "all")
         /\ DeployWith(Y)[8] = ClusterBootstrap!T("packages", "all")
         /\ DeployWith(Y)[9] = ClusterBootstrap!Ignoring("wipeMaster", "master")
         /\ DeployWith(Y)[10] = ClusterBootstrap!T("init", "master")
         /\ DeployWith(Y)[11] = ClusterBootstrap!T("kubeconfig", "master")
         /\ DeployWith(Y)[12] = ClusterBootstrap!T("token", "master")
         /\ DeployWith(Y)[13] = Y[1]
         /\ DeployWith(Y)[14] = ClusterBootstrap!Ignoring("ping", "workers")
         /\ DeployWith(Y)[15] = ClusterBootstrap!T("joinCommand", "pinged")
         /\ DeployWith(Y)[16] = ClusterBootstrap!Ignoring("saveScript", "pinged")
         /\ DeployWith(Y)[17] = ClusterBootstrap!Ignoring("wipeWorker", "pinged")
         /\ DeployWith(Y)[18] = ClusterBootstrap!Ignoring("join", "pinged")
         /\ DeployWith(Y)[19] = ClusterBootstrap!T("verify", "master")
<1> DEFINE U == Y
           D1 == ClusterBootstrap!ResetCluster
           D2 == D1 \o ClusterBootstrap!UpdateHosts
           D3 == D2 \o ClusterBootstrap!KernelSysctl
           D4 == D3 \o ClusterBootstrap!InstallContainerd
           D5 == D4 \o ClusterBootstrap!InstallKubernetes
           D6 == D5 \o ClusterBootstrap!InitMaster
           D7 == D6 \o U
           D8 == D7 \o ClusterBootstrap!JoinWorkers
           D9 == D8 \o ClusterBootstrap!VerifyCluster
<1>1. /\ D1 \in Seq(BookTasks) /\ Len(D1) = 3
      /\ D1[1] = ClusterBootstrap!Ignoring("reset", "all")
      /\ D1[2] = ClusterBootstrap!T("removeConfig", "all")
      /\ D1[3] = ClusterBootstrap!T("restartContainerd", "all")
  BY ResetClusterList, PlainAreTasks
<1> HIDE DEF D1, U
<1>2. /\ D2 \in Seq(BookTasks) /\ Len(D2) = 4
      /\ \A i \in 1..3 : D2[i] = D1[i]
      /\ D2[4] = ClusterBootstrap!T("names", "all")
  <2>1. ClusterBootstrap!UpdateHosts \in Seq(BookTasks) /\ Len(ClusterBootstrap!UpdateHosts) = 1
    BY UpdateHostsList, PlainAreTasks
  <2>2. /\ D2 \in Seq(BookTasks) /\ Len(D2) = Len(D1) + Len(ClusterBootstrap!UpdateHosts)
        /\ \A i \in 1..Len(D1) : D2[i] = D1[i]
        /\ \A i \in 1..Len(ClusterBootstrap!UpdateHosts) : D2[Len(D1) + i]
           = ClusterBootstrap!UpdateHosts[i]
    <3>1. D1 \in Seq(BookTasks) /\ ClusterBootstrap!UpdateHosts \in Seq(BookTasks)
      BY <1>1, <2>1
    <3> QED BY <3>1, Joined2
  <2>3. D2[4] = ClusterBootstrap!UpdateHosts[1]
    <3>1. 1 \in 1..1 /\ 3 + 1 = 4
      OBVIOUS
    <3> QED BY <1>1, <2>1, <2>2, <3>1
  <2>4. 3 + 1 = 4
    OBVIOUS
  <2> QED BY <1>1, <2>1, <2>2, <2>3, <2>4, UpdateHostsList
<1> HIDE DEF D2
<1>3. /\ D3 \in Seq(BookTasks) /\ Len(D3) = 5
      /\ \A i \in 1..4 : D3[i] = D2[i]
      /\ D3[5] = ClusterBootstrap!T("kernel", "all")
  <2>1. ClusterBootstrap!KernelSysctl \in Seq(BookTasks) /\ Len(ClusterBootstrap!KernelSysctl) = 1
    BY KernelSysctlList, PlainAreTasks
  <2>2. /\ D3 \in Seq(BookTasks) /\ Len(D3) = Len(D2) + Len(ClusterBootstrap!KernelSysctl)
        /\ \A i \in 1..Len(D2) : D3[i] = D2[i]
        /\ \A i \in 1..Len(ClusterBootstrap!KernelSysctl) : D3[Len(D2) + i]
           = ClusterBootstrap!KernelSysctl[i]
    <3>1. D2 \in Seq(BookTasks) /\ ClusterBootstrap!KernelSysctl \in Seq(BookTasks)
      BY <1>2, <2>1
    <3> QED BY <3>1, Joined2
  <2>3. D3[5] = ClusterBootstrap!KernelSysctl[1]
    <3>1. 1 \in 1..1 /\ 4 + 1 = 5
      OBVIOUS
    <3> QED BY <1>2, <2>1, <2>2, <3>1
  <2>4. 4 + 1 = 5
    OBVIOUS
  <2> QED BY <1>2, <2>1, <2>2, <2>3, <2>4, KernelSysctlList
<1> HIDE DEF D3
<1>4. /\ D4 \in Seq(BookTasks) /\ Len(D4) = 7
      /\ \A i \in 1..5 : D4[i] = D3[i]
      /\ D4[6] = ClusterBootstrap!T("containerd", "all")
      /\ D4[7] = ClusterBootstrap!T("restartContainerd", "all")
  <2>1. ClusterBootstrap!InstallContainerd \in Seq(BookTasks)
        /\ Len(ClusterBootstrap!InstallContainerd) = 2
    BY InstallContainerdList, PlainAreTasks
  <2>2. /\ D4 \in Seq(BookTasks) /\ Len(D4) = Len(D3) + Len(ClusterBootstrap!InstallContainerd)
        /\ \A i \in 1..Len(D3) : D4[i] = D3[i]
        /\ \A i \in 1..Len(ClusterBootstrap!InstallContainerd) : D4[Len(D3) + i]
           = ClusterBootstrap!InstallContainerd[i]
    <3>1. D3 \in Seq(BookTasks) /\ ClusterBootstrap!InstallContainerd \in Seq(BookTasks)
      BY <1>3, <2>1
    <3> QED BY <3>1, Joined2
  <2>3. D4[6] = ClusterBootstrap!InstallContainerd[1]
    <3>1. 1 \in 1..2 /\ 5 + 1 = 6
      OBVIOUS
    <3> QED BY <1>3, <2>1, <2>2, <3>1
  <2>4. D4[7] = ClusterBootstrap!InstallContainerd[2]
    <3>1. 2 \in 1..2 /\ 5 + 2 = 7
      OBVIOUS
    <3> QED BY <1>3, <2>1, <2>2, <3>1
  <2>5. 5 + 2 = 7
    OBVIOUS
  <2> QED BY <1>3, <2>1, <2>2, <2>3, <2>4, <2>5, InstallContainerdList
<1> HIDE DEF D4
<1>5. /\ D5 \in Seq(BookTasks) /\ Len(D5) = 8
      /\ \A i \in 1..7 : D5[i] = D4[i]
      /\ D5[8] = ClusterBootstrap!T("packages", "all")
  <2>1. ClusterBootstrap!InstallKubernetes \in Seq(BookTasks)
        /\ Len(ClusterBootstrap!InstallKubernetes) = 1
    BY InstallKubernetesList, PlainAreTasks
  <2>2. /\ D5 \in Seq(BookTasks) /\ Len(D5) = Len(D4) + Len(ClusterBootstrap!InstallKubernetes)
        /\ \A i \in 1..Len(D4) : D5[i] = D4[i]
        /\ \A i \in 1..Len(ClusterBootstrap!InstallKubernetes) : D5[Len(D4) + i]
           = ClusterBootstrap!InstallKubernetes[i]
    <3>1. D4 \in Seq(BookTasks) /\ ClusterBootstrap!InstallKubernetes \in Seq(BookTasks)
      BY <1>4, <2>1
    <3> QED BY <3>1, Joined2
  <2>3. D5[8] = ClusterBootstrap!InstallKubernetes[1]
    <3>1. 1 \in 1..1 /\ 7 + 1 = 8
      OBVIOUS
    <3> QED BY <1>4, <2>1, <2>2, <3>1
  <2>4. 7 + 1 = 8
    OBVIOUS
  <2> QED BY <1>4, <2>1, <2>2, <2>3, <2>4, InstallKubernetesList
<1> HIDE DEF D5
<1>6. /\ D6 \in Seq(BookTasks) /\ Len(D6) = 12
      /\ \A i \in 1..8 : D6[i] = D5[i]
      /\ D6[9] = ClusterBootstrap!Ignoring("wipeMaster", "master")
      /\ D6[10] = ClusterBootstrap!T("init", "master")
      /\ D6[11] = ClusterBootstrap!T("kubeconfig", "master")
      /\ D6[12] = ClusterBootstrap!T("token", "master")
  <2>1. ClusterBootstrap!InitMaster \in Seq(BookTasks) /\ Len(ClusterBootstrap!InitMaster) = 4
    BY InitMasterList, PlainAreTasks
  <2>2. /\ D6 \in Seq(BookTasks) /\ Len(D6) = Len(D5) + Len(ClusterBootstrap!InitMaster)
        /\ \A i \in 1..Len(D5) : D6[i] = D5[i]
        /\ \A i \in 1..Len(ClusterBootstrap!InitMaster) : D6[Len(D5) + i] = ClusterBootstrap!InitMaster[i]
    <3>1. D5 \in Seq(BookTasks) /\ ClusterBootstrap!InitMaster \in Seq(BookTasks)
      BY <1>5, <2>1
    <3> QED BY <3>1, Joined2
  <2>3. D6[9] = ClusterBootstrap!InitMaster[1]
    <3>1. 1 \in 1..4 /\ 8 + 1 = 9
      OBVIOUS
    <3> QED BY <1>5, <2>1, <2>2, <3>1
  <2>4. D6[10] = ClusterBootstrap!InitMaster[2]
    <3>1. 2 \in 1..4 /\ 8 + 2 = 10
      OBVIOUS
    <3> QED BY <1>5, <2>1, <2>2, <3>1
  <2>5. D6[11] = ClusterBootstrap!InitMaster[3]
    <3>1. 3 \in 1..4 /\ 8 + 3 = 11
      OBVIOUS
    <3> QED BY <1>5, <2>1, <2>2, <3>1
  <2>6. D6[12] = ClusterBootstrap!InitMaster[4]
    <3>1. 4 \in 1..4 /\ 8 + 4 = 12
      OBVIOUS
    <3> QED BY <1>5, <2>1, <2>2, <3>1
  <2>7. 8 + 4 = 12
    OBVIOUS
  <2> QED BY <1>5, <2>1, <2>2, <2>3, <2>4, <2>5, <2>6, <2>7, InitMasterList
<1> HIDE DEF D6
<1>7. /\ D7 \in Seq(BookTasks) /\ Len(D7) = 13
      /\ \A i \in 1..12 : D7[i] = D6[i]
      /\ D7[13] = Y[1]
  <2>1. U \in Seq(BookTasks) /\ Len(U) = 1
    BY DEF U
  <2>2. /\ D7 \in Seq(BookTasks) /\ Len(D7) = Len(D6) + Len(U)
        /\ \A i \in 1..Len(D6) : D7[i] = D6[i]
        /\ \A i \in 1..Len(U) : D7[Len(D6) + i] = U[i]
    <3>1. D6 \in Seq(BookTasks) /\ U \in Seq(BookTasks)
      BY <1>6, <2>1
    <3> QED BY <3>1, Joined2
  <2>3. D7[13] = U[1]
    <3>1. 1 \in 1..1 /\ 12 + 1 = 13
      OBVIOUS
    <3> QED BY <1>6, <2>1, <2>2, <3>1
  <2>4. 12 + 1 = 13
    OBVIOUS
  <2> QED BY <1>6, <2>1, <2>2, <2>3, <2>4 DEF U
<1> HIDE DEF D7
<1>8. /\ D8 \in Seq(BookTasks) /\ Len(D8) = 18
      /\ \A i \in 1..13 : D8[i] = D7[i]
      /\ D8[14] = ClusterBootstrap!Ignoring("ping", "workers")
      /\ D8[15] = ClusterBootstrap!T("joinCommand", "pinged")
      /\ D8[16] = ClusterBootstrap!Ignoring("saveScript", "pinged")
      /\ D8[17] = ClusterBootstrap!Ignoring("wipeWorker", "pinged")
      /\ D8[18] = ClusterBootstrap!Ignoring("join", "pinged")
  <2>1. ClusterBootstrap!JoinWorkers \in Seq(BookTasks) /\ Len(ClusterBootstrap!JoinWorkers) = 5
    BY JoinWorkersList, PlainAreTasks
  <2>2. /\ D8 \in Seq(BookTasks) /\ Len(D8) = Len(D7) + Len(ClusterBootstrap!JoinWorkers)
        /\ \A i \in 1..Len(D7) : D8[i] = D7[i]
        /\ \A i \in 1..Len(ClusterBootstrap!JoinWorkers) : D8[Len(D7) + i]
           = ClusterBootstrap!JoinWorkers[i]
    <3>1. D7 \in Seq(BookTasks) /\ ClusterBootstrap!JoinWorkers \in Seq(BookTasks)
      BY <1>7, <2>1
    <3> QED BY <3>1, Joined2
  <2>3. D8[14] = ClusterBootstrap!JoinWorkers[1]
    <3>1. 1 \in 1..5 /\ 13 + 1 = 14
      OBVIOUS
    <3> QED BY <1>7, <2>1, <2>2, <3>1
  <2>4. D8[15] = ClusterBootstrap!JoinWorkers[2]
    <3>1. 2 \in 1..5 /\ 13 + 2 = 15
      OBVIOUS
    <3> QED BY <1>7, <2>1, <2>2, <3>1
  <2>5. D8[16] = ClusterBootstrap!JoinWorkers[3]
    <3>1. 3 \in 1..5 /\ 13 + 3 = 16
      OBVIOUS
    <3> QED BY <1>7, <2>1, <2>2, <3>1
  <2>6. D8[17] = ClusterBootstrap!JoinWorkers[4]
    <3>1. 4 \in 1..5 /\ 13 + 4 = 17
      OBVIOUS
    <3> QED BY <1>7, <2>1, <2>2, <3>1
  <2>7. D8[18] = ClusterBootstrap!JoinWorkers[5]
    <3>1. 5 \in 1..5 /\ 13 + 5 = 18
      OBVIOUS
    <3> QED BY <1>7, <2>1, <2>2, <3>1
  <2>8. 13 + 5 = 18
    OBVIOUS
  <2> QED BY <1>7, <2>1, <2>2, <2>3, <2>4, <2>5, <2>6, <2>7, <2>8, JoinWorkersList
<1> HIDE DEF D8
<1>9. /\ D9 \in Seq(BookTasks) /\ Len(D9) = 19
      /\ \A i \in 1..18 : D9[i] = D8[i]
      /\ D9[19] = ClusterBootstrap!T("verify", "master")
  <2>1. ClusterBootstrap!VerifyCluster \in Seq(BookTasks) /\ Len(ClusterBootstrap!VerifyCluster) = 1
    BY VerifyClusterList, PlainAreTasks
  <2>2. /\ D9 \in Seq(BookTasks) /\ Len(D9) = Len(D8) + Len(ClusterBootstrap!VerifyCluster)
        /\ \A i \in 1..Len(D8) : D9[i] = D8[i]
        /\ \A i \in 1..Len(ClusterBootstrap!VerifyCluster) : D9[Len(D8) + i]
           = ClusterBootstrap!VerifyCluster[i]
    <3>1. D8 \in Seq(BookTasks) /\ ClusterBootstrap!VerifyCluster \in Seq(BookTasks)
      BY <1>8, <2>1
    <3> QED BY <3>1, Joined2
  <2>3. D9[19] = ClusterBootstrap!VerifyCluster[1]
    <3>1. 1 \in 1..1 /\ 18 + 1 = 19
      OBVIOUS
    <3> QED BY <1>8, <2>1, <2>2, <3>1
  <2>4. 18 + 1 = 19
    OBVIOUS
  <2> QED BY <1>8, <2>1, <2>2, <2>3, <2>4, VerifyClusterList
<1> HIDE DEF D9
<1>10. D9 = DeployWith(Y)
  BY DEF U, D1, D2, D3, D4, D5, D6, D7, D8, D9, DeployWith
<1> QED BY <1>1, <1>2, <1>3, <1>4, <1>5, <1>6, <1>7, <1>8, <1>9, <1>10

LEMMA PrepareAndJoinList ==
  /\ ClusterBootstrap!PrepareAndJoin \in Seq(PlainTasks) /\ Len(ClusterBootstrap!PrepareAndJoin) = 10
  /\ ClusterBootstrap!PrepareAndJoin[1] = ClusterBootstrap!Ignoring("precheck", "master")
  /\ ClusterBootstrap!PrepareAndJoin[2] = ClusterBootstrap!T("kernel", "targets")
  /\ ClusterBootstrap!PrepareAndJoin[3] = ClusterBootstrap!T("containerd", "targets")
  /\ ClusterBootstrap!PrepareAndJoin[4] = ClusterBootstrap!T("restartContainerd", "targets")
  /\ ClusterBootstrap!PrepareAndJoin[5] = ClusterBootstrap!T("packages", "targets")
  /\ ClusterBootstrap!PrepareAndJoin[6] = ClusterBootstrap!Ignoring("ping", "targets")
  /\ ClusterBootstrap!PrepareAndJoin[7] = ClusterBootstrap!T("joinCommand", "pinged")
  /\ ClusterBootstrap!PrepareAndJoin[8] = ClusterBootstrap!Ignoring("saveScript", "pinged")
  /\ ClusterBootstrap!PrepareAndJoin[9] = ClusterBootstrap!Ignoring("wipeWorker", "pinged")
  /\ ClusterBootstrap!PrepareAndJoin[10] = ClusterBootstrap!Ignoring("join", "pinged")
<1> DEFINE P == <<ClusterBootstrap!Ignoring("precheck", "master"), ClusterBootstrap!T("kernel",
           "targets"), ClusterBootstrap!T("containerd", "targets"),
                 ClusterBootstrap!T("restartContainerd", "targets"), ClusterBootstrap!T("packages",
                 "targets")>>
           J == ClusterBootstrap!Join("targets")
<1>1. ClusterBootstrap!Ignoring("precheck", "master") \in PlainTasks
  BY PlainShapes DEF TaskNames, MasterNames, JoinNames
<1>2. ClusterBootstrap!T("kernel", "targets") \in PlainTasks
  BY PlainShapes DEF TaskNames, MasterNames, JoinNames
<1>3. ClusterBootstrap!T("containerd", "targets") \in PlainTasks
  BY PlainShapes DEF TaskNames, MasterNames, JoinNames
<1>4. ClusterBootstrap!T("restartContainerd", "targets") \in PlainTasks
  BY PlainShapes DEF TaskNames, MasterNames, JoinNames
<1>5. ClusterBootstrap!T("packages", "targets") \in PlainTasks
  BY PlainShapes DEF TaskNames, MasterNames, JoinNames
<1>6. ClusterBootstrap!Ignoring("ping", "targets") \in PlainTasks
  BY PlainShapes DEF TaskNames, MasterNames, JoinNames
<1>7. ClusterBootstrap!T("joinCommand", "pinged") \in PlainTasks
  BY PlainShapes DEF TaskNames, MasterNames, JoinNames
<1>8. ClusterBootstrap!Ignoring("saveScript", "pinged") \in PlainTasks
  BY PlainShapes DEF TaskNames, MasterNames, JoinNames
<1>9. ClusterBootstrap!Ignoring("wipeWorker", "pinged") \in PlainTasks
  BY PlainShapes DEF TaskNames, MasterNames, JoinNames
<1>10. ClusterBootstrap!Ignoring("join", "pinged") \in PlainTasks
  BY PlainShapes DEF TaskNames, MasterNames, JoinNames
<1>11. /\ P \in Seq(PlainTasks) /\ Len(P) = 5
       /\ P[1] = ClusterBootstrap!Ignoring("precheck", "master")
       /\ P[2] = ClusterBootstrap!T("kernel", "targets")
       /\ P[3] = ClusterBootstrap!T("containerd", "targets")
       /\ P[4] = ClusterBootstrap!T("restartContainerd", "targets")
       /\ P[5] = ClusterBootstrap!T("packages", "targets")
  BY <1>1, <1>2, <1>3, <1>4, <1>5, ListOfFive
<1>12. /\ J \in Seq(PlainTasks) /\ Len(J) = 5
       /\ J[1] = ClusterBootstrap!Ignoring("ping", "targets")
       /\ J[2] = ClusterBootstrap!T("joinCommand", "pinged")
       /\ J[3] = ClusterBootstrap!Ignoring("saveScript", "pinged")
       /\ J[4] = ClusterBootstrap!Ignoring("wipeWorker", "pinged")
       /\ J[5] = ClusterBootstrap!Ignoring("join", "pinged")
  BY <1>6, <1>7, <1>8, <1>9, <1>10, ListOfFive DEF ClusterBootstrap!Join
<1>13. ClusterBootstrap!PrepareAndJoin = P \o J
  BY DEF ClusterBootstrap!PrepareAndJoin
<1> HIDE DEF P, J
<1>14. /\ P \o J \in Seq(PlainTasks) /\ Len(P \o J) = Len(P) + Len(J)
       /\ \A i \in 1..Len(P) : (P \o J)[i] = P[i]
       /\ \A i \in 1..Len(J) : (P \o J)[Len(P) + i] = J[i]
  <2>1. P \in Seq(PlainTasks) /\ J \in Seq(PlainTasks)
    BY <1>11, <1>12
  <2> QED BY <2>1, Joined2
<1>15. /\ \A i \in 1..5 : (P \o J)[i] = P[i]
       /\ (P \o J)[6] = J[1] /\ (P \o J)[7] = J[2] /\ (P \o J)[8] = J[3]
       /\ (P \o J)[9] = J[4] /\ (P \o J)[10] = J[5]
  <2>1. /\ 5 + 1 = 6 /\ 5 + 2 = 7 /\ 5 + 3 = 8 /\ 5 + 4 = 9 /\ 5 + 5 = 10
        /\ 1 \in 1..5 /\ 2 \in 1..5 /\ 3 \in 1..5 /\ 4 \in 1..5 /\ 5 \in 1..5
    OBVIOUS
  <2>2. Len(P) = 5 /\ Len(J) = 5
    BY <1>11, <1>12
  <2> QED BY <1>14, <2>1, <2>2
<1>16. Len(P \o J) = 10
  BY <1>11, <1>12, <1>14
<1> QED BY <1>11, <1>12, <1>13, <1>14, <1>15, <1>16

BookNames ==
  {"reset", "hosts", "kernel", "containerd", "kubernetes", "init", "calico", "flannel", "join",
   "verify", "helm", "metrics", "ingress", "metallb", "storage", "prepareJoin", "deploy",
   "deployFlannel"}
Deployments == {"deploy", "deployFlannel"}
WithInit == {"init"} \cup Deployments

LEMMA BookLists ==
  /\ DOMAIN ClusterBootstrap!TasksOf = BookNames
  /\ \A book \in BookNames : ClusterBootstrap!TasksOf[book] \in Seq(BookTasks)
  /\ \A book \in BookNames \ WithInit : ClusterBootstrap!TasksOf[book] \in Seq(PlainTasks)
  /\ ClusterBootstrap!TasksOf["init"] = ClusterBootstrap!InitMaster
     /\ ClusterBootstrap!TasksOf["join"] = ClusterBootstrap!JoinWorkers
  /\ ClusterBootstrap!TasksOf["prepareJoin"] = ClusterBootstrap!PrepareAndJoin
  /\ ClusterBootstrap!TasksOf["deploy"] = DeployWith(ClusterBootstrap!InstallCalico)
  /\ ClusterBootstrap!TasksOf["deployFlannel"] = DeployWith(ClusterBootstrap!InstallFlannel)
<1>1. DOMAIN ClusterBootstrap!TasksOf = BookNames
  BY DEF ClusterBootstrap!TasksOf, BookNames
<1>2. /\ ClusterBootstrap!TasksOf["reset"] = ClusterBootstrap!ResetCluster
      /\ ClusterBootstrap!TasksOf["hosts"] = ClusterBootstrap!UpdateHosts
      /\ ClusterBootstrap!TasksOf["kernel"] = ClusterBootstrap!KernelSysctl
      /\ ClusterBootstrap!TasksOf["containerd"] = ClusterBootstrap!InstallContainerd
      /\ ClusterBootstrap!TasksOf["kubernetes"] = ClusterBootstrap!InstallKubernetes
      /\ ClusterBootstrap!TasksOf["init"] = ClusterBootstrap!InitMaster
      /\ ClusterBootstrap!TasksOf["calico"] = ClusterBootstrap!InstallCalico
      /\ ClusterBootstrap!TasksOf["flannel"] = ClusterBootstrap!InstallFlannel
      /\ ClusterBootstrap!TasksOf["join"] = ClusterBootstrap!JoinWorkers
      /\ ClusterBootstrap!TasksOf["verify"] = ClusterBootstrap!VerifyCluster
      /\ ClusterBootstrap!TasksOf["helm"] = ClusterBootstrap!InstallHelm
      /\ ClusterBootstrap!TasksOf["metrics"] = ClusterBootstrap!InstallMetrics
      /\ ClusterBootstrap!TasksOf["ingress"] = ClusterBootstrap!InstallIngress
      /\ ClusterBootstrap!TasksOf["metallb"] = ClusterBootstrap!InstallMetallb
      /\ ClusterBootstrap!TasksOf["storage"] = ClusterBootstrap!SetupStorage
      /\ ClusterBootstrap!TasksOf["prepareJoin"] = ClusterBootstrap!PrepareAndJoin
      /\ ClusterBootstrap!TasksOf["deploy"] = ClusterBootstrap!Deploy
      /\ ClusterBootstrap!TasksOf["deployFlannel"] = ClusterBootstrap!DeployFlannel
  BY DEF ClusterBootstrap!TasksOf
<1>3. /\ ClusterBootstrap!Deploy = DeployWith(ClusterBootstrap!InstallCalico)
      /\ ClusterBootstrap!DeployFlannel = DeployWith(ClusterBootstrap!InstallFlannel)
  BY DEF ClusterBootstrap!Deploy, ClusterBootstrap!DeployFlannel, DeployWith
<1>4. /\ DeployWith(ClusterBootstrap!InstallCalico) \in Seq(BookTasks)
      /\ DeployWith(ClusterBootstrap!InstallFlannel) \in Seq(BookTasks)
  <2>1. ClusterBootstrap!InstallCalico \in Seq(BookTasks) /\ Len(ClusterBootstrap!InstallCalico) = 1
    BY InstallCalicoList, PlainAreTasks
  <2>2. ClusterBootstrap!InstallFlannel \in Seq(BookTasks) /\ Len(ClusterBootstrap!InstallFlannel) = 1
    BY InstallFlannelList, PlainAreTasks
  <2>3. DeployWith(ClusterBootstrap!InstallCalico) \in Seq(BookTasks)
    BY <2>1, DeployTasks
  <2>4. DeployWith(ClusterBootstrap!InstallFlannel) \in Seq(BookTasks)
    BY <2>2, DeployTasks
  <2> QED BY <2>3, <2>4
<1>5. \A book \in BookNames \ WithInit : ClusterBootstrap!TasksOf[book] \in Seq(PlainTasks)
  BY <1>2, ResetClusterList, UpdateHostsList, KernelSysctlList, InstallContainerdList,
     InstallKubernetesList, InstallCalicoList, InstallFlannelList, JoinWorkersList,
     VerifyClusterList, InstallHelmList, InstallMetricsList, InstallIngressList, InstallMetallbList,
     SetupStorageList, PrepareAndJoinList
  DEF BookNames, WithInit, Deployments
<1>6. \A book \in WithInit : ClusterBootstrap!TasksOf[book] \in Seq(BookTasks)
  BY <1>2, <1>3, <1>4, InitMasterList DEF WithInit, Deployments
<1> QED BY <1>1, <1>2, <1>3, <1>5, <1>6, PlainAreTasks

-------------------------------------------------------------------------------
(* What holds while they run *)

RunFields ==
  {"book", "left", "targets", "pinged", "ready", "token", "hit", "prepared", "outcome"}

\* What the machines and the run may be.
MachineValues ==
  /\ done \in [ClusterBootstrap!Hosts -> SUBSET (ClusterBootstrap!Installs \cup {"helm"})]
  /\ member \in [ClusterBootstrap!Hosts -> ClusterBootstrap!Clusters]
  /\ etcd \in ClusterBootstrap!Clusters /\ admin \in ClusterBootstrap!Clusters
     /\ made \in ClusterBootstrap!Clusters
  /\ script \in [Workers -> ClusterBootstrap!Clusters]
  /\ registered \subseteq Workers /\ network \subseteq ClusterBootstrap!Networks
RunValues ==
  /\ DOMAIN run = RunFields
  /\ run.outcome \in {"running", "ok", "failed"} /\ run.token \in ClusterBootstrap!Clusters
  /\ run.targets \subseteq Workers /\ run.pinged \subseteq Workers /\ run.ready \subseteq Workers
PreparedPart == run.prepared \in BOOLEAN
FaultValues == online \subseteq ClusterBootstrap!Hosts /\ faults \in 0..MaxFaults

\* What is left of a run is the end of its playbook.
Goes == run.outcome = "running"
TasksLeft == Len(run.left)
LeftPart ==
  Goes =>
    /\ run.book \in BookNames /\ run.left \in Seq(BookTasks)
    /\ TasksLeft <= Len(ClusterBootstrap!TasksOf[run.book])
    /\ \A j \in 1..TasksLeft :
         run.left[j]
         = ClusterBootstrap!TasksOf[run.book][Len(ClusterBootstrap!TasksOf[run.book]) - TasksLeft + j]

\* A run that has not initialized yet may still make a cluster.
InitPart ==
  Goes =>
    /\ run.book = "init" /\ TasksLeft >= 3 => made < MaxClusters
    /\ run.book \in Deployments /\ TasksLeft >= 10 => made < MaxClusters

\* A master that runs no cluster has no network; one that does has the packages.
MasterPart ==
  /\ member[Master] = 0 => network = {}
  /\ member[Master] # 0 => "packages" \in done[Master]

\* Nothing failed by accident but the cleaning tasks, which ignore errors.
Clean == run.hit \subseteq {"reset"}

\* What a deployment has achieved, by what is left of it.
DeployGoes(n) ==
  /\ n <= 18 => online = ClusterBootstrap!Hosts
  /\ n <= 14 => \A h \in ClusterBootstrap!Hosts : "kernel" \in done[h]
  /\ n <= 13 => \A h \in ClusterBootstrap!Hosts : "containerd" \in done[h]
  /\ n <= 11 => \A h \in ClusterBootstrap!Hosts : "packages" \in done[h]
  /\ n = 10 => member[Master] = 0 /\ etcd = 0
  /\ n <= 9 => member[Master] # 0
  /\ n <= 8 => admin = member[Master]
  /\ n <= 6 => network # {}
  /\ run.prepared = TRUE => \A h \in ClusterBootstrap!Hosts : "containerd" \in done[h]
DeployDone ==
  /\ member[Master] # 0 /\ admin = member[Master] /\ network # {}
  /\ \A h \in ClusterBootstrap!Hosts : {"containerd", "packages"} \subseteq done[h]
DeployPart ==
  run.book \in Deployments =>
    /\ Goes /\ Clean => DeployGoes(TasksLeft)
    /\ run.outcome = "ok" /\ Clean => DeployDone
    /\ run.outcome = "failed" => ~Clean \/ run.prepared # TRUE

\* What joining has achieved of the workers it is for, by what is left of it.
Joining == {"join", "prepareJoin"} \cup Deployments
Goal == IF run.book = "prepareJoin" THEN run.targets ELSE Workers
JoinLeft(n) == IF run.book \in Deployments THEN n - 1 ELSE n
JoinDone ==
  \A w \in Goal : {"containerd", "packages"} \subseteq done[w] => member[w] = member[Master]
JoinGoes(n) ==
  /\ JoinLeft(n) <= 4 => run.pinged = Goal
  /\ JoinLeft(n) <= 3 /\ Goal # {} =>
       run.token = member[Master] /\ member[Master] # 0 /\ Master \in online
  /\ JoinLeft(n) <= 2 => \A w \in Goal : script[w] = member[Master]
  /\ JoinLeft(n) = 1 => \A w \in Goal : member[w] = 0
  /\ JoinLeft(n) <= 0 => JoinDone
  /\ run.book = "prepareJoin" /\ n <= 9 => \A w \in Workers \ run.targets : member[w] = member[Master]
JoinPart ==
  run.book \in Joining /\ Clean =>
    /\ Goes => JoinGoes(TasksLeft)
    /\ run.outcome = "ok" =>
         /\ JoinDone
         /\ run.book = "prepareJoin" => \A w \in Workers \ run.targets : member[w] = member[Master]

\* The workers that the cluster shows Ready are no target of a repair.
RepairPart ==
  run.book = "prepareJoin" =>
    /\ Goes /\ TasksLeft = 10 => run.ready = {} /\ run.pinged = {}
    /\ run.pinged \subseteq run.targets
    /\ "precheck" \notin run.hit /\ admin = member[Master] => run.ready \cap run.targets = {}

BootstrapIInv ==
  /\ MachineValues /\ RunValues /\ FaultValues /\ LeftPart /\ InitPart /\ MasterPart
  /\ PreparedPart /\ DeployPart /\ JoinPart /\ RepairPart

LEMMA BootNats ==
  /\ MaxClusters \in Nat /\ MaxFaults \in Nat /\ Master \notin Workers
  /\ Books \subseteq BookNames /\ IsFiniteSet(ClusterBootstrap!Hosts)
<1>1. /\ MaxClusters \in Nat /\ MaxFaults \in Nat /\ Master \notin Workers
      /\ Books \subseteq DOMAIN ClusterBootstrap!TasksOf /\ IsFiniteSet(Workers)
  <2>1. ClusterBootstrap!BootstrapAssumption
    BY PagesAssumption
  <2> QED BY <2>1 DEF ClusterBootstrap!BootstrapAssumption, ClusterBootstrap!IsFiniteSet, IsFiniteSet
<1>2. IsFiniteSet({Master}) /\ IsFiniteSet(Workers)
  BY <1>1, FS_Singleton
<1>3. IsFiniteSet({Master} \cup Workers)
  BY <1>2, FS_Union
<1> QED BY <1>1, <1>3, BookLists DEF ClusterBootstrap!Hosts

LEMMA BootHosts == Master \in ClusterBootstrap!Hosts /\ Workers \subseteq ClusterBootstrap!Hosts
      /\ ClusterBootstrap!Hosts = {Master} \cup Workers
BY DEF ClusterBootstrap!Hosts

\* Where a task of a list is from the end of its playbook.
LEMMA BootHead ==
  ASSUME LeftPart, Goes, run.left # <<>>
  PROVE  /\ run.book \in BookNames /\ Head(run.left) \in BookTasks
         /\ TasksLeft \in Nat /\ TasksLeft >= 1 /\ TasksLeft <= Len(ClusterBootstrap!TasksOf[run.book])
         /\ Head(run.left)
            = ClusterBootstrap!TasksOf[run.book][Len(ClusterBootstrap!TasksOf[run.book]) - TasksLeft + 1]
         /\ Tail(run.left) \in Seq(BookTasks) /\ Len(Tail(run.left)) = TasksLeft - 1
         /\ \A j \in 1..(TasksLeft - 1) : Tail(run.left)[j] =
              ClusterBootstrap!TasksOf[run.book][Len(ClusterBootstrap!TasksOf[run.book]) - (TasksLeft - 1) + j]
<1> DEFINE l == run.left
           o == ClusterBootstrap!TasksOf[run.book]
<1>1. /\ run.book \in BookNames /\ l \in Seq(BookTasks) /\ Len(l) <= Len(o) /\ l # <<>>
      /\ \A j \in 1..Len(l) : l[j] = o[Len(o) - Len(l) + j]
  BY DEF LeftPart, TasksLeft
<1>2. o \in Seq(BookTasks)
  BY <1>1, BookLists
<1> HIDE DEF l, o
<1>3. /\ Len(l) \in Nat /\ Len(o) \in Nat
  BY <1>1, <1>2
<1>4. /\ Head(l) \in BookTasks /\ Tail(l) \in Seq(BookTasks) /\ Len(Tail(l)) = Len(l) - 1
      /\ \A i \in 1..Len(Tail(l)) : Tail(l)[i] = l[i + 1]
  BY <1>1, HeadTailProperties
<1>5. Len(l) >= 1
  BY <1>1, <1>3, EmptySeq
<1>6. Head(l) = l[1]
  BY <1>1
<1>7. Head(l) = o[Len(o) - Len(l) + 1]
  BY <1>1, <1>3, <1>5, <1>6
<1>8. ASSUME NEW j \in 1..(Len(l) - 1) PROVE Tail(l)[j] = o[Len(o) - (Len(l) - 1) + j]
  <2>1. Tail(l)[j] = l[j + 1]
    BY <1>4
  <2>2. j + 1 \in 1..Len(l) /\ Len(o) - Len(l) + (j + 1) = Len(o) - (Len(l) - 1) + j
    BY <1>3
  <2> QED BY <1>1, <2>1, <2>2
<1> QED BY <1>1, <1>3, <1>4, <1>5, <1>7, <1>8 DEF l, o, TasksLeft

LEMMA DeployAt ==
  ASSUME LeftPart, Goes, run.left # <<>>, run.book \in Deployments
  PROVE  /\ TasksLeft \in 1..19
         /\ TasksLeft = 19 =>
              Head(run.left).name = "reset" /\ Head(run.left).on = "all" /\ Head(run.left).ignored = TRUE
         /\ TasksLeft = 18 =>
              Head(run.left).name = "removeConfig" /\ Head(run.left).on = "all"
              /\ Head(run.left).ignored = FALSE
         /\ TasksLeft = 17 =>
              Head(run.left).name = "restartContainerd" /\ Head(run.left).on = "all"
              /\ Head(run.left).ignored = FALSE
         /\ TasksLeft = 16 =>
              Head(run.left).name = "names" /\ Head(run.left).on = "all" /\ Head(run.left).ignored = FALSE
         /\ TasksLeft = 15 =>
              Head(run.left).name = "kernel" /\ Head(run.left).on = "all" /\ Head(run.left).ignored
              = FALSE
         /\ TasksLeft = 14 =>
              Head(run.left).name = "containerd" /\ Head(run.left).on = "all"
              /\ Head(run.left).ignored = FALSE
         /\ TasksLeft = 13 =>
              Head(run.left).name = "restartContainerd" /\ Head(run.left).on = "all"
              /\ Head(run.left).ignored = FALSE
         /\ TasksLeft = 12 =>
              Head(run.left).name = "packages" /\ Head(run.left).on = "all"
              /\ Head(run.left).ignored = FALSE
         /\ TasksLeft = 11 =>
              Head(run.left).name = "wipeMaster" /\ Head(run.left).on = "master"
              /\ Head(run.left).ignored = TRUE
         /\ TasksLeft = 10 =>
              Head(run.left).name = "init" /\ Head(run.left).on = "master" /\ Head(run.left).ignored
              = FALSE
         /\ TasksLeft = 9 =>
              Head(run.left).name = "kubeconfig" /\ Head(run.left).on = "master"
              /\ Head(run.left).ignored = FALSE
         /\ TasksLeft = 8 =>
              Head(run.left).name = "token" /\ Head(run.left).on = "master"
              /\ Head(run.left).ignored = FALSE
         /\ TasksLeft = 7 =>
              Head(run.left).name \in ClusterBootstrap!Networks /\ Head(run.left).on = "master"
              /\ Head(run.left).ignored = FALSE
         /\ TasksLeft = 6 =>
              Head(run.left).name = "ping" /\ Head(run.left).on = "workers"
              /\ Head(run.left).ignored = TRUE
         /\ TasksLeft = 5 =>
              Head(run.left).name = "joinCommand" /\ Head(run.left).on = "pinged"
              /\ Head(run.left).ignored = FALSE
         /\ TasksLeft = 4 =>
              Head(run.left).name = "saveScript" /\ Head(run.left).on = "pinged"
              /\ Head(run.left).ignored = TRUE
         /\ TasksLeft = 3 =>
              Head(run.left).name = "wipeWorker" /\ Head(run.left).on = "pinged"
              /\ Head(run.left).ignored = TRUE
         /\ TasksLeft = 2 =>
              Head(run.left).name = "join" /\ Head(run.left).on = "pinged" /\ Head(run.left).ignored
              = TRUE
         /\ TasksLeft = 1 =>
              Head(run.left).name = "verify" /\ Head(run.left).on = "master"
              /\ Head(run.left).ignored = FALSE
<1> DEFINE Y == IF run.book
           = "deploy" THEN ClusterBootstrap!InstallCalico ELSE ClusterBootstrap!InstallFlannel
           o == DeployWith(Y)
<1>1. /\ Y \in Seq(BookTasks) /\ Len(Y) = 1
      /\ Y[1].name \in ClusterBootstrap!Networks /\ Y[1].on = "master" /\ Y[1].ignored = FALSE
  BY InstallCalicoList, InstallFlannelList, PlainAreTasks, TaskShapes DEF ClusterBootstrap!Networks,
     TaskNames
<1>2. ClusterBootstrap!TasksOf[run.book] = o
  BY BookLists DEF Deployments
<1> HIDE DEF Y
<1>3. /\ Len(o) = 19
      /\ o[1] = ClusterBootstrap!Ignoring("reset", "all")
      /\ o[2] = ClusterBootstrap!T("removeConfig", "all")
      /\ o[3] = ClusterBootstrap!T("restartContainerd", "all")
      /\ o[4] = ClusterBootstrap!T("names", "all")
      /\ o[5] = ClusterBootstrap!T("kernel", "all")
      /\ o[6] = ClusterBootstrap!T("containerd", "all")
      /\ o[7] = ClusterBootstrap!T("restartContainerd", "all")
      /\ o[8] = ClusterBootstrap!T("packages", "all")
      /\ o[9] = ClusterBootstrap!Ignoring("wipeMaster", "master")
      /\ o[10] = ClusterBootstrap!T("init", "master")
      /\ o[11] = ClusterBootstrap!T("kubeconfig", "master")
      /\ o[12] = ClusterBootstrap!T("token", "master")
      /\ o[13] = Y[1]
      /\ o[14] = ClusterBootstrap!Ignoring("ping", "workers")
      /\ o[15] = ClusterBootstrap!T("joinCommand", "pinged")
      /\ o[16] = ClusterBootstrap!Ignoring("saveScript", "pinged")
      /\ o[17] = ClusterBootstrap!Ignoring("wipeWorker", "pinged")
      /\ o[18] = ClusterBootstrap!Ignoring("join", "pinged")
      /\ o[19] = ClusterBootstrap!T("verify", "master")
  BY <1>1, DeployTasks
<1> HIDE DEF o
<1>4. /\ TasksLeft \in Nat /\ TasksLeft >= 1 /\ TasksLeft <= Len(o)
      /\ Head(run.left) = o[Len(o) - TasksLeft + 1]
  BY <1>2, BootHead
<1>5. TasksLeft \in 1..19 /\ Head(run.left) = o[20 - TasksLeft]
  <2>1. TasksLeft \in 1..19 /\ Len(o) - TasksLeft + 1 = 20 - TasksLeft
    BY <1>3, <1>4
  <2> QED BY <1>4, <2>1
<1>6. ASSUME TasksLeft = 19
      PROVE  Head(run.left).name = "reset" /\ Head(run.left).on = "all" /\ Head(run.left).ignored = TRUE
  <2>1. Head(run.left) = ClusterBootstrap!Ignoring("reset", "all")
    BY <1>3, <1>5, <1>6
  <2> QED BY <2>1, TaskShapes, NamedTasks
<1>7. ASSUME TasksLeft = 18
      PROVE  Head(run.left).name = "removeConfig" /\ Head(run.left).on = "all"
             /\ Head(run.left).ignored = FALSE
  <2>1. Head(run.left) = ClusterBootstrap!T("removeConfig", "all")
    BY <1>3, <1>5, <1>7
  <2> QED BY <2>1, TaskShapes, NamedTasks
<1>8. ASSUME TasksLeft = 17
      PROVE  Head(run.left).name = "restartContainerd" /\ Head(run.left).on = "all"
             /\ Head(run.left).ignored = FALSE
  <2>1. Head(run.left) = ClusterBootstrap!T("restartContainerd", "all")
    BY <1>3, <1>5, <1>8
  <2> QED BY <2>1, TaskShapes, NamedTasks
<1>9. ASSUME TasksLeft = 16
      PROVE  Head(run.left).name = "names" /\ Head(run.left).on = "all" /\ Head(run.left).ignored = FALSE
  <2>1. Head(run.left) = ClusterBootstrap!T("names", "all")
    BY <1>3, <1>5, <1>9
  <2> QED BY <2>1, TaskShapes, NamedTasks
<1>10. ASSUME TasksLeft = 15
      PROVE  Head(run.left).name = "kernel" /\ Head(run.left).on = "all" /\ Head(run.left).ignored = FALSE
  <2>1. Head(run.left) = ClusterBootstrap!T("kernel", "all")
    BY <1>3, <1>5, <1>10
  <2> QED BY <2>1, TaskShapes, NamedTasks
<1>11. ASSUME TasksLeft = 14
      PROVE  Head(run.left).name = "containerd" /\ Head(run.left).on = "all"
             /\ Head(run.left).ignored = FALSE
  <2>1. Head(run.left) = ClusterBootstrap!T("containerd", "all")
    BY <1>3, <1>5, <1>11
  <2> QED BY <2>1, TaskShapes, NamedTasks
<1>12. ASSUME TasksLeft = 13
      PROVE  Head(run.left).name = "restartContainerd" /\ Head(run.left).on = "all"
             /\ Head(run.left).ignored = FALSE
  <2>1. Head(run.left) = ClusterBootstrap!T("restartContainerd", "all")
    BY <1>3, <1>5, <1>12
  <2> QED BY <2>1, TaskShapes, NamedTasks
<1>13. ASSUME TasksLeft = 12
      PROVE  Head(run.left).name = "packages" /\ Head(run.left).on = "all" /\ Head(run.left).ignored
             = FALSE
  <2>1. Head(run.left) = ClusterBootstrap!T("packages", "all")
    BY <1>3, <1>5, <1>13
  <2> QED BY <2>1, TaskShapes, NamedTasks
<1>14. ASSUME TasksLeft = 11
      PROVE  Head(run.left).name = "wipeMaster" /\ Head(run.left).on = "master"
             /\ Head(run.left).ignored = TRUE
  <2>1. Head(run.left) = ClusterBootstrap!Ignoring("wipeMaster", "master")
    BY <1>3, <1>5, <1>14
  <2> QED BY <2>1, TaskShapes, NamedTasks
<1>15. ASSUME TasksLeft = 10
      PROVE  Head(run.left).name = "init" /\ Head(run.left).on = "master" /\ Head(run.left).ignored
             = FALSE
  <2>1. Head(run.left) = ClusterBootstrap!T("init", "master")
    BY <1>3, <1>5, <1>15
  <2> QED BY <2>1, TaskShapes, NamedTasks
<1>16. ASSUME TasksLeft = 9
      PROVE  Head(run.left).name = "kubeconfig" /\ Head(run.left).on = "master"
             /\ Head(run.left).ignored = FALSE
  <2>1. Head(run.left) = ClusterBootstrap!T("kubeconfig", "master")
    BY <1>3, <1>5, <1>16
  <2> QED BY <2>1, TaskShapes, NamedTasks
<1>17. ASSUME TasksLeft = 8
      PROVE  Head(run.left).name = "token" /\ Head(run.left).on = "master" /\ Head(run.left).ignored
             = FALSE
  <2>1. Head(run.left) = ClusterBootstrap!T("token", "master")
    BY <1>3, <1>5, <1>17
  <2> QED BY <2>1, TaskShapes, NamedTasks
<1>18. ASSUME TasksLeft = 7
      PROVE  Head(run.left).name \in ClusterBootstrap!Networks /\ Head(run.left).on = "master"
             /\ Head(run.left).ignored = FALSE
  <2>1. Head(run.left) = Y[1]
    BY <1>3, <1>5, <1>18
  <2> QED BY <2>1, <1>1
<1>19. ASSUME TasksLeft = 6
      PROVE  Head(run.left).name = "ping" /\ Head(run.left).on = "workers" /\ Head(run.left).ignored
             = TRUE
  <2>1. Head(run.left) = ClusterBootstrap!Ignoring("ping", "workers")
    BY <1>3, <1>5, <1>19
  <2> QED BY <2>1, TaskShapes, NamedTasks
<1>20. ASSUME TasksLeft = 5
      PROVE  Head(run.left).name = "joinCommand" /\ Head(run.left).on = "pinged"
             /\ Head(run.left).ignored = FALSE
  <2>1. Head(run.left) = ClusterBootstrap!T("joinCommand", "pinged")
    BY <1>3, <1>5, <1>20
  <2> QED BY <2>1, TaskShapes, NamedTasks
<1>21. ASSUME TasksLeft = 4
      PROVE  Head(run.left).name = "saveScript" /\ Head(run.left).on = "pinged"
             /\ Head(run.left).ignored = TRUE
  <2>1. Head(run.left) = ClusterBootstrap!Ignoring("saveScript", "pinged")
    BY <1>3, <1>5, <1>21
  <2> QED BY <2>1, TaskShapes, NamedTasks
<1>22. ASSUME TasksLeft = 3
      PROVE  Head(run.left).name = "wipeWorker" /\ Head(run.left).on = "pinged"
             /\ Head(run.left).ignored = TRUE
  <2>1. Head(run.left) = ClusterBootstrap!Ignoring("wipeWorker", "pinged")
    BY <1>3, <1>5, <1>22
  <2> QED BY <2>1, TaskShapes, NamedTasks
<1>23. ASSUME TasksLeft = 2
      PROVE  Head(run.left).name = "join" /\ Head(run.left).on = "pinged" /\ Head(run.left).ignored = TRUE
  <2>1. Head(run.left) = ClusterBootstrap!Ignoring("join", "pinged")
    BY <1>3, <1>5, <1>23
  <2> QED BY <2>1, TaskShapes, NamedTasks
<1>24. ASSUME TasksLeft = 1
      PROVE  Head(run.left).name = "verify" /\ Head(run.left).on = "master"
             /\ Head(run.left).ignored = FALSE
  <2>1. Head(run.left) = ClusterBootstrap!T("verify", "master")
    BY <1>3, <1>5, <1>24
  <2> QED BY <2>1, TaskShapes, NamedTasks
<1> QED BY <1>5, <1>6, <1>7, <1>8, <1>9, <1>10, <1>11, <1>12, <1>13, <1>14, <1>15, <1>16, <1>17,
           <1>18, <1>19, <1>20, <1>21, <1>22, <1>23, <1>24

LEMMA InitAt ==
  ASSUME LeftPart, Goes, run.left # <<>>, run.book = "init"
  PROVE  /\ TasksLeft \in 1..4
         /\ TasksLeft = 4 =>
              Head(run.left).name = "wipeMaster" /\ Head(run.left).on = "master"
              /\ Head(run.left).ignored = TRUE
         /\ TasksLeft = 3 =>
              Head(run.left).name = "init" /\ Head(run.left).on = "master" /\ Head(run.left).ignored
              = FALSE
         /\ TasksLeft = 2 =>
              Head(run.left).name = "kubeconfig" /\ Head(run.left).on = "master"
              /\ Head(run.left).ignored = FALSE
         /\ TasksLeft = 1 =>
              Head(run.left).name = "token" /\ Head(run.left).on = "master"
              /\ Head(run.left).ignored = FALSE
<1> DEFINE o == ClusterBootstrap!InitMaster
<1>1. ClusterBootstrap!TasksOf[run.book] = o
  BY BookLists
<1>2. /\ Len(o) = 4
      /\ o[1] = ClusterBootstrap!Ignoring("wipeMaster", "master")
      /\ o[2] = ClusterBootstrap!T("init", "master")
      /\ o[3] = ClusterBootstrap!T("kubeconfig", "master")
      /\ o[4] = ClusterBootstrap!T("token", "master")
  BY InitMasterList
<1> HIDE DEF o
<1>3. /\ TasksLeft \in Nat /\ TasksLeft >= 1 /\ TasksLeft <= Len(o)
      /\ Head(run.left) = o[Len(o) - TasksLeft + 1]
  BY <1>1, BootHead
<1>4. TasksLeft \in 1..4 /\ Head(run.left) = o[5 - TasksLeft]
  <2>1. TasksLeft \in 1..4 /\ Len(o) - TasksLeft + 1 = 5 - TasksLeft
    BY <1>2, <1>3
  <2> QED BY <1>3, <2>1
<1>5. ASSUME TasksLeft = 4
      PROVE  Head(run.left).name = "wipeMaster" /\ Head(run.left).on = "master"
             /\ Head(run.left).ignored = TRUE
  <2>1. Head(run.left) = ClusterBootstrap!Ignoring("wipeMaster", "master")
    BY <1>2, <1>4, <1>5
  <2> QED BY <2>1, TaskShapes, NamedTasks
<1>6. ASSUME TasksLeft = 3
      PROVE  Head(run.left).name = "init" /\ Head(run.left).on = "master" /\ Head(run.left).ignored
             = FALSE
  <2>1. Head(run.left) = ClusterBootstrap!T("init", "master")
    BY <1>2, <1>4, <1>6
  <2> QED BY <2>1, TaskShapes, NamedTasks
<1>7. ASSUME TasksLeft = 2
      PROVE  Head(run.left).name = "kubeconfig" /\ Head(run.left).on = "master"
             /\ Head(run.left).ignored = FALSE
  <2>1. Head(run.left) = ClusterBootstrap!T("kubeconfig", "master")
    BY <1>2, <1>4, <1>7
  <2> QED BY <2>1, TaskShapes, NamedTasks
<1>8. ASSUME TasksLeft = 1
      PROVE  Head(run.left).name = "token" /\ Head(run.left).on = "master" /\ Head(run.left).ignored
             = FALSE
  <2>1. Head(run.left) = ClusterBootstrap!T("token", "master")
    BY <1>2, <1>4, <1>8
  <2> QED BY <2>1, TaskShapes, NamedTasks
<1> QED BY <1>4, <1>5, <1>6, <1>7, <1>8

LEMMA JoinAt ==
  ASSUME LeftPart, Goes, run.left # <<>>, run.book = "join"
  PROVE  /\ TasksLeft \in 1..5
         /\ TasksLeft = 5 =>
              Head(run.left).name = "ping" /\ Head(run.left).on = "workers"
              /\ Head(run.left).ignored = TRUE
         /\ TasksLeft = 4 =>
              Head(run.left).name = "joinCommand" /\ Head(run.left).on = "pinged"
              /\ Head(run.left).ignored = FALSE
         /\ TasksLeft = 3 =>
              Head(run.left).name = "saveScript" /\ Head(run.left).on = "pinged"
              /\ Head(run.left).ignored = TRUE
         /\ TasksLeft = 2 =>
              Head(run.left).name = "wipeWorker" /\ Head(run.left).on = "pinged"
              /\ Head(run.left).ignored = TRUE
         /\ TasksLeft = 1 =>
              Head(run.left).name = "join" /\ Head(run.left).on = "pinged" /\ Head(run.left).ignored
              = TRUE
<1> DEFINE o == ClusterBootstrap!JoinWorkers
<1>1. ClusterBootstrap!TasksOf[run.book] = o
  BY BookLists
<1>2. /\ Len(o) = 5
      /\ o[1] = ClusterBootstrap!Ignoring("ping", "workers")
      /\ o[2] = ClusterBootstrap!T("joinCommand", "pinged")
      /\ o[3] = ClusterBootstrap!Ignoring("saveScript", "pinged")
      /\ o[4] = ClusterBootstrap!Ignoring("wipeWorker", "pinged")
      /\ o[5] = ClusterBootstrap!Ignoring("join", "pinged")
  BY JoinWorkersList
<1> HIDE DEF o
<1>3. /\ TasksLeft \in Nat /\ TasksLeft >= 1 /\ TasksLeft <= Len(o)
      /\ Head(run.left) = o[Len(o) - TasksLeft + 1]
  BY <1>1, BootHead
<1>4. TasksLeft \in 1..5 /\ Head(run.left) = o[6 - TasksLeft]
  <2>1. TasksLeft \in 1..5 /\ Len(o) - TasksLeft + 1 = 6 - TasksLeft
    BY <1>2, <1>3
  <2> QED BY <1>3, <2>1
<1>5. ASSUME TasksLeft = 5
      PROVE  Head(run.left).name = "ping" /\ Head(run.left).on = "workers" /\ Head(run.left).ignored
             = TRUE
  <2>1. Head(run.left) = ClusterBootstrap!Ignoring("ping", "workers")
    BY <1>2, <1>4, <1>5
  <2> QED BY <2>1, TaskShapes, NamedTasks
<1>6. ASSUME TasksLeft = 4
      PROVE  Head(run.left).name = "joinCommand" /\ Head(run.left).on = "pinged"
             /\ Head(run.left).ignored = FALSE
  <2>1. Head(run.left) = ClusterBootstrap!T("joinCommand", "pinged")
    BY <1>2, <1>4, <1>6
  <2> QED BY <2>1, TaskShapes, NamedTasks
<1>7. ASSUME TasksLeft = 3
      PROVE  Head(run.left).name = "saveScript" /\ Head(run.left).on = "pinged"
             /\ Head(run.left).ignored = TRUE
  <2>1. Head(run.left) = ClusterBootstrap!Ignoring("saveScript", "pinged")
    BY <1>2, <1>4, <1>7
  <2> QED BY <2>1, TaskShapes, NamedTasks
<1>8. ASSUME TasksLeft = 2
      PROVE  Head(run.left).name = "wipeWorker" /\ Head(run.left).on = "pinged"
             /\ Head(run.left).ignored = TRUE
  <2>1. Head(run.left) = ClusterBootstrap!Ignoring("wipeWorker", "pinged")
    BY <1>2, <1>4, <1>8
  <2> QED BY <2>1, TaskShapes, NamedTasks
<1>9. ASSUME TasksLeft = 1
      PROVE  Head(run.left).name = "join" /\ Head(run.left).on = "pinged" /\ Head(run.left).ignored = TRUE
  <2>1. Head(run.left) = ClusterBootstrap!Ignoring("join", "pinged")
    BY <1>2, <1>4, <1>9
  <2> QED BY <2>1, TaskShapes, NamedTasks
<1> QED BY <1>4, <1>5, <1>6, <1>7, <1>8, <1>9

LEMMA PrepareAt ==
  ASSUME LeftPart, Goes, run.left # <<>>, run.book = "prepareJoin"
  PROVE  /\ TasksLeft \in 1..10
         /\ TasksLeft = 10 =>
              Head(run.left).name = "precheck" /\ Head(run.left).on = "master"
              /\ Head(run.left).ignored = TRUE
         /\ TasksLeft = 9 =>
              Head(run.left).name = "kernel" /\ Head(run.left).on = "targets"
              /\ Head(run.left).ignored = FALSE
         /\ TasksLeft = 8 =>
              Head(run.left).name = "containerd" /\ Head(run.left).on = "targets"
              /\ Head(run.left).ignored = FALSE
         /\ TasksLeft = 7 =>
              Head(run.left).name = "restartContainerd" /\ Head(run.left).on = "targets"
              /\ Head(run.left).ignored = FALSE
         /\ TasksLeft = 6 =>
              Head(run.left).name = "packages" /\ Head(run.left).on = "targets"
              /\ Head(run.left).ignored = FALSE
         /\ TasksLeft = 5 =>
              Head(run.left).name = "ping" /\ Head(run.left).on = "targets"
              /\ Head(run.left).ignored = TRUE
         /\ TasksLeft = 4 =>
              Head(run.left).name = "joinCommand" /\ Head(run.left).on = "pinged"
              /\ Head(run.left).ignored = FALSE
         /\ TasksLeft = 3 =>
              Head(run.left).name = "saveScript" /\ Head(run.left).on = "pinged"
              /\ Head(run.left).ignored = TRUE
         /\ TasksLeft = 2 =>
              Head(run.left).name = "wipeWorker" /\ Head(run.left).on = "pinged"
              /\ Head(run.left).ignored = TRUE
         /\ TasksLeft = 1 =>
              Head(run.left).name = "join" /\ Head(run.left).on = "pinged" /\ Head(run.left).ignored
              = TRUE
<1> DEFINE o == ClusterBootstrap!PrepareAndJoin
<1>1. ClusterBootstrap!TasksOf[run.book] = o
  BY BookLists
<1>2. /\ Len(o) = 10
      /\ o[1] = ClusterBootstrap!Ignoring("precheck", "master")
      /\ o[2] = ClusterBootstrap!T("kernel", "targets")
      /\ o[3] = ClusterBootstrap!T("containerd", "targets")
      /\ o[4] = ClusterBootstrap!T("restartContainerd", "targets")
      /\ o[5] = ClusterBootstrap!T("packages", "targets")
      /\ o[6] = ClusterBootstrap!Ignoring("ping", "targets")
      /\ o[7] = ClusterBootstrap!T("joinCommand", "pinged")
      /\ o[8] = ClusterBootstrap!Ignoring("saveScript", "pinged")
      /\ o[9] = ClusterBootstrap!Ignoring("wipeWorker", "pinged")
      /\ o[10] = ClusterBootstrap!Ignoring("join", "pinged")
  BY PrepareAndJoinList
<1> HIDE DEF o
<1>3. /\ TasksLeft \in Nat /\ TasksLeft >= 1 /\ TasksLeft <= Len(o)
      /\ Head(run.left) = o[Len(o) - TasksLeft + 1]
  BY <1>1, BootHead
<1>4. TasksLeft \in 1..10 /\ Head(run.left) = o[11 - TasksLeft]
  <2>1. TasksLeft \in 1..10 /\ Len(o) - TasksLeft + 1 = 11 - TasksLeft
    BY <1>2, <1>3
  <2> QED BY <1>3, <2>1
<1>5. ASSUME TasksLeft = 10
      PROVE  Head(run.left).name = "precheck" /\ Head(run.left).on = "master"
             /\ Head(run.left).ignored = TRUE
  <2>1. Head(run.left) = ClusterBootstrap!Ignoring("precheck", "master")
    BY <1>2, <1>4, <1>5
  <2> QED BY <2>1, TaskShapes, NamedTasks
<1>6. ASSUME TasksLeft = 9
      PROVE  Head(run.left).name = "kernel" /\ Head(run.left).on = "targets"
             /\ Head(run.left).ignored = FALSE
  <2>1. Head(run.left) = ClusterBootstrap!T("kernel", "targets")
    BY <1>2, <1>4, <1>6
  <2> QED BY <2>1, TaskShapes, NamedTasks
<1>7. ASSUME TasksLeft = 8
      PROVE  Head(run.left).name = "containerd" /\ Head(run.left).on = "targets"
             /\ Head(run.left).ignored = FALSE
  <2>1. Head(run.left) = ClusterBootstrap!T("containerd", "targets")
    BY <1>2, <1>4, <1>7
  <2> QED BY <2>1, TaskShapes, NamedTasks
<1>8. ASSUME TasksLeft = 7
      PROVE  Head(run.left).name = "restartContainerd" /\ Head(run.left).on = "targets"
             /\ Head(run.left).ignored = FALSE
  <2>1. Head(run.left) = ClusterBootstrap!T("restartContainerd", "targets")
    BY <1>2, <1>4, <1>8
  <2> QED BY <2>1, TaskShapes, NamedTasks
<1>9. ASSUME TasksLeft = 6
      PROVE  Head(run.left).name = "packages" /\ Head(run.left).on = "targets"
             /\ Head(run.left).ignored = FALSE
  <2>1. Head(run.left) = ClusterBootstrap!T("packages", "targets")
    BY <1>2, <1>4, <1>9
  <2> QED BY <2>1, TaskShapes, NamedTasks
<1>10. ASSUME TasksLeft = 5
      PROVE  Head(run.left).name = "ping" /\ Head(run.left).on = "targets" /\ Head(run.left).ignored
             = TRUE
  <2>1. Head(run.left) = ClusterBootstrap!Ignoring("ping", "targets")
    BY <1>2, <1>4, <1>10
  <2> QED BY <2>1, TaskShapes, NamedTasks
<1>11. ASSUME TasksLeft = 4
      PROVE  Head(run.left).name = "joinCommand" /\ Head(run.left).on = "pinged"
             /\ Head(run.left).ignored = FALSE
  <2>1. Head(run.left) = ClusterBootstrap!T("joinCommand", "pinged")
    BY <1>2, <1>4, <1>11
  <2> QED BY <2>1, TaskShapes, NamedTasks
<1>12. ASSUME TasksLeft = 3
      PROVE  Head(run.left).name = "saveScript" /\ Head(run.left).on = "pinged"
             /\ Head(run.left).ignored = TRUE
  <2>1. Head(run.left) = ClusterBootstrap!Ignoring("saveScript", "pinged")
    BY <1>2, <1>4, <1>12
  <2> QED BY <2>1, TaskShapes, NamedTasks
<1>13. ASSUME TasksLeft = 2
      PROVE  Head(run.left).name = "wipeWorker" /\ Head(run.left).on = "pinged"
             /\ Head(run.left).ignored = TRUE
  <2>1. Head(run.left) = ClusterBootstrap!Ignoring("wipeWorker", "pinged")
    BY <1>2, <1>4, <1>13
  <2> QED BY <2>1, TaskShapes, NamedTasks
<1>14. ASSUME TasksLeft = 1
      PROVE  Head(run.left).name = "join" /\ Head(run.left).on = "pinged" /\ Head(run.left).ignored = TRUE
  <2>1. Head(run.left) = ClusterBootstrap!Ignoring("join", "pinged")
    BY <1>2, <1>4, <1>14
  <2> QED BY <2>1, TaskShapes, NamedTasks
<1> QED BY <1>4, <1>5, <1>6, <1>7, <1>8, <1>9, <1>10, <1>11, <1>12, <1>13, <1>14

LEMMA BootCardinality == \A S : ClusterBootstrap!Cardinality(S) = Cardinality(S)
BY DEF ClusterBootstrap!Cardinality, Cardinality

LEMMA BootstrapInit == ClusterBootstrap!Init => BootstrapIInv
<1> SUFFICES ASSUME ClusterBootstrap!Init PROVE BootstrapIInv
  OBVIOUS
<1>1. /\ done = [h \in ClusterBootstrap!Hosts |-> {}] /\ member = [h \in ClusterBootstrap!Hosts |-> 0]
      /\ etcd = 0 /\ admin = 0 /\ made = 0 /\ script = [w \in Workers |-> 0]
      /\ registered = {} /\ network = {} /\ online = ClusterBootstrap!Hosts /\ faults = 0
      /\ run = [book |-> "none", left |-> <<>>, targets |-> {}, pinged |-> {}, ready |-> {},
                token |-> 0, hit |-> {}, prepared |-> FALSE, outcome |-> "ok"]
  BY DEF ClusterBootstrap!Init
<1>2. 0 \in ClusterBootstrap!Clusters /\ 0 \in 0..MaxFaults
  BY BootNats DEF ClusterBootstrap!Clusters
<1>3. MachineValues
  BY <1>1, <1>2 DEF MachineValues
<1>4. RunValues /\ run.outcome = "ok" /\ run.book = "none"
  BY <1>1, <1>2 DEF RunValues, RunFields
<1>5. PreparedPart
  BY <1>1 DEF PreparedPart
<1>6. FaultValues
  BY <1>1, <1>2 DEF FaultValues
<1>7. MasterPart
  BY <1>1, BootHosts DEF MasterPart
<1>8. LeftPart /\ InitPart
  BY <1>4 DEF LeftPart, InitPart, Goes
<1>9. DeployPart /\ JoinPart /\ RepairPart
  BY <1>4 DEF DeployPart, JoinPart, RepairPart, Deployments, Joining
<1> QED BY <1>3, <1>4, <1>5, <1>6, <1>7, <1>8, <1>9 DEF BootstrapIInv

LEMMA BootstrapSame ==
  ASSUME BootstrapIInv, UNCHANGED ClusterBootstrap!bvars PROVE BootstrapIInv'
         /\ ClusterBootstrap!RepairLeavesReadyAlone
<1>1. UNCHANGED <<done, member, etcd, admin, script, registered, network, made, online, faults, run>>
  BY DEF ClusterBootstrap!bvars
<1>2. BootstrapIInv'
  <2>1. MachineValues' /\ RunValues' /\ FaultValues' /\ PreparedPart' /\ MasterPart'
    BY <1>1 DEF BootstrapIInv, MachineValues, RunValues, FaultValues, PreparedPart, MasterPart
  <2>2. LeftPart' /\ InitPart'
    BY <1>1 DEF BootstrapIInv, LeftPart, InitPart, Goes, TasksLeft
  <2>3. DeployPart'
    BY <1>1 DEF BootstrapIInv, DeployPart, DeployGoes, DeployDone, Clean, Goes, TasksLeft
  <2>4. JoinDone' = JoinDone /\ \A n : JoinGoes(n)' = JoinGoes(n)
    BY <1>1 DEF JoinGoes, JoinDone, JoinLeft, Goal
  <2>5. JoinPart'
    BY <1>1, <2>4 DEF BootstrapIInv, JoinPart, Clean, Goes, TasksLeft
  <2>6. RepairPart'
    BY <1>1 DEF BootstrapIInv, RepairPart, Goes, TasksLeft
  <2> QED BY <2>1, <2>2, <2>3, <2>5, <2>6 DEF BootstrapIInv
<1>3. ClusterBootstrap!RepairLeavesReadyAlone
  BY <1>1 DEF ClusterBootstrap!RepairLeavesReadyAlone
<1> QED BY <1>2, <1>3

-------------------------------------------------------------------------------
(* A task                                                                     *)

\* The hosts of a task; one that asks the first host only runs on the master.
TaskOn(t) ==
  IF t.name = "joinCommand" THEN ClusterBootstrap!AsksFirst(ClusterBootstrap!Group(t.on))
  ELSE ClusterBootstrap!Group(t.on)

\* The run takes task t, which does its work on some hosts and fails by accident on others.
Took(t, good, bad) ==
  /\ Goes /\ run.left # <<>> /\ t = Head(run.left)
  /\ good \cup bad \subseteq TaskOn(t) /\ bad \subseteq online
  /\ \A h \in good : ClusterBootstrap!Works(t.name, h)
  /\ ClusterBootstrap!MachineEffect(t.name, good, bad)
  /\ DOMAIN run' = RunFields /\ run'.book = run.book /\ run'.prepared = run.prepared
  /\ run'.targets = IF t.name = "precheck" THEN ClusterBootstrap!Targets(bad) ELSE run.targets
  /\ run'.ready = IF t.name = "precheck" THEN ClusterBootstrap!ReadyWorkers ELSE run.ready
  /\ run'.pinged = IF t.name = "ping" THEN good ELSE run.pinged
  /\ run'.token = IF t.name = "joinCommand" THEN (IF bad = {} THEN member[Master] ELSE 0) ELSE run.token
  /\ run'.outcome \in {"running", "failed"}
  /\ run'.outcome = "running" =>
       run'.left = Tail(run.left) /\ TaskOn(t) \subseteq online /\ (t.ignored \/ good = TaskOn(t))
  /\ run.hit \subseteq run'.hit
  /\ bad # {} /\ TaskOn(t) \subseteq online => t.name \in run'.hit
  /\ run'.hit \subseteq {"reset"} =>
       /\ TaskOn(t) \subseteq online
       /\ t.name # "reset" => bad = {} /\ \A h \in TaskOn(t) : ClusterBootstrap!Works(t.name, h)
          => h \in good
  /\ run'.outcome = "failed" /\ run'.hit \subseteq {"reset"} =>
       ~t.ignored /\ (t.name # "reset" => \E h \in TaskOn(t) : ~ClusterBootstrap!Works(t.name, h))
  /\ online' = online /\ faults' \in 0..MaxFaults

LEMMA TaskHosts ==
  ASSUME RunValues, NEW t \in BookTasks
  PROVE  /\ TaskOn(t) \subseteq ClusterBootstrap!Hosts
         /\ t.name \in MasterNames => TaskOn(t) = {Master}
         /\ t.name \in JoinNames \ {"joinCommand"} => TaskOn(t) \subseteq Workers
<1>1. /\ t.on \in {"all", "master", "workers", "targets", "pinged"}
      /\ t.name \in MasterNames => t.on = "master"
      /\ t.name \in JoinNames => t.on \in {"workers", "targets", "pinged"}
  BY DEF BookTasks
<1>2. run.targets \subseteq Workers /\ run.pinged \subseteq Workers
  BY DEF RunValues
<1>3. /\ ClusterBootstrap!Group("all") = ClusterBootstrap!Hosts /\ ClusterBootstrap!Group("master")
         = {Master} /\ ClusterBootstrap!Group("workers") = Workers
      /\ ClusterBootstrap!Group("targets") = run.targets /\ ClusterBootstrap!Group("pinged") = run.pinged
  BY DEF ClusterBootstrap!Group
<1>4. ClusterBootstrap!AsksFirst(ClusterBootstrap!Group(t.on)) \subseteq {Master}
  BY DEF ClusterBootstrap!AsksFirst
<1>5. "joinCommand" \notin MasterNames
  BY DEF MasterNames
<1> QED BY <1>1, <1>2, <1>3, <1>4, <1>5, BootHosts DEF TaskOn

LEMMA TaskTook ==
  ASSUME BootstrapIInv, ClusterBootstrap!Task
  PROVE  \E t \in BookTasks, good, bad \in SUBSET ClusterBootstrap!Hosts : Took(t, good, bad)
<1> DEFINE t == Head(run.left)
           on == TaskOn(t)
           lost == on \ online
           unmet == {h \in on \cap online : ~ClusterBootstrap!Works(t.name, h)}
<1>1. Goes /\ run.left # <<>>
  BY DEF ClusterBootstrap!Task, ClusterBootstrap!Idle, BootstrapIInv, RunValues, Goes
<1>2. PICK bad \in SUBSET ((on \cap online) \ unmet) :
        /\ faults + ClusterBootstrap!Cardinality(bad) <= MaxFaults
        /\ faults' = faults + ClusterBootstrap!Cardinality(bad)
        /\ LET good == ((on \cap online) \ unmet) \ bad
               fatal == lost # {} \/ (~t.ignored /\ unmet \cup bad # {})
           IN /\ ClusterBootstrap!MachineEffect(t.name, good, bad)
              /\ run' = [ClusterBootstrap!Facts(t.name, good, bad) EXCEPT
                           !.left = IF fatal THEN <<>> ELSE Tail(run.left),
                           !.hit = @ \cup {IF lost # {} THEN "lost" ELSE t.name : h \in bad \cup lost},
                           !.outcome = IF fatal THEN "failed" ELSE "running"]
  BY DEF ClusterBootstrap!Task, TaskOn
<1>3. online' = online
  BY DEF ClusterBootstrap!Task
<1>4. t \in BookTasks
  BY <1>1, BootHead DEF BootstrapIInv
<1>5. on \subseteq ClusterBootstrap!Hosts
  BY <1>4, TaskHosts DEF BootstrapIInv
<1> DEFINE good == ((on \cap online) \ unmet) \ bad
           fatal == lost # {} \/ (~t.ignored /\ unmet \cup bad # {})
           facts == ClusterBootstrap!Facts(t.name, good, bad)
           hits == {IF lost # {} THEN "lost" ELSE t.name : h \in bad \cup lost}
<1>6. /\ ClusterBootstrap!MachineEffect(t.name, good, bad)
      /\ run' = [facts EXCEPT !.left = IF fatal THEN <<>> ELSE Tail(run.left),
                             !.hit = @ \cup hits,
                             !.outcome = IF fatal THEN "failed" ELSE "running"]
  BY <1>2
<1>7. /\ good \subseteq ClusterBootstrap!Hosts /\ bad \subseteq ClusterBootstrap!Hosts
         /\ good \cup bad \subseteq on
      /\ bad \subseteq online /\ \A h \in good : ClusterBootstrap!Works(t.name, h)
      /\ \A h \in on \cap online : ClusterBootstrap!Works(t.name, h) => h \in good \cup bad
  BY <1>5
<1>8. faults' \in 0..MaxFaults
  <2>1. IsFiniteSet(bad)
    BY <1>7, BootNats, FS_Subset
  <2>2. ClusterBootstrap!Cardinality(bad) \in Nat
    BY <2>1, FS_CardinalityType, BootCardinality
  <2>3. faults \in Nat
    BY DEF BootstrapIInv, FaultValues
  <2> QED BY <1>2, <2>2, <2>3, BootNats
<1>9. unmet = {} => \A h \in on \cap online : ClusterBootstrap!Works(t.name, h)
  OBVIOUS
<1>10. unmet # {} => \E h \in on : ~ClusterBootstrap!Works(t.name, h)
  OBVIOUS
<1>11. /\ lost = {} => on \subseteq online /\ (bad # {} => t.name \in hits)
       /\ lost # {} => "lost" \in hits
       /\ lost = {} /\ unmet = {} /\ bad = {} => good = on
       /\ bad = {} /\ lost = {} => \A h \in on : ClusterBootstrap!Works(t.name, h) => h \in good
  OBVIOUS
<1>12. DOMAIN run = RunFields
  BY DEF BootstrapIInv, RunValues
<1>13. /\ DOMAIN facts = RunFields /\ facts.book = run.book /\ facts.prepared = run.prepared
       /\ facts.hit = run.hit
       /\ facts.targets = IF t.name = "precheck" THEN ClusterBootstrap!Targets(bad) ELSE run.targets
       /\ facts.ready = IF t.name = "precheck" THEN ClusterBootstrap!ReadyWorkers ELSE run.ready
       /\ facts.pinged = IF t.name = "ping" THEN good ELSE run.pinged
       /\ facts.token = IF t.name = "joinCommand" THEN (IF bad = {} THEN member[Master] ELSE 0)
                        ELSE run.token
  <2> HIDE DEF t, good
  <2>1. CASE t.name = "precheck"
    BY <1>12, <2>1 DEF ClusterBootstrap!Facts, RunFields
  <2>2. CASE t.name = "ping"
    BY <1>12, <2>2 DEF ClusterBootstrap!Facts, RunFields
  <2>3. CASE t.name = "joinCommand"
    BY <1>12, <2>3 DEF ClusterBootstrap!Facts, RunFields
  <2>4. CASE t.name \notin {"precheck", "ping", "joinCommand"}
    BY <1>12, <2>4 DEF ClusterBootstrap!Facts, RunFields
  <2> QED BY <2>1, <2>2, <2>3, <2>4
<1> HIDE DEF facts, hits, lost, unmet, good, fatal, on
<1>14. /\ DOMAIN run' = RunFields /\ run'.book = facts.book /\ run'.prepared = facts.prepared
       /\ run'.targets = facts.targets /\ run'.ready = facts.ready /\ run'.pinged = facts.pinged
       /\ run'.token = facts.token
       /\ run'.left = (IF fatal THEN <<>> ELSE Tail(run.left))
       /\ run'.hit = facts.hit \cup hits
       /\ run'.outcome = (IF fatal THEN "failed" ELSE "running")
  BY <1>6, <1>13 DEF RunFields
<1>15. /\ run'.outcome \in {"running", "failed"}
       /\ run'.outcome = "running" => ~fatal /\ run'.left = Tail(run.left)
       /\ run'.outcome = "failed" => fatal
  BY <1>14
<1>16. ~fatal => on \subseteq online /\ (t.ignored \/ good = on)
  BY <1>11 DEF fatal
<1>17. /\ run.hit \subseteq run'.hit /\ hits \subseteq run'.hit
  BY <1>13, <1>14
<1>18. bad # {} /\ on \subseteq online => t.name \in run'.hit
  BY <1>11, <1>17 DEF lost
<1>19. run'.hit \subseteq {"reset"} =>
         /\ lost = {} /\ on \subseteq online
         /\ t.name # "reset" => bad = {} /\ \A h \in on : ClusterBootstrap!Works(t.name, h) => h \in good
  BY <1>11, <1>17
<1>20. run'.outcome = "failed" /\ run'.hit \subseteq {"reset"} =>
         ~t.ignored /\ (t.name # "reset" => \E h \in on : ~ClusterBootstrap!Works(t.name, h))
  BY <1>10, <1>15, <1>19 DEF fatal
<1>21. Took(t, good, bad)
  BY <1>1, <1>3, <1>6, <1>7, <1>8, <1>13, <1>14, <1>15, <1>16, <1>17, <1>18, <1>19, <1>20 DEF Took, on
<1> QED BY <1>4, <1>7, <1>21

-------------------------------------------------------------------------------
(* What a task does to the machines                                           *)

\* The effects, by the task's name.
LEMMA TaskEffects ==
  ASSUME NEW n, NEW good, NEW bad, ClusterBootstrap!MachineEffect(n, good, bad)
  PROVE  /\ n \in {"names", "kernel", "containerd", "packages"} =>
              /\ done'
                 = [h \in ClusterBootstrap!Hosts |-> IF h \in good THEN done[h] \cup {n} ELSE done[h]]
              /\ UNCHANGED <<member, etcd, admin, script, registered, network, made>>
         /\ n = "fetchHelm" =>
              /\ done'
                 = [h \in ClusterBootstrap!Hosts |-> IF h \in good THEN done[h] \cup {"helm"} ELSE done[h]]
              /\ UNCHANGED <<member, etcd, admin, script, registered, network, made>>
         /\ n \in {"reset", "wipeMaster", "wipeWorker", "removeConfig"} =>
              /\ member' = [h \in ClusterBootstrap!Hosts |-> IF h \in good THEN 0 ELSE member[h]]
              /\ registered' = (IF Master \in good THEN {} ELSE registered)
              /\ network' = (IF Master \in good THEN {} ELSE network)
              /\ etcd' = (IF Master \in good /\ n # "removeConfig" THEN 0 ELSE etcd)
              /\ admin' = (IF Master \in good /\ n = "removeConfig" THEN 0 ELSE admin)
              /\ UNCHANGED <<done, script, made>>
         /\ n = "init" =>
              /\ UNCHANGED <<done, admin, script, registered, network>>
              /\ IF Master \in good /\ member[Master] = 0
                 THEN /\ made' = made + 1 /\ member' = [member EXCEPT ![Master] = made + 1]
                      /\ etcd' = made + 1
                 ELSE /\ UNCHANGED <<made, member>> /\ etcd' \in {etcd, made + 1}
                      /\ bad = {} => etcd' = etcd
         /\ n = "kubeconfig" =>
              /\ admin' = (IF Master \in good THEN member[Master] ELSE admin)
              /\ UNCHANGED <<done, member, etcd, script, registered, network, made>>
         /\ n \in {"calico", "flannel"} =>
              /\ network' = (IF good # {} THEN network \cup {n} ELSE network)
              /\ UNCHANGED <<done, member, etcd, admin, script, registered, made>>
         /\ n = "saveScript" =>
              /\ script' = [w \in Workers |-> IF w \in good THEN run.token ELSE script[w]]
              /\ UNCHANGED <<done, member, etcd, admin, registered, network, made>>
         /\ n = "join" =>
              /\ member' = [h \in ClusterBootstrap!Hosts |-> IF h \in good /\ member[h]
                 = 0 THEN script[h] ELSE member[h]]
              /\ registered' = registered \cup {w \in good : member[w] = 0 /\ "names" \in done[w]}
              /\ UNCHANGED <<done, etcd, admin, script, network, made>>
         /\ n \in {"restartContainerd", "token", "ping", "joinCommand", "verify", "helmVersion",
                   "metrics", "ingress", "metallb", "addressPool", "nfsServer", "nfsClient",
                   "provisioner", "precheck"} =>
              UNCHANGED <<done, member, etcd, admin, script, registered, network, made>>
<1>1. ASSUME n \in {"names", "kernel", "containerd", "packages"}
      PROVE  /\ done'
                = [h \in ClusterBootstrap!Hosts |-> IF h \in good THEN done[h] \cup {n} ELSE done[h]]
             /\ UNCHANGED <<member, etcd, admin, script, registered, network, made>>
  <2>1. ClusterBootstrap!MarkDone(n, good) /\ UNCHANGED <<member, etcd, admin, script, registered,
        network, made>>
    BY <1>1 DEF ClusterBootstrap!MachineEffect, ClusterBootstrap!Installs, ClusterBootstrap!Networks
  <2> QED BY <2>1 DEF ClusterBootstrap!MarkDone
<1>2. ASSUME n = "fetchHelm"
      PROVE  /\ done'
                = [h \in ClusterBootstrap!Hosts |-> IF h \in good THEN done[h] \cup {"helm"} ELSE done[h]]
             /\ UNCHANGED <<member, etcd, admin, script, registered, network, made>>
  <2>1. ClusterBootstrap!MarkDone("helm", good) /\ UNCHANGED <<member, etcd, admin, script,
        registered, network, made>>
    BY <1>2 DEF ClusterBootstrap!MachineEffect, ClusterBootstrap!Installs, ClusterBootstrap!Networks
  <2> QED BY <2>1 DEF ClusterBootstrap!MarkDone
<1>3. ASSUME n \in {"reset", "wipeMaster", "wipeWorker"}
      PROVE  /\ member' = [h \in ClusterBootstrap!Hosts |-> IF h \in good THEN 0 ELSE member[h]]
             /\ registered' = (IF Master \in good THEN {} ELSE registered)
             /\ network' = (IF Master \in good THEN {} ELSE network)
             /\ etcd' = (IF Master \in good THEN 0 ELSE etcd)
             /\ UNCHANGED <<done, admin, script, made>>
  <2>1. ClusterBootstrap!Leave(good, TRUE) /\ UNCHANGED <<done, admin, script, made>>
    BY <1>3 DEF ClusterBootstrap!MachineEffect, ClusterBootstrap!Installs, ClusterBootstrap!Networks
  <2> QED BY <2>1 DEF ClusterBootstrap!Leave
<1>4. ASSUME n = "removeConfig"
      PROVE  /\ member' = [h \in ClusterBootstrap!Hosts |-> IF h \in good THEN 0 ELSE member[h]]
             /\ registered' = (IF Master \in good THEN {} ELSE registered)
             /\ network' = (IF Master \in good THEN {} ELSE network)
             /\ etcd' = etcd /\ admin' = (IF Master \in good THEN 0 ELSE admin)
             /\ UNCHANGED <<done, script, made>>
  <2>1. /\ ClusterBootstrap!Leave(good, FALSE) /\ admin' = (IF Master \in good THEN 0 ELSE admin)
        /\ UNCHANGED <<done, script, made>>
    BY <1>4 DEF ClusterBootstrap!MachineEffect, ClusterBootstrap!Installs, ClusterBootstrap!Networks
  <2> QED BY <2>1 DEF ClusterBootstrap!Leave
<1>5. ASSUME n = "init"
      PROVE  /\ UNCHANGED <<done, admin, script, registered, network>>
             /\ IF Master \in good /\ member[Master] = 0
                THEN /\ made' = made + 1 /\ member' = [member EXCEPT ![Master] = made + 1]
                     /\ etcd' = made + 1
                ELSE /\ UNCHANGED <<made, member>> /\ etcd' \in {etcd, made + 1}
                     /\ bad = {} => etcd' = etcd
  <2>1. ClusterBootstrap!InitEffect(good, bad)
    BY <1>5 DEF ClusterBootstrap!MachineEffect, ClusterBootstrap!Installs, ClusterBootstrap!Networks
  <2> QED BY <2>1 DEF ClusterBootstrap!InitEffect
<1>6. ASSUME n = "kubeconfig"
      PROVE  /\ admin' = (IF Master \in good THEN member[Master] ELSE admin)
             /\ UNCHANGED <<done, member, etcd, script, registered, network, made>>
  BY <1>6 DEF ClusterBootstrap!MachineEffect, ClusterBootstrap!Installs, ClusterBootstrap!Networks
<1>7. ASSUME n \in {"calico", "flannel"}
      PROVE  /\ network' = (IF good # {} THEN network \cup {n} ELSE network)
             /\ UNCHANGED <<done, member, etcd, admin, script, registered, made>>
  BY <1>7 DEF ClusterBootstrap!MachineEffect, ClusterBootstrap!Installs, ClusterBootstrap!Networks
<1>8. ASSUME n = "saveScript"
      PROVE  /\ script' = [w \in Workers |-> IF w \in good THEN run.token ELSE script[w]]
             /\ UNCHANGED <<done, member, etcd, admin, registered, network, made>>
  BY <1>8 DEF ClusterBootstrap!MachineEffect, ClusterBootstrap!Installs, ClusterBootstrap!Networks
<1>9. ASSUME n = "join"
      PROVE  /\ member' = [h \in ClusterBootstrap!Hosts |-> IF h \in good /\ member[h]
                = 0 THEN script[h] ELSE member[h]]
             /\ registered' = registered \cup {w \in good : member[w] = 0 /\ "names" \in done[w]}
             /\ UNCHANGED <<done, etcd, admin, script, network, made>>
  <2>1. ClusterBootstrap!JoinEffect(good)
    BY <1>9 DEF ClusterBootstrap!MachineEffect, ClusterBootstrap!Installs, ClusterBootstrap!Networks
  <2> QED BY <2>1 DEF ClusterBootstrap!JoinEffect
<1>10. ASSUME n \in {"restartContainerd", "token", "ping", "joinCommand", "verify", "helmVersion",
                    "metrics", "ingress", "metallb", "addressPool", "nfsServer", "nfsClient",
                    "provisioner", "precheck"}
       PROVE  UNCHANGED <<done, member, etcd, admin, script, registered, network, made>>
  BY <1>10 DEF ClusterBootstrap!MachineEffect, ClusterBootstrap!Installs, ClusterBootstrap!Networks,
     ClusterBootstrap!machines
<1> QED BY <1>1, <1>2, <1>3, <1>4, <1>5, <1>6, <1>7, <1>8, <1>9, <1>10

\* What a task leaves alone.
LEMMA TaskKeeps ==
  ASSUME MachineValues, RunValues, NEW t \in BookTasks, NEW good \in SUBSET ClusterBootstrap!Hosts,
         NEW bad \in SUBSET ClusterBootstrap!Hosts, Took(t, good, bad)
  PROVE  /\ \A h \in ClusterBootstrap!Hosts : done[h] \subseteq done'[h]
         /\ t.name \notin {"reset", "removeConfig", "wipeMaster", "init"} =>
              member'[Master] = member[Master] /\ etcd' = etcd
         /\ t.name \notin {"removeConfig", "kubeconfig"} => admin' = admin
         /\ t.name \notin {"reset", "removeConfig", "wipeMaster"} => network \subseteq network'
         /\ t.name # "saveScript" => script' = script
         /\ t.name \notin {"reset", "removeConfig", "wipeMaster", "wipeWorker", "init", "join"} =>
              member' = member
         /\ t.name # "init" => made' = made
         /\ t.name \notin {"names", "kernel", "containerd", "packages", "fetchHelm"} => done' = done
<1>1. ClusterBootstrap!MachineEffect(t.name, good, bad) /\ good \subseteq TaskOn(t)
  BY DEF Took
<1>2. t.name \in TaskNames
  BY DEF BookTasks
<1>3. done \in [ClusterBootstrap!Hosts -> SUBSET (ClusterBootstrap!Installs \cup {"helm"})]
      /\ member \in [ClusterBootstrap!Hosts -> ClusterBootstrap!Clusters]
  BY DEF MachineValues
<1>4. t.name \in {"wipeWorker", "saveScript", "join"} => Master \notin good
  BY <1>1, TaskHosts, BootNats DEF JoinNames
<1>5. \A h \in ClusterBootstrap!Hosts : done[h] \subseteq done'[h]
  <2>1. CASE t.name \in {"names", "kernel", "containerd", "packages"}
    BY <1>1, <2>1, TaskEffects
  <2>2. CASE t.name = "fetchHelm"
    BY <1>1, <2>2, TaskEffects
  <2>3. CASE t.name \notin {"names", "kernel", "containerd", "packages", "fetchHelm"}
    <3>1. done' = done
      BY <1>1, <1>2, <2>3, TaskEffects DEF TaskNames
    <3> QED BY <3>1
  <2> QED BY <2>1, <2>2, <2>3
<1>6. t.name \notin {"reset", "removeConfig", "wipeMaster", "wipeWorker", "init", "join"} =>
        member' = member
  BY <1>1, <1>2, TaskEffects DEF TaskNames
<1>7. t.name \in {"wipeWorker", "join"} => member'[Master] = member[Master] /\ etcd' = etcd
  BY <1>1, <1>3, <1>4, TaskEffects, BootHosts
<1>8. t.name \notin {"reset", "removeConfig", "wipeMaster", "wipeWorker", "init"} => etcd' = etcd
  BY <1>1, <1>2, TaskEffects DEF TaskNames
<1>9. t.name \notin {"removeConfig", "kubeconfig"} => admin' = admin
  BY <1>1, <1>2, TaskEffects DEF TaskNames
<1>10. t.name \notin {"reset", "removeConfig", "wipeMaster"} => network \subseteq network'
  <2>1. t.name = "wipeWorker" => network' = network
    BY <1>1, <1>4, TaskEffects
  <2>2. t.name \notin {"reset", "removeConfig", "wipeMaster", "wipeWorker", "calico", "flannel"} =>
          network' = network
    BY <1>1, <1>2, TaskEffects DEF TaskNames
  <2>3. t.name \in {"calico", "flannel"} => network \subseteq network'
    BY <1>1, TaskEffects
  <2> QED BY <2>1, <2>2, <2>3
<1>11. t.name # "saveScript" => script' = script
  BY <1>1, <1>2, TaskEffects DEF TaskNames
<1>12. t.name # "init" => made' = made
  BY <1>1, <1>2, TaskEffects DEF TaskNames
<1>13. t.name \notin {"names", "kernel", "containerd", "packages", "fetchHelm"} => done' = done
  BY <1>1, <1>2, TaskEffects DEF TaskNames
<1> QED BY <1>5, <1>6, <1>7, <1>8, <1>9, <1>10, <1>11, <1>12, <1>13

\* A task that initializes may still make a cluster.
LEMMA InitMayMake ==
  ASSUME LeftPart, InitPart, Goes, run.left # <<>>, Head(run.left).name = "init"
  PROVE  made < MaxClusters
<1>1. CASE run.book = "init"
  <2>1. TasksLeft \in 1..4 /\ TasksLeft \notin {4, 2, 1}
    BY <1>1, InitAt
  <2>2. TasksLeft = 3
    BY <2>1
  <2> QED BY <1>1, <2>2 DEF InitPart
<1>2. CASE run.book \in Deployments
  <2>1. TasksLeft \in 1..19 /\ TasksLeft \notin {19, 18, 17, 16, 15, 14, 13, 12, 11}
    BY <1>2, DeployAt
  <2>2. TasksLeft \notin {9, 8, 7, 6, 5, 4, 3, 2, 1}
    BY <1>2, DeployAt DEF ClusterBootstrap!Networks
  <2>3. TasksLeft = 10
    BY <2>1, <2>2
  <2> QED BY <1>2, <2>3 DEF InitPart
<1>3. CASE run.book \notin WithInit
  <2>1. run.book \in BookNames
    BY DEF LeftPart
  <2>2. ClusterBootstrap!TasksOf[run.book] \in Seq(PlainTasks)
    BY <1>3, <2>1, BookLists
  <2>3. /\ Head(run.left)
           = ClusterBootstrap!TasksOf[run.book][Len(ClusterBootstrap!TasksOf[run.book]) - TasksLeft + 1]
        /\ TasksLeft \in Nat /\ TasksLeft >= 1 /\ TasksLeft <= Len(ClusterBootstrap!TasksOf[run.book])
    BY BootHead
  <2>4. Len(ClusterBootstrap!TasksOf[run.book]) - TasksLeft + 1 \in 1..Len(ClusterBootstrap!TasksOf[run.book])
    BY <2>2, <2>3
  <2>5. Head(run.left) \in PlainTasks
    BY <2>2, <2>3, <2>4
  <2> QED BY <2>5 DEF PlainTasks
<1> QED BY <1>1, <1>2, <1>3 DEF WithInit

LEMMA TaskMachines ==
  ASSUME BootstrapIInv, NEW t \in BookTasks, NEW good \in SUBSET ClusterBootstrap!Hosts,
         NEW bad \in SUBSET ClusterBootstrap!Hosts, Took(t, good, bad)
  PROVE  MachineValues'
<1>1. /\ ClusterBootstrap!MachineEffect(t.name, good, bad) /\ good \subseteq TaskOn(t)
         /\ t.name \in TaskNames
      /\ Goes /\ run.left # <<>> /\ t = Head(run.left)
  BY DEF Took, BookTasks
<1>2. /\ done \in [ClusterBootstrap!Hosts -> SUBSET (ClusterBootstrap!Installs \cup {"helm"})]
      /\ member \in [ClusterBootstrap!Hosts -> ClusterBootstrap!Clusters]
      /\ etcd \in ClusterBootstrap!Clusters /\ admin \in ClusterBootstrap!Clusters
         /\ made \in ClusterBootstrap!Clusters
      /\ script \in [Workers -> ClusterBootstrap!Clusters]
      /\ registered \subseteq Workers /\ network \subseteq ClusterBootstrap!Networks
  BY DEF BootstrapIInv, MachineValues
<1>3. 0 \in ClusterBootstrap!Clusters /\ run.token \in ClusterBootstrap!Clusters
  BY BootNats DEF ClusterBootstrap!Clusters, BootstrapIInv, RunValues
<1>4. t.name \in {"join", "saveScript", "wipeWorker"} => good \subseteq Workers
  BY <1>1, TaskHosts DEF BootstrapIInv, JoinNames
<1>5. CASE t.name \in {"names", "kernel", "containerd", "packages"}
  BY <1>1, <1>2, <1>5, TaskEffects DEF MachineValues, ClusterBootstrap!Installs
<1>6. CASE t.name = "fetchHelm"
  BY <1>1, <1>2, <1>6, TaskEffects DEF MachineValues
<1>7. CASE t.name \in {"reset", "wipeMaster", "wipeWorker", "removeConfig"}
  BY <1>1, <1>2, <1>3, <1>7, TaskEffects DEF MachineValues
<1>8. CASE t.name = "init"
  <2>1. made + 1 \in ClusterBootstrap!Clusters
    <3>1. made < MaxClusters
      BY <1>1, <1>8, InitMayMake DEF BootstrapIInv
    <3> QED BY <1>2, <3>1, BootNats DEF ClusterBootstrap!Clusters
  <2> QED BY <1>1, <1>2, <1>8, <2>1, TaskEffects DEF MachineValues
<1>9. CASE t.name = "kubeconfig"
  BY <1>1, <1>2, <1>9, TaskEffects, BootHosts DEF MachineValues
<1>10. CASE t.name \in {"calico", "flannel"}
  <2>1. /\ network' = network \/ network' = network \cup {t.name}
        /\ UNCHANGED <<done, member, etcd, admin, script, registered, made>>
    BY <1>1, <1>10, TaskEffects
  <2>2. t.name \in ClusterBootstrap!Networks
    BY <1>10 DEF ClusterBootstrap!Networks
  <2>3. network' \subseteq ClusterBootstrap!Networks
    BY <1>2, <2>1, <2>2
  <2> QED BY <1>2, <2>1, <2>3 DEF MachineValues
<1>11. CASE t.name = "saveScript"
  BY <1>1, <1>2, <1>3, <1>11, TaskEffects DEF MachineValues
<1>12. CASE t.name = "join"
  BY <1>1, <1>2, <1>4, <1>12, TaskEffects DEF MachineValues
<1>13. CASE t.name \in {"restartContainerd", "token", "ping", "joinCommand", "verify", "helmVersion",
                       "metrics", "ingress", "metallb", "addressPool", "nfsServer", "nfsClient",
                       "provisioner", "precheck"}
  BY <1>1, <1>2, <1>13, TaskEffects DEF MachineValues
<1> QED BY <1>1, <1>5, <1>6, <1>7, <1>8, <1>9, <1>10, <1>11, <1>12, <1>13 DEF TaskNames

LEMMA TaskMaster ==
  ASSUME BootstrapIInv, NEW t \in BookTasks, NEW good \in SUBSET ClusterBootstrap!Hosts,
         NEW bad \in SUBSET ClusterBootstrap!Hosts, Took(t, good, bad)
  PROVE  MasterPart'
<1>1. /\ ClusterBootstrap!MachineEffect(t.name, good, bad) /\ good \subseteq TaskOn(t)
         /\ t.name \in TaskNames
      /\ \A h \in good : ClusterBootstrap!Works(t.name, h)
  BY DEF Took, BookTasks
<1>2. /\ member \in [ClusterBootstrap!Hosts -> ClusterBootstrap!Clusters]
         /\ Master \in ClusterBootstrap!Hosts
      /\ member[Master] = 0 => network = {}
      /\ member[Master] # 0 => "packages" \in done[Master]
  BY BootHosts DEF BootstrapIInv, MachineValues, MasterPart
<1>3. \A h \in ClusterBootstrap!Hosts : done[h] \subseteq done'[h]
  BY TaskKeeps DEF BootstrapIInv
<1>4. CASE t.name \in {"reset", "wipeMaster", "wipeWorker", "removeConfig"}
  BY <1>1, <1>2, <1>3, <1>4, TaskEffects DEF MasterPart
<1>5. CASE t.name = "init"
  <2>1. Master \in good /\ member[Master] = 0 => "packages" \in done[Master]
    BY <1>1, <1>5 DEF ClusterBootstrap!Works
  <2>2. CASE Master \in good /\ member[Master] = 0
    <3>1. /\ made' = made + 1 /\ member' = [member EXCEPT ![Master] = made + 1]
          /\ UNCHANGED <<done, network>>
      BY <1>1, <1>5, <2>2, TaskEffects
    <3>2. made \in Nat
      BY DEF BootstrapIInv, MachineValues, ClusterBootstrap!Clusters
    <3>3. member'[Master] # 0
      BY <1>2, <3>1, <3>2
    <3> QED BY <2>1, <2>2, <3>1, <3>3 DEF MasterPart
  <2>3. CASE ~(Master \in good /\ member[Master] = 0)
    BY <1>1, <1>2, <1>5, <2>3, TaskEffects DEF MasterPart
  <2> QED BY <2>2, <2>3
<1>6. CASE t.name \in {"calico", "flannel"}
  <2>1. good # {} => member[Master] # 0
    BY <1>1, <1>6 DEF ClusterBootstrap!Works, ClusterBootstrap!ClusterTasks
  <2> QED BY <1>1, <1>2, <1>6, <2>1, TaskEffects DEF MasterPart
<1>7. CASE t.name = "join"
  <2>1. member'[Master] = member[Master]
    BY <1>7, TaskKeeps DEF BootstrapIInv
  <2> QED BY <1>1, <1>2, <1>7, <2>1, TaskEffects DEF MasterPart
<1>8. CASE t.name \in TaskNames \ {"reset", "wipeMaster", "wipeWorker", "removeConfig", "init",
                                   "calico", "flannel", "join"}
  <2>1. member' = member
    BY <1>8, TaskKeeps DEF BootstrapIInv
  <2>2. network' = network
    BY <1>1, <1>8, TaskEffects DEF TaskNames
  <2> QED BY <1>2, <1>3, <2>1, <2>2 DEF MasterPart
<1> QED BY <1>1, <1>4, <1>5, <1>6, <1>7, <1>8

LEMMA TaskLists ==
  ASSUME BootstrapIInv, NEW t \in BookTasks, NEW good \in SUBSET ClusterBootstrap!Hosts,
         NEW bad \in SUBSET ClusterBootstrap!Hosts, Took(t, good, bad)
  PROVE  /\ LeftPart' /\ InitPart'
         /\ TasksLeft \in Nat /\ TasksLeft >= 1
         /\ Goes' => TasksLeft' = TasksLeft - 1
<1>1. /\ Goes /\ run.left # <<>> /\ t = Head(run.left) /\ run'.book = run.book
      /\ run'.outcome = "running" => run'.left = Tail(run.left)
  BY DEF Took
<1>2. /\ run.book \in BookNames
      /\ TasksLeft \in Nat /\ TasksLeft >= 1 /\ TasksLeft <= Len(ClusterBootstrap!TasksOf[run.book])
      /\ Tail(run.left) \in Seq(BookTasks) /\ Len(Tail(run.left)) = TasksLeft - 1
      /\ \A j \in 1..(TasksLeft - 1) : Tail(run.left)[j] =
           ClusterBootstrap!TasksOf[run.book][Len(ClusterBootstrap!TasksOf[run.book]) - (TasksLeft - 1) + j]
  BY <1>1, BootHead DEF BootstrapIInv
<1>3. Goes' => run'.left = Tail(run.left) /\ TasksLeft' = TasksLeft - 1
  BY <1>1, <1>2 DEF Goes, TasksLeft
<1>4. LeftPart'
  <2> SUFFICES ASSUME Goes'
               PROVE  /\ run'.book \in BookNames /\ run'.left \in Seq(BookTasks)
                      /\ TasksLeft' <= Len(ClusterBootstrap!TasksOf[run'.book])
                      /\ \A j \in 1..TasksLeft' :
                           run'.left[j]
                           = ClusterBootstrap!TasksOf[run'.book][Len(ClusterBootstrap!TasksOf[run'.book]) - TasksLeft' + j]
    BY DEF LeftPart
  <2>1. Len(ClusterBootstrap!TasksOf[run.book]) \in Nat
    BY <1>2, BookLists
  <2>2. TasksLeft - 1 <= Len(ClusterBootstrap!TasksOf[run.book])
    BY <1>2, <2>1
  <2> QED BY <1>1, <1>2, <1>3, <2>2
<1>5. InitPart'
  <2>1. t.name # "init" => made' = made
    BY TaskKeeps DEF BootstrapIInv
  <2>2. CASE Goes' /\ run.book = "init" /\ TasksLeft' >= 3
    <3>1. TasksLeft \in 1..4 /\ TasksLeft - 1 >= 3
      BY <1>1, <1>3, <2>2, InitAt DEF BootstrapIInv
    <3>2. TasksLeft = 4
      BY <3>1
    <3>3. t.name = "wipeMaster"
      BY <1>1, <2>2, <3>2, InitAt DEF BootstrapIInv
    <3>4. made < MaxClusters
      BY <1>1, <2>2, <3>2 DEF BootstrapIInv, InitPart
    <3> QED BY <1>1, <2>1, <2>2, <3>3, <3>4 DEF InitPart, Deployments
  <2>3. CASE Goes' /\ run.book \in Deployments /\ TasksLeft' >= 10
    <3>1. TasksLeft \in 1..19 /\ TasksLeft - 1 >= 10
      BY <1>1, <1>3, <2>3, DeployAt DEF BootstrapIInv
    <3>2. TasksLeft >= 10 /\ TasksLeft # 10 /\ TasksLeft \in {11, 12, 13, 14, 15, 16, 17, 18, 19}
      BY <3>1
    <3>3. t.name # "init"
      BY <1>1, <2>3, <3>2, DeployAt DEF BootstrapIInv
    <3>4. made < MaxClusters
      BY <1>1, <2>3, <3>2 DEF BootstrapIInv, InitPart
    <3> QED BY <1>1, <2>1, <2>3, <3>3, <3>4 DEF InitPart, Deployments
  <2> QED BY <1>1, <2>2, <2>3 DEF InitPart
<1> QED BY <1>2, <1>3, <1>4, <1>5

\* A task leaves alone a worker it does not do its work on.
LEMMA TaskAlone ==
  ASSUME MachineValues, RunValues, NEW t \in BookTasks, NEW good \in SUBSET ClusterBootstrap!Hosts,
         NEW bad \in SUBSET ClusterBootstrap!Hosts, Took(t, good, bad), NEW w \in Workers, w \notin good
  PROVE  member'[w] = member[w] /\ script'[w] = script[w]
<1>1. ClusterBootstrap!MachineEffect(t.name, good, bad) /\ t.name \in TaskNames
  BY DEF Took, BookTasks
<1>2. /\ member \in [ClusterBootstrap!Hosts -> ClusterBootstrap!Clusters]
         /\ script \in [Workers -> ClusterBootstrap!Clusters]
      /\ w \in ClusterBootstrap!Hosts /\ w # Master
  BY BootHosts, BootNats DEF MachineValues
<1>3. script'[w] = script[w]
  <2>1. CASE t.name = "saveScript"
    BY <1>1, <1>2, <2>1, TaskEffects
  <2>2. CASE t.name # "saveScript"
    BY <2>2, TaskKeeps
  <2> QED BY <2>1, <2>2
<1>4. member'[w] = member[w]
  <2>1. CASE t.name \in {"reset", "removeConfig", "wipeMaster", "wipeWorker"}
    BY <1>1, <1>2, <2>1, TaskEffects
  <2>2. CASE t.name = "init"
    BY <1>1, <1>2, <2>2, TaskEffects
  <2>3. CASE t.name = "join"
    BY <1>1, <1>2, <2>3, TaskEffects
  <2>4. CASE t.name \notin {"reset", "removeConfig", "wipeMaster", "wipeWorker", "init", "join"}
    BY <2>4, TaskKeeps
  <2> QED BY <2>1, <2>2, <2>3, <2>4
<1> QED BY <1>3, <1>4

LEMMA TaskRun ==
  ASSUME BootstrapIInv, NEW t \in BookTasks, NEW good \in SUBSET ClusterBootstrap!Hosts,
         NEW bad \in SUBSET ClusterBootstrap!Hosts, Took(t, good, bad)
  PROVE  RunValues' /\ FaultValues' /\ PreparedPart'
<1>1. RunValues /\ FaultValues /\ PreparedPart
  BY DEF BootstrapIInv
<1>2. /\ DOMAIN run' = RunFields /\ run'.outcome \in {"running", "failed"}
      /\ run'.prepared = run.prepared /\ online' = online /\ faults' \in 0..MaxFaults
  BY DEF Took
<1>3. run'.targets \subseteq Workers /\ run'.ready \subseteq Workers
  BY <1>1 DEF Took, RunValues, ClusterBootstrap!Targets, ClusterBootstrap!ReadyWorkers
<1>4. run'.pinged \subseteq Workers
  <2>1. CASE t.name = "ping"
    <3>1. t.name \in JoinNames \ {"joinCommand"}
      BY <2>1 DEF JoinNames
    <3>2. TaskOn(t) \subseteq Workers
      BY <1>1, <3>1, TaskHosts
    <3> QED BY <2>1, <3>2 DEF Took
  <2>2. CASE t.name # "ping"
    BY <1>1, <2>2 DEF Took, RunValues
  <2> QED BY <2>1, <2>2
<1>5. run'.token \in ClusterBootstrap!Clusters
  <2>1. 0 \in ClusterBootstrap!Clusters /\ member[Master] \in ClusterBootstrap!Clusters
        /\ run.token \in ClusterBootstrap!Clusters
    BY <1>1, BootNats, BootHosts DEF ClusterBootstrap!Clusters, BootstrapIInv, MachineValues, RunValues
  <2> QED BY <2>1 DEF Took
<1> QED BY <1>1, <1>2, <1>3, <1>4, <1>5 DEF RunValues, FaultValues, PreparedPart

\* The tasks of a deployment once it has initialized change neither the master's cluster nor,
\* after the kubeconfig, whose cluster it is for.
LEMMA DeployLater ==
  ASSUME LeftPart, Goes, run.left # <<>>, run.book \in Deployments
  PROVE  /\ TasksLeft <= 9 =>
              Head(run.left).name \notin {"reset", "removeConfig", "wipeMaster", "init"}
         /\ TasksLeft <= 8 => Head(run.left).name \notin {"removeConfig", "kubeconfig"}
<1> DEFINE n == TasksLeft
           what == Head(run.left).name
<1>1. /\ n \in 1..19
      /\ n = 9 => what = "kubeconfig"
      /\ n = 8 => what = "token"
      /\ n = 7 => what \in {"calico", "flannel"}
      /\ n = 6 => what = "ping"
      /\ n = 5 => what = "joinCommand"
      /\ n = 4 => what = "saveScript"
      /\ n = 3 => what = "wipeWorker"
      /\ n = 2 => what = "join"
      /\ n = 1 => what = "verify"
  BY DeployAt DEF ClusterBootstrap!Networks
<1> HIDE DEF n, what
<1>2. n <= 9 => n \in {1, 2, 3, 4, 5, 6, 7, 8, 9}
  BY <1>1
<1>3. n <= 8 => n \in {1, 2, 3, 4, 5, 6, 7, 8}
  BY <1>1
<1>4. n \in {1, 2, 3, 4, 5, 6, 7, 8} =>
        what \notin {"reset", "removeConfig", "wipeMaster", "init", "kubeconfig"}
  BY <1>1
<1>5. n = 9 => what \notin {"reset", "removeConfig", "wipeMaster", "init"}
  BY <1>1
<1> QED BY <1>2, <1>3, <1>4, <1>5 DEF n, what

LEMMA TaskDeployGoes ==
  ASSUME BootstrapIInv, NEW t \in BookTasks, NEW good \in SUBSET ClusterBootstrap!Hosts,
         NEW bad \in SUBSET ClusterBootstrap!Hosts, Took(t, good, bad), run.book \in Deployments,
         Clean', Goes'
  PROVE  DeployGoes(TasksLeft)'
<1> DEFINE n == TasksLeft
<1>1. /\ ClusterBootstrap!MachineEffect(t.name, good, bad) /\ good \subseteq TaskOn(t)
         /\ TaskOn(t) \subseteq online
      /\ Goes /\ run.left # <<>> /\ t = Head(run.left) /\ LeftPart
      /\ MachineValues /\ RunValues
  BY DEF Took, BootstrapIInv, Goes
<1>2. /\ t.ignored = FALSE => good = TaskOn(t)
      /\ t.name # "reset" => bad = {} /\ \A h \in TaskOn(t) : ClusterBootstrap!Works(t.name, h)
         => h \in good
      /\ online' = online /\ run'.prepared = run.prepared
  BY DEF Took, Clean, Goes
<1>3. Clean /\ n \in 1..19 /\ n \in Nat /\ TasksLeft' = n - 1
  <2>1. Clean
    BY DEF Took, Clean
  <2>2. n \in 1..19
    BY <1>1, DeployAt
  <2>3. n \in Nat /\ n >= 1
    BY <2>2
  <2>4. Goes' => TasksLeft' = TasksLeft - 1
    BY TaskLists
  <2>5. TasksLeft' = n - 1
    BY <2>4
  <2> QED BY <2>1, <2>2, <2>3, <2>5
<1>4. DeployGoes(n)
  BY <1>1, <1>3 DEF BootstrapIInv, DeployPart
<1>5. /\ n <= 18 => online = ClusterBootstrap!Hosts
      /\ n <= 14 => \A h \in ClusterBootstrap!Hosts : "kernel" \in done[h]
      /\ n <= 13 => \A h \in ClusterBootstrap!Hosts : "containerd" \in done[h]
      /\ n <= 11 => \A h \in ClusterBootstrap!Hosts : "packages" \in done[h]
      /\ n = 10 => member[Master] = 0 /\ etcd = 0
      /\ n <= 9 => member[Master] # 0
      /\ n <= 8 => admin = member[Master]
      /\ n <= 6 => network # {}
      /\ run.prepared = TRUE => \A h \in ClusterBootstrap!Hosts : "containerd" \in done[h]
  BY <1>4 DEF DeployGoes
<1>6. /\ \A h \in ClusterBootstrap!Hosts : done[h] \subseteq done'[h]
      /\ t.name \notin {"reset", "removeConfig", "wipeMaster", "init"} =>
           member'[Master] = member[Master] /\ etcd' = etcd
      /\ t.name \notin {"removeConfig", "kubeconfig"} => admin' = admin
      /\ t.name \notin {"reset", "removeConfig", "wipeMaster"} => network \subseteq network'
  BY <1>1, TaskKeeps
<1>7. /\ n <= 9 => t.name \notin {"reset", "removeConfig", "wipeMaster", "init"}
      /\ n <= 8 => t.name \notin {"removeConfig", "kubeconfig"}
  BY <1>1, DeployLater
<1>8. /\ ClusterBootstrap!Group("all") = ClusterBootstrap!Hosts /\ ClusterBootstrap!Group("master")
         = {Master}
      /\ t.name # "joinCommand" => TaskOn(t) = ClusterBootstrap!Group(t.on)
  BY DEF ClusterBootstrap!Group, TaskOn
<1>9. /\ n = 19 => t.name = "reset" /\ t.on = "all"
      /\ n = 15 => t.name = "kernel" /\ t.on = "all" /\ t.ignored = FALSE
      /\ n = 14 => t.name = "containerd" /\ t.on = "all" /\ t.ignored = FALSE
      /\ n = 12 => t.name = "packages" /\ t.on = "all" /\ t.ignored = FALSE
      /\ n = 11 => t.name = "wipeMaster" /\ t.on = "master"
      /\ n = 10 => t.name = "init" /\ t.on = "master" /\ t.ignored = FALSE
      /\ n = 9 => t.name = "kubeconfig" /\ t.on = "master" /\ t.ignored = FALSE
      /\ n = 7 => t.name \in ClusterBootstrap!Networks /\ t.on = "master" /\ t.ignored = FALSE
  BY <1>1, DeployAt
<1>10. /\ done \in [ClusterBootstrap!Hosts -> SUBSET (ClusterBootstrap!Installs \cup {"helm"})]
          /\ made \in Nat
       /\ member \in [ClusterBootstrap!Hosts -> ClusterBootstrap!Clusters]
          /\ Master \in ClusterBootstrap!Hosts
  BY <1>1, BootHosts DEF MachineValues, ClusterBootstrap!Clusters
<1> HIDE DEF n
<1>11. online' = ClusterBootstrap!Hosts
  <2>1. CASE n = 19
    <3>1. TaskOn(t) = ClusterBootstrap!Hosts
      BY <1>8, <1>9, <2>1
    <3> QED BY <1>1, <1>2, <3>1 DEF BootstrapIInv, FaultValues
  <2>2. CASE n <= 18
    BY <1>2, <1>5, <2>2
  <2> QED BY <1>3, <2>1, <2>2
<1>12. ASSUME n - 1 <= 14 PROVE \A h \in ClusterBootstrap!Hosts : "kernel" \in done'[h]
  <2>1. CASE n = 15
    <3>1. good = ClusterBootstrap!Hosts
      BY <1>2, <1>8, <1>9, <2>1
    <3> QED BY <1>1, <1>9, <1>10, <2>1, <3>1, TaskEffects
  <2>2. CASE n <= 14
    BY <1>5, <1>6, <2>2
  <2> QED BY <1>3, <1>12, <2>1, <2>2
<1>13. ASSUME n - 1 <= 13 PROVE \A h \in ClusterBootstrap!Hosts : "containerd" \in done'[h]
  <2>1. CASE n = 14
    <3>1. good = ClusterBootstrap!Hosts
      BY <1>2, <1>8, <1>9, <2>1
    <3> QED BY <1>1, <1>9, <1>10, <2>1, <3>1, TaskEffects
  <2>2. CASE n <= 13
    BY <1>5, <1>6, <2>2
  <2> QED BY <1>3, <1>13, <2>1, <2>2
<1>14. ASSUME n - 1 <= 11 PROVE \A h \in ClusterBootstrap!Hosts : "packages" \in done'[h]
  <2>1. CASE n = 12
    <3>1. good = ClusterBootstrap!Hosts
      BY <1>2, <1>8, <1>9, <2>1
    <3> QED BY <1>1, <1>9, <1>10, <2>1, <3>1, TaskEffects
  <2>2. CASE n <= 11
    BY <1>5, <1>6, <2>2
  <2> QED BY <1>3, <1>14, <2>1, <2>2
<1>15. ASSUME n - 1 = 10 PROVE member'[Master] = 0 /\ etcd' = 0
  <2>1. n = 11
    BY <1>3, <1>15
  <2>2. t.name = "wipeMaster" /\ TaskOn(t) = {Master}
    BY <1>8, <1>9, <2>1
  <2>3. ClusterBootstrap!Works("wipeMaster", Master)
    BY DEF ClusterBootstrap!Works, ClusterBootstrap!ClusterTasks
  <2>4. Master \in good
    BY <1>2, <2>2, <2>3
  <2> QED BY <1>1, <1>10, <2>2, <2>4, TaskEffects
<1>16. ASSUME n - 1 <= 9 PROVE member'[Master] # 0
  <2>1. CASE n = 10
    <3>1. t.name = "init" /\ Master \in good /\ member[Master] = 0
      BY <1>2, <1>5, <1>8, <1>9, <2>1
    <3>2. member' = [member EXCEPT ![Master] = made + 1]
      BY <1>1, <3>1, TaskEffects
    <3> QED BY <1>10, <3>2
  <2>2. CASE n <= 9
    BY <1>5, <1>6, <1>7, <2>2
  <2> QED BY <1>3, <1>16, <2>1, <2>2
<1>17. ASSUME n - 1 <= 8 PROVE admin' = member'[Master]
  <2>1. CASE n = 9
    <3>1. t.name = "kubeconfig" /\ Master \in good
      BY <1>2, <1>8, <1>9, <2>1
    <3> QED BY <1>1, <3>1, TaskEffects
  <2>2. CASE n <= 8
    <3>1. n <= 9
      BY <1>3, <2>2
    <3> QED BY <1>5, <1>6, <1>7, <2>2, <3>1
  <2> QED BY <1>3, <1>17, <2>1, <2>2
<1>18. ASSUME n - 1 <= 6 PROVE network' # {}
  <2>1. CASE n = 7
    <3>1. t.name \in {"calico", "flannel"} /\ good # {}
      BY <1>2, <1>8, <1>9, <2>1 DEF ClusterBootstrap!Networks
    <3>2. network' = network \cup {t.name}
      BY <1>1, <3>1, TaskEffects
    <3> QED BY <3>2
  <2>2. CASE n <= 6
    <3>1. n <= 9
      BY <1>3, <2>2
    <3> QED BY <1>5, <1>6, <1>7, <2>2, <3>1
  <2> QED BY <1>3, <1>18, <2>1, <2>2
<1>19. run'.prepared = TRUE => \A h \in ClusterBootstrap!Hosts : "containerd" \in done'[h]
  BY <1>2, <1>5, <1>6
<1> QED BY <1>3, <1>11, <1>12, <1>13, <1>14, <1>15, <1>16, <1>17, <1>18, <1>19 DEF DeployGoes

\* No task of a deployment that found containerd everywhere lacks what it needs.
LEMMA TaskDeployWorks ==
  ASSUME BootstrapIInv, NEW t \in BookTasks, NEW good \in SUBSET ClusterBootstrap!Hosts,
         NEW bad \in SUBSET ClusterBootstrap!Hosts, Took(t, good, bad), run.book \in Deployments, Clean',
         run'.outcome = "failed", run'.prepared = TRUE
  PROVE  FALSE
<1> DEFINE n == TasksLeft
<1>1. Goes /\ run.left # <<>> /\ t = Head(run.left) /\ LeftPart
  BY DEF Took, BootstrapIInv
<1>2. /\ t.ignored = FALSE
      /\ t.name # "reset" => \E h \in TaskOn(t) : ~ClusterBootstrap!Works(t.name, h)
      /\ run.prepared = TRUE /\ Clean
  BY DEF Took, Clean, BookTasks
<1>3. n \in 1..19 /\ DeployGoes(n)
  BY <1>1, <1>2, DeployAt DEF BootstrapIInv, DeployPart
<1>4. /\ n <= 14 => \A h \in ClusterBootstrap!Hosts : "kernel" \in done[h]
      /\ n <= 11 => \A h \in ClusterBootstrap!Hosts : "packages" \in done[h]
      /\ n = 10 => etcd = 0
      /\ n <= 9 => member[Master] # 0
      /\ \A h \in ClusterBootstrap!Hosts : "containerd" \in done[h]
  BY <1>2, <1>3 DEF DeployGoes
<1>5. /\ n = 19 => t.ignored = TRUE
      /\ n = 18 => t.name = "removeConfig"
      /\ n = 17 => t.name = "restartContainerd"
      /\ n = 16 => t.name = "names"
      /\ n = 15 => t.name = "kernel"
      /\ n = 14 => t.name = "containerd"
      /\ n = 13 => t.name = "restartContainerd"
      /\ n = 12 => t.name = "packages"
      /\ n = 11 => t.ignored = TRUE
      /\ n = 10 => t.name = "init" /\ t.on = "master"
      /\ n = 9 => t.name = "kubeconfig"
      /\ n = 8 => t.name = "token"
      /\ n = 7 => t.name \in ClusterBootstrap!Networks
      /\ n = 6 => t.ignored = TRUE
      /\ n = 5 => t.name = "joinCommand"
      /\ n = 4 => t.ignored = TRUE
      /\ n = 3 => t.ignored = TRUE
      /\ n = 2 => t.ignored = TRUE
      /\ n = 1 => t.name = "verify"
  BY <1>1, DeployAt
<1>6. TaskOn(t) \subseteq ClusterBootstrap!Hosts
  BY TaskHosts DEF BootstrapIInv
<1> HIDE DEF n
<1>7. n \notin {19, 11, 6, 4, 3, 2}
  BY <1>2, <1>5
<1>8. ASSUME t.name \in {"removeConfig", "names", "kernel", "containerd", "packages"} PROVE FALSE
  <2>1. \A h : ClusterBootstrap!Works(t.name, h)
    BY <1>8 DEF ClusterBootstrap!Works, ClusterBootstrap!ClusterTasks
  <2> QED BY <1>2, <1>8, <2>1
<1>9. ASSUME t.name = "restartContainerd" PROVE FALSE
  <2>1. \A h \in ClusterBootstrap!Hosts : ClusterBootstrap!Works(t.name, h)
    BY <1>4, <1>9 DEF ClusterBootstrap!Works, ClusterBootstrap!ClusterTasks
  <2> QED BY <1>2, <1>6, <1>9, <2>1
<1>10. ASSUME t.name \in {"kubeconfig", "token", "calico", "flannel", "joinCommand", "verify"},
              member[Master] # 0
       PROVE  FALSE
  <2>1. \A h : ClusterBootstrap!Works(t.name, h)
    BY <1>10 DEF ClusterBootstrap!Works, ClusterBootstrap!ClusterTasks
  <2> QED BY <1>2, <1>10, <2>1
<1>11. n # 10
  <2> SUFFICES ASSUME n = 10 PROVE FALSE
    OBVIOUS
  <2>1. t.name = "init" /\ TaskOn(t) = {Master}
    BY <1>5 DEF TaskOn, ClusterBootstrap!Group
  <2>2. /\ "kernel" \in done[Master] /\ "packages" \in done[Master] /\ etcd = 0
        /\ "containerd" \in done[Master]
    BY <1>4, BootHosts
  <2>3. ClusterBootstrap!Works("init", Master)
    BY <2>2 DEF ClusterBootstrap!Works, ClusterBootstrap!ClusterTasks
  <2> QED BY <1>2, <2>1, <2>3
<1>12. n \in {18, 17, 16, 15, 14, 13, 12, 9, 8, 7, 5, 1}
  BY <1>3, <1>7, <1>11
<1>13. CASE n \in {18, 17, 16, 15, 14, 13, 12}
  BY <1>5, <1>8, <1>9, <1>13
<1>14. CASE n \in {9, 8, 7, 5, 1}
  <2>1. member[Master] # 0
    BY <1>4, <1>14
  <2>2. t.name \in {"kubeconfig", "token", "calico", "flannel", "joinCommand", "verify"}
    BY <1>5, <1>14 DEF ClusterBootstrap!Networks
  <2> QED BY <1>10, <2>1, <2>2
<1> QED BY <1>12, <1>13, <1>14

LEMMA TaskDeploy ==
  ASSUME BootstrapIInv, NEW t \in BookTasks, NEW good \in SUBSET ClusterBootstrap!Hosts,
         NEW bad \in SUBSET ClusterBootstrap!Hosts, Took(t, good, bad)
  PROVE  DeployPart'
<1>1. run'.book = run.book /\ run'.outcome \in {"running", "failed"}
  BY DEF Took
<1>2. run.book \in Deployments /\ Goes' /\ Clean' => DeployGoes(TasksLeft)'
  BY TaskDeployGoes
<1>3. run.book \in Deployments /\ run'.outcome = "failed" => ~Clean' \/ run'.prepared # TRUE
  BY TaskDeployWorks
<1> QED BY <1>1, <1>2, <1>3 DEF DeployPart

\* Where a joining run is, counted from its last joining task.
LEMMA JoinStage ==
  ASSUME LeftPart, Goes, run.left # <<>>, run.book \in Joining
  PROVE  /\ TasksLeft \in Nat /\ JoinLeft(TasksLeft) \in 0..18
         /\ JoinLeft(TasksLeft) = 5 =>
              Head(run.left).name = "ping" /\ ClusterBootstrap!Group(Head(run.left).on) = Goal
         /\ JoinLeft(TasksLeft) = 4 =>
              /\ Head(run.left).name = "joinCommand" /\ Head(run.left).on = "pinged"
              /\ Head(run.left).ignored = FALSE
         /\ JoinLeft(TasksLeft) = 3 =>
              Head(run.left).name = "saveScript" /\ Head(run.left).on = "pinged"
         /\ JoinLeft(TasksLeft) = 2 =>
              Head(run.left).name = "wipeWorker" /\ Head(run.left).on = "pinged"
         /\ JoinLeft(TasksLeft) = 1 =>
              Head(run.left).name = "join" /\ Head(run.left).on = "pinged"
         /\ JoinLeft(TasksLeft) = 0 => Head(run.left).name = "verify"
<1> DEFINE n == TasksLeft
           t == Head(run.left)
<1>1. ClusterBootstrap!Group("workers") = Workers /\ ClusterBootstrap!Group("targets") = run.targets
  BY DEF ClusterBootstrap!Group
<1>2. CASE run.book \in Deployments
  <2>1. /\ n \in 1..19
        /\ n = 6 => t.name = "ping" /\ t.on = "workers"
        /\ n = 5 => t.name = "joinCommand" /\ t.on = "pinged" /\ t.ignored = FALSE
        /\ n = 4 => t.name = "saveScript" /\ t.on = "pinged"
        /\ n = 3 => t.name = "wipeWorker" /\ t.on = "pinged"
        /\ n = 2 => t.name = "join" /\ t.on = "pinged"
        /\ n = 1 => t.name = "verify"
    BY <1>2, DeployAt
  <2>2. JoinLeft(n) = n - 1 /\ Goal = Workers
    BY <1>2 DEF JoinLeft, Goal, Deployments
  <2> HIDE DEF n, t
  <2>3. /\ n \in Nat /\ JoinLeft(n) \in 0..18
        /\ JoinLeft(n) = 5 => n = 6
        /\ JoinLeft(n) = 4 => n = 5
        /\ JoinLeft(n) = 3 => n = 4
        /\ JoinLeft(n) = 2 => n = 3
        /\ JoinLeft(n) = 1 => n = 2
        /\ JoinLeft(n) = 0 => n = 1
    BY <2>1, <2>2
  <2> QED BY <1>1, <2>1, <2>2, <2>3 DEF n, t
<1>3. CASE run.book = "join"
  <2>1. /\ n \in 1..5
        /\ n = 5 => t.name = "ping" /\ t.on = "workers"
        /\ n = 4 => t.name = "joinCommand" /\ t.on = "pinged" /\ t.ignored = FALSE
        /\ n = 3 => t.name = "saveScript" /\ t.on = "pinged"
        /\ n = 2 => t.name = "wipeWorker" /\ t.on = "pinged"
        /\ n = 1 => t.name = "join" /\ t.on = "pinged"
    BY <1>3, JoinAt
  <2>2. JoinLeft(n) = n /\ Goal = Workers
    BY <1>3 DEF JoinLeft, Goal, Deployments
  <2> HIDE DEF n, t
  <2>3. n \in Nat /\ JoinLeft(n) \in 0..18 /\ n # 0
    BY <2>1, <2>2
  <2> QED BY <1>1, <2>1, <2>2, <2>3 DEF n, t
<1>4. CASE run.book = "prepareJoin"
  <2>1. /\ n \in 1..10
        /\ n = 5 => t.name = "ping" /\ t.on = "targets"
        /\ n = 4 => t.name = "joinCommand" /\ t.on = "pinged" /\ t.ignored = FALSE
        /\ n = 3 => t.name = "saveScript" /\ t.on = "pinged"
        /\ n = 2 => t.name = "wipeWorker" /\ t.on = "pinged"
        /\ n = 1 => t.name = "join" /\ t.on = "pinged"
    BY <1>4, PrepareAt
  <2>2. JoinLeft(n) = n /\ Goal = run.targets
    BY <1>4 DEF JoinLeft, Goal, Deployments
  <2> HIDE DEF n, t
  <2>3. n \in Nat /\ JoinLeft(n) \in 0..18 /\ n # 0
    BY <2>1, <2>2
  <2> QED BY <1>1, <2>1, <2>2, <2>3 DEF n, t
<1> QED BY <1>2, <1>3, <1>4 DEF Joining

\* The tasks of a repair.
LEMMA PrepareStage ==
  ASSUME LeftPart, Goes, run.left # <<>>, run.book = "prepareJoin"
  PROVE  /\ TasksLeft \in 1..10
         /\ TasksLeft = 10 => Head(run.left).name = "precheck"
         /\ TasksLeft = 10 \/ TasksLeft <= 9
         /\ TasksLeft <= 9 =>
              /\ Head(run.left).name \in {"kernel", "containerd", "restartContainerd", "packages",
                                          "ping", "joinCommand", "saveScript", "wipeWorker", "join"}
              /\ Head(run.left).name = "ping" => Head(run.left).on = "targets"
              /\ Head(run.left).name \in {"saveScript", "wipeWorker", "join"} =>
                   Head(run.left).on = "pinged"
<1> DEFINE n == TasksLeft
           t == Head(run.left)
<1>1. /\ n \in 1..10
      /\ n = 10 => t.name = "precheck"
      /\ n = 9 => t.name = "kernel"
      /\ n = 8 => t.name = "containerd"
      /\ n = 7 => t.name = "restartContainerd"
      /\ n = 6 => t.name = "packages"
      /\ n = 5 => t.name = "ping" /\ t.on = "targets"
      /\ n = 4 => t.name = "joinCommand"
      /\ n = 3 => t.name = "saveScript" /\ t.on = "pinged"
      /\ n = 2 => t.name = "wipeWorker" /\ t.on = "pinged"
      /\ n = 1 => t.name = "join" /\ t.on = "pinged"
  BY PrepareAt
<1> HIDE DEF n, t
<1>2. n = 10 \/ n \in {1, 2, 3, 4, 5, 6, 7, 8, 9}
  BY <1>1
<1>3. n \in {1, 2, 3, 4, 5, 6, 7, 8, 9} =>
        /\ t.name \in {"kernel", "containerd", "restartContainerd", "packages",
                       "ping", "joinCommand", "saveScript", "wipeWorker", "join"}
        /\ t.name = "ping" => t.on = "targets"
        /\ t.name \in {"saveScript", "wipeWorker", "join"} => t.on = "pinged"
  BY <1>1
<1>4. n <= 9 => n \in {1, 2, 3, 4, 5, 6, 7, 8, 9}
  BY <1>2
<1>5. n = 10 \/ n <= 9
  BY <1>2
<1> QED BY <1>1, <1>3, <1>4, <1>5 DEF n, t

\* Every worker of the goal on which a clean task works is one it does its work on.
LEMMA TaskJoinGoes ==
  ASSUME BootstrapIInv, NEW t \in BookTasks, NEW good \in SUBSET ClusterBootstrap!Hosts,
         NEW bad \in SUBSET ClusterBootstrap!Hosts, Took(t, good, bad), run.book \in Joining,
         Clean', Goes'
  PROVE  JoinGoes(TasksLeft)'
<1> DEFINE n == TasksLeft
           k == JoinLeft(TasksLeft)
<1>1. /\ ClusterBootstrap!MachineEffect(t.name, good, bad) /\ good \subseteq TaskOn(t)
         /\ TaskOn(t) \subseteq online
      /\ Goes /\ run.left # <<>> /\ t = Head(run.left) /\ LeftPart
      /\ MachineValues /\ RunValues /\ Clean
  BY DEF Took, BootstrapIInv, Goes, Clean
<1>2. /\ t.ignored = FALSE => good = TaskOn(t)
      /\ t.name # "reset" => bad = {} /\ \A h \in TaskOn(t) : ClusterBootstrap!Works(t.name, h)
         => h \in good
      /\ \A h \in good : ClusterBootstrap!Works(t.name, h)
      /\ online' = online /\ run'.book = run.book
      /\ run'.targets = IF t.name = "precheck" THEN ClusterBootstrap!Targets(bad) ELSE run.targets
      /\ run'.pinged = IF t.name = "ping" THEN good ELSE run.pinged
      /\ run'.token = IF t.name = "joinCommand" THEN (IF bad = {} THEN member[Master] ELSE 0)
                      ELSE run.token
  BY DEF Took, Clean, Goes
<1>3. /\ n \in Nat /\ k \in 0..18
      /\ k = 5 => t.name = "ping" /\ ClusterBootstrap!Group(t.on) = Goal
      /\ k = 4 => t.name = "joinCommand" /\ t.on = "pinged" /\ t.ignored = FALSE
      /\ k = 3 => t.name = "saveScript" /\ t.on = "pinged"
      /\ k = 2 => t.name = "wipeWorker" /\ t.on = "pinged"
      /\ k = 1 => t.name = "join" /\ t.on = "pinged"
      /\ k = 0 => t.name = "verify"
  BY <1>1, JoinStage
<1>4. TasksLeft' = n - 1
  BY TaskLists
<1>5. JoinLeft(TasksLeft)' = k - 1
  BY <1>2, <1>3, <1>4 DEF JoinLeft
<1>6. JoinGoes(n)
  BY <1>1 DEF BootstrapIInv, JoinPart
<1>7. /\ k <= 4 => run.pinged = Goal
      /\ k <= 3 /\ Goal # {} => run.token = member[Master] /\ member[Master] # 0 /\ Master \in online
      /\ k <= 2 => \A w \in Goal : script[w] = member[Master]
      /\ k = 1 => \A w \in Goal : member[w] = 0
      /\ k <= 0 => JoinDone
      /\ run.book = "prepareJoin" /\ n <= 9 => \A w \in Workers \ run.targets : member[w] = member[Master]
  BY <1>6 DEF JoinGoes
<1>8. /\ t.name \notin {"reset", "removeConfig", "wipeMaster", "init"} => member'[Master] = member[Master]
      /\ t.name \notin {"reset", "removeConfig", "wipeMaster", "wipeWorker", "init", "join"} =>
           member' = member
      /\ t.name # "saveScript" => script' = script
      /\ t.name \notin {"names", "kernel", "containerd", "packages", "fetchHelm"} => done' = done
  BY <1>1, TaskKeeps
<1>9. /\ ClusterBootstrap!Group("pinged") = run.pinged
      /\ t.name # "joinCommand" => TaskOn(t) = ClusterBootstrap!Group(t.on)
      /\ t.name = "joinCommand" /\ ClusterBootstrap!Group(t.on) # {} => TaskOn(t) = {Master}
  BY DEF ClusterBootstrap!Group, TaskOn, ClusterBootstrap!AsksFirst
<1>10. Goal \subseteq Workers /\ Goal \subseteq ClusterBootstrap!Hosts /\ Master \notin Goal
  BY <1>1, BootHosts, BootNats DEF Goal, RunValues
<1>11. /\ script \in [Workers -> ClusterBootstrap!Clusters]
          /\ member \in [ClusterBootstrap!Hosts -> ClusterBootstrap!Clusters]
       /\ Master \in ClusterBootstrap!Hosts
  BY <1>1, BootHosts DEF MachineValues
<1>12. k <= 5 => Goal' = Goal
  <2>1. k <= 5 => k \in {0, 1, 2, 3, 4, 5}
    BY <1>3
  <2>2. k \in {0, 1, 2, 3, 4, 5} => t.name # "precheck"
    BY <1>3
  <2>3. t.name # "precheck" => Goal' = Goal
    BY <1>2 DEF Goal
  <2> QED BY <2>1, <2>2, <2>3
<1> HIDE DEF n, k
<1>13. /\ k <= 3 => k \in {0, 1, 2, 3}
       /\ k <= 4 => k \in {0, 1, 2, 3, 4}
  BY <1>3
<1>14. k \in {0, 1, 2, 3, 4} =>
         /\ t.name \notin {"reset", "removeConfig", "wipeMaster", "init", "ping", "precheck"}
         /\ done' = done
  BY <1>3, <1>8
<1>15. ASSUME k - 1 <= 4 PROVE run'.pinged = Goal'
  <2>1. CASE k = 5
    <3>1. t.name = "ping" /\ TaskOn(t) = Goal
      BY <1>3, <1>9, <2>1
    <3>2. \A h : ClusterBootstrap!Works("ping", h)
      BY DEF ClusterBootstrap!Works, ClusterBootstrap!ClusterTasks
    <3>3. good = Goal
      BY <1>1, <1>2, <3>1, <3>2
    <3>4. Goal' = Goal
      BY <1>12, <2>1
    <3> QED BY <1>2, <3>1, <3>3, <3>4
  <2>2. CASE k <= 4
    <3>1. run'.pinged = run.pinged
      BY <1>2, <1>13, <1>14, <2>2
    <3>2. k <= 5
      BY <1>3, <2>2
    <3> QED BY <1>7, <1>12, <2>2, <3>1, <3>2
  <2> QED BY <1>3, <1>15, <2>1, <2>2
<1>16. ASSUME k - 1 <= 3, Goal' # {}
       PROVE  run'.token = member'[Master] /\ member'[Master] # 0 /\ Master \in online'
  <2>1. k <= 5 /\ (k = 4 \/ k <= 3)
    BY <1>3, <1>16
  <2>2. Goal # {}
    BY <1>12, <1>16, <2>1
  <2>3. CASE k = 4
    <3>1. t.name = "joinCommand" /\ good = {Master} /\ TaskOn(t) = {Master}
      <4>1. run.pinged = Goal
        BY <1>7, <2>3
      <4> QED BY <1>2, <1>3, <1>9, <2>2, <2>3, <4>1
    <3>2. member[Master] # 0
      <4>1. ClusterBootstrap!Works("joinCommand", Master)
        BY <1>2, <3>1
      <4> QED BY <4>1 DEF ClusterBootstrap!Works, ClusterBootstrap!ClusterTasks
    <3>3. bad = {} /\ member' = member /\ Master \in online
      BY <1>1, <1>2, <1>8, <3>1
    <3> QED BY <1>2, <3>1, <3>2, <3>3
  <2>4. CASE k <= 3
    <3>1. t.name # "joinCommand"
      BY <1>3, <1>13, <2>4
    <3>2. k <= 4
      BY <1>3, <2>4
    <3>3. member'[Master] = member[Master]
      BY <1>8, <1>13, <1>14, <3>2
    <3> QED BY <1>2, <1>7, <2>2, <2>4, <3>1, <3>3
  <2> QED BY <2>1, <2>3, <2>4
<1>17. ASSUME k - 1 <= 2, NEW w \in Goal' PROVE script'[w] = member'[Master]
  <2>1. k <= 5 /\ k <= 4 /\ (k = 3 \/ k <= 2)
    BY <1>3, <1>17
  <2>2. w \in Goal /\ w \in Workers
    BY <1>10, <1>12, <1>17, <2>1
  <2>3. member'[Master] = member[Master]
    BY <1>8, <1>13, <1>14, <2>1
  <2>4. CASE k = 3
    <3>1. /\ t.name = "saveScript" /\ TaskOn(t) = Goal
          /\ run.token = member[Master] /\ member[Master] # 0
      <4>1. run.pinged = Goal
        BY <1>7, <2>1
      <4>2. k <= 3 /\ Goal # {}
        BY <2>2, <2>4
      <4>3. run.token = member[Master] /\ member[Master] # 0
        BY <1>7, <4>2
      <4> QED BY <1>3, <1>9, <2>4, <4>1, <4>3
    <3>2. ClusterBootstrap!Works("saveScript", w)
      BY <3>1 DEF ClusterBootstrap!Works, ClusterBootstrap!ClusterTasks
    <3>3. w \in good
      BY <1>2, <2>2, <3>1, <3>2
    <3>4. script' = [v \in Workers |-> IF v \in good THEN run.token ELSE script[v]]
      BY <1>1, <3>1, TaskEffects
    <3> QED BY <2>2, <2>3, <3>1, <3>3, <3>4
  <2>5. CASE k <= 2
    <3>1. k \in {0, 1, 2}
      BY <1>3, <2>5
    <3>2. t.name # "saveScript"
      BY <1>3, <3>1
    <3> QED BY <1>7, <1>8, <2>2, <2>3, <2>5, <3>2
  <2> QED BY <2>1, <2>4, <2>5
<1>18. ASSUME k - 1 = 1, NEW w \in Goal' PROVE member'[w] = 0
  <2>1. k = 2 /\ k <= 5 /\ k <= 4
    BY <1>3, <1>18
  <2>2. w \in Goal /\ w \in ClusterBootstrap!Hosts
    BY <1>10, <1>12, <1>18, <2>1
  <2>3. t.name = "wipeWorker" /\ TaskOn(t) = Goal
    <3>1. run.pinged = Goal
      BY <1>7, <2>1
    <3> QED BY <1>3, <1>9, <2>1, <3>1
  <2>4. ClusterBootstrap!Works("wipeWorker", w)
    BY DEF ClusterBootstrap!Works, ClusterBootstrap!ClusterTasks
  <2>5. w \in good
    BY <1>2, <2>2, <2>3, <2>4
  <2>6. member' = [h \in ClusterBootstrap!Hosts |-> IF h \in good THEN 0 ELSE member[h]]
    BY <1>1, <2>3, TaskEffects
  <2> QED BY <2>2, <2>5, <2>6
<1>19. ASSUME k - 1 <= 0 PROVE JoinDone'
  <2>1. k <= 5 /\ k <= 4 /\ k <= 2 /\ (k = 1 \/ k = 0)
    BY <1>3, <1>19
  <2>2. Goal' = Goal /\ done' = done /\ member'[Master] = member[Master]
    BY <1>8, <1>12, <1>13, <1>14, <2>1
  <2>3. CASE k = 1
    <3> SUFFICES ASSUME NEW w \in Goal, {"containerd", "packages"} \subseteq done[w]
                 PROVE  member'[w] = member[Master]
      BY <2>2 DEF JoinDone
    <3>1. t.name = "join" /\ TaskOn(t) = Goal
      <4>1. run.pinged = Goal
        BY <1>7, <2>1
      <4> QED BY <1>3, <1>9, <2>3, <4>1
    <3>2. /\ script[w] = member[Master] /\ member[Master] # 0 /\ Master \in online
          /\ member[w] = 0 /\ w \in ClusterBootstrap!Hosts
      <4>1. k <= 3 /\ Goal # {}
        BY <2>3
      <4>2. member[Master] # 0 /\ Master \in online
        BY <1>7, <4>1
      <4>3. script[w] = member[Master] /\ member[w] = 0
        BY <1>7, <2>1, <2>3
      <4> QED BY <1>10, <4>2, <4>3
    <3>3. ClusterBootstrap!Works("join", w)
      BY <3>2 DEF ClusterBootstrap!Works, ClusterBootstrap!ClusterTasks
    <3>4. w \in good
      BY <1>2, <3>1, <3>3
    <3>5. member' = [h \in ClusterBootstrap!Hosts |-> IF h \in good /\ member[h]
          = 0 THEN script[h] ELSE member[h]]
      BY <1>1, <3>1, TaskEffects
    <3> QED BY <3>2, <3>4, <3>5
  <2>4. CASE k = 0
    <3>1. t.name = "verify"
      BY <1>3, <2>4
    <3>2. member' = member
      BY <1>8, <3>1
    <3>3. JoinDone
      BY <1>7, <2>4
    <3> QED BY <2>2, <3>2, <3>3 DEF JoinDone
  <2> QED BY <2>1, <2>3, <2>4
<1>20. ASSUME run.book = "prepareJoin", n - 1 <= 9, NEW w \in Workers \ run'.targets
       PROVE  member'[w] = member'[Master]
  <2>1. /\ n = 10 => t.name = "precheck"
        /\ n = 10 \/ n <= 9
        /\ n <= 9 =>
             /\ t.name \in {"kernel", "containerd", "restartContainerd", "packages",
                            "ping", "joinCommand", "saveScript", "wipeWorker", "join"}
             /\ t.name \in {"saveScript", "wipeWorker", "join"} => t.on = "pinged"
    BY <1>1, <1>20, PrepareStage DEF n
  <2>2. CASE n = 10
    <3>1. t.name = "precheck" /\ bad = {} /\ member' = member
      BY <1>2, <1>8, <2>1, <2>2
    <3>2. run'.targets = ClusterBootstrap!Targets(bad)
      BY <1>2, <3>1
    <3>3. w \in ClusterBootstrap!ReadyWorkers
      BY <1>20, <3>2 DEF ClusterBootstrap!Targets
    <3> QED BY <3>1, <3>3 DEF ClusterBootstrap!ReadyWorkers
  <2>3. CASE n <= 9
    <3>1. /\ t.name \notin {"precheck", "reset", "removeConfig", "wipeMaster", "init"}
          /\ t.name \in {"saveScript", "wipeWorker", "join"} => t.on = "pinged"
      BY <2>1, <2>3
    <3>2. run'.targets = run.targets /\ member'[Master] = member[Master]
      BY <1>2, <1>8, <3>1
    <3>3. member[w] = member[Master]
      BY <1>7, <1>20, <2>3, <3>2
    <3>4. CASE t.name \in {"wipeWorker", "join"}
      <4>1. run.pinged \subseteq run.targets
        BY <1>20 DEF BootstrapIInv, RepairPart
      <4>2. TaskOn(t) = run.pinged
        BY <1>9, <3>1, <3>4
      <4>3. w \notin good
        BY <1>1, <1>20, <3>2, <4>1, <4>2
      <4>4. member'[w] = member[w]
        BY <1>1, <1>20, <4>3, TaskAlone
      <4> QED BY <3>2, <3>3, <4>4
    <3>5. CASE t.name \notin {"wipeWorker", "join"}
      BY <1>8, <3>1, <3>2, <3>3, <3>5
    <3> QED BY <3>4, <3>5
  <2> QED BY <2>1, <2>2, <2>3
<1> QED BY <1>2, <1>4, <1>5, <1>15, <1>16, <1>17, <1>18, <1>19, <1>20 DEF JoinGoes

LEMMA TaskJoin ==
  ASSUME BootstrapIInv, NEW t \in BookTasks, NEW good \in SUBSET ClusterBootstrap!Hosts,
         NEW bad \in SUBSET ClusterBootstrap!Hosts, Took(t, good, bad)
  PROVE  JoinPart'
<1>1. run'.book = run.book /\ run'.outcome \in {"running", "failed"}
  BY DEF Took
<1>2. run.book \in Joining /\ Goes' /\ Clean' => JoinGoes(TasksLeft)'
  BY TaskJoinGoes
<1> QED BY <1>1, <1>2 DEF JoinPart

LEMMA TaskRepair ==
  ASSUME BootstrapIInv, NEW t \in BookTasks, NEW good \in SUBSET ClusterBootstrap!Hosts,
         NEW bad \in SUBSET ClusterBootstrap!Hosts, Took(t, good, bad)
  PROVE  RepairPart' /\ ClusterBootstrap!RepairLeavesReadyAlone
<1> SUFFICES ASSUME run.book = "prepareJoin" PROVE RepairPart' /\ ClusterBootstrap!RepairLeavesReadyAlone
  BY DEF Took, RepairPart, ClusterBootstrap!RepairLeavesReadyAlone
<1> DEFINE n == TasksLeft
<1>1. /\ ClusterBootstrap!MachineEffect(t.name, good, bad) /\ good \subseteq TaskOn(t)
      /\ Goes /\ run.left # <<>> /\ t = Head(run.left) /\ LeftPart
      /\ MachineValues /\ RunValues /\ MasterPart
  BY DEF Took, BootstrapIInv
<1>2. /\ run'.targets = IF t.name = "precheck" THEN ClusterBootstrap!Targets(bad) ELSE run.targets
      /\ run'.ready = IF t.name = "precheck" THEN ClusterBootstrap!ReadyWorkers ELSE run.ready
      /\ run'.pinged = IF t.name = "ping" THEN good ELSE run.pinged
      /\ run.hit \subseteq run'.hit /\ run'.book = run.book
      /\ bad # {} /\ TaskOn(t) \subseteq online => t.name \in run'.hit
      /\ bad \subseteq TaskOn(t) /\ bad \subseteq online
  BY DEF Took
<1>3. /\ n = 10 => run.ready = {} /\ run.pinged = {}
      /\ run.pinged \subseteq run.targets
      /\ "precheck" \notin run.hit /\ admin = member[Master] => run.ready \cap run.targets = {}
  BY <1>1 DEF BootstrapIInv, RepairPart
<1>4. /\ n \in 1..10
      /\ n = 10 => t.name = "precheck"
      /\ n = 10 \/ n <= 9
      /\ n <= 9 =>
           /\ t.name \in {"kernel", "containerd", "restartContainerd", "packages",
                          "ping", "joinCommand", "saveScript", "wipeWorker", "join"}
           /\ t.name = "ping" => t.on = "targets"
           /\ t.name \in {"saveScript", "wipeWorker", "join"} => t.on = "pinged"
  BY <1>1, PrepareStage
<1>5. Goes' => TasksLeft' = n - 1
  BY TaskLists
<1>6. /\ t.name \notin {"reset", "removeConfig", "wipeMaster", "init"} => member'[Master] = member[Master]
      /\ t.name \notin {"removeConfig", "kubeconfig"} => admin' = admin
      /\ t.name \notin {"reset", "removeConfig", "wipeMaster", "wipeWorker", "init", "join"} =>
           member' = member
      /\ t.name # "saveScript" => script' = script
  BY <1>1, TaskKeeps
<1>7. /\ ClusterBootstrap!Group("pinged") = run.pinged /\ ClusterBootstrap!Group("targets") = run.targets
      /\ t.name # "joinCommand" => TaskOn(t) = ClusterBootstrap!Group(t.on)
  BY DEF ClusterBootstrap!Group, TaskOn
<1> HIDE DEF n
<1>8. ~(Goes' /\ TasksLeft' = 10)
  <2>1. n - 1 # 10
    BY <1>4
  <2> QED BY <1>5, <2>1
<1>9. CASE n = 10
  <2>1. t.name = "precheck"
    BY <1>4, <1>9
  <2>2. member' = member /\ script' = script /\ admin' = admin
    BY <1>6, <2>1
  <2>3. run'.pinged = {}
    BY <1>2, <1>3, <1>9, <2>1
  <2>4. ASSUME "precheck" \notin run'.hit, admin' = member'[Master]
        PROVE  run'.ready \cap run'.targets = {}
    <3>1. TaskOn(t) = {Master}
      BY <1>1, <2>1, TaskHosts DEF MasterNames
    <3>2. bad = {}
      BY <1>2, <2>1, <2>4, <3>1
    <3>3. run'.ready = ClusterBootstrap!ReadyWorkers /\ run'.targets = ClusterBootstrap!Targets({})
      BY <1>2, <2>1, <3>2
    <3>4. CASE member[Master] = 0
      <4>1. network = {}
        BY <1>1, <3>4 DEF MasterPart
      <4>2. ClusterBootstrap!ReadyWorkers = {}
        BY <4>1 DEF ClusterBootstrap!ReadyWorkers, ClusterBootstrap!HasNetwork
      <4> QED BY <3>3, <4>2
    <3>5. CASE member[Master] # 0
      <4>1. "packages" \in done[Master] /\ admin = member[Master]
        BY <1>1, <2>2, <2>4, <3>5 DEF MasterPart
      <4>2. ClusterBootstrap!Targets({}) = Workers \ ClusterBootstrap!ReadyWorkers
        BY <3>5, <4>1 DEF ClusterBootstrap!Targets
      <4> QED BY <3>3, <4>2
    <3> QED BY <3>4, <3>5
  <2>5. RepairPart'
    BY <1>8, <2>3, <2>4 DEF RepairPart
  <2>6. ClusterBootstrap!RepairLeavesReadyAlone
    BY <2>2 DEF ClusterBootstrap!RepairLeavesReadyAlone
  <2> QED BY <2>5, <2>6
<1>10. CASE n <= 9
  <2>1. /\ t.name \in {"kernel", "containerd", "restartContainerd", "packages",
                       "ping", "joinCommand", "saveScript", "wipeWorker", "join"}
        /\ t.name = "ping" => t.on = "targets"
        /\ t.name \in {"saveScript", "wipeWorker", "join"} => t.on = "pinged"
    BY <1>4, <1>10
  <2>2. run'.targets = run.targets /\ run'.ready = run.ready
    BY <1>2, <2>1
  <2>3. member'[Master] = member[Master] /\ admin' = admin
    BY <1>6, <2>1
  <2>4. run'.pinged \subseteq run'.targets
    BY <1>1, <1>2, <1>3, <1>7, <2>1, <2>2
  <2>5. "precheck" \notin run'.hit /\ admin' = member'[Master] => run'.ready \cap run'.targets = {}
    BY <1>2, <1>3, <2>2, <2>3
  <2>6. RepairPart'
    BY <1>8, <2>4, <2>5 DEF RepairPart
  <2>7. ASSUME "precheck" \notin run.hit, admin = member[Master], NEW w \in run.ready
        PROVE  member'[w] = member[w] /\ script'[w] = script[w]
    <3>1. w \in Workers /\ w \notin run.pinged
      BY <1>1, <1>3, <2>7 DEF RunValues
    <3>2. CASE t.name \in {"saveScript", "wipeWorker", "join"}
      <4>1. w \notin good
        BY <1>1, <1>7, <2>1, <3>1, <3>2
      <4> QED BY <1>1, <3>1, <4>1, TaskAlone
    <3>3. CASE t.name \notin {"saveScript", "wipeWorker", "join"}
      BY <1>6, <2>1, <3>3
    <3> QED BY <3>2, <3>3
  <2>8. ClusterBootstrap!RepairLeavesReadyAlone
    BY <2>7 DEF ClusterBootstrap!RepairLeavesReadyAlone
  <2> QED BY <2>6, <2>8
<1> QED BY <1>4, <1>9, <1>10

-------------------------------------------------------------------------------
(* The other steps                                                            *)

LEMMA BookLengths ==
  /\ \A book \in Deployments : Len(ClusterBootstrap!TasksOf[book]) = 19
  /\ Len(ClusterBootstrap!TasksOf["join"]) = 5 /\ Len(ClusterBootstrap!TasksOf["prepareJoin"]) = 10
<1>1. ASSUME NEW book \in Deployments PROVE Len(ClusterBootstrap!TasksOf[book]) = 19
  <2>1. CASE book = "deploy"
    <3>1. ClusterBootstrap!TasksOf[book] = DeployWith(ClusterBootstrap!InstallCalico)
      BY <2>1, BookLists
    <3>2. ClusterBootstrap!InstallCalico \in Seq(BookTasks) /\ Len(ClusterBootstrap!InstallCalico) = 1
      BY InstallCalicoList, PlainAreTasks
    <3> QED BY <3>1, <3>2, DeployTasks
  <2>2. CASE book = "deployFlannel"
    <3>1. ClusterBootstrap!TasksOf[book] = DeployWith(ClusterBootstrap!InstallFlannel)
      BY <2>2, BookLists
    <3>2. ClusterBootstrap!InstallFlannel \in Seq(BookTasks) /\ Len(ClusterBootstrap!InstallFlannel) = 1
      BY InstallFlannelList, PlainAreTasks
    <3> QED BY <3>1, <3>2, DeployTasks
  <2> QED BY <2>1, <2>2 DEF Deployments
<1>2. Len(ClusterBootstrap!TasksOf["join"]) = 5
  <2>1. ClusterBootstrap!TasksOf["join"] = ClusterBootstrap!JoinWorkers
    BY BookLists
  <2> QED BY <2>1, JoinWorkersList
<1>3. Len(ClusterBootstrap!TasksOf["prepareJoin"]) = 10
  <2>1. ClusterBootstrap!TasksOf["prepareJoin"] = ClusterBootstrap!PrepareAndJoin
    BY BookLists
  <2> QED BY <2>1, PrepareAndJoinList
<1> QED BY <1>1, <1>2, <1>3

LEMMA StartKeeps ==
  ASSUME BootstrapIInv, NEW book \in Books, ClusterBootstrap!Start(book)
  PROVE  BootstrapIInv' /\ ClusterBootstrap!RepairLeavesReadyAlone
<1>1. /\ made < MaxClusters
      /\ UNCHANGED <<done, member, etcd, admin, script, registered, network, made, online, faults>>
  BY DEF ClusterBootstrap!Start, ClusterBootstrap!machines
<1>2. DOMAIN run = RunFields
  BY DEF BootstrapIInv, RunValues
<1>3. /\ DOMAIN run' = RunFields /\ run'.book = book /\ run'.left = ClusterBootstrap!TasksOf[book]
      /\ run'.targets = {} /\ run'.pinged = {} /\ run'.ready = {} /\ run'.token = 0
      /\ run'.hit = {} /\ run'.outcome = "running"
      /\ run'.prepared = (\A h \in ClusterBootstrap!Hosts : "containerd" \in done[h])
  BY <1>2 DEF ClusterBootstrap!Start, RunFields
<1>4. book \in BookNames
  BY BootNats
<1>5. MachineValues' /\ FaultValues' /\ MasterPart'
  BY <1>1 DEF BootstrapIInv, MachineValues, FaultValues, MasterPart
<1>6. RunValues' /\ PreparedPart'
  <2>1. 0 \in ClusterBootstrap!Clusters
    BY BootNats DEF ClusterBootstrap!Clusters
  <2>2. RunValues'
    BY <1>3, <2>1 DEF RunValues
  <2>3. PreparedPart'
    BY <1>3 DEF PreparedPart
  <2> QED BY <2>2, <2>3
<1>7. Goes' /\ TasksLeft' = Len(ClusterBootstrap!TasksOf[book])
  BY <1>3 DEF Goes, TasksLeft
<1>8. LeftPart'
  <2> DEFINE o == ClusterBootstrap!TasksOf[book]
  <2>1. o \in Seq(BookTasks)
    BY <1>4, BookLists
  <2> HIDE DEF o
  <2>2. /\ Len(o) \in Nat /\ Len(o) <= Len(o)
        /\ \A j \in 1..Len(o) : o[j] = o[Len(o) - Len(o) + j]
    BY <2>1
  <2> QED BY <1>3, <1>4, <1>7, <2>1, <2>2 DEF LeftPart, o
<1>9. InitPart'
  BY <1>1, <1>3 DEF InitPart
<1>10. DeployPart'
  <2>1. book \in Deployments => TasksLeft' = 19
    BY <1>7, BookLengths
  <2>2. run'.prepared = TRUE => \A h \in ClusterBootstrap!Hosts : "containerd" \in done'[h]
    BY <1>1, <1>3
  <2>3. TasksLeft' = 19 => DeployGoes(TasksLeft)'
    BY <2>2 DEF DeployGoes
  <2> QED BY <1>3, <2>1, <2>3 DEF DeployPart
<1>11. JoinPart'
  <2>1. JoinLeft(TasksLeft)' = (IF book \in Deployments THEN TasksLeft' - 1 ELSE TasksLeft')
    BY <1>3 DEF JoinLeft
  <2>2. book \in Joining => JoinLeft(TasksLeft)' \in {5, 10, 18}
    <3>1. CASE book \in Deployments
      BY <1>7, <2>1, <3>1, BookLengths
    <3>2. CASE book = "join"
      BY <1>7, <2>1, <3>2, BookLengths DEF Deployments
    <3>3. CASE book = "prepareJoin"
      BY <1>7, <2>1, <3>3, BookLengths DEF Deployments
    <3> QED BY <3>1, <3>2, <3>3 DEF Joining
  <2>3. book = "prepareJoin" => TasksLeft' = 10
    BY <1>7, BookLengths
  <2>4. book \in Joining => JoinGoes(TasksLeft)'
    BY <1>3, <2>2, <2>3 DEF JoinGoes
  <2> QED BY <1>3, <2>4 DEF JoinPart
<1>12. RepairPart'
  BY <1>3 DEF RepairPart
<1>13. ClusterBootstrap!RepairLeavesReadyAlone
  BY <1>1 DEF ClusterBootstrap!RepairLeavesReadyAlone
<1> QED BY <1>5, <1>6, <1>8, <1>9, <1>10, <1>11, <1>12, <1>13 DEF BootstrapIInv

LEMMA FinishKeeps ==
  ASSUME BootstrapIInv, ClusterBootstrap!Finish
  PROVE  BootstrapIInv' /\ ClusterBootstrap!RepairLeavesReadyAlone
<1>1. /\ UNCHANGED <<done, member, etcd, admin, script, registered, network, made, online, faults>>
      /\ run.left = <<>>
  BY DEF ClusterBootstrap!Finish, ClusterBootstrap!machines
<1>2. DOMAIN run = RunFields /\ Goes
  BY DEF BootstrapIInv, RunValues, Goes, ClusterBootstrap!Finish, ClusterBootstrap!Idle
<1>3. /\ DOMAIN run' = RunFields /\ run'.book = run.book /\ run'.targets = run.targets
      /\ run'.pinged = run.pinged /\ run'.ready = run.ready /\ run'.token = run.token
      /\ run'.hit = run.hit /\ run'.prepared = run.prepared /\ run'.outcome = "ok"
  BY <1>2 DEF ClusterBootstrap!Finish, RunFields
<1>4. TasksLeft = 0 /\ ~Goes'
  BY <1>1, <1>3 DEF TasksLeft, Goes
<1>5. MachineValues' /\ FaultValues' /\ MasterPart'
  BY <1>1 DEF BootstrapIInv, MachineValues, FaultValues, MasterPart
<1>6. RunValues' /\ PreparedPart'
  BY <1>3 DEF BootstrapIInv, RunValues, PreparedPart
<1>7. LeftPart' /\ InitPart'
  BY <1>4 DEF LeftPart, InitPart
<1>8. Clean' => Clean
  BY <1>3 DEF Clean
<1>9. DeployPart'
  <2>1. ASSUME run.book \in Deployments, Clean PROVE DeployDone
    <3>1. DeployGoes(0)
      BY <1>2, <1>4, <2>1 DEF BootstrapIInv, DeployPart
    <3>2. /\ \A h \in ClusterBootstrap!Hosts : "containerd" \in done[h] /\ "packages" \in done[h]
          /\ member[Master] # 0 /\ admin = member[Master] /\ network # {}
      BY <3>1 DEF DeployGoes
    <3> QED BY <3>2 DEF DeployDone
  <2>2. DeployDone' = DeployDone
    BY <1>1 DEF DeployDone
  <2> QED BY <1>3, <1>4, <1>8, <2>1, <2>2 DEF DeployPart
<1>10. JoinPart'
  <2>1. ASSUME run.book \in Joining, Clean
        PROVE  /\ JoinDone
               /\ run.book = "prepareJoin" =>
                    \A w \in Workers \ run.targets : member[w] = member[Master]
    <3>1. JoinGoes(0)
      BY <1>2, <1>4, <2>1 DEF BootstrapIInv, JoinPart
    <3>2. JoinLeft(0) <= 0
      BY DEF JoinLeft
    <3> QED BY <3>1, <3>2 DEF JoinGoes
  <2>2. JoinDone' = JoinDone
    BY <1>1, <1>3 DEF JoinDone, Goal
  <2> QED BY <1>1, <1>3, <1>4, <1>8, <2>1, <2>2 DEF JoinPart
<1>11. RepairPart'
  BY <1>1, <1>3, <1>4 DEF BootstrapIInv, RepairPart
<1>12. ClusterBootstrap!RepairLeavesReadyAlone
  BY <1>1 DEF ClusterBootstrap!RepairLeavesReadyAlone
<1> QED BY <1>5, <1>6, <1>7, <1>9, <1>10, <1>11, <1>12 DEF BootstrapIInv

\* A host is lost or comes back: nothing of the run changes but what failed by accident.
LEMMA HostsKeep ==
  ASSUME BootstrapIInv, NEW h \in ClusterBootstrap!Hosts, ClusterBootstrap!HostLost(h)
         \/ ClusterBootstrap!HostBack(h)
  PROVE  BootstrapIInv' /\ ClusterBootstrap!RepairLeavesReadyAlone
<1>1. /\ UNCHANGED <<done, member, etcd, admin, script, registered, network, made>>
      /\ ClusterBootstrap!HostLost(h) => online' = online \ {h} /\ faults < MaxFaults /\ faults'
         = faults + 1
      /\ ClusterBootstrap!HostBack(h) => online' = online \cup {h} /\ faults' = faults /\ run' = run
  BY DEF ClusterBootstrap!HostLost, ClusterBootstrap!HostBack, ClusterBootstrap!machines
<1>2. DOMAIN run = RunFields
  BY DEF BootstrapIInv, RunValues
<1>3. /\ DOMAIN run' = RunFields /\ run'.book = run.book /\ run'.left = run.left
      /\ run'.targets = run.targets /\ run'.pinged = run.pinged /\ run'.ready = run.ready
      /\ run'.token = run.token /\ run'.prepared = run.prepared /\ run'.outcome = run.outcome
      /\ run.hit \subseteq run'.hit
      /\ ClusterBootstrap!HostLost(h) /\ Goes => "lost" \in run'.hit
  <2>1. CASE ClusterBootstrap!HostLost(h) /\ Goes
    <3>1. run' = [run EXCEPT !.hit = @ \cup {"lost"}]
      BY <2>1 DEF ClusterBootstrap!HostLost, ClusterBootstrap!Idle, Goes
    <3> QED BY <1>2, <3>1 DEF RunFields
  <2>2. CASE ~(ClusterBootstrap!HostLost(h) /\ Goes)
    <3>1. run' = run
      BY <2>2 DEF ClusterBootstrap!HostLost, ClusterBootstrap!HostBack, ClusterBootstrap!Idle, Goes
    <3> QED BY <1>2, <2>2, <3>1
  <2> QED BY <2>1, <2>2
<1>4. MachineValues' /\ MasterPart'
  BY <1>1 DEF BootstrapIInv, MachineValues, MasterPart
<1>5. RunValues' /\ PreparedPart'
  BY <1>3 DEF BootstrapIInv, RunValues, PreparedPart
<1>6. FaultValues'
  <2>1. online \subseteq ClusterBootstrap!Hosts /\ faults \in 0..MaxFaults
    BY DEF BootstrapIInv, FaultValues
  <2>2. online' \subseteq ClusterBootstrap!Hosts
    BY <1>1, <2>1
  <2>3. faults' \in 0..MaxFaults
    BY <1>1, <2>1, BootNats
  <2> QED BY <2>2, <2>3 DEF FaultValues
<1>7. Goes' = Goes /\ TasksLeft' = TasksLeft
  BY <1>3 DEF Goes, TasksLeft
<1>8. LeftPart' /\ InitPart'
  BY <1>1, <1>3, <1>7 DEF BootstrapIInv, LeftPart, InitPart
<1>9. /\ Clean' => Clean
      /\ Clean' /\ Goes => online \subseteq online' /\ online' \subseteq ClusterBootstrap!Hosts
  BY <1>1, <1>3, <1>6 DEF Clean, FaultValues
<1>10. DeployPart'
  <2>1. ASSUME DeployGoes(TasksLeft), Clean', Goes PROVE DeployGoes(TasksLeft)'
    BY <1>1, <1>3, <1>7, <1>9, <2>1 DEF DeployGoes
  <2>2. DeployDone' = DeployDone
    BY <1>1 DEF DeployDone
  <2> QED BY <1>3, <1>7, <1>9, <2>1, <2>2 DEF BootstrapIInv, DeployPart
<1>11. JoinPart'
  <2>1. Goal' = Goal /\ JoinLeft(TasksLeft)' = JoinLeft(TasksLeft)
    BY <1>3, <1>7 DEF Goal, JoinLeft
  <2>2. JoinDone' = JoinDone
    BY <1>1, <2>1 DEF JoinDone
  <2>3. ASSUME JoinGoes(TasksLeft), Clean', Goes PROVE JoinGoes(TasksLeft)'
    BY <1>1, <1>3, <1>7, <1>9, <2>1, <2>2, <2>3 DEF JoinGoes
  <2> QED BY <1>1, <1>3, <1>7, <1>9, <2>2, <2>3 DEF BootstrapIInv, JoinPart
<1>12. RepairPart'
  BY <1>1, <1>3, <1>7 DEF BootstrapIInv, RepairPart
<1>13. ClusterBootstrap!RepairLeavesReadyAlone
  BY <1>1 DEF ClusterBootstrap!RepairLeavesReadyAlone
<1> QED BY <1>4, <1>5, <1>6, <1>8, <1>10, <1>11, <1>12, <1>13 DEF BootstrapIInv

LEMMA BootstrapStep ==
  ASSUME BootstrapIInv, ClusterBootstrap!Next PROVE BootstrapIInv'
         /\ ClusterBootstrap!RepairLeavesReadyAlone
<1>1. ASSUME NEW book \in Books, ClusterBootstrap!Start(book)
      PROVE  BootstrapIInv' /\ ClusterBootstrap!RepairLeavesReadyAlone
  BY <1>1, StartKeeps
<1>2. CASE ClusterBootstrap!Task
  <2>1. PICK t \in BookTasks, good \in SUBSET ClusterBootstrap!Hosts,
             bad \in SUBSET ClusterBootstrap!Hosts : Took(t, good, bad)
    BY <1>2, TaskTook
  <2>2. MachineValues' /\ MasterPart'
    BY <2>1, TaskMachines, TaskMaster
  <2>3. RunValues' /\ FaultValues' /\ PreparedPart'
    BY <2>1, TaskRun
  <2>4. LeftPart' /\ InitPart'
    BY <2>1, TaskLists
  <2>5. DeployPart' /\ JoinPart'
    BY <2>1, TaskDeploy, TaskJoin
  <2>6. RepairPart' /\ ClusterBootstrap!RepairLeavesReadyAlone
    BY <2>1, TaskRepair
  <2> QED BY <2>2, <2>3, <2>4, <2>5, <2>6 DEF BootstrapIInv
<1>3. CASE ClusterBootstrap!Finish
  BY <1>3, FinishKeeps
<1>4. ASSUME NEW h \in ClusterBootstrap!Hosts, ClusterBootstrap!HostLost(h)
             \/ ClusterBootstrap!HostBack(h)
      PROVE  BootstrapIInv' /\ ClusterBootstrap!RepairLeavesReadyAlone
  BY <1>4, HostsKeep
<1> QED BY <1>1, <1>2, <1>3, <1>4 DEF ClusterBootstrap!Next

LEMMA BootstrapGives ==
  ASSUME BootstrapIInv
  PROVE  /\ ClusterBootstrap!BootstrapTypeOK /\ ClusterBootstrap!DeployRepairs
            /\ ClusterBootstrap!DeployCompletes /\ ClusterBootstrap!WorkersJoined
<1>1. ClusterBootstrap!BootstrapTypeOK
  BY DEF BootstrapIInv, MachineValues, RunValues, FaultValues, ClusterBootstrap!BootstrapTypeOK
<1>2. ClusterBootstrap!Deployment <=> run.book \in Deployments
  BY DEF ClusterBootstrap!Deployment, Deployments
<1>3. /\ run.book \in Deployments \cup {"join"} => Goal = Workers
      /\ run.book = "prepareJoin" => Goal = run.targets
      /\ run.book \in Joining <=> run.book \in Deployments \cup {"join", "prepareJoin"}
  BY DEF Goal, Joining, Deployments
<1>4. run.book \in Joining /\ Clean /\ run.outcome = "ok" =>
        /\ JoinDone
        /\ run.book = "prepareJoin" => \A w \in Workers \ run.targets : member[w] = member[Master]
  BY DEF BootstrapIInv, JoinPart
<1>5. ClusterBootstrap!DeployRepairs
  <2> SUFFICES ASSUME run.book \in Deployments, run.outcome = "ok", Clean PROVE ClusterBootstrap!Healthy
    BY <1>2 DEF ClusterBootstrap!DeployRepairs, Clean
  <2>1. DeployDone
    BY DEF BootstrapIInv, DeployPart
  <2>2. JoinDone /\ Goal = Workers
    BY <1>3, <1>4
  <2>3. \A w \in Workers : {"containerd", "packages"} \subseteq done[w]
    BY <2>1, BootHosts DEF DeployDone
  <2>4. \A w \in Workers : member[w] = member[Master]
    BY <2>2, <2>3 DEF JoinDone
  <2> QED BY <2>1, <2>4 DEF DeployDone, ClusterBootstrap!Healthy, ClusterBootstrap!HasNetwork
<1>6. ClusterBootstrap!DeployCompletes
  <2> SUFFICES ASSUME run.book \in Deployments, run.outcome = "failed", run.hit \ {"reset"} = {}
               PROVE  ~run.prepared
    BY <1>2 DEF ClusterBootstrap!DeployCompletes
  <2>1. Clean
    BY DEF Clean
  <2>2. run.prepared # TRUE
    BY <2>1 DEF BootstrapIInv, DeployPart
  <2> QED BY <2>2 DEF BootstrapIInv, PreparedPart
<1>7. ClusterBootstrap!WorkersJoined
  <2> SUFFICES ASSUME run.outcome = "ok", run.hit = {}, run.book \in Joining,
                      NEW w \in Workers, {"containerd", "packages"} \subseteq done[w]
               PROVE  member[w] = member[Master]
    BY <1>2, <1>3 DEF ClusterBootstrap!WorkersJoined
  <2>1. Clean
    BY DEF Clean
  <2>2. /\ JoinDone
        /\ run.book = "prepareJoin" => \A v \in Workers \ run.targets : member[v] = member[Master]
    BY <1>4, <2>1
  <2>3. w \in Goal => member[w] = member[Master]
    BY <2>2 DEF JoinDone
  <2> QED BY <1>3, <2>2, <2>3
<1> QED BY <1>1, <1>5, <1>6, <1>7

-------------------------------------------------------------------------------
(* The theorems, of the playbooks alone                                       *)

\* While playbooks run, the inductive invariant holds.
THEOREM BootstrapInductive == ClusterBootstrap!Spec => []BootstrapIInv
<1>1. BootstrapIInv /\ [ClusterBootstrap!Next]_(ClusterBootstrap!bvars) => BootstrapIInv'
  BY BootstrapStep, BootstrapSame
<1> QED BY <1>1, BootstrapInit, PTL DEF ClusterBootstrap!Spec

\* Whatever earlier runs left on the machines: a deployment that ends well and in which
\* nothing failed by accident but the cleaning makes one healthy cluster of all machines.
THEOREM DeploymentsRepair == ClusterBootstrap!Spec => []ClusterBootstrap!DeployRepairs
BY BootstrapInductive, BootstrapGives, PTL

\* Such a deployment breaks off only where containerd was missing when it started.
THEOREM DeploymentsComplete == ClusterBootstrap!Spec => []ClusterBootstrap!DeployCompletes
BY BootstrapInductive, BootstrapGives, PTL

\* Where nothing failed by accident, every worker that has what joining needs has joined.
THEOREM JoiningJoins == ClusterBootstrap!Spec => []ClusterBootstrap!WorkersJoined
BY BootstrapInductive, BootstrapGives, PTL

\* Preparing and joining touches no worker that the cluster showed Ready when it looked.
THEOREM ReadyLeftAlone ==
  ClusterBootstrap!Spec => [][ClusterBootstrap!RepairLeavesReadyAlone]_(ClusterBootstrap!bvars)
<1>1. BootstrapIInv /\ [ClusterBootstrap!Next]_(ClusterBootstrap!bvars) =>
        [ClusterBootstrap!RepairLeavesReadyAlone]_(ClusterBootstrap!bvars)
  BY BootstrapStep
<1> QED BY <1>1, BootstrapInductive, PTL DEF ClusterBootstrap!Spec

-------------------------------------------------------------------------------
(* The playbook manager *)

PlaySteps == {"list", "load", "save", "delete", "check", "clear", "buttons", "content"}
Answers == (SUBSET PlaybookManager!Files) \cup PlaybookManager!Texts \cup {"none", "ok"}
Flows ==
  [kind : {"none", "refresh", "view", "save", "delete", "generate", "upload"},
   todo : Seq(PlaySteps), at : {"idle", "sent", "served"},
   file : PlaybookManager!Files \cup {"none"}, text : PlaybookManager!Texts, answer : Answers]

\* A flow that has more than the list to ask for is of a file; what it saves is meant for that
\* file; and the answer it has is of the kind it asked for.
FlowOK(f) ==
  /\ f # PlaybookManager!NoFlow => f.todo # <<>>
  /\ \A i \in 1..Len(f.todo) :
       /\ f.todo[i] # "list" => f.file \in PlaybookManager!Files
       /\ f.todo[i] = "save" => f.text = f.file.stem
  /\ f.at = "served" =>
       /\ f.todo # <<>>
       /\ f.todo[1] \in {"list", "check"} => f.answer \subseteq PlaybookManager!Files
       /\ f.todo[1] = "load" => f.answer \in {"", f.file.stem}

PlaybooksIInv ==
  /\ PlaybookManager!TypeOK
  /\ PlaybookManager!TextUnderItsName
  /\ flows \in [Slots -> Flows]
  /\ \A s \in Slots : FlowOK(flows[s])

LEMMA NoFlowOK == PlaybookManager!NoFlow \in Flows /\ FlowOK(PlaybookManager!NoFlow)
<1> DEFINE f == PlaybookManager!NoFlow
<1>1. /\ f.kind = "none" /\ f.todo = <<>> /\ f.at = "idle" /\ f.file = "none" /\ f.text = ""
      /\ f.answer = "none"
  BY DEF PlaybookManager!NoFlow
<1>2. <<>> \in Seq(PlaySteps) /\ Len(<<>>) = 0
  OBVIOUS
<1>3. "none" \in Answers /\ "" \in PlaybookManager!Texts
  BY DEF Answers, PlaybookManager!Texts
<1>4. f \in Flows
  BY <1>2, <1>3 DEF Flows, PlaybookManager!NoFlow
<1>6. f = PlaybookManager!NoFlow /\ f \in Flows
  BY <1>4
<1> HIDE DEF f
<1>5. Len(f.todo) = 0
  BY <1>1, <1>2
<1>7. FlowOK(f)
  <2>1. \A i \in 1..Len(f.todo) : FALSE
    BY <1>5
  <2> QED BY <1>1, <2>1, <1>6 DEF FlowOK
<1> QED BY <1>6, <1>7

LEMMA PlaybooksInit == PlaybookManager!Init => PlaybooksIInv
<1> SUFFICES ASSUME PlaybookManager!Init PROVE PlaybooksIInv
  OBVIOUS
<1>1. MaxFailures \in Nat
  BY PagesAssumption DEF PagesAssumption, PlaybookManager!PlaybookAssumption
<1>3. PICK F \in SUBSET PlaybookManager!Files : files = [f \in F |-> f.stem]
  BY DEF PlaybookManager!Init
<1>4. DOMAIN files \subseteq PlaybookManager!Files /\ \A f \in DOMAIN files : files[f] = f.stem
  BY <1>3
<1>5. \A f \in PlaybookManager!Files : f.stem \in Stems
  BY DEF PlaybookManager!Files
<1>6. /\ list = {} /\ name = "" /\ text = "" /\ view = "none" /\ failures = 0
      /\ flows = [s \in Slots |-> PlaybookManager!NoFlow]
  BY DEF PlaybookManager!Init
<1>7. \A f \in DOMAIN files : files[f] \in PlaybookManager!Texts
  BY <1>4, <1>5 DEF PlaybookManager!Texts
<1>8. /\ list \subseteq PlaybookManager!Files /\ name \in Stems \cup {""}
      /\ text \in PlaybookManager!Texts
  BY <1>6 DEF PlaybookManager!Texts
<1>9. buttons \in BOOLEAN /\ view \in {"none", "content"} /\ failures \in 0..MaxFailures
  <2>1. buttons \in BOOLEAN
    BY DEF PlaybookManager!Init
  <2>2. view \in {"none", "content"}
    BY <1>6
  <2>4. failures = 0
    BY <1>6
  <2>3. failures \in 0..MaxFailures
    BY <1>1, <2>4
  <2> QED BY <2>1, <2>2, <2>3
<1>10. PlaybookManager!TypeOK
  BY <1>4, <1>7, <1>8, <1>9 DEF PlaybookManager!TypeOK
<1> QED BY <1>4, <1>6, <1>10, NoFlowOK DEF PlaybooksIInv, PlaybookManager!TextUnderItsName

\* A click begins a flow that is as it should be.
LEMMA PlaybooksBegin ==
  ASSUME PlaybooksIInv, NEW s \in Slots, NEW kind, NEW todo, NEW file, NEW content,
         PlaybookManager!Begin(s, kind, todo, file, content),
         [kind |-> kind, todo |-> todo, at |-> "sent", file |-> file, text |-> content,
          answer |-> "none"] \in Flows,
         todo # <<>>,
         \A i \in 1..Len(todo) : /\ todo[i] # "list" => file \in PlaybookManager!Files
                                 /\ todo[i] = "save" => content = file.stem
  PROVE  flows' \in [Slots -> Flows] /\ \A t \in Slots : FlowOK(flows'[t])
<1> DEFINE f == [kind |-> kind, todo |-> todo, at |-> "sent", file |-> file, text |-> content,
                 answer |-> "none"]
<1>1. flows' = [flows EXCEPT ![s] = f] /\ flows \in [Slots -> Flows]
  BY DEF PlaybookManager!Begin, PlaybooksIInv
<1>2. FlowOK(f)
  BY DEF FlowOK
<1>3. f \in Flows
  OBVIOUS
<1> HIDE DEF f
<1> QED BY <1>1, <1>2, <1>3 DEF PlaybooksIInv

\* A flow that goes on has no other steps than it had.
LEMMA PlaybooksOnward ==
  ASSUME PlaybooksIInv, NEW s \in Slots, NEW rest \in Seq(PlaySteps),
         PlaybookManager!Onward(s, rest),
         \A i \in 1..Len(rest) : rest[i] \in {"list", "buttons"} \/
                                 \E j \in 1..Len(flows[s].todo) : flows[s].todo[j] = rest[i],
         \A i \in 1..Len(rest) : rest[i] # "list" => flows[s].file \in PlaybookManager!Files
  PROVE  flows' \in [Slots -> Flows] /\ \A t \in Slots : FlowOK(flows'[t])
<1> DEFINE f == [flows[s] EXCEPT !.todo = rest, !.at = "sent", !.answer = "none"]
           g == IF rest = <<>> THEN PlaybookManager!NoFlow ELSE f
<1>1. flows' = [flows EXCEPT ![s] = g] /\ flows \in [Slots -> Flows]
  BY DEF PlaybookManager!Onward, PlaybooksIInv
<1>2. flows[s] \in Flows /\ FlowOK(flows[s])
  BY DEF PlaybooksIInv
<1>0. "none" \in Answers /\ "sent" \in {"idle", "sent", "served"}
  BY DEF Answers
<1>3. f \in Flows
  BY <1>0, <1>2 DEF Flows
<1>4. /\ f.todo = rest /\ f.at = "sent" /\ f.file = flows[s].file /\ f.text = flows[s].text
  BY <1>2 DEF Flows
<1>5. \A i \in 1..Len(rest) : rest[i] = "save" => flows[s].text = flows[s].file.stem
  BY <1>2 DEF FlowOK
<1>6. rest # <<>> => FlowOK(f)
  BY <1>4, <1>5 DEF FlowOK
<1> HIDE DEF f
<1>8. g \in Flows /\ FlowOK(g)
  BY <1>3, <1>6, NoFlowOK
<1> HIDE DEF g
<1> QED BY <1>1, <1>8 DEF PlaybooksIInv

\* What the server answers is of the kind asked for.
LEMMA PlaybooksAnswered ==
  ASSUME PlaybooksIInv, NEW s \in Slots, NEW answer \in Answers, PlaybookManager!Answer(s, answer),
         flows[s].at = "sent", flows[s].todo # <<>>,
         flows[s].todo[1] \in {"list", "check"} => answer \subseteq PlaybookManager!Files,
         flows[s].todo[1] = "load" => answer \in {"", flows[s].file.stem}
  PROVE  flows' \in [Slots -> Flows] /\ \A t \in Slots : FlowOK(flows'[t])
<1> DEFINE f == [flows[s] EXCEPT !.at = "served", !.answer = answer]
<1>1. flows' = [flows EXCEPT ![s] = f] /\ flows \in [Slots -> Flows]
  BY DEF PlaybookManager!Answer, PlaybooksIInv
<1>2. flows[s] \in Flows /\ FlowOK(flows[s])
  BY DEF PlaybooksIInv
<1>3. f \in Flows
  BY <1>2 DEF Flows
<1>4. /\ f.todo = flows[s].todo /\ f.at = "served" /\ f.file = flows[s].file
      /\ f.text = flows[s].text /\ f.answer = answer
  BY <1>2 DEF Flows
<1>5. FlowOK(f)
  BY <1>2, <1>4 DEF FlowOK
<1> HIDE DEF f
<1> QED BY <1>1, <1>3, <1>5 DEF PlaybooksIInv

\* A flow that is at work has a step, and the file and the text that the step needs.
LEMMA PlaybooksFlow ==
  ASSUME PlaybooksIInv, NEW s \in Slots, flows[s].at \in {"sent", "served"}
  PROVE  /\ flows[s].todo # <<>> /\ flows[s].todo \in Seq(PlaySteps)
         /\ Head(flows[s].todo) = flows[s].todo[1] /\ 1 \in 1..Len(flows[s].todo)
         /\ flows[s].todo[1] # "list" => flows[s].file \in PlaybookManager!Files
         /\ flows[s].todo[1] = "save" => flows[s].text = flows[s].file.stem
         /\ flows[s].at = "served" =>
              /\ flows[s].todo[1] \in {"list", "check"} =>
                   flows[s].answer \subseteq PlaybookManager!Files
              /\ flows[s].todo[1] = "load" => flows[s].answer \in {"", flows[s].file.stem}
         /\ Tail(flows[s].todo) \in Seq(PlaySteps)
         /\ \A i \in 1..Len(Tail(flows[s].todo)) :
              /\ \E j \in 1..Len(flows[s].todo) : flows[s].todo[j] = Tail(flows[s].todo)[i]
              /\ Tail(flows[s].todo)[i] # "list" => flows[s].file \in PlaybookManager!Files
<1>1. flows[s] \in Flows /\ FlowOK(flows[s])
  BY DEF PlaybooksIInv
<1>0. PlaybookManager!NoFlow.at = "idle"
  BY DEF PlaybookManager!NoFlow
<1>5. flows[s] # PlaybookManager!NoFlow
  BY <1>0
<1>2. flows[s].todo # <<>> /\ flows[s].todo \in Seq(PlaySteps)
  BY <1>1, <1>5 DEF FlowOK, Flows
<1>3. /\ Head(flows[s].todo) = flows[s].todo[1] /\ 1 \in 1..Len(flows[s].todo)
      /\ Tail(flows[s].todo) \in Seq(PlaySteps)
      /\ Len(Tail(flows[s].todo)) = Len(flows[s].todo) - 1 /\ Len(flows[s].todo) \in Nat
      /\ \A i \in 1..Len(Tail(flows[s].todo)) : Tail(flows[s].todo)[i] = flows[s].todo[i + 1]
  BY <1>2
<1>4. \A i \in 1..Len(Tail(flows[s].todo)) : i + 1 \in 1..Len(flows[s].todo)
  BY <1>3
<1> QED BY <1>1, <1>2, <1>3, <1>4 DEF FlowOK

\* What the page lists are files.
LEMMA PlaybooksListed == ASSUME PlaybooksIInv, NEW f \in list PROVE f \in PlaybookManager!Files
BY DEF PlaybooksIInv, PlaybookManager!TypeOK

LEMMA PlaybookFile ==
  ASSUME NEW stem \in Stems, NEW ext \in {"yml", "yaml"}
  PROVE  /\ PlaybookManager!File(stem, ext) \in PlaybookManager!Files
         /\ PlaybookManager!File(stem, ext).stem = stem
BY DEF PlaybookManager!File, PlaybookManager!Files

\* A new flow is of a kind there is, with some of the steps there are.
LEMMA PlaybooksNew ==
  ASSUME NEW kind \in {"refresh", "view", "save", "delete", "generate", "upload"},
         NEW todo \in Seq(PlaySteps), NEW file \in PlaybookManager!Files \cup {"none"},
         NEW content \in PlaybookManager!Texts
  PROVE  [kind |-> kind, todo |-> todo, at |-> "sent", file |-> file, text |-> content,
          answer |-> "none"] \in Flows
<1>1. "none" \in Answers
  BY DEF Answers
<1> QED BY <1>1 DEF Flows

\* The clicks that begin a flow and leave the editor.
LEMMA PlaybooksClicks ==
  ASSUME PlaybooksIInv, NEW s \in Slots,
         \/ PlaybookManager!Refresh(s) \/ PlaybookManager!ClickView(s)
         \/ PlaybookManager!ClickSave(s) \/ PlaybookManager!ClickDeleteRow(s)
         \/ PlaybookManager!ClickDelete(s) \/ PlaybookManager!ClickGenerate(s)
         \/ PlaybookManager!ClickUpload(s)
  PROVE  flows' \in [Slots -> Flows] /\ \A t \in Slots : FlowOK(flows'[t])
<1>1. "" \in PlaybookManager!Texts /\ \A stem \in Stems : stem \in PlaybookManager!Texts
  BY DEF PlaybookManager!Texts
<1>2. CASE PlaybookManager!Refresh(s)
  <2>1. PlaybookManager!Begin(s, "refresh", <<"list">>, "none", "")
    BY <1>2 DEF PlaybookManager!Refresh
  <2>2. <<"list">> \in Seq(PlaySteps) /\ <<"list">> # <<>>
    BY DEF PlaySteps
  <2>3. \A i \in 1..Len(<<"list">>) : <<"list">>[i] = "list"
    OBVIOUS
  <2>4. [kind |-> "refresh", todo |-> <<"list">>, at |-> "sent", file |-> "none", text |-> "",
         answer |-> "none"] \in Flows
    BY <1>1, <2>2, PlaybooksNew
  <2> QED BY <2>1, <2>2, <2>3, <2>4, PlaybooksBegin
<1>3. CASE PlaybookManager!ClickView(s)
  <2>1. PICK f \in list : PlaybookManager!Begin(s, "view", <<"load">>, f, "")
    BY <1>3 DEF PlaybookManager!ClickView
  <2>2. <<"load">> \in Seq(PlaySteps) /\ <<"load">> # <<>>
    BY DEF PlaySteps
  <2>3. f \in PlaybookManager!Files
    BY PlaybooksListed
  <2>4. [kind |-> "view", todo |-> <<"load">>, at |-> "sent", file |-> f, text |-> "",
         answer |-> "none"] \in Flows
    BY <1>1, <2>2, <2>3, PlaybooksNew
  <2>5. \A i \in 1..Len(<<"load">>) : <<"load">>[i] # "save"
    OBVIOUS
  <2> QED BY <2>1, <2>2, <2>3, <2>4, <2>5, PlaybooksBegin
<1>4. CASE PlaybookManager!ClickSave(s)
  <2> DEFINE todo == <<"save", "list">>
             f == PlaybookManager!File(name, "yml")
  <2>1. PlaybookManager!Begin(s, "save", todo, f, text) /\ name # "" /\ text # ""
    BY <1>4 DEF PlaybookManager!ClickSave
  <2>2. todo \in Seq(PlaySteps) /\ todo # <<>>
    BY DEF PlaySteps
  <2>3. name \in Stems /\ text = name
    BY <2>1 DEF PlaybooksIInv, PlaybookManager!TypeOK, PlaybookManager!TextUnderItsName
  <2>4. f \in PlaybookManager!Files /\ f.stem = text
    BY <2>3, PlaybookFile
  <2>6. text \in PlaybookManager!Texts
    BY <1>1, <2>3
  <2> HIDE DEF f, todo
  <2>5. [kind |-> "save", todo |-> todo, at |-> "sent", file |-> f, text |-> text,
         answer |-> "none"] \in Flows
    BY <2>2, <2>4, <2>6, PlaybooksNew
  <2> QED BY <2>1, <2>2, <2>4, <2>5, PlaybooksBegin
<1>5. CASE PlaybookManager!ClickDeleteRow(s)
  <2> DEFINE todo == <<"delete", "list">>
  <2>1. PICK f \in list : PlaybookManager!Begin(s, "delete", todo, f, "")
    BY <1>5 DEF PlaybookManager!ClickDeleteRow
  <2>2. todo \in Seq(PlaySteps) /\ todo # <<>> /\ \A i \in 1..Len(todo) : todo[i] # "save"
    BY DEF PlaySteps
  <2>3. f \in PlaybookManager!Files
    BY PlaybooksListed
  <2> HIDE DEF todo
  <2>4. [kind |-> "delete", todo |-> todo, at |-> "sent", file |-> f, text |-> "",
         answer |-> "none"] \in Flows
    BY <1>1, <2>2, <2>3, PlaybooksNew
  <2> QED BY <2>1, <2>2, <2>3, <2>4, PlaybooksBegin
<1>6. CASE PlaybookManager!ClickDelete(s)
  <2> DEFINE todo == <<"delete", "list", "clear">>
             f == PlaybookManager!File(name, "yml")
  <2>1. PlaybookManager!Begin(s, "delete", todo, f, "") /\ name # ""
    BY <1>6 DEF PlaybookManager!ClickDelete
  <2>2. todo \in Seq(PlaySteps) /\ todo # <<>> /\ \A i \in 1..Len(todo) : todo[i] # "save"
    BY DEF PlaySteps
  <2>3. name \in Stems
    BY <2>1 DEF PlaybooksIInv, PlaybookManager!TypeOK
  <2>4. f \in PlaybookManager!Files
    BY <2>3, PlaybookFile
  <2> HIDE DEF f, todo
  <2>5. [kind |-> "delete", todo |-> todo, at |-> "sent", file |-> f, text |-> "",
         answer |-> "none"] \in Flows
    BY <1>1, <2>2, <2>4, PlaybooksNew
  <2> QED BY <2>1, <2>2, <2>4, <2>5, PlaybooksBegin
<1>7. CASE PlaybookManager!ClickGenerate(s)
  <2> DEFINE todo == <<"check", "save", "load", "content", "list">>
  <2>1. PICK stem \in Stems :
          PlaybookManager!Begin(s, "generate", todo, PlaybookManager!File(stem, "yml"), stem)
    BY <1>7 DEF PlaybookManager!ClickGenerate
  <2> DEFINE f == PlaybookManager!File(stem, "yml")
  <2>2. todo \in Seq(PlaySteps) /\ todo # <<>>
    BY DEF PlaySteps
  <2>4. f \in PlaybookManager!Files /\ f.stem = stem
    BY PlaybookFile
  <2>6. PlaybookManager!Begin(s, "generate", todo, f, stem)
    BY <2>1
  <2> HIDE DEF f, todo
  <2>5. [kind |-> "generate", todo |-> todo, at |-> "sent", file |-> f, text |-> stem,
         answer |-> "none"] \in Flows
    BY <1>1, <2>2, <2>4, PlaybooksNew
  <2> QED BY <2>2, <2>4, <2>5, <2>6, PlaybooksBegin
<1>8. CASE PlaybookManager!ClickUpload(s)
  <2> DEFINE todo == <<"check", "save", "list", "load", "buttons">>
  <2>1. PICK f \in PlaybookManager!Files : PlaybookManager!Begin(s, "upload", todo, f, f.stem)
    BY <1>8 DEF PlaybookManager!ClickUpload
  <2>2. todo \in Seq(PlaySteps) /\ todo # <<>>
    BY DEF PlaySteps
  <2>4. f.stem \in PlaybookManager!Texts
    BY <1>1 DEF PlaybookManager!Files
  <2> HIDE DEF todo
  <2>5. [kind |-> "upload", todo |-> todo, at |-> "sent", file |-> f, text |-> f.stem,
         answer |-> "none"] \in Flows
    BY <2>2, <2>4, PlaybooksNew
  <2> QED BY <2>1, <2>2, <2>4, <2>5, PlaybooksBegin
<1> QED BY <1>2, <1>3, <1>4, <1>5, <1>6, <1>7, <1>8

\* The files, the list, the editor and the failures, apart from the flows.
FilesPart ==
  /\ DOMAIN files \subseteq PlaybookManager!Files
  /\ \A f \in DOMAIN files : files[f] \in PlaybookManager!Texts /\ files[f] = f.stem
EditorPart ==
  /\ name \in Stems \cup {""} /\ text \in PlaybookManager!Texts
  /\ name # "" /\ text # "" => text = name
  /\ view \in {"none", "content"}
FlowsPart == flows \in [Slots -> Flows] /\ \A s \in Slots : FlowOK(flows[s])

LEMMA PlaybooksParts ==
  PlaybooksIInv <=> /\ FilesPart /\ EditorPart /\ FlowsPart /\ list \subseteq PlaybookManager!Files
                    /\ buttons \in BOOLEAN /\ failures \in 0..MaxFailures
BY DEF PlaybooksIInv, FilesPart, EditorPart, FlowsPart, PlaybookManager!TypeOK,
       PlaybookManager!TextUnderItsName

LEMMA FlowsPartNext ==
  ASSUME flows' \in [Slots -> Flows] /\ \A t \in Slots : FlowOK(flows'[t])
  PROVE  FlowsPart'
BY DEF FlowsPart

LEMMA PlaybooksClick == ASSUME PlaybooksIInv, PlaybookManager!Click PROVE PlaybooksIInv'
<1>0. /\ FilesPart /\ EditorPart /\ FlowsPart /\ list \subseteq PlaybookManager!Files
      /\ failures \in 0..MaxFailures
  BY PlaybooksParts
<1>1. buttons \in BOOLEAN
  BY PlaybooksParts
<1>2. UNCHANGED <<files, failures>>
  BY DEF PlaybookManager!Click, PlaybookManager!Refresh, PlaybookManager!ClickView,
         PlaybookManager!ClickSave, PlaybookManager!ClickDeleteRow, PlaybookManager!ClickDelete,
         PlaybookManager!ClickGenerate, PlaybookManager!ClickUpload, PlaybookManager!TypeName,
         PlaybookManager!CancelDelete, PlaybookManager!ClickCreate, PlaybookManager!LeavePage
<1>3. list' \subseteq PlaybookManager!Files
  BY <1>0
     DEF PlaybookManager!Click, PlaybookManager!Refresh, PlaybookManager!ClickView,
         PlaybookManager!ClickSave, PlaybookManager!ClickDeleteRow, PlaybookManager!ClickDelete,
         PlaybookManager!ClickGenerate, PlaybookManager!ClickUpload, PlaybookManager!TypeName,
         PlaybookManager!CancelDelete, PlaybookManager!ClickCreate, PlaybookManager!LeavePage
<1>4. FlowsPart'
  <2>1. CASE UNCHANGED flows
    BY <2>1, <1>0 DEF FlowsPart
  <2>2. CASE \E s \in Slots :
               \/ PlaybookManager!Refresh(s) \/ PlaybookManager!ClickView(s)
               \/ PlaybookManager!ClickSave(s) \/ PlaybookManager!ClickDeleteRow(s)
               \/ PlaybookManager!ClickDelete(s) \/ PlaybookManager!ClickGenerate(s)
               \/ PlaybookManager!ClickUpload(s)
    BY <2>2, PlaybooksClicks, FlowsPartNext
  <2> QED BY <2>1, <2>2
          DEF PlaybookManager!Click, PlaybookManager!TypeName, PlaybookManager!CancelDelete,
              PlaybookManager!ClickCreate, PlaybookManager!LeavePage
<1>5. EditorPart'
  <2>1. CASE UNCHANGED <<name, text, view>>
    BY <2>1, <1>0 DEF EditorPart
  <2>2. CASE \E s \in Slots : PlaybookManager!ClickUpload(s)
    <3>1. PICK f \in PlaybookManager!Files : name' = f.stem /\ text' = f.stem /\ UNCHANGED view
      BY <2>2 DEF PlaybookManager!ClickUpload
    <3>2. f.stem \in Stems
      BY DEF PlaybookManager!Files
    <3> QED BY <1>0, <3>1, <3>2 DEF EditorPart, PlaybookManager!Texts
  <2>3. CASE \E stem \in Stems : PlaybookManager!TypeName(stem)
    BY <1>0, <2>3 DEF EditorPart, PlaybookManager!Texts, PlaybookManager!TypeName
  <2>4. CASE PlaybookManager!CancelDelete \/ PlaybookManager!ClickCreate \/ PlaybookManager!LeavePage
    BY <1>0, <2>4
       DEF EditorPart, PlaybookManager!Texts, PlaybookManager!CancelDelete, PlaybookManager!Cleared,
           PlaybookManager!ClickCreate, PlaybookManager!LeavePage
  <2> QED BY <2>1, <2>2, <2>3, <2>4
          DEF PlaybookManager!Click, PlaybookManager!Refresh, PlaybookManager!ClickView,
              PlaybookManager!ClickSave, PlaybookManager!ClickDeleteRow,
              PlaybookManager!ClickDelete, PlaybookManager!ClickGenerate, PlaybookManager!editor
<1>6. buttons' \in BOOLEAN
  BY <1>1
     DEF PlaybookManager!Click, PlaybookManager!Refresh, PlaybookManager!ClickView,
         PlaybookManager!ClickSave, PlaybookManager!ClickDeleteRow, PlaybookManager!ClickDelete,
         PlaybookManager!ClickGenerate, PlaybookManager!ClickUpload, PlaybookManager!TypeName,
         PlaybookManager!CancelDelete, PlaybookManager!ClickCreate, PlaybookManager!LeavePage,
         PlaybookManager!editor, PlaybookManager!Cleared
<1>7. FilesPart' /\ failures' \in 0..MaxFailures
  BY <1>0, <1>2 DEF FilesPart
<1> QED BY <1>3, <1>4, <1>5, <1>6, <1>7, PlaybooksParts DEF PlaybooksIInv, FilesPart, EditorPart,
        FlowsPart, PlaybookManager!TypeOK, PlaybookManager!TextUnderItsName

LEMMA PlaybooksServe ==
  ASSUME PlaybooksIInv, NEW s \in Slots, PlaybookManager!Serve(s) PROVE PlaybooksIInv'
<1>0. /\ FilesPart /\ EditorPart /\ FlowsPart /\ list \subseteq PlaybookManager!Files
      /\ failures \in 0..MaxFailures
  BY PlaybooksParts
<1>1. buttons \in BOOLEAN
  BY PlaybooksParts
<1>2. UNCHANGED <<list, name, text, buttons, view, failures>>
  BY DEF PlaybookManager!Serve, PlaybookManager!ServeList, PlaybookManager!ServeRead,
         PlaybookManager!ServeSave, PlaybookManager!ServeDelete, PlaybookManager!editor
<1>3. /\ flows[s].at = "sent" /\ flows[s].todo # <<>>
      /\ Head(flows[s].todo) = flows[s].todo[1]
      /\ flows[s].todo[1] # "list" => flows[s].file \in PlaybookManager!Files
      /\ flows[s].todo[1] = "save" => flows[s].text = flows[s].file.stem
  <2>1. flows[s].at = "sent"
    BY DEF PlaybookManager!Serve, PlaybookManager!ServeList, PlaybookManager!ServeRead,
           PlaybookManager!ServeSave, PlaybookManager!ServeDelete, PlaybookManager!Asks
  <2> QED BY <2>1, PlaybooksFlow
<1>4. FlowsPart' /\ FilesPart'
  <2>1. CASE PlaybookManager!ServeList(s)
    <3>1. /\ PlaybookManager!Answer(s, DOMAIN files) /\ UNCHANGED files
          /\ flows[s].todo[1] # "load"
      BY <1>3, <2>1 DEF PlaybookManager!ServeList, PlaybookManager!Asks
    <3>2. DOMAIN files \subseteq PlaybookManager!Files
      BY <1>0 DEF FilesPart
    <3>3. DOMAIN files \in Answers
      BY <3>2 DEF Answers
    <3>4. FlowsPart'
      BY <1>3, <3>1, <3>2, <3>3, PlaybooksAnswered, FlowsPartNext
    <3> QED BY <1>0, <3>1, <3>4 DEF FilesPart
  <2>2. CASE PlaybookManager!ServeRead(s)
    <3> DEFINE f == flows[s].file
               answer == IF f \in DOMAIN files THEN files[f] ELSE ""
    <3>1. PlaybookManager!Answer(s, answer) /\ UNCHANGED files /\ flows[s].todo[1] = "load"
      BY <1>3, <2>2 DEF PlaybookManager!ServeRead, PlaybookManager!Asks
    <3>2. answer \in {"", flows[s].file.stem} /\ answer \in Answers
      BY <1>0 DEF FilesPart, Answers, PlaybookManager!Texts
    <3> HIDE DEF answer
    <3>4. FlowsPart'
      BY <1>3, <3>1, <3>2, PlaybooksAnswered, FlowsPartNext
    <3> QED BY <1>0, <3>1, <3>4 DEF FilesPart
  <2>3. CASE PlaybookManager!ServeSave(s) \/ PlaybookManager!ServeDelete(s)
    <3>1. PlaybookManager!Answer(s, "ok") /\ flows[s].todo[1] \in {"save", "delete"}
      BY <1>3, <2>3 DEF PlaybookManager!ServeSave, PlaybookManager!ServeDelete, PlaybookManager!Asks
    <3>2. "ok" \in Answers
      BY DEF Answers
    <3>3. FlowsPart'
      BY <1>3, <3>1, <3>2, PlaybooksAnswered, FlowsPartNext
    <3>4. FilesPart'
      <4>1. CASE PlaybookManager!ServeSave(s)
        <5>1. /\ flows[s].file \in PlaybookManager!Files /\ flows[s].text = flows[s].file.stem
              /\ files' = [f \in DOMAIN files \cup {flows[s].file} |->
                             IF f = flows[s].file THEN flows[s].text ELSE files[f]]
          BY <1>3, <4>1 DEF PlaybookManager!ServeSave, PlaybookManager!Asks
        <5>2. flows[s].text \in PlaybookManager!Texts
          BY <1>0 DEF FlowsPart, Flows
        <5> QED BY <1>0, <5>1, <5>2 DEF FilesPart
      <4>2. CASE PlaybookManager!ServeDelete(s)
        BY <1>0, <4>2 DEF PlaybookManager!ServeDelete, FilesPart
      <4> QED BY <2>3, <4>1, <4>2
    <3> QED BY <3>3, <3>4
  <2> QED BY <2>1, <2>2, <2>3 DEF PlaybookManager!Serve
<1>5. EditorPart' /\ list' \subseteq PlaybookManager!Files /\ failures' \in 0..MaxFailures
  BY <1>0, <1>2 DEF EditorPart
<1>6. buttons' \in BOOLEAN
  BY <1>1, <1>2
<1> QED BY <1>4, <1>5, <1>6, PlaybooksParts DEF PlaybooksIInv, FilesPart, EditorPart,
        FlowsPart, PlaybookManager!TypeOK, PlaybookManager!TextUnderItsName

\* A flow that goes on leaves the flows as they should be.
LEMMA PlaybooksTail ==
  ASSUME PlaybooksIInv, NEW s \in Slots, flows[s].at \in {"sent", "served"},
         PlaybookManager!Onward(s, Tail(flows[s].todo))
  PROVE  FlowsPart'
<1>1. /\ Tail(flows[s].todo) \in Seq(PlaySteps)
      /\ \A i \in 1..Len(Tail(flows[s].todo)) :
           /\ \E j \in 1..Len(flows[s].todo) : flows[s].todo[j] = Tail(flows[s].todo)[i]
           /\ Tail(flows[s].todo)[i] # "list" => flows[s].file \in PlaybookManager!Files
  BY PlaybooksFlow
<1> DEFINE rest == Tail(flows[s].todo)
<1>2. rest \in Seq(PlaySteps) /\ PlaybookManager!Onward(s, rest)
  BY <1>1
<1>3. \A i \in 1..Len(rest) : rest[i] \in {"list", "buttons"} \/
                              \E j \in 1..Len(flows[s].todo) : flows[s].todo[j] = rest[i]
  BY <1>1
<1>4. \A i \in 1..Len(rest) : rest[i] # "list" => flows[s].file \in PlaybookManager!Files
  BY <1>1
<1> HIDE DEF rest
<1> QED BY <1>2, <1>3, <1>4, PlaybooksOnward, FlowsPartNext

LEMMA PlaybooksReceive ==
  ASSUME PlaybooksIInv, NEW s \in Slots, PlaybookManager!Receive(s) PROVE PlaybooksIInv'
<1>0. /\ FilesPart /\ EditorPart /\ FlowsPart /\ list \subseteq PlaybookManager!Files
      /\ failures \in 0..MaxFailures
  BY PlaybooksParts
<1>1. buttons \in BOOLEAN
  BY PlaybooksParts
<1>2. UNCHANGED <<files, failures>>
  BY DEF PlaybookManager!Receive, PlaybookManager!ShowList, PlaybookManager!ShowPlaybook,
         PlaybookManager!Saved, PlaybookManager!Checked, PlaybookManager!ClearEditor,
         PlaybookManager!ShowButtons, PlaybookManager!ShowContent
<1>3. flows[s].at \in {"sent", "served"}
  BY DEF PlaybookManager!Receive, PlaybookManager!ShowList, PlaybookManager!ShowPlaybook,
         PlaybookManager!Saved, PlaybookManager!Checked, PlaybookManager!ClearEditor,
         PlaybookManager!ShowButtons, PlaybookManager!ShowContent, PlaybookManager!Received,
         PlaybookManager!Asks
<1>4. /\ flows[s].todo # <<>> /\ Head(flows[s].todo) = flows[s].todo[1]
      /\ flows[s].todo[1] # "list" => flows[s].file \in PlaybookManager!Files
      /\ flows[s].at = "served" =>
           /\ flows[s].todo[1] \in {"list", "check"} => flows[s].answer \subseteq PlaybookManager!Files
           /\ flows[s].todo[1] = "load" => flows[s].answer \in {"", flows[s].file.stem}
  BY <1>3, PlaybooksFlow
<1>5. FlowsPart'
  <2>1. CASE PlaybookManager!Onward(s, Tail(flows[s].todo))
    BY <1>3, <2>1, PlaybooksTail
  <2>2. CASE /\ PlaybookManager!Received(s, "check")
             /\ PlaybookManager!Onward(s, IF flows[s].kind = "upload" THEN <<"buttons">> ELSE <<>>)
    <3> DEFINE rest == IF flows[s].kind = "upload" THEN <<"buttons">> ELSE <<>>
    <3>1. flows[s].file \in PlaybookManager!Files
      BY <1>4, <2>2 DEF PlaybookManager!Received, PlaybookManager!Step
    <3>2. rest \in Seq(PlaySteps) /\ \A i \in 1..Len(rest) : rest[i] = "buttons"
      <4>1. <<"buttons">> \in Seq(PlaySteps) /\ <<>> \in Seq(PlaySteps)
        BY DEF PlaySteps
      <4>2. Len(<<>>) = 0 /\ Len(<<"buttons">>) = 1 /\ <<"buttons">>[1] = "buttons"
        OBVIOUS
      <4> QED BY <4>1, <4>2
    <3>3. PlaybookManager!Onward(s, rest)
      BY <2>2
    <3> HIDE DEF rest
    <3> QED BY <3>1, <3>2, <3>3, PlaybooksOnward, FlowsPartNext
  <2> QED BY <2>1, <2>2
          DEF PlaybookManager!Receive, PlaybookManager!ShowList, PlaybookManager!ShowPlaybook,
              PlaybookManager!Saved, PlaybookManager!Checked, PlaybookManager!ClearEditor,
              PlaybookManager!ShowButtons, PlaybookManager!ShowContent
<1>6. list' \subseteq PlaybookManager!Files
  <2>1. CASE PlaybookManager!ShowList(s)
    BY <1>4, <2>1 DEF PlaybookManager!ShowList, PlaybookManager!Received, PlaybookManager!Step
  <2>2. CASE UNCHANGED list
    BY <1>0, <2>2
  <2> QED BY <2>1, <2>2
          DEF PlaybookManager!Receive, PlaybookManager!ShowPlaybook,
              PlaybookManager!Saved, PlaybookManager!Checked, PlaybookManager!ClearEditor,
              PlaybookManager!ShowButtons, PlaybookManager!ShowContent
<1>7. EditorPart'
  <2>1. CASE PlaybookManager!ShowPlaybook(s)
    <3>1. /\ flows[s].file \in PlaybookManager!Files /\ flows[s].answer \in {"", flows[s].file.stem}
          /\ name' = flows[s].file.stem /\ text' = flows[s].answer /\ view' = "content"
      BY <1>4, <2>1 DEF PlaybookManager!ShowPlaybook, PlaybookManager!Received, PlaybookManager!Step
    <3>2. flows[s].file.stem \in Stems
      BY <3>1 DEF PlaybookManager!Files
    <3> QED BY <3>1, <3>2 DEF EditorPart, PlaybookManager!Texts
  <2>2. CASE PlaybookManager!ClearEditor(s)
    BY <1>0, <2>2 DEF EditorPart, PlaybookManager!ClearEditor, PlaybookManager!Cleared,
                      PlaybookManager!Texts
  <2>3. CASE UNCHANGED <<name, text>> /\ (view' = view \/ view' = "content")
    <3>1. name' = name /\ text' = text /\ view' \in {"none", "content"}
      BY <1>0, <2>3 DEF EditorPart
    <3> QED BY <1>0, <3>1 DEF EditorPart
  <2> QED BY <2>1, <2>2, <2>3
          DEF PlaybookManager!Receive, PlaybookManager!ShowList, PlaybookManager!Saved,
              PlaybookManager!Checked, PlaybookManager!ShowButtons, PlaybookManager!ShowContent,
              PlaybookManager!editor
<1>8. buttons' \in BOOLEAN
  BY <1>1
     DEF PlaybookManager!Receive, PlaybookManager!ShowList, PlaybookManager!ShowPlaybook,
         PlaybookManager!Saved, PlaybookManager!Checked, PlaybookManager!ClearEditor,
         PlaybookManager!ShowButtons, PlaybookManager!ShowContent, PlaybookManager!editor,
         PlaybookManager!Cleared
<1>9. FilesPart' /\ failures' \in 0..MaxFailures
  BY <1>0, <1>2 DEF FilesPart
<1> QED BY <1>5, <1>6, <1>7, <1>8, <1>9 DEF PlaybooksIInv, FilesPart, EditorPart,
        FlowsPart, PlaybookManager!TypeOK, PlaybookManager!TextUnderItsName

LEMMA PlaybooksFail ==
  ASSUME PlaybooksIInv, NEW s \in Slots, PlaybookManager!Fail(s) PROVE PlaybooksIInv'
<1>0. /\ FilesPart /\ EditorPart /\ FlowsPart /\ list \subseteq PlaybookManager!Files
      /\ failures \in 0..MaxFailures
  BY PlaybooksParts
<1>1. buttons \in BOOLEAN
  BY PlaybooksParts
<1>2. UNCHANGED <<files, name, text, buttons, view>>
  BY DEF PlaybookManager!Fail, PlaybookManager!editor
<1>3. flows[s] \in Flows /\ FlowOK(flows[s]) /\ flows[s].todo # <<>> /\ flows[s].todo \in Seq(PlaySteps)
  <2>1. flows[s] \in Flows /\ FlowOK(flows[s]) /\ flows[s] # PlaybookManager!NoFlow
    BY DEF PlaybooksIInv, PlaybookManager!Fail
  <2> QED BY <2>1 DEF FlowOK, Flows
<1>4. /\ Head(flows[s].todo) = flows[s].todo[1] /\ 1 \in 1..Len(flows[s].todo)
      /\ Len(flows[s].todo) \in Nat
  BY <1>3
<1>5. FlowsPart'
  <2> DEFINE rest == PlaybookManager!AfterFailure(s)
             todo == flows[s].todo
  <2>0. \A i \in 1..Len(todo) : todo[i] # "list" => flows[s].file \in PlaybookManager!Files
    BY <1>3 DEF FlowOK
  <2>4. todo \in Seq(PlaySteps) /\ todo # <<>> /\ Len(todo) \in Nat
    BY <1>3, <1>4
  <2>5. rest \in {Tail(todo), SubSeq(todo, 3, Len(todo)), <<>>}
    BY DEF PlaybookManager!AfterFailure
  <2>6. PlaybookManager!Onward(s, rest)
    BY DEF PlaybookManager!Fail
  <2> HIDE DEF rest, todo
  <2>1. /\ rest \in Seq(PlaySteps)
        /\ \A i \in 1..Len(rest) : \E j \in 1..Len(todo) : todo[j] = rest[i]
    <3>1. CASE rest = Tail(todo)
      <4>1. /\ rest \in Seq(PlaySteps) /\ Len(rest) = Len(todo) - 1
            /\ \A i \in 1..Len(rest) : rest[i] = todo[i + 1]
        BY <2>4, <3>1
      <4>2. \A i \in 1..Len(rest) : i + 1 \in 1..Len(todo)
        BY <2>4, <4>1
      <4> QED BY <4>1, <4>2
    <3>2. CASE rest = SubSeq(todo, 3, Len(todo))
      <4>1. /\ Len(rest) = IF 3 <= Len(todo) THEN Len(todo) - 2 ELSE 0
            /\ \A i \in 1..Len(rest) : rest[i] = todo[i + 2]
        BY <2>4, <3>2
      <4>2. \A i \in 1..Len(rest) : i + 2 \in 1..Len(todo)
        BY <2>4, <4>1
      <4>3. rest = [i \in 1..Len(rest) |-> todo[i + 2]]
        BY <2>4, <3>2, <4>1
      <4>4. \A i \in 1..Len(rest) : todo[i + 2] \in PlaySteps
        BY <2>4, <4>2
      <4>5. Len(rest) \in Nat
        BY <2>4, <4>1
      <4>6. rest \in Seq(PlaySteps)
        BY <4>3, <4>4, <4>5
      <4> QED BY <4>1, <4>2, <4>6
    <3>3. CASE rest = <<>>
      BY <3>3
    <3> QED BY <2>5, <3>1, <3>2, <3>3
  <2>2. \A i \in 1..Len(rest) : rest[i] # "list" => flows[s].file \in PlaybookManager!Files
    BY <2>0, <2>1
  <2>3. \A i \in 1..Len(rest) : rest[i] \in {"list", "buttons"} \/
                                \E j \in 1..Len(flows[s].todo) : flows[s].todo[j] = rest[i]
    BY <2>1 DEF todo
  <2> QED BY <2>1, <2>2, <2>3, <2>6, PlaybooksOnward, FlowsPartNext
<1>6. list' \subseteq PlaybookManager!Files
  BY <1>0 DEF PlaybookManager!Fail
<1>7. failures' \in 0..MaxFailures
  <2>1. failures < MaxFailures /\ failures' = failures + 1
    BY DEF PlaybookManager!Fail
  <2>2. MaxFailures \in Nat
    BY PagesAssumption DEF PagesAssumption, PlaybookManager!PlaybookAssumption
  <2> QED BY <1>0, <2>1, <2>2
<1>8. FilesPart' /\ EditorPart'
  BY <1>0, <1>2 DEF FilesPart, EditorPart
<1>9. buttons' \in BOOLEAN
  BY <1>1, <1>2
<1> QED BY <1>5, <1>6, <1>7, <1>8, <1>9 DEF PlaybooksIInv, FilesPart, EditorPart,
        FlowsPart, PlaybookManager!TypeOK, PlaybookManager!TextUnderItsName

LEMMA PlaybooksStep == ASSUME PlaybooksIInv, PlaybookManager!Next PROVE PlaybooksIInv'
BY PlaybooksClick, PlaybooksServe, PlaybooksReceive, PlaybooksFail DEF PlaybookManager!Next

LEMMA PlaybooksSame == ASSUME PlaybooksIInv, UNCHANGED PlaybookManager!pvars PROVE PlaybooksIInv'
<1>1. UNCHANGED <<files, list, name, text, buttons, view, flows, failures>>
  BY DEF PlaybookManager!pvars
<1>2. PlaybookManager!TypeOK' /\ PlaybookManager!TextUnderItsName'
  BY <1>1 DEF PlaybooksIInv, PlaybookManager!TypeOK, PlaybookManager!TextUnderItsName
<1>3. flows' \in [Slots -> Flows] /\ \A s \in Slots : FlowOK(flows'[s])
  BY <1>1 DEF PlaybooksIInv
<1> QED BY <1>2, <1>3 DEF PlaybooksIInv

-------------------------------------------------------------------------------
(* The installation of Ansible *)

InstallAnswers == {"installed", "not_installed", "offline", "empty"}

\* The newest check, in a state where it is under way.
NewestAt(at) == \E c \in checks : c.token = token /\ c.at \in at

\* Checks have each a number of their own, and are answered with what there is to answer;
\* the status is shown as being checked exactly while the newest is under way.
ChecksPart ==
  /\ token \in 0..MaxChecks
  /\ \A c \in checks :
       /\ c \in [token : 1..token, at : {"cluster", "status", "answered"},
                 answer : InstallAnswers \cup {"none"}]
       /\ c.at = "answered" => c.answer \in InstallAnswers
  /\ \A c, d \in checks : c.token = d.token => c = d
  /\ status \in [token : 0..token, badge : AnsibleInstall!Badges,
                 buttons : SUBSET AnsibleInstall!Modes]
  /\ token = 0 => status.badge = "unknown"
  /\ due \in Nat
CheckingPart ==
  /\ checking \in BOOLEAN
  /\ AnsibleInstall!NewestIsShown

\* Unless an end of a run was not told of, a check is due, or the newest is under way and has
\* not looked yet or has seen what there is, or it is through and the badge is right.
Right(word) == word \in {"installed", "not_installed"} => ((word = "installed") <=> installed)
SettledPart ==
  /\ installed \in BOOLEAN /\ untold \in BOOLEAN
  /\ \/ untold
     \/ due > 0
     \/ \E c \in checks : c.token = token /\ (c.at = "answered" => Right(c.answer))
     \/ (\A c \in checks : c.token # token) /\ Right(status.badge)

Windowed ==
  [open : BOOLEAN, mode : AnsibleInstall!Modes, asks : Nat, free : Nat, output : BOOLEAN,
   complete : BOOLEAN]

\* The window has no more inputs than it was opened times.
WindowPart ==
  /\ window \in Windowed /\ opened \in 0..MaxWindows
  /\ IsFiniteSet(openings) /\ Cardinality(openings) + window.asks + window.free <= opened
  /\ \A o \in openings : o.mode \in AnsibleInstall!Modes

\* Runs are of sockets there are, and do what their window said.
RunsPart ==
  /\ sockets \in Seq([state : {"connecting", "open", "closed"}, mode : AnsibleInstall!Modes,
                      password : BOOLEAN])
  /\ \A r \in runs : r.socket \in 1..Len(sockets) /\ r.mode = sockets[r.socket].mode

InstallIInv ==
  /\ ChecksPart /\ CheckingPart /\ SettledPart /\ WindowPart /\ RunsPart
  /\ nopasswd \in BOOLEAN /\ failures \in 0..MaxFailures

LEMMA InstallNats ==
  MaxChecks \in Nat /\ MaxWindows \in Nat /\ MaxPresses \in Nat /\ MaxFailures \in Nat
BY PagesAssumption DEF PagesAssumption, AnsibleInstall!InstallAssumption

LEMMA InstallInit == AnsibleInstall!Init => InstallIInv
<1> SUFFICES ASSUME AnsibleInstall!Init PROVE InstallIInv
  OBVIOUS
<1>1. /\ token = 0 /\ checks = {} /\ due = 1 /\ opened = 0 /\ openings = {}
      /\ status = [token |-> 0, badge |-> "unknown", buttons |-> {}]
      /\ sockets = <<>> /\ runs = {} /\ failures = 0
  BY DEF AnsibleInstall!Init
<1>2. window \in Windowed /\ window.asks = 0 /\ window.free = 0
  BY DEF AnsibleInstall!Init, Windowed, AnsibleInstall!Modes
<1>3. installed \in BOOLEAN /\ nopasswd \in BOOLEAN /\ checking = FALSE /\ untold = FALSE
  BY DEF AnsibleInstall!Init
<1>4. /\ "unknown" \in AnsibleInstall!Badges /\ "install" \in AnsibleInstall!Modes
  BY DEF AnsibleInstall!Badges, AnsibleInstall!Modes
<1>5. status \in [token : 0..token, badge : AnsibleInstall!Badges,
                  buttons : SUBSET AnsibleInstall!Modes] /\ status.badge = "unknown"
  BY <1>1, <1>4
<1>6. ChecksPart
  BY <1>1, <1>5, InstallNats DEF ChecksPart
<1>7. CheckingPart
  <2>1. status.token = token
    BY <1>1
  <2> QED BY <1>1, <1>3, <2>1 DEF CheckingPart, AnsibleInstall!NewestIsShown
<1>8. SettledPart
  <2>1. due > 0
    BY <1>1
  <2> QED BY <1>3, <2>1 DEF SettledPart
<1>9. WindowPart
  <2>1. IsFiniteSet(openings) /\ Cardinality(openings) = 0
    BY <1>1, FS_EmptySet
  <2> QED BY <1>1, <1>2, <1>4, <2>1, InstallNats DEF WindowPart
<1>10. RunsPart
  BY <1>1 DEF RunsPart
<1>11. failures \in 0..MaxFailures
  BY <1>1, InstallNats
<1> QED BY <1>3, <1>6, <1>7, <1>8, <1>9, <1>10, <1>11 DEF InstallIInv

\* A check is begun: it is the newest.
LEMMA InstallChecks ==
  ASSUME InstallIInv, AnsibleInstall!Checks, UNCHANGED status, due' \in Nat,
         installed' = installed, untold' \in BOOLEAN
  PROVE  ChecksPart' /\ CheckingPart' /\ SettledPart'
<1> DEFINE n == token + 1
           new == [token |-> n, at |-> "cluster", answer |-> "none"]
<1>1. /\ token' = n /\ n \in 0..MaxChecks /\ token \in Nat /\ n \in Nat
      /\ checks' = checks \cup {new} /\ checking' = TRUE
  BY InstallNats DEF AnsibleInstall!Checks, InstallIInv, ChecksPart
<1>2. /\ new \in [token : 1..n, at : {"cluster", "status", "answered"},
                  answer : InstallAnswers \cup {"none"}]
      /\ new.token = n /\ new.at = "cluster"
  BY <1>1
<1>3. ChecksPart'
  <2>1. \A c \in checks : c.token \in 1..token /\ c.token # n
    BY <1>1 DEF InstallIInv, ChecksPart
  <2>2. 1..token \subseteq 1..n /\ 0..token \subseteq 0..n /\ n # 0
    BY <1>1
  <2> HIDE DEF new, n
  <2>3. \A c \in checks' :
          /\ c \in [token : 1..n, at : {"cluster", "status", "answered"},
                    answer : InstallAnswers \cup {"none"}]
          /\ c.at = "answered" => c.answer \in InstallAnswers
    BY <1>1, <1>2, <2>2 DEF InstallIInv, ChecksPart
  <2>4. \A c, d \in checks' : c.token = d.token => c = d
    BY <1>1, <1>2, <2>1 DEF InstallIInv, ChecksPart
  <2>5. status' \in [token : 0..n, badge : AnsibleInstall!Badges,
                     buttons : SUBSET AnsibleInstall!Modes]
    BY <2>2 DEF InstallIInv, ChecksPart
  <2> QED BY <1>1, <2>2, <2>3, <2>4, <2>5 DEF ChecksPart
<1> HIDE DEF new, n
<1>4. CheckingPart'
  BY <1>1, <1>2 DEF CheckingPart, AnsibleInstall!NewestIsShown
<1>5. SettledPart'
  <2>1. \E c \in checks' : c.token = token' /\ c.at # "answered"
    BY <1>1, <1>2
  <2>2. installed' \in BOOLEAN /\ untold' \in BOOLEAN
    BY DEF InstallIInv, SettledPart
  <2> QED BY <2>1, <2>2 DEF SettledPart
<1> QED BY <1>3, <1>4, <1>5

\* One check in another's place, of the same number.
LEMMA InstallReplaced ==
  ASSUME InstallIInv, NEW c \in checks, NEW d, d.token = c.token,
         d \in [token : 1..token, at : {"cluster", "status", "answered"},
                answer : InstallAnswers \cup {"none"}],
         d.at = "answered" => d.answer \in InstallAnswers,
         checks' = (checks \ {c}) \cup {d},
         UNCHANGED <<token, checking, status, due>>
  PROVE  ChecksPart' /\ CheckingPart'
<1>1. ChecksPart'
  <2>1. \A e \in checks' :
          /\ e \in [token : 1..token, at : {"cluster", "status", "answered"},
                    answer : InstallAnswers \cup {"none"}]
          /\ e.at = "answered" => e.answer \in InstallAnswers
    BY DEF InstallIInv, ChecksPart
  <2>2. \A e, f \in checks' : e.token = f.token => e = f
    BY DEF InstallIInv, ChecksPart
  <2> QED BY <2>1, <2>2 DEF InstallIInv, ChecksPart
<1>2. CheckingPart'
  <2>1. (\E e \in checks' : e.token = token') <=> (\E e \in checks : e.token = token)
    OBVIOUS
  <2> QED BY <2>1 DEF InstallIInv, CheckingPart, AnsibleInstall!NewestIsShown
<1> QED BY <1>1, <1>2

\* A check's end: the newest one's is shown.
LEMMA InstallShows ==
  ASSUME InstallIInv, NEW c \in checks, NEW badge \in AnsibleInstall!Badges,
         NEW btns \in SUBSET AnsibleInstall!Modes, AnsibleInstall!Shows(c, badge, btns)
  PROVE  ChecksPart' /\ CheckingPart'
<1>1. /\ checks' = checks \ {c} /\ UNCHANGED <<token, due>>
      /\ c.token = token => status' = [token |-> token, badge |-> badge, buttons |-> btns]
      /\ c.token # token => UNCHANGED <<status>>
  BY DEF AnsibleInstall!Shows, AnsibleInstall!IsNewest
<1>2. (c.token = token => checking' = FALSE) /\ (c.token # token => checking' = checking)
  BY DEF AnsibleInstall!Shows, AnsibleInstall!IsNewest
<1>3. token \in Nat /\ c.token \in 1..token
  BY InstallNats DEF InstallIInv, ChecksPart
<1>4. ChecksPart'
  <2>1. status' \in [token : 0..token, badge : AnsibleInstall!Badges,
                     buttons : SUBSET AnsibleInstall!Modes]
    BY <1>1, <1>3 DEF InstallIInv, ChecksPart
  <2>2. token' # 0
    BY <1>1, <1>3
  <2>3. checks' \subseteq checks /\ UNCHANGED <<token, due>>
    BY <1>1
  <2>4. \A e \in checks' :
          /\ e \in [token : 1..token, at : {"cluster", "status", "answered"},
                    answer : InstallAnswers \cup {"none"}]
          /\ e.at = "answered" => e.answer \in InstallAnswers
    BY <2>3 DEF InstallIInv, ChecksPart
  <2>5. \A e, f \in checks' : e.token = f.token => e = f
    BY <2>3 DEF InstallIInv, ChecksPart
  <2>6. token \in 0..MaxChecks /\ due \in Nat
    BY DEF InstallIInv, ChecksPart
  <2> QED BY <2>1, <2>2, <2>3, <2>4, <2>5, <2>6 DEF ChecksPart
<1>5. CheckingPart'
  <2>1. CASE c.token = token
    <3>1. \A e \in checks' : e.token # token'
      BY <1>1, <2>1 DEF InstallIInv, ChecksPart
    <3>2. status'.token = token'
      BY <1>1, <2>1
    <3> QED BY <1>2, <2>1, <3>1, <3>2 DEF CheckingPart, AnsibleInstall!NewestIsShown
  <2>2. CASE c.token # token
    <3>1. (\E e \in checks' : e.token = token') <=> (\E e \in checks : e.token = token)
      BY <1>1, <2>2
    <3> QED BY <1>1, <1>2, <2>2, <3>1 DEF InstallIInv, CheckingPart, AnsibleInstall!NewestIsShown
  <2> QED BY <2>1, <2>2
<1> QED BY <1>4, <1>5

\* The badge is right after the end of a check if the check's answer was.
LEMMA InstallShowsRight ==
  ASSUME InstallIInv, NEW c \in checks, NEW badge, NEW btns, AnsibleInstall!Shows(c, badge, btns),
         UNCHANGED <<installed, untold>>,
         c.at # "answered" \/ Right(c.answer) => Right(badge)
  PROVE  SettledPart'
<1>1. /\ checks' = checks \ {c} /\ UNCHANGED <<token, due>>
      /\ c.token = token => status' = [token |-> token, badge |-> badge, buttons |-> btns]
      /\ c.token # token => UNCHANGED <<status>>
  BY DEF AnsibleInstall!Shows, AnsibleInstall!IsNewest
<1>2. installed' \in BOOLEAN /\ untold' \in BOOLEAN /\ installed' = installed /\ untold' = untold
  BY DEF InstallIInv, SettledPart
<1>3. CASE untold
  BY <1>2, <1>3 DEF SettledPart
<1>4. CASE due > 0
  <2>1. due' > 0
    BY <1>1, <1>4
  <2> QED BY <1>2, <2>1 DEF SettledPart
<1>5. CASE \E d \in checks : d.token = token /\ (d.at = "answered" => Right(d.answer))
  <2>1. PICK d \in checks : d.token = token /\ (d.at = "answered" => Right(d.answer))
    BY <1>5
  <2>2. CASE c.token # token
    <3>1. d \in checks' /\ d.token = token'
      BY <1>1, <2>1, <2>2
    <3>2. d.at = "answered" => Right(d.answer)'
      BY <1>2, <2>1 DEF Right
    <3> QED BY <1>2, <3>1, <3>2 DEF SettledPart, Right
  <2>3. CASE c.token = token
    <3>1. c = d
      BY <2>1, <2>3 DEF InstallIInv, ChecksPart
    <3>2. Right(badge)
      BY <2>1, <3>1
    <3>3. status'.badge = badge /\ \A e \in checks' : e.token # token'
      BY <1>1, <2>3 DEF InstallIInv, ChecksPart
    <3>4. Right(status.badge)'
      BY <1>2, <3>2, <3>3 DEF Right
    <3> QED BY <1>2, <3>3, <3>4 DEF SettledPart
  <2> QED BY <2>2, <2>3
<1>6. CASE (\A d \in checks : d.token # token) /\ Right(status.badge)
  <2>1. (\A d \in checks' : d.token # token') /\ UNCHANGED status
    BY <1>1, <1>6
  <2>2. Right(status.badge)'
    BY <1>2, <1>6, <2>1 DEF Right
  <2> QED BY <1>2, <2>1, <2>2 DEF SettledPart
<1> QED BY <1>3, <1>4, <1>5, <1>6 DEF InstallIInv, SettledPart

LEMMA InstallStatusNext ==
  ASSUME InstallIInv, AnsibleInstall!StatusNext PROVE InstallIInv'
<1>1. InstallIInv /\ UNCHANGED <<opened, openings, installed, nopasswd, sockets, runs>>
  BY DEF AnsibleInstall!StatusNext, AnsibleInstall!ClickCheck, AnsibleInstall!DueCheck,
         AnsibleInstall!Complete, AnsibleInstall!GotCluster, AnsibleInstall!Look,
         AnsibleInstall!Show, AnsibleInstall!CheckFails, AnsibleInstall!UnchangedWindow,
         AnsibleInstall!UnchangedRuns
<1>2. window' = window \/ window' = [window EXCEPT !.open = FALSE]
  BY DEF AnsibleInstall!StatusNext, AnsibleInstall!ClickCheck, AnsibleInstall!DueCheck,
         AnsibleInstall!Complete, AnsibleInstall!GotCluster, AnsibleInstall!Look,
         AnsibleInstall!Show, AnsibleInstall!CheckFails, AnsibleInstall!UnchangedWindow
<1>3. WindowPart'
  <2>0. window \in Windowed
    BY <1>1 DEF InstallIInv, WindowPart
  <2>1. window' \in Windowed /\ window'.asks = window.asks /\ window'.free = window.free
    BY <1>2, <2>0 DEF Windowed
  <2> QED BY <1>1, <2>1 DEF InstallIInv, WindowPart
<1>4. RunsPart' /\ nopasswd' \in BOOLEAN
  BY <1>1 DEF InstallIInv, RunsPart
<1>5. failures' \in 0..MaxFailures
  <2>1. failures' = failures \/ (failures < MaxFailures /\ failures' = failures + 1)
    BY DEF AnsibleInstall!StatusNext, AnsibleInstall!ClickCheck, AnsibleInstall!DueCheck,
           AnsibleInstall!Complete, AnsibleInstall!GotCluster, AnsibleInstall!Look,
           AnsibleInstall!Show, AnsibleInstall!CheckFails, AnsibleInstall!Failure,
           AnsibleInstall!Unfailing
  <2>2. failures \in 0..MaxFailures
    BY DEF InstallIInv
  <2> QED BY <2>1, <2>2, InstallNats
<1>6. ChecksPart' /\ CheckingPart' /\ SettledPart'
  <2>0. due \in Nat /\ untold \in BOOLEAN
    BY DEF InstallIInv, ChecksPart, SettledPart
  <2>1. CASE AnsibleInstall!ClickCheck \/ AnsibleInstall!Complete
    BY <1>1, <2>0, <2>1, InstallChecks DEF AnsibleInstall!ClickCheck, AnsibleInstall!Complete
  <2>2. CASE AnsibleInstall!DueCheck
    <3>1. due > 0 /\ due' = due - 1 /\ UNCHANGED <<status, untold>>
      BY <2>2 DEF AnsibleInstall!DueCheck
    <3>2. due' \in Nat
      BY <2>0, <3>1
    <3>3. CASE AnsibleInstall!Checks
      BY <1>1, <2>0, <3>1, <3>2, <3>3, InstallChecks
    <3>4. CASE token = 0 /\ UNCHANGED <<token, checks, checking>>
      <4>1. ChecksPart'
        BY <1>1, <3>1, <3>2, <3>4 DEF InstallIInv, ChecksPart
      <4>2. CheckingPart'
        BY <1>1, <3>1, <3>4 DEF InstallIInv, CheckingPart, AnsibleInstall!NewestIsShown
      <4>3. \A c \in checks : FALSE
        <5>1. \A c \in checks : c.token \in 1..token
          BY <1>1 DEF InstallIInv, ChecksPart
        <5> QED BY <3>4, <5>1
      <4>4. status.badge = "unknown"
        BY <1>1, <3>4 DEF InstallIInv, ChecksPart
      <4>5. Right(status.badge)' /\ \A c \in checks' : c.token # token'
        BY <3>1, <3>4, <4>3, <4>4 DEF Right
      <4> QED BY <1>1, <3>1, <4>1, <4>2, <4>5 DEF InstallIInv, SettledPart
    <3> QED BY <2>2, <3>3, <3>4 DEF AnsibleInstall!DueCheck
  <2>3. CASE \E c \in checks : AnsibleInstall!GotCluster(c)
    <3>1. PICK c \in checks : AnsibleInstall!GotCluster(c)
      BY <2>3
    <3> DEFINE d == [c EXCEPT !.at = "status"]
    <3>2. /\ checks' = (checks \ {c}) \cup {d} /\ UNCHANGED <<token, checking, status, due>>
          /\ UNCHANGED untold
      BY <3>1 DEF AnsibleInstall!GotCluster
    <3>3. c \in [token : 1..token, at : {"cluster", "status", "answered"},
                 answer : InstallAnswers \cup {"none"}]
      BY <1>1 DEF InstallIInv, ChecksPart
    <3>4. /\ d \in [token : 1..token, at : {"cluster", "status", "answered"},
                    answer : InstallAnswers \cup {"none"}]
          /\ d.token = c.token /\ d.at = "status"
      BY <3>3
    <3> HIDE DEF d
    <3>5. ChecksPart' /\ CheckingPart'
      BY <1>1, <3>2, <3>4, InstallReplaced
    <3>6. SettledPart'
      <4>1. CASE untold \/ due > 0
        BY <1>1, <3>2, <4>1 DEF InstallIInv, SettledPart
      <4>2. CASE \E e \in checks : e.token = token /\ (e.at = "answered" => Right(e.answer))
        <5>1. PICK e \in checks : e.token = token /\ (e.at = "answered" => Right(e.answer))
          BY <4>2
        <5>2. CASE e = c
          <6>1. d \in checks' /\ d.token = token' /\ d.at # "answered"
            BY <3>2, <3>4, <5>1, <5>2
          <6> QED BY <1>1, <3>2, <6>1 DEF InstallIInv, SettledPart
        <5>3. CASE e # c
          <6>1. e \in checks' /\ e.token = token' /\ (e.at = "answered" => Right(e.answer)')
            BY <1>1, <3>2, <5>1, <5>3 DEF Right
          <6> QED BY <1>1, <3>2, <6>1 DEF InstallIInv, SettledPart, Right
        <5> QED BY <5>2, <5>3
      <4>3. CASE (\A e \in checks : e.token # token) /\ Right(status.badge)
        <5>1. \A e \in checks' : e.token # token'
          BY <3>2, <3>4, <4>3
        <5>2. Right(status.badge)'
          BY <1>1, <3>2, <4>3 DEF Right
        <5> QED BY <1>1, <3>2, <5>1, <5>2 DEF InstallIInv, SettledPart
      <4> QED BY <1>1, <4>1, <4>2, <4>3 DEF InstallIInv, SettledPart
    <3> QED BY <3>5, <3>6
  <2>4. CASE \E c \in checks : AnsibleInstall!Look(c)
    <3>1. PICK c \in checks : AnsibleInstall!Look(c)
      BY <2>4
    <3>2. PICK answer \in InstallAnswers :
            /\ \/ answer = (IF installed THEN "installed" ELSE "not_installed")
               \/ answer \in {"offline", "empty"}
            /\ checks' = (checks \ {c}) \cup {[c EXCEPT !.at = "answered", !.answer = answer]}
      BY <3>1 DEF AnsibleInstall!Look, InstallAnswers
    <3> DEFINE d == [c EXCEPT !.at = "answered", !.answer = answer]
    <3>3. /\ checks' = (checks \ {c}) \cup {d} /\ UNCHANGED <<token, checking, status, due>>
      BY <3>1, <3>2 DEF AnsibleInstall!Look
    <3>9. untold' = (untold /\ c.token # token)
      BY <3>1 DEF AnsibleInstall!Look
    <3>4. c \in [token : 1..token, at : {"cluster", "status", "answered"},
                 answer : InstallAnswers \cup {"none"}]
      BY <1>1 DEF InstallIInv, ChecksPart
    <3>5. /\ d \in [token : 1..token, at : {"cluster", "status", "answered"},
                    answer : InstallAnswers \cup {"none"}]
          /\ d.token = c.token /\ d.at = "answered" /\ d.answer = answer
      BY <3>4
    <3> HIDE DEF d
    <3>6. ChecksPart' /\ CheckingPart'
      BY <1>1, <3>3, <3>5, InstallReplaced
    <3>7. Right(answer)
      <4>1. installed \in BOOLEAN
        BY <1>1 DEF InstallIInv, SettledPart
      <4> QED BY <3>2, <4>1 DEF Right
    <3>8. SettledPart'
      <4>0. installed' \in BOOLEAN /\ untold' \in BOOLEAN /\ installed' = installed
        BY <1>1, <3>9 DEF InstallIInv, SettledPart
      <4>1. CASE c.token = token
        <5>1. d \in checks' /\ d.token = token' /\ d.answer = answer
          BY <3>3, <3>5, <4>1
        <5>2. Right(answer)'
          BY <3>7, <4>0 DEF Right
        <5> QED BY <4>0, <5>1, <5>2 DEF SettledPart, Right
      <4>2. CASE c.token # token
        <5>0. untold' = untold
          BY <1>1, <3>9, <4>2 DEF InstallIInv, SettledPart
        <5>1. CASE untold \/ due > 0
          BY <1>1, <3>3, <5>0, <5>1 DEF InstallIInv, SettledPart
        <5>2. CASE \E e \in checks : e.token = token /\ (e.at = "answered" => Right(e.answer))
          <6>1. PICK e \in checks : e.token = token /\ (e.at = "answered" => Right(e.answer))
            BY <5>2
          <6>2. e \in checks' /\ e.token = token' /\ (e.at = "answered" => Right(e.answer)')
            BY <1>1, <3>3, <4>2, <6>1 DEF Right
          <6> QED BY <4>0, <6>2 DEF SettledPart, Right
        <5>3. CASE (\A e \in checks : e.token # token) /\ Right(status.badge)
          <6>1. \A e \in checks' : e.token # token'
            BY <3>3, <3>5, <4>2, <5>3
          <6>2. Right(status.badge)'
            BY <1>1, <3>3, <5>3 DEF Right
          <6> QED BY <4>0, <6>1, <6>2 DEF SettledPart
        <5> QED BY <1>1, <5>1, <5>2, <5>3 DEF InstallIInv, SettledPart
      <4> QED BY <4>1, <4>2
    <3> QED BY <3>6, <3>8
  <2>5. CASE \E c \in checks : AnsibleInstall!Show(c)
    <3>1. PICK c \in checks : AnsibleInstall!Show(c)
      BY <2>5
    <3> DEFINE badge == IF c.answer = "empty" THEN "unknown" ELSE c.answer
    <3>2. /\ c.at = "answered" /\ c.answer \in InstallAnswers
          /\ AnsibleInstall!Shows(c, badge, AnsibleInstall!Buttons(c.answer))
          /\ UNCHANGED untold
      BY <1>1, <3>1 DEF AnsibleInstall!Show, InstallIInv, ChecksPart
    <3>3. badge \in AnsibleInstall!Badges
      BY <3>2 DEF InstallAnswers, AnsibleInstall!Badges
    <3>4. AnsibleInstall!Buttons(c.answer) \in SUBSET AnsibleInstall!Modes
      BY DEF AnsibleInstall!Buttons, AnsibleInstall!Modes
    <3>5. Right(c.answer) => Right(badge)
      BY <3>2 DEF Right
    <3> HIDE DEF badge
    <3> QED BY <1>1, <3>2, <3>3, <3>4, <3>5, InstallShows, InstallShowsRight
  <2>6. CASE \E c \in checks : AnsibleInstall!CheckFails(c)
    <3>1. PICK c \in checks : AnsibleInstall!CheckFails(c)
      BY <2>6
    <3>2. /\ c.at # "answered" /\ UNCHANGED untold
          /\ AnsibleInstall!Shows(c, "unknown", status.buttons)
      BY <3>1 DEF AnsibleInstall!CheckFails
    <3>3. "unknown" \in AnsibleInstall!Badges /\ Right("unknown")
      BY DEF AnsibleInstall!Badges, Right
    <3>4. status.buttons \in SUBSET AnsibleInstall!Modes
      BY <1>1 DEF InstallIInv, ChecksPart
    <3> QED BY <1>1, <3>2, <3>3, <3>4, InstallShows, InstallShowsRight
  <2> QED BY <2>1, <2>2, <2>3, <2>4, <2>5, <2>6 DEF AnsibleInstall!StatusNext
<1> QED BY <1>3, <1>4, <1>5, <1>6 DEF InstallIInv

\* What does not look, check or end a run leaves the status and what is true of it.
LEMMA InstallStatusSame ==
  ASSUME InstallIInv, UNCHANGED <<token, checks, checking, status, due, installed, untold>>
  PROVE  ChecksPart' /\ CheckingPart' /\ SettledPart'
<1>1. ChecksPart' /\ CheckingPart'
  BY DEF InstallIInv, ChecksPart, CheckingPart, AnsibleInstall!NewestIsShown
<1>2. SettledPart'
  BY DEF InstallIInv, SettledPart, Right
<1> QED BY <1>1, <1>2

LEMMA InstallWindowNext ==
  ASSUME InstallIInv, AnsibleInstall!WindowNext PROVE InstallIInv'
<1>1. UNCHANGED <<token, checks, checking, status, due, installed, nopasswd, untold, sockets, runs>>
  BY DEF AnsibleInstall!WindowNext, AnsibleInstall!Open, AnsibleInstall!NodeKnown,
         AnsibleInstall!NodeUnknown, AnsibleInstall!OpeningFails, AnsibleInstall!GotSudo,
         AnsibleInstall!Close, AnsibleInstall!UnchangedStatus, AnsibleInstall!UnchangedRuns
<1>2. ChecksPart' /\ CheckingPart' /\ SettledPart'
  BY <1>1, InstallStatusSame
<1>3. RunsPart' /\ nopasswd' \in BOOLEAN
  BY <1>1 DEF InstallIInv, RunsPart
<1>4. failures' \in 0..MaxFailures
  <2>1. failures' = failures \/ (failures < MaxFailures /\ failures' = failures + 1)
    BY DEF AnsibleInstall!WindowNext, AnsibleInstall!Open, AnsibleInstall!NodeKnown,
           AnsibleInstall!NodeUnknown, AnsibleInstall!OpeningFails, AnsibleInstall!GotSudo,
           AnsibleInstall!Close, AnsibleInstall!Failure, AnsibleInstall!Unfailing
  <2>2. failures \in 0..MaxFailures
    BY DEF InstallIInv
  <2> QED BY <2>1, <2>2, InstallNats
<1>5. WindowPart'
  <2>00. window \in Windowed /\ window.asks \in Nat /\ window.free \in Nat
    BY DEF InstallIInv, WindowPart, Windowed
  <2>0. /\ window \in Windowed /\ window.asks \in Nat /\ window.free \in Nat
        /\ opened \in 0..MaxWindows /\ opened \in Nat
        /\ IsFiniteSet(openings) /\ Cardinality(openings) + window.asks + window.free <= opened
        /\ Cardinality(openings) \in Nat
        /\ \A o \in openings : o.mode \in AnsibleInstall!Modes
    BY <2>00, InstallNats, FS_CardinalityType DEF InstallIInv, WindowPart
  <2>1. CASE \E mode \in AnsibleInstall!Modes : AnsibleInstall!Open(mode)
    <3>1. PICK mode \in AnsibleInstall!Modes : AnsibleInstall!Open(mode)
      BY <2>1
    <3> DEFINE new == [id |-> opened + 1, mode |-> mode, at |-> "cluster"]
    <3>2. /\ opened < MaxWindows /\ opened' = opened + 1 /\ openings' = openings \cup {new}
          /\ UNCHANGED window
      BY <3>1 DEF AnsibleInstall!Open
    <3>3. new.mode \in AnsibleInstall!Modes
      OBVIOUS
    <3> HIDE DEF new
    <3>4. /\ IsFiniteSet(openings')
          /\ Cardinality(openings') \in Nat /\ Cardinality(openings') <= Cardinality(openings) + 1
      BY <2>0, <3>2, FS_AddElement
    <3>5. opened' \in 0..MaxWindows
      BY <2>0, <3>2, InstallNats
    <3>6. Cardinality(openings') + window'.asks + window'.free <= opened'
      BY <2>0, <3>2, <3>4
    <3> QED BY <2>0, <3>2, <3>3, <3>4, <3>5, <3>6 DEF WindowPart
  <2>2. CASE \E o \in openings : AnsibleInstall!NodeKnown(o) \/ AnsibleInstall!NodeUnknown(o)
    <3>1. PICK o \in openings : AnsibleInstall!NodeKnown(o) \/ AnsibleInstall!NodeUnknown(o)
      BY <2>2
    <3>2. PICK at \in {"sudo", "role"} : openings' = (openings \ {o}) \cup {[o EXCEPT !.at = at]}
      BY <3>1 DEF AnsibleInstall!NodeKnown, AnsibleInstall!NodeUnknown
    <3>3. /\ opened' = opened
          /\ window' = window \/ window' = [window EXCEPT !.asks = 0, !.free = 0]
      BY <3>1 DEF AnsibleInstall!NodeKnown, AnsibleInstall!NodeUnknown
    <3> DEFINE n == [o EXCEPT !.at = at]
    <3>4. n.mode = o.mode /\ openings' = (openings \ {o}) \cup {n}
      BY <3>2
    <3> HIDE DEF n
    <3>5. /\ IsFiniteSet(openings')
          /\ Cardinality(openings') \in Nat /\ Cardinality(openings') <= Cardinality(openings)
      <4>1. /\ IsFiniteSet(openings \ {o}) /\ Cardinality(openings \ {o}) = Cardinality(openings) - 1
        BY <2>0, FS_RemoveElement
      <4>2. /\ IsFiniteSet((openings \ {o}) \cup {n})
            /\ Cardinality((openings \ {o}) \cup {n}) \in
                 {Cardinality(openings \ {o}), Cardinality(openings \ {o}) + 1}
        BY <4>1, FS_AddElement
      <4>3. Cardinality(openings') \in Nat
        BY <3>4, <4>2, FS_CardinalityType
      <4> QED BY <2>0, <3>4, <4>1, <4>2, <4>3
    <3>6. /\ window' \in Windowed /\ window'.asks \in {0, window.asks}
          /\ window'.free \in {0, window.free}
      <4>1. CASE window' = window
        BY <2>0, <4>1
      <4>2. CASE window' = [window EXCEPT !.asks = 0, !.free = 0]
        <5>1. window \in Windowed /\ 0 \in Nat
          BY <2>0
        <5> QED BY <4>2, <5>1 DEF Windowed
      <4> QED BY <3>3, <4>1, <4>2
    <3>7. Cardinality(openings') + window'.asks + window'.free <= opened'
      BY <2>0, <3>3, <3>5, <3>6
    <3>8. window'.asks \in Nat /\ window'.free \in Nat
      BY <2>0, <3>6
    <3>9. \A p \in openings' : p.mode \in AnsibleInstall!Modes
      BY <2>0, <3>4
    <3> QED BY <2>0, <3>3, <3>5, <3>6, <3>7, <3>8, <3>9 DEF WindowPart
  <2>3. CASE \E o \in openings : AnsibleInstall!OpeningFails(o) \/ AnsibleInstall!GotSudo(o)
    <3>1. PICK o \in openings : AnsibleInstall!OpeningFails(o) \/ AnsibleInstall!GotSudo(o)
      BY <2>3
    <3>2. openings' = openings \ {o} /\ opened' = opened
      BY <3>1 DEF AnsibleInstall!OpeningFails, AnsibleInstall!GotSudo
    <3>3. IsFiniteSet(openings') /\ Cardinality(openings') = Cardinality(openings) - 1
      BY <2>0, <3>2, FS_RemoveElement
    <3>4. Cardinality(openings') \in Nat
      BY <3>3, FS_CardinalityType
    <3>5. /\ window' \in Windowed /\ window'.asks \in Nat /\ window'.free \in Nat
          /\ window'.asks + window'.free <= window.asks + window.free + 1
      <4>1. CASE AnsibleInstall!OpeningFails(o)
        <5>1. window' = window
          BY <4>1 DEF AnsibleInstall!OpeningFails
        <5> QED BY <2>0, <5>1
      <4>2. CASE AnsibleInstall!GotSudo(o)
        <5>1. PICK free \in BOOLEAN :
                window' = [open |-> TRUE, mode |-> o.mode, output |-> FALSE, complete |-> FALSE,
                           asks |-> window.asks + (IF free THEN 0 ELSE 1),
                           free |-> window.free + (IF free THEN 1 ELSE 0)]
          BY <4>2 DEF AnsibleInstall!GotSudo
        <5>2. /\ \/ window'.asks = window.asks + 1 /\ window'.free = window.free + 0
                 \/ window'.asks = window.asks + 0 /\ window'.free = window.free + 1
          BY <5>1
        <5>4. window'.asks \in Nat /\ window'.free \in Nat
          BY <2>0, <5>2
        <5>3. window' \in Windowed
          BY <2>0, <5>1, <5>4 DEF Windowed
        <5> QED BY <2>0, <5>2, <5>3
      <4> QED BY <3>1, <4>1, <4>2
    <3>6. Cardinality(openings') + window'.asks + window'.free <= opened'
      BY <2>0, <3>2, <3>3, <3>4, <3>5
    <3>7. \A p \in openings' : p.mode \in AnsibleInstall!Modes
      BY <2>0, <3>2
    <3> QED BY <2>0, <3>2, <3>3, <3>5, <3>6, <3>7 DEF WindowPart
  <2>4. CASE AnsibleInstall!Close
    <3>1. window' = [window EXCEPT !.open = FALSE] /\ UNCHANGED <<opened, openings>>
      BY <2>4 DEF AnsibleInstall!Close
    <3>2. window' \in Windowed /\ window'.asks = window.asks /\ window'.free = window.free
      BY <2>0, <3>1 DEF Windowed
    <3> QED BY <2>0, <3>1, <3>2 DEF WindowPart
  <2> QED BY <2>1, <2>2, <2>3, <2>4 DEF AnsibleInstall!WindowNext
<1> QED BY <1>2, <1>3, <1>4, <1>5 DEF InstallIInv

LEMMA InstallRunNext ==
  ASSUME InstallIInv, AnsibleInstall!RunNext PROVE InstallIInv'
<1>1. UNCHANGED <<token, checks, checking, status, opened, openings, nopasswd>>
  BY DEF AnsibleInstall!RunNext, AnsibleInstall!Start, AnsibleInstall!SocketOpens,
         AnsibleInstall!SocketLost, AnsibleInstall!RunRefused, AnsibleInstall!RunEnds,
         AnsibleInstall!UnchangedStatus, AnsibleInstall!UnchangedWindow
<1>2. failures' \in 0..MaxFailures /\ nopasswd' \in BOOLEAN
  <2>1. failures' = failures \/ (failures < MaxFailures /\ failures' = failures + 1)
    BY DEF AnsibleInstall!RunNext, AnsibleInstall!Start, AnsibleInstall!SocketOpens,
           AnsibleInstall!SocketLost, AnsibleInstall!RunRefused, AnsibleInstall!RunEnds,
           AnsibleInstall!Failure
  <2>2. failures \in 0..MaxFailures
    BY DEF InstallIInv
  <2>3. failures' \in 0..MaxFailures
    BY <2>1, <2>2, InstallNats
  <2> QED BY <1>1, <2>3 DEF InstallIInv
<1>3. WindowPart'
  <2>0. window \in Windowed
    BY DEF InstallIInv, WindowPart
  <2>1. \/ window' = window \/ window' = [window EXCEPT !.output = TRUE]
        \/ window' = [window EXCEPT !.complete = TRUE]
    BY DEF AnsibleInstall!RunNext, AnsibleInstall!Start, AnsibleInstall!SocketOpens,
           AnsibleInstall!SocketLost, AnsibleInstall!RunRefused, AnsibleInstall!RunEnds,
           AnsibleInstall!UnchangedWindow, AnsibleInstall!Told
  <2>2. window' \in Windowed /\ window'.asks = window.asks /\ window'.free = window.free
    BY <2>0, <2>1 DEF Windowed
  <2> QED BY <1>1, <2>2 DEF InstallIInv, WindowPart
<1>4. ChecksPart' /\ CheckingPart' /\ SettledPart'
  <2>1. CASE UNCHANGED <<due, installed, untold>>
    BY <1>1, <2>1, InstallStatusSame
  <2>2. CASE \E r \in runs : \E end \in BOOLEAN : AnsibleInstall!RunEnds(r, end)
    <3>1. PICK r \in runs : \E end \in BOOLEAN : AnsibleInstall!RunEnds(r, end)
      BY <2>2
    <3>2. PICK end \in BOOLEAN : AnsibleInstall!RunEnds(r, end)
      BY <3>1
    <3>3. due \in Nat /\ (due' = due \/ due' = due + 1)
      BY <3>2 DEF InstallIInv, ChecksPart, AnsibleInstall!RunEnds, AnsibleInstall!Told
    <3>4. due' \in Nat
      BY <3>3
    <3>5. ChecksPart' /\ CheckingPart'
      BY <1>1, <3>4 DEF InstallIInv, ChecksPart, CheckingPart, AnsibleInstall!NewestIsShown
    <3>6. installed' \in BOOLEAN /\ untold' \in BOOLEAN
      BY <3>2 DEF AnsibleInstall!RunEnds, InstallIInv, SettledPart
    <3>7. untold' \/ due' > 0
      <4>1. CASE end /\ sockets[r.socket].state = "open"
        <5>1. due' = due + 1
          BY <3>2, <4>1 DEF AnsibleInstall!RunEnds, AnsibleInstall!Told
        <5> QED BY <3>3, <5>1
      <4>2. CASE ~(end /\ sockets[r.socket].state = "open")
        BY <3>2, <4>2 DEF AnsibleInstall!RunEnds
      <4> QED BY <4>1, <4>2
    <3> QED BY <3>5, <3>6, <3>7 DEF SettledPart
  <2> QED BY <2>1, <2>2
          DEF AnsibleInstall!RunNext, AnsibleInstall!Start, AnsibleInstall!SocketOpens,
              AnsibleInstall!SocketLost, AnsibleInstall!RunRefused,
              AnsibleInstall!UnchangedStatus
<1>5. RunsPart'
  <2> DEFINE Sockets == [state : {"connecting", "open", "closed"}, mode : AnsibleInstall!Modes,
                         password : BOOLEAN]
             N == Len(sockets)
  <2>10. sockets \in Seq(Sockets)
    BY DEF InstallIInv, RunsPart
  <2>11. \A r \in runs : r.socket \in 1..N /\ r.mode = sockets[r.socket].mode
    BY DEF InstallIInv, RunsPart
  <2>12. N \in Nat /\ \A i \in 1..N : sockets[i] \in Sockets
    <3> HIDE DEF Sockets
    <3> QED BY <2>10
  <2>0. /\ sockets \in Seq(Sockets) /\ N \in Nat /\ \A i \in 1..N : sockets[i] \in Sockets
        /\ \A r \in runs : r.socket \in 1..N /\ r.mode = sockets[r.socket].mode
    BY <2>10, <2>11, <2>12
  <2>1. CASE \E password \in BOOLEAN : AnsibleInstall!Start(password)
    <3>1. PICK password \in BOOLEAN : AnsibleInstall!Start(password)
      BY <2>1
    <3> DEFINE old == [i \in 1..N |-> IF i = N /\ sockets[i].state = "open"
                                       THEN [sockets[i] EXCEPT !.state = "closed"] ELSE sockets[i]]
               new == [state |-> "connecting", mode |-> window.mode, password |-> password]
    <3>2. sockets' = Append(old, new) /\ UNCHANGED runs
      BY <3>1 DEF AnsibleInstall!Start, AnsibleInstall!Newest
    <3>3. window.mode \in AnsibleInstall!Modes
      BY DEF InstallIInv, WindowPart, Windowed
    <3>4. new \in Sockets
      BY <3>3
    <3>5. \A i \in 1..N : old[i] \in Sockets /\ old[i].mode = sockets[i].mode
      BY <2>0
    <3>6. old = [i \in 1..N |-> old[i]]
      OBVIOUS
    <3> HIDE DEF old, new, Sockets
    <3>7. old \in Seq(Sockets) /\ Len(old) = N
      BY <2>0, <3>5, <3>6
    <3>8. /\ sockets' \in Seq(Sockets) /\ Len(sockets') = N + 1
          /\ \A i \in 1..N : sockets'[i] = old[i]
      BY <2>0, <3>2, <3>4, <3>7
    <3>9. \A r \in runs' : r.socket \in 1..Len(sockets') /\ r.mode = sockets'[r.socket].mode
      BY <2>0, <3>2, <3>5, <3>8
    <3> QED BY <3>8, <3>9 DEF RunsPart, Sockets
  <2>2. CASE \E i \in 1..N : AnsibleInstall!SocketOpens(i) \/ AnsibleInstall!SocketLost(i)
    <3>1. PICK i \in 1..N : AnsibleInstall!SocketOpens(i) \/ AnsibleInstall!SocketLost(i)
      BY <2>2
    <3>2. PICK st \in {"open", "closed"} : sockets' = [sockets EXCEPT ![i].state = st]
      BY <3>1 DEF AnsibleInstall!SocketOpens, AnsibleInstall!SocketLost
    <3> DEFINE s == [sockets[i] EXCEPT !.state = st]
    <3>3. s \in Sockets /\ s.mode = sockets[i].mode /\ sockets' = [sockets EXCEPT ![i] = s]
      BY <2>0, <3>2
    <3> HIDE DEF s, Sockets
    <3>4. /\ sockets' \in Seq(Sockets) /\ Len(sockets') = N
          /\ \A j \in 1..N : sockets'[j] = IF j = i THEN s ELSE sockets[j]
      BY <2>0, <3>3
    <3>5. \A j \in 1..N : sockets'[j].mode = sockets[j].mode
      BY <3>3, <3>4
    <3>6. \A r \in runs' : r \in runs \/ (r.socket = N /\ r.mode = sockets'[N].mode)
      BY <3>1 DEF AnsibleInstall!SocketOpens, AnsibleInstall!SocketLost, AnsibleInstall!Commands,
                  AnsibleInstall!Newest
    <3>7. \A r \in runs' : r.socket \in 1..Len(sockets') /\ r.mode = sockets'[r.socket].mode
      <4>1. N \in 1..N
        BY <2>0
      <4> QED BY <2>0, <3>4, <3>5, <3>6, <4>1
    <3> QED BY <3>4, <3>7 DEF RunsPart, Sockets
  <2>3. CASE UNCHANGED sockets /\ runs' \subseteq runs
    BY <2>3 DEF InstallIInv, RunsPart
  <2> QED BY <2>1, <2>2, <2>3
          DEF AnsibleInstall!RunNext, AnsibleInstall!RunRefused, AnsibleInstall!RunEnds,
              AnsibleInstall!Newest
<1> QED BY <1>2, <1>3, <1>4, <1>5 DEF InstallIInv

LEMMA InstallStep == ASSUME InstallIInv, AnsibleInstall!Next PROVE InstallIInv'
BY InstallStatusNext, InstallWindowNext, InstallRunNext DEF AnsibleInstall!Next

LEMMA InstallSame == ASSUME InstallIInv, UNCHANGED AnsibleInstall!installVars PROVE InstallIInv'
<1>1. /\ UNCHANGED <<token, checks, checking, status, due, opened, openings, window, sockets, runs>>
      /\ UNCHANGED <<installed, nopasswd, failures, untold>>
  BY DEF AnsibleInstall!installVars
<1>2. ChecksPart' /\ CheckingPart' /\ SettledPart'
  BY <1>1, InstallStatusSame
<1>3. WindowPart' /\ RunsPart'
  BY <1>1 DEF InstallIInv, WindowPart, RunsPart
<1> QED BY <1>1, <1>2, <1>3 DEF InstallIInv

\* What the invariant says of the page: its types, the newest check, the runs and the badge.
LEMMA InstallGives ==
  ASSUME InstallIInv
  PROVE  /\ AnsibleInstall!InstallTypeOK /\ AnsibleInstall!NewestIsShown
         /\ AnsibleInstall!RunIsPressed /\ AnsibleInstall!SettledStatus
<1>1. AnsibleInstall!InstallTypeOK
  <2>1. {installed, nopasswd, checking, untold} \subseteq BOOLEAN
    BY DEF InstallIInv, SettledPart, CheckingPart
  <2>2. token \in 0..MaxChecks /\ opened \in 0..MaxWindows /\ failures \in 0..MaxFailures
    BY DEF InstallIInv, ChecksPart, WindowPart
  <2>3. \A c \in checks : c.token \in 1..token /\ c.at \in {"cluster", "status", "answered"}
    BY DEF InstallIInv, ChecksPart
  <2>4. /\ status.token \in 0..token /\ status.badge \in AnsibleInstall!Badges
        /\ status.buttons \subseteq AnsibleInstall!Modes /\ due \in Nat
    BY DEF InstallIInv, ChecksPart
  <2>5. window.mode \in AnsibleInstall!Modes /\ window.asks \in Nat /\ window.free \in Nat
    BY DEF InstallIInv, WindowPart, Windowed
  <2>6. window.asks \in 0..MaxWindows /\ window.free \in 0..MaxWindows
    <3>1. Cardinality(openings) \in Nat /\ opened \in 0..MaxWindows
          /\ Cardinality(openings) + window.asks + window.free <= opened
      BY FS_CardinalityType DEF InstallIInv, WindowPart
    <3> DEFINE a == window.asks
               f == window.free
               n == Cardinality(openings)
    <3>2. a \in Nat /\ f \in Nat /\ n \in Nat /\ n + a + f <= opened /\ opened \in 0..MaxWindows
      BY <2>5, <3>1
    <3> HIDE DEF a, f, n
    <3>3. a \in 0..MaxWindows /\ f \in 0..MaxWindows
      BY <3>2, InstallNats
    <3> QED BY <3>3 DEF a, f
  <2> DEFINE Sockets == [state : {"connecting", "open", "closed"}, mode : AnsibleInstall!Modes,
                         password : BOOLEAN]
  <2>9. \A i \in 1..Len(sockets) : sockets[i] \in Sockets
    <3>1. sockets \in Seq(Sockets)
      BY DEF InstallIInv, RunsPart
    <3> HIDE DEF Sockets
    <3> QED BY <3>1
  <2>7. \A i \in 1..Len(sockets) : sockets[i].state \in {"connecting", "open", "closed"}
    BY <2>9
  <2>8. \A r \in runs : r.socket \in 1..Len(sockets) /\ r.mode \in AnsibleInstall!Modes
    <3>1. \A r \in runs : r.socket \in 1..Len(sockets) /\ r.mode = sockets[r.socket].mode
      BY DEF InstallIInv, RunsPart
    <3> QED BY <2>9, <3>1
  <2> QED BY <2>1, <2>2, <2>3, <2>4, <2>5, <2>6, <2>7, <2>8
          DEF AnsibleInstall!InstallTypeOK, AnsibleInstall!Newest
<1>2. AnsibleInstall!NewestIsShown /\ AnsibleInstall!RunIsPressed
  BY DEF InstallIInv, CheckingPart, RunsPart, AnsibleInstall!RunIsPressed
<1>3. AnsibleInstall!SettledStatus
  <2> SUFFICES ASSUME AnsibleInstall!Quiet, ~untold, status.badge \in {"installed", "not_installed"}
               PROVE  (status.badge = "installed") = installed
    BY DEF AnsibleInstall!SettledStatus
  <2>1. checks = {} /\ ~(due > 0)
    BY DEF AnsibleInstall!Quiet
  <2>2. Right(status.badge) /\ installed \in BOOLEAN
    BY <2>1 DEF InstallIInv, SettledPart
  <2> QED BY <2>2 DEF Right
<1> QED BY <1>1, <1>2, <1>3

-------------------------------------------------------------------------------
(* The window of Ansible's files *)

FileTexts == [AnsibleEditors!Fields -> AnsibleEditors!Texts]

\* A request is whole, and what a save sends leaves neither ansible.cfg nor the inventory empty.
EditorsAskOK(r) ==
  /\ r = [id |-> r.id, what |-> r.what, at |-> r.at, done |-> r.done, texts |-> r.texts]
  /\ r.id \in 0..MaxEdits
  /\ r.what \in AnsibleEditors!Buttons \cup {"show", "reread"}
  /\ r.texts \in FileTexts
  /\ r.what = "save" /\ r.at = "sent" => r.texts["cfg"] # "" /\ r.texts["hosts"] # ""

\* The button that waits for a request; no button waits for the window's own reading.
OwnerOf(r) == IF r.what = "reread" THEN "rollback" ELSE IF r.what = "show" THEN "none" ELSE r.what

EditorsValues ==
  /\ files \in FileTexts /\ backup \in FileTexts /\ editors \in FileTexts
  /\ panel \in {"info", "success", "warning"}
  /\ tries \in 0..MaxEdits /\ faults \in 0..MaxFailures
EditorsRequests == \A r \in asked : EditorsAskOK(r)
OwnersPart ==
  /\ busy \subseteq AnsibleEditors!Buttons
  /\ \A b \in AnsibleEditors!Buttons : b \in busy <=> \E r \in asked : OwnerOf(r) = b
  /\ \A r, q \in asked : OwnerOf(r) = OwnerOf(q) => r = q \/ OwnerOf(r) = "none"
InfoPart ==
  /\ panel = "info" => tries = 0 \/ \E r \in asked : r.what = "show"
  /\ shown => tries # 0
EditorsIInv ==
  EditorsValues /\ EditorsRequests /\ OwnersPart /\ InfoPart /\ shown \in BOOLEAN

LEMMA EditorsNats == MaxEdits \in Nat /\ MaxFailures \in Nat
BY PagesAssumption DEF AnsibleEditors!EditorsAssumption

LEMMA EditorsConstants ==
  /\ AnsibleEditors!Fields = {"cfg", "hosts", "vars"} /\ AnsibleEditors!Texts = {"", "old", "new"}
  /\ AnsibleEditors!Buttons = {"reload", "verify", "rollback", "save"}
  /\ AnsibleEditors!Empty = "" /\ AnsibleEditors!Nothing \in FileTexts
BY DEF AnsibleEditors!Fields, AnsibleEditors!Texts, AnsibleEditors!Buttons,
       AnsibleEditors!Empty, AnsibleEditors!Nothing, FileTexts

\* What becomes of a request.
LEMMA EditorsChanged ==
  ASSUME NEW r, EditorsAskOK(r), NEW ok, NEW texts \in FileTexts
  PROVE  LET p == [r EXCEPT !.at = "answered", !.done = ok, !.texts = texts] IN
         EditorsAskOK(p) /\ p.what = r.what /\ OwnerOf(p) = OwnerOf(r)
<1> DEFINE p == [r EXCEPT !.at = "answered", !.done = ok, !.texts = texts]
<1>1. PICK i, w, a, d, t : r = [id |-> i, what |-> w, at |-> a, done |-> d, texts |-> t]
  BY DEF EditorsAskOK
<1>2. p = [[[r EXCEPT !.at = "answered"] EXCEPT !.done = ok] EXCEPT !.texts = texts]
  OBVIOUS
<1>3. [r EXCEPT !.at = "answered"] = [id |-> i, what |-> w, at |-> "answered", done |-> d, texts |-> t]
  BY <1>1
<1>4. [[id |-> i, what |-> w, at |-> "answered", done |-> d, texts |-> t] EXCEPT !.done = ok]
        = [id |-> i, what |-> w, at |-> "answered", done |-> ok, texts |-> t]
  OBVIOUS
<1>5. [[id |-> i, what |-> w, at |-> "answered", done |-> ok, texts |-> t] EXCEPT !.texts = texts]
        = [id |-> i, what |-> w, at |-> "answered", done |-> ok, texts |-> texts]
  OBVIOUS
<1>6. p = [id |-> i, what |-> w, at |-> "answered", done |-> ok, texts |-> texts]
  BY <1>2, <1>3, <1>4, <1>5
<1> HIDE DEF p
<1>7. p.id = i /\ p.what = w /\ p.at = "answered" /\ p.done = ok /\ p.texts = texts
  BY <1>6
<1>8. r.id = i /\ r.what = w
  BY <1>1
<1>9. i \in 0..MaxEdits /\ w \in AnsibleEditors!Buttons \cup {"show", "reread"}
  BY <1>8 DEF EditorsAskOK
<1>10. EditorsAskOK(p)
  BY <1>6, <1>7, <1>9 DEF EditorsAskOK
<1>11. p.what = r.what /\ OwnerOf(p) = OwnerOf(r)
  BY <1>7, <1>8 DEF OwnerOf
<1> QED BY <1>10, <1>11 DEF p

LEMMA EditorsRead ==
  ASSUME NEW r, EditorsAskOK(r)
  PROVE  LET p == [r EXCEPT !.what = "reread", !.at = "sent"] IN
         EditorsAskOK(p) /\ p.what = "reread"
<1> DEFINE p == [r EXCEPT !.what = "reread", !.at = "sent"]
<1>1. PICK i, w, a, d, t : r = [id |-> i, what |-> w, at |-> a, done |-> d, texts |-> t]
  BY DEF EditorsAskOK
<1>2. p = [[r EXCEPT !.what = "reread"] EXCEPT !.at = "sent"]
  OBVIOUS
<1>3. [r EXCEPT !.what = "reread"] = [id |-> i, what |-> "reread", at |-> a, done |-> d, texts |-> t]
  BY <1>1
<1>4. [[id |-> i, what |-> "reread", at |-> a, done |-> d, texts |-> t] EXCEPT !.at = "sent"]
        = [id |-> i, what |-> "reread", at |-> "sent", done |-> d, texts |-> t]
  OBVIOUS
<1>5. p = [id |-> i, what |-> "reread", at |-> "sent", done |-> d, texts |-> t]
  BY <1>2, <1>3, <1>4
<1> HIDE DEF p
<1>6. p.id = i /\ p.what = "reread" /\ p.at = "sent" /\ p.done = d /\ p.texts = t
  BY <1>5
<1>7. i \in 0..MaxEdits /\ t \in FileTexts
  BY <1>1 DEF EditorsAskOK
<1>8. EditorsAskOK(p) /\ p.what = "reread"
  BY <1>5, <1>6, <1>7 DEF EditorsAskOK
<1> QED BY <1>8 DEF p

\* A request more, one in the place of another, and one less.
LEMMA OwnersMore ==
  ASSUME OwnersPart, NEW p, asked' = asked \cup {p},
         \/ OwnerOf(p) = "none" /\ busy' = busy
         \/ OwnerOf(p) \in AnsibleEditors!Buttons /\ OwnerOf(p) \notin busy /\ busy'
            = busy \cup {OwnerOf(p)}
  PROVE  OwnersPart'
<1>1. busy' \subseteq AnsibleEditors!Buttons
  BY DEF OwnersPart
<1>2. ASSUME NEW b \in AnsibleEditors!Buttons PROVE b \in busy' <=> \E r \in asked' : OwnerOf(r) = b
  <2>1. b # "none"
    BY EditorsConstants
  <2> QED BY <2>1 DEF OwnersPart
<1>3. ASSUME NEW r \in asked', NEW q \in asked', OwnerOf(r) = OwnerOf(q)
      PROVE  r = q \/ OwnerOf(r) = "none"
  BY <1>3 DEF OwnersPart
<1> QED BY <1>1, <1>2, <1>3 DEF OwnersPart, OwnerOf

LEMMA OwnersChanged ==
  ASSUME OwnersPart, NEW r \in asked, NEW p, asked' = (asked \ {r}) \cup {p},
         OwnerOf(p) = OwnerOf(r), busy' = busy
  PROVE  OwnersPart'
<1>1. busy' \subseteq AnsibleEditors!Buttons
  BY DEF OwnersPart
<1>2. ASSUME NEW b \in AnsibleEditors!Buttons PROVE b \in busy' <=> \E q \in asked' : OwnerOf(q) = b
  BY DEF OwnersPart
<1>3. ASSUME NEW s \in asked', NEW q \in asked', OwnerOf(s) = OwnerOf(q)
      PROVE  s = q \/ OwnerOf(s) = "none"
  BY <1>3 DEF OwnersPart
<1> QED BY <1>1, <1>2, <1>3 DEF OwnersPart, OwnerOf

LEMMA OwnersLess ==
  ASSUME OwnersPart, NEW r \in asked, asked' = asked \ {r}, busy' = busy \ {OwnerOf(r)}
  PROVE  OwnersPart'
<1>1. busy' \subseteq AnsibleEditors!Buttons
  BY DEF OwnersPart
<1>2. ASSUME NEW b \in AnsibleEditors!Buttons PROVE b \in busy' <=> \E q \in asked' : OwnerOf(q) = b
  <2>1. b # "none"
    BY EditorsConstants
  <2> QED BY <2>1 DEF OwnersPart
<1>3. ASSUME NEW s \in asked', NEW q \in asked', OwnerOf(s) = OwnerOf(q)
      PROVE  s = q \/ OwnerOf(s) = "none"
  BY <1>3 DEF OwnersPart
<1> QED BY <1>1, <1>2, <1>3 DEF OwnersPart, OwnerOf

LEMMA EditorsInit == AnsibleEditors!Init => EditorsIInv
<1> SUFFICES ASSUME AnsibleEditors!Init PROVE EditorsIInv
  OBVIOUS
<1>1. files \in FileTexts
  <2>1. PICK v \in {"", "old"} :
          files = [AnsibleEditors!Nothing EXCEPT !["cfg"] = "old", !["hosts"] = "old", !["vars"] = v]
    BY DEF AnsibleEditors!Init, AnsibleEditors!Empty
  <2>2. "old" \in AnsibleEditors!Texts /\ v \in AnsibleEditors!Texts
    BY EditorsConstants
  <2>3. AnsibleEditors!Nothing \in [AnsibleEditors!Fields -> AnsibleEditors!Texts]
    BY EditorsConstants DEF FileTexts
  <2> DEFINE a == [AnsibleEditors!Nothing EXCEPT !["cfg"] = "old"]
             b == [a EXCEPT !["hosts"] = "old"]
  <2>4. a \in FileTexts
    BY <2>2, <2>3 DEF FileTexts
  <2>5. b \in FileTexts
    BY <2>2, <2>4 DEF FileTexts
  <2>6. [b EXCEPT !["vars"] = v] \in FileTexts
    <3> HIDE DEF b
    <3> QED BY <2>2, <2>5 DEF FileTexts
  <2>7. files = [b EXCEPT !["vars"] = v]
    BY <2>1
  <2> QED BY <2>6, <2>7
<1>2. EditorsValues
  <2>1. /\ backup = AnsibleEditors!Nothing /\ editors = AnsibleEditors!Nothing
        /\ panel = "info" /\ tries = 0 /\ faults = 0
    BY DEF AnsibleEditors!Init
  <2>2. 0 \in 0..MaxEdits /\ 0 \in 0..MaxFailures
    BY EditorsNats
  <2> QED BY <1>1, <2>1, <2>2, EditorsConstants DEF EditorsValues
<1>3. EditorsRequests
  BY DEF AnsibleEditors!Init, EditorsRequests
<1>4. OwnersPart
  BY DEF AnsibleEditors!Init, OwnersPart
<1>5. InfoPart
  BY DEF AnsibleEditors!Init, InfoPart
<1>6. shown \in BOOLEAN
  BY DEF AnsibleEditors!Init
<1> QED BY <1>2, <1>3, <1>4, <1>5, <1>6 DEF EditorsIInv

\* What the user does: the window, the editors, and the buttons.
LEMMA EditorsTries ==
  ASSUME EditorsValues, AnsibleEditors!Try
  PROVE  tries' \in 0..MaxEdits /\ tries' # 0 /\ tries \in 0..MaxEdits
<1>1. tries \in 0..MaxEdits
  BY DEF EditorsValues
<1>2. tries < MaxEdits /\ tries' = tries + 1
  BY DEF AnsibleEditors!Try
<1>3. MaxEdits \in Nat
  BY EditorsNats
<1> QED BY <1>1, <1>2, <1>3

LEMMA EditorsAsks ==
  ASSUME NEW what \in AnsibleEditors!Buttons \cup {"show"}, NEW texts \in FileTexts,
         EditorsValues, AnsibleEditors!Asks(what, texts),
         what = "save" => texts["cfg"] # "" /\ texts["hosts"] # ""
  PROVE  \E p : /\ asked' = asked \cup {p} /\ EditorsAskOK(p) /\ p.what = what
                /\ OwnerOf(p) = IF what = "show" THEN "none" ELSE what
<1> DEFINE p == [id |-> tries, what |-> what, at |-> "sent", done |-> TRUE, texts |-> texts]
<1>1. asked' = asked \cup {p}
  BY DEF AnsibleEditors!Asks
<1>2. /\ p = [id |-> p.id, what |-> p.what, at |-> p.at, done |-> p.done, texts |-> p.texts]
      /\ p.id = tries /\ p.what = what /\ p.at = "sent" /\ p.texts = texts
  OBVIOUS
<1>3. tries \in 0..MaxEdits
  BY DEF EditorsValues
<1> HIDE DEF p
<1>4. EditorsAskOK(p)
  BY <1>2, <1>3 DEF EditorsAskOK
<1>5. what # "reread"
  BY EditorsConstants
<1>6. OwnerOf(p) = IF what = "show" THEN "none" ELSE what
  BY <1>2, <1>5 DEF OwnerOf
<1> QED BY <1>1, <1>2, <1>4, <1>6

LEMMA EditorsShow == ASSUME EditorsIInv, AnsibleEditors!Show PROVE EditorsIInv'
<1>1. /\ UNCHANGED <<files, backup, editors, busy, faults>> /\ panel' = "info"
      /\ AnsibleEditors!Try /\ AnsibleEditors!Asks("show", AnsibleEditors!Nothing)
  BY DEF AnsibleEditors!Show
<1>2. shown' \in BOOLEAN
  BY DEF AnsibleEditors!Show
<1>3. PICK p : /\ asked' = asked \cup {p} /\ EditorsAskOK(p) /\ p.what = "show" /\ OwnerOf(p) = "none"
  BY <1>1, EditorsConstants, EditorsAsks DEF EditorsIInv
<1>4. EditorsValues'
  BY <1>1, EditorsTries DEF EditorsIInv, EditorsValues
<1>5. EditorsRequests'
  BY <1>3 DEF EditorsIInv, EditorsRequests, EditorsAskOK
<1>6. OwnersPart'
  BY <1>1, <1>3, OwnersMore DEF EditorsIInv
<1>7. InfoPart'
  BY <1>1, <1>3, EditorsTries DEF EditorsIInv, InfoPart
<1> QED BY <1>2, <1>4, <1>5, <1>6, <1>7 DEF EditorsIInv

LEMMA EditorsHide == ASSUME EditorsIInv, AnsibleEditors!Hide PROVE EditorsIInv'
<1>1. UNCHANGED <<files, backup, editors, asked, busy, panel, tries, faults>>
  BY DEF AnsibleEditors!Hide
<1>2. shown' \in BOOLEAN
  BY DEF AnsibleEditors!Hide
<1>3. EditorsValues' /\ EditorsRequests'
  BY <1>1 DEF EditorsIInv, EditorsValues, EditorsRequests
<1>4. OwnersPart'
  BY <1>1 DEF EditorsIInv, OwnersPart
<1>7. InfoPart'
  BY <1>1 DEF EditorsIInv, InfoPart, AnsibleEditors!Hide
<1> QED BY <1>2, <1>3, <1>4, <1>7 DEF EditorsIInv

LEMMA EditorsType ==
  ASSUME EditorsIInv, NEW f \in AnsibleEditors!Fields, NEW t \in {AnsibleEditors!Empty, "new"},
         AnsibleEditors!Type(f, t)
  PROVE  EditorsIInv'
<1>1. /\ UNCHANGED <<files, backup, asked, busy, panel, faults>> /\ AnsibleEditors!Try
      /\ editors' = [editors EXCEPT ![f] = t]
  BY DEF AnsibleEditors!Type
<1>2. shown' \in BOOLEAN
  BY DEF AnsibleEditors!Type, EditorsIInv
<1>3. editors' \in FileTexts
  <2>1. editors \in FileTexts /\ t \in AnsibleEditors!Texts
    BY EditorsConstants DEF EditorsIInv, EditorsValues
  <2> QED BY <1>1, <2>1 DEF FileTexts
<1>4. EditorsValues'
  BY <1>1, <1>3, EditorsTries DEF EditorsIInv, EditorsValues
<1>5. EditorsRequests' /\ OwnersPart'
  BY <1>1 DEF EditorsIInv, EditorsRequests, OwnersPart
<1>6. InfoPart'
  <2>1. shown /\ tries' # 0
    BY <1>1, EditorsTries DEF AnsibleEditors!Type, EditorsIInv
  <2>2. tries # 0
    BY <2>1 DEF EditorsIInv, InfoPart
  <2> QED BY <1>1, <2>1, <2>2 DEF EditorsIInv, InfoPart
<1> QED BY <1>2, <1>4, <1>5, <1>6 DEF EditorsIInv

LEMMA EditorsPress ==
  ASSUME EditorsIInv, NEW b \in AnsibleEditors!Buttons \ {"save"}, AnsibleEditors!Press(b)
  PROVE  EditorsIInv'
<1>1. /\ UNCHANGED <<files, backup, editors, panel, faults>> /\ AnsibleEditors!Try
      /\ busy' = busy \cup {b} /\ b \notin busy
      /\ AnsibleEditors!Asks(b, AnsibleEditors!Nothing)
  BY DEF AnsibleEditors!Press
<1>2. shown /\ shown' = shown
  BY DEF AnsibleEditors!Press
<1>3. PICK p : /\ asked' = asked \cup {p} /\ EditorsAskOK(p) /\ p.what = b /\ OwnerOf(p) = b
  <2>1. b # "save" /\ b # "show"
    BY EditorsConstants
  <2> QED BY <1>1, <2>1, EditorsConstants, EditorsAsks DEF EditorsIInv
<1>4. EditorsValues'
  BY <1>1, EditorsTries DEF EditorsIInv, EditorsValues
<1>5. EditorsRequests'
  BY <1>3 DEF EditorsIInv, EditorsRequests, EditorsAskOK
<1>6. OwnersPart'
  BY <1>1, <1>3, OwnersMore DEF EditorsIInv
<1>7. InfoPart'
  <2>1. tries # 0 /\ tries' # 0
    BY <1>1, <1>2, EditorsTries DEF EditorsIInv, InfoPart
  <2> QED BY <1>1, <1>3, <2>1 DEF EditorsIInv, InfoPart
<1> QED BY <1>2, <1>4, <1>5, <1>6, <1>7 DEF EditorsIInv

LEMMA EditorsSave == ASSUME EditorsIInv, AnsibleEditors!Save PROVE EditorsIInv'
<1>1. /\ UNCHANGED <<files, backup, editors, panel, faults>> /\ AnsibleEditors!Try
  BY DEF AnsibleEditors!Save
<1>2. shown /\ shown' = shown
  BY DEF AnsibleEditors!Save
<1>3. tries # 0 /\ tries' # 0
  BY <1>1, <1>2, EditorsTries DEF EditorsIInv, InfoPart
<1>4. EditorsValues'
  BY <1>1, EditorsTries DEF EditorsIInv, EditorsValues
<1>5. CASE ~AnsibleEditors!MaySave
  <2>1. asked' = asked /\ busy' = busy
    BY <1>5 DEF AnsibleEditors!Save
  <2>2. EditorsRequests' /\ OwnersPart'
    BY <2>1 DEF EditorsIInv, EditorsRequests, OwnersPart
  <2>3. InfoPart'
    BY <1>1, <1>3, <2>1 DEF EditorsIInv, InfoPart
  <2> QED BY <1>2, <1>4, <2>2, <2>3 DEF EditorsIInv
<1>6. CASE AnsibleEditors!MaySave
  <2>1. /\ busy' = busy \cup {"save"} /\ "save" \notin busy /\ AnsibleEditors!Asks("save", editors)
        /\ editors["cfg"] # "" /\ editors["hosts"] # ""
    BY <1>6 DEF AnsibleEditors!Save, AnsibleEditors!MaySave, AnsibleEditors!Empty
  <2>2. PICK p : /\ asked' = asked \cup {p} /\ EditorsAskOK(p) /\ p.what = "save" /\ OwnerOf(p) = "save"
    BY <2>1, EditorsConstants, EditorsAsks DEF EditorsIInv, EditorsValues
  <2>3. EditorsRequests'
    BY <2>2 DEF EditorsIInv, EditorsRequests, EditorsAskOK
  <2>4. OwnersPart'
    BY <2>1, <2>2, EditorsConstants, OwnersMore DEF EditorsIInv
  <2>5. InfoPart'
    BY <1>1, <1>3, <2>2 DEF EditorsIInv, InfoPart
  <2> QED BY <1>2, <1>4, <2>3, <2>4, <2>5 DEF EditorsIInv
<1> QED BY <1>5, <1>6

\* The server's answers.
LEMMA EditorsAnswer ==
  ASSUME EditorsIInv, NEW r \in asked, NEW ok, NEW texts \in FileTexts,
         AnsibleEditors!Answered(r, ok, texts),
         files' \in FileTexts, backup' \in FileTexts, faults' \in 0..MaxFailures,
         UNCHANGED <<editors, busy, panel, tries>>, shown' = shown
  PROVE  EditorsIInv'
<1> DEFINE p == [r EXCEPT !.at = "answered", !.done = ok, !.texts = texts]
<1>1. asked' = (asked \ {r}) \cup {p}
  BY DEF AnsibleEditors!Answered
<1>2. EditorsAskOK(p) /\ p.what = r.what /\ OwnerOf(p) = OwnerOf(r)
  <2>1. EditorsAskOK(r)
    BY DEF EditorsIInv, EditorsRequests
  <2> QED BY <2>1, EditorsChanged
<1> HIDE DEF p
<1>3. EditorsValues'
  BY DEF EditorsIInv, EditorsValues
<1>4. EditorsRequests'
  BY <1>1, <1>2 DEF EditorsIInv, EditorsRequests, EditorsAskOK
<1>5. OwnersPart'
  BY <1>1, <1>2, OwnersChanged DEF EditorsIInv
<1>6. InfoPart'
  BY <1>1, <1>2 DEF EditorsIInv, InfoPart
<1>7. shown' \in BOOLEAN
  BY DEF EditorsIInv
<1> QED BY <1>3, <1>4, <1>5, <1>6, <1>7 DEF EditorsIInv

LEMMA EditorsFaults ==
  ASSUME EditorsValues, AnsibleEditors!Fault \/ faults' = faults
  PROVE  faults' \in 0..MaxFailures
<1>1. faults \in 0..MaxFailures /\ MaxFailures \in Nat
  BY EditorsNats DEF EditorsValues
<1>2. faults' = faults \/ (faults < MaxFailures /\ faults' = faults + 1)
  BY DEF AnsibleEditors!Fault
<1> QED BY <1>1, <1>2

LEMMA EditorsServeRead ==
  ASSUME EditorsIInv, NEW r \in asked, AnsibleEditors!ServeRead(r) PROVE EditorsIInv'
<1>1. UNCHANGED <<files, backup, editors, busy, panel, tries>> /\ shown' = shown
  BY DEF AnsibleEditors!ServeRead
<1>2. files \in FileTexts /\ backup \in FileTexts
  BY DEF EditorsIInv, EditorsValues
<1>3. faults' \in 0..MaxFailures
  BY EditorsFaults DEF EditorsIInv, AnsibleEditors!ServeRead
<1>4. PICK texts \in FileTexts : AnsibleEditors!Answered(r, TRUE, texts)
  <2>1. CASE AnsibleEditors!Answered(r, TRUE, files)
    BY <1>2, <2>1
  <2>2. CASE \E f \in AnsibleEditors!Fields :
               AnsibleEditors!Answered(r, TRUE, [files EXCEPT ![f] = AnsibleEditors!Empty])
    <3>1. PICK f \in AnsibleEditors!Fields :
            AnsibleEditors!Answered(r, TRUE, [files EXCEPT ![f] = AnsibleEditors!Empty])
      BY <2>2
    <3>2. AnsibleEditors!Empty \in AnsibleEditors!Texts
      BY EditorsConstants
    <3>3. [files EXCEPT ![f] = AnsibleEditors!Empty] \in FileTexts
      BY <1>2, <3>2 DEF FileTexts
    <3> QED BY <3>1, <3>3
  <2> QED BY <2>1, <2>2 DEF AnsibleEditors!ServeRead
<1> QED BY <1>1, <1>2, <1>3, <1>4, EditorsAnswer

\* A save writes nothing empty over what it finds.
LEMMA EditorsServeSave ==
  ASSUME EditorsIInv, NEW r \in asked, AnsibleEditors!ServeSave(r)
  PROVE  EditorsIInv' /\ AnsibleEditors!NothingEmptied
<1>1. UNCHANGED <<editors, busy, panel, tries>> /\ shown' = shown
  BY DEF AnsibleEditors!ServeSave
<1>2. files \in FileTexts /\ backup \in FileTexts /\ EditorsAskOK(r)
  BY DEF EditorsIInv, EditorsValues, EditorsRequests
<1>3. backup' \in FileTexts
  <2>1. backup' = [files EXCEPT !["vars"] = AnsibleEditors!Empty]
    BY DEF AnsibleEditors!ServeSave
  <2>2. AnsibleEditors!Empty \in AnsibleEditors!Texts
    BY EditorsConstants
  <2> QED BY <1>2, <2>1, <2>2 DEF FileTexts
<1>4. PICK written \in {{}, {"cfg"}, {"cfg", "hosts"}, AnsibleEditors!Fields}, ok \in BOOLEAN :
        /\ IF ok THEN written = AnsibleEditors!Fields /\ UNCHANGED faults ELSE AnsibleEditors!Fault
        /\ files' = [f \in AnsibleEditors!Fields |->
                       IF f \in written /\ (f # "vars" \/ r.texts[f] # AnsibleEditors!Empty)
                         THEN r.texts[f] ELSE files[f]]
        /\ AnsibleEditors!Answered(r, ok, AnsibleEditors!Nothing)
  BY Zenon DEF AnsibleEditors!ServeSave
<1>5. r.texts \in FileTexts /\ r.texts["cfg"] # "" /\ r.texts["hosts"] # ""
  BY <1>2 DEF EditorsAskOK, AnsibleEditors!ServeSave
<1>6. files' \in FileTexts
  BY <1>2, <1>4, <1>5 DEF FileTexts
<1>7. faults' \in 0..MaxFailures
  BY <1>4, EditorsFaults DEF EditorsIInv
<1>8. EditorsIInv'
  BY <1>1, <1>3, <1>4, <1>6, <1>7, EditorsConstants, EditorsAnswer
<1>9. ASSUME NEW f \in AnsibleEditors!Fields, files[f] # AnsibleEditors!Empty
      PROVE  files'[f] # AnsibleEditors!Empty
  BY <1>4, <1>5, <1>9, EditorsConstants
<1> QED BY <1>8, <1>9 DEF AnsibleEditors!NothingEmptied

LEMMA EditorsServeRollback ==
  ASSUME EditorsIInv, NEW r \in asked, AnsibleEditors!ServeRollback(r)
  PROVE  EditorsIInv' /\ AnsibleEditors!NothingEmptied
<1>1. UNCHANGED <<backup, editors, busy, panel, tries>> /\ shown' = shown
  BY DEF AnsibleEditors!ServeRollback
<1>2. files \in FileTexts /\ backup \in FileTexts
  BY DEF EditorsIInv, EditorsValues
<1>3. files' = [f \in AnsibleEditors!Fields |->
                  IF backup[f] # AnsibleEditors!Empty THEN backup[f] ELSE files[f]]
  BY DEF AnsibleEditors!ServeRollback
<1>4. files' \in FileTexts
  BY <1>2, <1>3 DEF FileTexts
<1>5. faults' \in 0..MaxFailures
  BY EditorsFaults DEF EditorsIInv, AnsibleEditors!ServeRollback
<1>6. PICK ok : AnsibleEditors!Answered(r, ok, AnsibleEditors!Nothing)
  BY DEF AnsibleEditors!ServeRollback
<1>7. EditorsIInv'
  BY <1>1, <1>2, <1>4, <1>5, <1>6, EditorsConstants, EditorsAnswer
<1>8. AnsibleEditors!NothingEmptied
  BY <1>3 DEF AnsibleEditors!NothingEmptied
<1> QED BY <1>7, <1>8

LEMMA EditorsServeOther ==
  ASSUME EditorsIInv, NEW r \in asked, AnsibleEditors!ServeVerify(r) \/ AnsibleEditors!Fails(r)
  PROVE  EditorsIInv'
<1>1. UNCHANGED <<files, backup, editors, busy, panel, tries>> /\ shown' = shown
  BY DEF AnsibleEditors!ServeVerify, AnsibleEditors!Fails
<1>2. files \in FileTexts /\ backup \in FileTexts
  BY DEF EditorsIInv, EditorsValues
<1>3. PICK ok : /\ AnsibleEditors!Answered(r, ok, AnsibleEditors!Nothing)
                /\ faults' = faults \/ AnsibleEditors!Fault
  BY DEF AnsibleEditors!ServeVerify, AnsibleEditors!Fails
<1>4. faults' \in 0..MaxFailures
  BY <1>3, EditorsFaults DEF EditorsIInv
<1> QED BY <1>1, <1>2, <1>3, <1>4, EditorsConstants, EditorsAnswer

\* What the page does with an answer.
LEMMA EditorsGone ==
  ASSUME EditorsIInv, NEW r \in asked, asked' = asked \ {r}, busy' = busy \ {OwnerOf(r)},
         editors' \in FileTexts, panel' \in {"info", "success", "warning"},
         panel' = "info" => panel = "info" /\ r.what # "show",
         UNCHANGED <<files, backup, tries, faults>>, shown' = shown
  PROVE  EditorsIInv'
<1>1. EditorsValues'
  BY DEF EditorsIInv, EditorsValues
<1>2. EditorsRequests'
  BY DEF EditorsIInv, EditorsRequests, EditorsAskOK
<1>3. OwnersPart'
  BY OwnersLess DEF EditorsIInv
<1>4. InfoPart'
  BY DEF EditorsIInv, InfoPart
<1>5. shown' \in BOOLEAN
  BY DEF EditorsIInv
<1> QED BY <1>1, <1>2, <1>3, <1>4, <1>5 DEF EditorsIInv

LEMMA EditorsGotShow ==
  ASSUME EditorsIInv, NEW r \in asked, AnsibleEditors!GotShow(r) PROVE EditorsIInv'
<1>1. /\ UNCHANGED <<files, backup, busy, tries, faults>> /\ asked' = asked \ {r} /\ r.what = "show"
      /\ panel' \in {"success", "warning"}
  BY DEF AnsibleEditors!GotShow, AnsibleEditors!PanelAfter
<1>2. shown' = shown
  BY DEF AnsibleEditors!GotShow
<1>3. editors' \in FileTexts
  BY EditorsConstants
  DEF AnsibleEditors!GotShow, EditorsIInv, EditorsRequests, EditorsAskOK
<1>4. busy' = busy \ {OwnerOf(r)}
  <2>1. OwnerOf(r) = "none"
    BY <1>1 DEF OwnerOf
  <2>2. "none" \notin busy
    BY EditorsConstants DEF EditorsIInv, OwnersPart
  <2> QED BY <1>1, <2>1, <2>2
<1>5. panel' # "info" /\ panel' \in {"info", "success", "warning"}
  BY <1>1
<1> QED BY <1>1, <1>2, <1>3, <1>4, <1>5, EditorsGone

LEMMA EditorsGotRead ==
  ASSUME EditorsIInv, NEW r \in asked, AnsibleEditors!GotRead(r) PROVE EditorsIInv'
<1>1. /\ UNCHANGED <<files, backup, panel, tries, faults>> /\ asked' = asked \ {r}
      /\ r.what \in {"reload", "reread"}
      /\ busy' = busy \ {IF r.what = "reload" THEN "reload" ELSE "rollback"}
  BY DEF AnsibleEditors!GotRead
<1>2. shown' = shown
  BY DEF AnsibleEditors!GotRead
<1>3. editors \in FileTexts /\ r.texts \in FileTexts
  BY DEF EditorsIInv, EditorsValues, EditorsRequests, EditorsAskOK
<1>4. editors' \in FileTexts
  <2>1. AnsibleEditors!Reread(r.texts) \in FileTexts
    BY <1>3 DEF AnsibleEditors!Reread, FileTexts
  <2> QED BY <1>3, <2>1 DEF AnsibleEditors!GotRead
<1>5. busy' = busy \ {OwnerOf(r)} /\ r.what # "show"
  BY <1>1 DEF OwnerOf
<1>6. panel' = panel /\ panel \in {"info", "success", "warning"}
  BY <1>1 DEF EditorsIInv, EditorsValues
<1> QED BY <1>1, <1>2, <1>4, <1>5, <1>6, EditorsGone

LEMMA EditorsGotResult ==
  ASSUME EditorsIInv, NEW r \in asked,
         AnsibleEditors!GotResult(r) \/ (AnsibleEditors!GotRollback(r) /\ ~r.done)
  PROVE  EditorsIInv'
<1>1. /\ UNCHANGED <<files, backup, editors, panel, tries, faults>> /\ asked' = asked \ {r}
      /\ r.what \in {"verify", "save", "rollback"} /\ busy' = busy \ {r.what}
  BY DEF AnsibleEditors!GotResult, AnsibleEditors!GotRollback
<1>2. shown' = shown
  BY DEF AnsibleEditors!GotResult, AnsibleEditors!GotRollback
<1>3. busy' = busy \ {OwnerOf(r)} /\ r.what # "show"
  BY <1>1 DEF OwnerOf
<1>4. panel' = panel /\ panel \in {"info", "success", "warning"} /\ editors' \in FileTexts
  BY <1>1 DEF EditorsIInv, EditorsValues
<1> QED BY <1>1, <1>2, <1>3, <1>4, EditorsGone

LEMMA EditorsGotRollback ==
  ASSUME EditorsIInv, NEW r \in asked, AnsibleEditors!GotRollback(r), r.done PROVE EditorsIInv'
<1> DEFINE p == [r EXCEPT !.what = "reread", !.at = "sent"]
<1>1. /\ UNCHANGED <<files, backup, editors, panel, tries, faults, busy>> /\ r.what = "rollback"
      /\ asked' = (asked \ {r}) \cup {p}
  BY DEF AnsibleEditors!GotRollback
<1>2. shown' = shown
  BY DEF AnsibleEditors!GotRollback
<1>3. EditorsAskOK(p) /\ p.what = "reread"
  <2>1. EditorsAskOK(r)
    BY DEF EditorsIInv, EditorsRequests
  <2> QED BY <2>1, EditorsRead
<1> HIDE DEF p
<1>4. OwnerOf(p) = OwnerOf(r)
  BY <1>1, <1>3 DEF OwnerOf
<1>5. EditorsValues'
  BY <1>1 DEF EditorsIInv, EditorsValues
<1>6. EditorsRequests'
  BY <1>1, <1>3 DEF EditorsIInv, EditorsRequests, EditorsAskOK
<1>7. OwnersPart'
  BY <1>1, <1>4, OwnersChanged DEF EditorsIInv
<1>8. InfoPart'
  BY <1>1, <1>2 DEF EditorsIInv, InfoPart
<1>9. shown' \in BOOLEAN
  BY <1>2 DEF EditorsIInv
<1> QED BY <1>5, <1>6, <1>7, <1>8, <1>9 DEF EditorsIInv

LEMMA EditorsStep ==
  ASSUME EditorsIInv, AnsibleEditors!Next PROVE EditorsIInv' /\ AnsibleEditors!NothingEmptied
<1>1. CASE \E r \in asked : AnsibleEditors!ServeSave(r) \/ AnsibleEditors!ServeRollback(r)
  BY <1>1, EditorsServeSave, EditorsServeRollback
<1>2. CASE ~\E r \in asked : AnsibleEditors!ServeSave(r) \/ AnsibleEditors!ServeRollback(r)
  <2>1. EditorsIInv'
    BY <1>2, EditorsShow, EditorsHide, EditorsSave, EditorsType, EditorsPress, EditorsServeRead,
       EditorsServeOther, EditorsGotShow, EditorsGotRead, EditorsGotResult, EditorsGotRollback
    DEF AnsibleEditors!Next
  <2>2. files' = files
    BY <1>2
    DEF AnsibleEditors!Next, AnsibleEditors!Show, AnsibleEditors!Hide, AnsibleEditors!Save,
        AnsibleEditors!Type, AnsibleEditors!Press, AnsibleEditors!ServeRead,
        AnsibleEditors!ServeVerify, AnsibleEditors!Fails, AnsibleEditors!GotShow,
        AnsibleEditors!GotRead, AnsibleEditors!GotRollback, AnsibleEditors!GotResult
  <2> QED BY <2>1, <2>2 DEF AnsibleEditors!NothingEmptied
<1> QED BY <1>1, <1>2

LEMMA EditorsSame ==
  ASSUME EditorsIInv, UNCHANGED <<files, backup, editors, asked, busy, panel, tries, faults>>,
         shown' = shown
  PROVE  EditorsIInv' /\ AnsibleEditors!NothingEmptied
<1>1. EditorsValues' /\ EditorsRequests'
  BY DEF EditorsIInv, EditorsValues, EditorsRequests
<1>2. OwnersPart'
  BY DEF EditorsIInv, OwnersPart
<1>3. InfoPart'
  BY DEF EditorsIInv, InfoPart
<1>4. shown' \in BOOLEAN
  BY DEF EditorsIInv
<1>5. AnsibleEditors!NothingEmptied
  BY DEF AnsibleEditors!NothingEmptied
<1> QED BY <1>1, <1>2, <1>3, <1>4, <1>5 DEF EditorsIInv

LEMMA EditorsGives ==
  ASSUME EditorsIInv PROVE AnsibleEditors!EditorsTypeOK /\ AnsibleEditors!SettledEditors
<1>1. /\ {files, backup, editors} \subseteq [AnsibleEditors!Fields -> AnsibleEditors!Texts]
      /\ busy \subseteq AnsibleEditors!Buttons /\ panel \in {"info", "success", "warning"}
  BY DEF EditorsIInv, EditorsValues, OwnersPart, FileTexts
<1>2. tries \in 0..MaxEdits /\ faults \in 0..MaxFailures
  BY DEF EditorsIInv, EditorsValues
<1>3. \A r \in asked :
        r.id \in 0..MaxEdits /\ r.texts \in [AnsibleEditors!Fields -> AnsibleEditors!Texts]
  BY DEF EditorsIInv, EditorsRequests, EditorsAskOK, FileTexts
<1>4. AnsibleEditors!EditorsTypeOK
  BY <1>1, <1>2, <1>3 DEF AnsibleEditors!EditorsTypeOK, EditorsIInv
<1>5. ASSUME NEW b \in AnsibleEditors!Buttons, NEW r \in asked
      PROVE  OwnerOf(r) = b <=> r.what = b \/ (b = "rollback" /\ r.what = "reread")
  BY EditorsConstants DEF OwnerOf
<1>6. \A b \in AnsibleEditors!Buttons : b \in busy <=> AnsibleEditors!Own(b)
  BY <1>5 DEF EditorsIInv, OwnersPart, AnsibleEditors!Own
<1>7. AnsibleEditors!SettledEditors
  BY <1>6 DEF EditorsIInv, InfoPart, AnsibleEditors!SettledEditors
<1> QED BY <1>4, <1>7

===============================================================================
