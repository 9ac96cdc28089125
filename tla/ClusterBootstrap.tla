--------------------------- MODULE ClusterBootstrap ----------------------------
(***************************************************************************)
(* The playbook templates of playbook-manager.js, and what running them    *)
(* does to the machines of the inventory: one master and the workers.      *)
(*                                                                         *)
(* ansible-playbook takes the tasks one after another, each on all hosts   *)
(* of its group, and with any_errors_fatal, which the application writes   *)
(* into ansible.cfg, ends the run at the first task that fails on a host   *)
(* and is not told to ignore errors.  A host that does not answer fails    *)
(* the task whatever it ignores.  One action is one task on its group.     *)
(***************************************************************************)
EXTENDS Integers, Sequences, FiniteSets

CONSTANTS
  Master,
  Workers,
  Books,         \* the playbooks that are run
  MaxClusters,   \* bound: kubeadm init makes at most this many clusters
  MaxFaults      \* bound on tasks that fail by accident and on hosts lost

Hosts == {Master} \cup Workers

\* Clusters are numbered as kubeadm init makes them; 0 stands for none.
Clusters == 0..MaxClusters

VARIABLES
  done,        \* what has been installed or configured on each machine
  member,      \* the cluster a machine belongs to; for the master, the one it runs
  etcd,        \* the cluster whose data is on the master
  admin,       \* the cluster the master's kubeconfig is for
  script,      \* the cluster the join script on a machine is for
  registered,  \* workers the cluster knows under their name in the inventory
  network,     \* the network plug-ins installed in the cluster; what else is
               \* installed in it no other task depends on
  made,        \* clusters made so far
  online, faults,
  run          \* the run in progress or last ended: its playbook, the tasks left,
               \* the workers it is to repair, those its ping reached, those ready
               \* when it looked, the join command it holds, the tasks that failed
               \* by accident, whether containerd was everywhere, and the outcome

bvars == <<done, member, etcd, admin, script, registered, network, made, online, faults, run>>
machines == <<done, member, etcd, admin, script, registered, network, made>>

-------------------------------------------------------------------------------
(* The templates.  A task is its name, its group, and whether it ignores errors. *)

T(name, on) == [name |-> name, on |-> on, ignored |-> FALSE]
Ignoring(name, on) == [name |-> name, on |-> on, ignored |-> TRUE]

\* (variant) kubeadm reset, which fails where there is no kubeadm yet, is not ignored
ResetClusterStrict ==
  <<T("reset", "all"), T("removeConfig", "all"), T("restartContainerd", "all")>>

ResetCluster ==
  <<Ignoring("reset", "all"), T("removeConfig", "all"), T("restartContainerd", "all")>>

UpdateHosts == <<T("names", "all")>>

KernelSysctl == <<T("kernel", "all")>>

InstallContainerd == <<T("containerd", "all"), T("restartContainerd", "all")>>

InstallKubernetes == <<T("packages", "all")>>

InitMaster ==
  <<Ignoring("wipeMaster", "master"), T("init", "master"), T("kubeconfig", "master"),
    T("token", "master")>>

InstallCalico == <<T("calico", "master")>>

InstallFlannel == <<T("flannel", "master")>>

\* After the ping the tasks skip the hosts it failed on.
Join(on) ==
  <<Ignoring("ping", on), T("joinCommand", "pinged"), Ignoring("saveScript", "pinged"),
    Ignoring("wipeWorker", "pinged"), Ignoring("join", "pinged")>>

JoinWorkers == Join("workers")

VerifyCluster == <<T("verify", "master")>>

InstallHelm == <<Ignoring("fetchHelm", "master"), T("helmVersion", "master")>>

InstallMetrics == <<T("metrics", "master")>>

InstallIngress == <<T("ingress", "master")>>

InstallMetallb == <<T("metallb", "master"), T("addressPool", "master")>>

SetupStorage == <<T("nfsServer", "master"), T("nfsClient", "all"), T("provisioner", "master")>>

\* Only the workers the cluster does not list as Ready are prepared and joined.
PrepareAndJoin ==
  <<Ignoring("precheck", "master"), T("kernel", "targets"), T("containerd", "targets"),
    T("restartContainerd", "targets"), T("packages", "targets")>> \o Join("targets")

Deploy ==
  ResetCluster \o UpdateHosts \o KernelSysctl \o InstallContainerd \o InstallKubernetes
    \o InitMaster \o InstallCalico \o JoinWorkers \o VerifyCluster

DeployFlannel ==
  ResetCluster \o UpdateHosts \o KernelSysctl \o InstallContainerd \o InstallKubernetes
    \o InitMaster \o InstallFlannel \o JoinWorkers \o VerifyCluster

\* templateMapping: the value in the page's list, and the template it stands for.
TasksOf ==
  [book \in {"reset", "hosts", "kernel", "containerd", "kubernetes", "init", "calico",
             "flannel", "join", "verify", "helm", "metrics", "ingress", "metallb",
             "storage", "prepareJoin", "deploy", "deployFlannel"} |->
     CASE book = "reset"       -> ResetCluster
       [] book = "hosts"       -> UpdateHosts
       [] book = "kernel"      -> KernelSysctl
       [] book = "containerd"  -> InstallContainerd
       [] book = "kubernetes"  -> InstallKubernetes
       [] book = "init"        -> InitMaster
       [] book = "calico"      -> InstallCalico
       [] book = "flannel"     -> InstallFlannel
       [] book = "join"        -> JoinWorkers
       [] book = "verify"      -> VerifyCluster
       [] book = "helm"        -> InstallHelm
       [] book = "metrics"     -> InstallMetrics
       [] book = "ingress"     -> InstallIngress
       [] book = "metallb"     -> InstallMetallb
       [] book = "storage"     -> SetupStorage
       [] book = "prepareJoin" -> PrepareAndJoin
       [] book = "deploy"      -> Deploy
       [] book = "deployFlannel" -> DeployFlannel]

\* Assumed where the constants are given values: the inventory is finite, and the playbooks
\* that are run are of the templates.
BootstrapAssumption ==
  /\ Master \notin Workers
  /\ IsFiniteSet(Workers)
  /\ Books \subseteq DOMAIN TasksOf
  /\ MaxClusters \in Nat
  /\ MaxFaults \in Nat

-------------------------------------------------------------------------------
Init ==
  /\ done = [h \in Hosts |-> {}]
  /\ member = [h \in Hosts |-> 0]
  /\ etcd = 0 /\ admin = 0 /\ made = 0
  /\ script = [w \in Workers |-> 0]
  /\ registered = {} /\ network = {}
  /\ online = Hosts /\ faults = 0
  /\ run = [book |-> "none", left |-> <<>>, targets |-> {}, pinged |-> {}, ready |-> {},
            token |-> 0, hit |-> {}, prepared |-> FALSE, outcome |-> "ok"]

Idle == run.outcome # "running"

HasNetwork == network # {}

\* What kubectl get nodes shows as Ready, under the worker's name in the inventory.
ReadyWorkers ==
  {w \in Workers \cap registered \cap online : member[w] = member[Master] /\ HasNetwork}

Healthy ==
  /\ member[Master] # 0
  /\ admin = member[Master]
  /\ \A w \in Workers : member[w] = member[Master]
  /\ HasNetwork

\* ansible-playbook starts on a playbook of the directory.
Start(book) ==
  /\ Idle
  /\ made < MaxClusters
  /\ run' = [run EXCEPT !.book = book, !.left = TasksOf[book], !.targets = {}, !.pinged = {},
                        !.ready = {}, !.token = 0, !.hit = {}, !.outcome = "running",
                        !.prepared = \A h \in Hosts : "containerd" \in done[h]]
  /\ UNCHANGED <<machines, online, faults>>

Group(on) ==
  CASE on = "all"     -> Hosts
    [] on = "master"  -> {Master}
    [] on = "workers" -> Workers
    [] on = "targets" -> run.targets
    [] on = "pinged"  -> run.pinged

ClusterTasks ==
  {"kubeconfig", "token", "joinCommand", "verify", "calico", "flannel", "metrics",
   "ingress", "metallb", "addressPool"}

\* What a task needs on a host to succeed there.
Works(task, h) ==
  /\ task = "restartContainerd" => "containerd" \in done[h]
  /\ task = "reset" => "packages" \in done[h]
  /\ task \in ClusterTasks => member[Master] # 0
  /\ task = "init" =>
       \/ member[Master] # 0       \* creates: admin.conf
       \/ {"kernel", "containerd", "packages"} \subseteq done[h] /\ etcd = 0
  /\ task = "saveScript" => run.token # 0
  /\ task = "join" =>
       /\ script[h] # 0 /\ script[h] = member[Master] /\ Master \in online
       /\ {"containerd", "packages"} \subseteq done[h]
  /\ task = "helmVersion" => "helm" \in done[h]
  \* kubectl create ... | kubectl apply -f - under the command module, which has no pipes.
  /\ task # "provisioner"

-------------------------------------------------------------------------------
(* The effects of a task on the hosts where it succeeds. *)

Installs == {"names", "kernel", "containerd", "packages"}

MarkDone(what, on) == done' = [h \in Hosts |-> IF h \in on THEN done[h] \cup {what} ELSE done[h]]

\* Removing /etc/kubernetes from the master stops the cluster; its data is in etcd's directory.
Leave(on, wipesEtcd) ==
  /\ member' = [h \in Hosts |-> IF h \in on THEN 0 ELSE member[h]]
  /\ etcd' = IF Master \in on /\ wipesEtcd THEN 0 ELSE etcd
  /\ registered' = IF Master \in on THEN {} ELSE registered
  /\ network' = IF Master \in on THEN {} ELSE network

InitEffect(on, bad) ==
  /\ IF Master \in on /\ member[Master] = 0
       THEN /\ made' = made + 1
            /\ member' = [member EXCEPT ![Master] = made + 1]
            /\ etcd' = made + 1
       ELSE /\ UNCHANGED <<made, member>>
            \* an initialization that breaks off may have written etcd's data
            /\ etcd' \in IF Master \in bad /\ member[Master] = 0 THEN {etcd, made + 1} ELSE {etcd}
  /\ UNCHANGED <<done, admin, script, registered, network>>

JoinEffect(on) ==
  LET joining == {w \in on : member[w] = 0} IN
  /\ member' = [h \in Hosts |-> IF h \in joining THEN script[h] ELSE member[h]]
  /\ registered' = registered \cup {w \in joining : "names" \in done[w]}
  /\ UNCHANGED <<done, etcd, admin, script, network, made>>

Networks == {"calico", "flannel"}

MachineEffect(task, on, bad) ==
  CASE task \in Installs ->
         MarkDone(task, on) /\ UNCHANGED <<member, etcd, admin, script, registered, network, made>>
    [] task = "fetchHelm" ->
         MarkDone("helm", on) /\ UNCHANGED <<member, etcd, admin, script, registered, network, made>>
    [] task \in {"reset", "wipeMaster", "wipeWorker"} ->
         Leave(on, TRUE) /\ UNCHANGED <<done, admin, script, made>>
    [] task = "removeConfig" ->
         /\ Leave(on, FALSE)
         /\ admin' = IF Master \in on THEN 0 ELSE admin
         /\ UNCHANGED <<done, script, made>>
    [] task = "init" -> InitEffect(on, bad)
    [] task = "kubeconfig" ->
         /\ admin' = IF Master \in on THEN member[Master] ELSE admin
         /\ UNCHANGED <<done, member, etcd, script, registered, network, made>>
    [] task \in Networks ->
         /\ network' = IF on # {} THEN network \cup {task} ELSE network
         /\ UNCHANGED <<done, member, etcd, admin, script, registered, made>>
    [] task = "saveScript" ->
         /\ script' = [w \in Workers |-> IF w \in on THEN run.token ELSE script[w]]
         /\ UNCHANGED <<done, member, etcd, admin, registered, network, made>>
    [] task = "join" -> JoinEffect(on)
    [] OTHER -> UNCHANGED machines

\* run_once asks the condition of the first host only; the command runs on the master.
AsksFirst(on) == IF on = {} THEN {} ELSE {Master}

\* A worker is repaired when the list of nodes could not be read, or does not show it Ready.
Targets(bad) ==
  IF bad = {} /\ "packages" \in done[Master] /\ member[Master] # 0 /\ admin = member[Master]
  THEN Workers \ ReadyWorkers
  ELSE Workers

\* The facts the run keeps for its later tasks.
Facts(task, on, bad) ==
  CASE task = "precheck"    -> [run EXCEPT !.targets = Targets(bad), !.ready = ReadyWorkers]
    [] task = "ping"        -> [run EXCEPT !.pinged = on]
    [] task = "joinCommand" -> [run EXCEPT !.token = IF bad = {} THEN member[Master] ELSE 0]
    [] OTHER                -> run

-------------------------------------------------------------------------------
\* The next task, on its group; bad are hosts where it fails by accident.
Task ==
  /\ ~Idle /\ run.left # <<>>
  /\ LET t == Head(run.left)
         group == Group(t.on)
         on == IF t.name = "joinCommand" THEN AsksFirst(group) ELSE group
         lost == on \ online
         unmet == {h \in on \cap online : ~Works(t.name, h)}
     IN \E bad \in SUBSET ((on \cap online) \ unmet) :
          /\ faults + Cardinality(bad) <= MaxFaults
          /\ faults' = faults + Cardinality(bad)
          /\ LET good == ((on \cap online) \ unmet) \ bad
                 fatal == lost # {} \/ (~t.ignored /\ unmet \cup bad # {})
             IN /\ MachineEffect(t.name, good, bad)
                /\ run' = [Facts(t.name, good, bad) EXCEPT
                             !.left = IF fatal THEN <<>> ELSE Tail(run.left),
                             !.hit = @ \cup {IF lost # {} THEN "lost" ELSE t.name : h \in bad \cup lost},
                             !.outcome = IF fatal THEN "failed" ELSE "running"]
  /\ UNCHANGED online

Finish ==
  /\ ~Idle /\ run.left = <<>>
  /\ run' = [run EXCEPT !.outcome = "ok"]
  /\ UNCHANGED <<machines, online, faults>>

HostLost(h) ==
  /\ faults < MaxFaults /\ h \in online
  /\ online' = online \ {h} /\ faults' = faults + 1
  /\ run' = IF Idle THEN run ELSE [run EXCEPT !.hit = @ \cup {"lost"}]
  /\ UNCHANGED machines

HostBack(h) ==
  /\ h \notin online
  /\ online' = online \cup {h}
  /\ UNCHANGED <<machines, faults, run>>

Next ==
  \/ \E book \in Books : Start(book)
  \/ Task
  \/ Finish
  \/ \E h \in Hosts : HostLost(h) \/ HostBack(h)

Spec == Init /\ [][Next]_bvars

-------------------------------------------------------------------------------
(* Properties *)

BootstrapTypeOK ==
  /\ done \in [Hosts -> SUBSET (Installs \cup {"helm"})]
  /\ member \in [Hosts -> Clusters]
  /\ {etcd, admin, made} \subseteq Clusters
  /\ script \in [Workers -> Clusters]
  /\ registered \subseteq Workers
  /\ network \subseteq Networks
  /\ online \subseteq Hosts
  /\ faults \in 0..MaxFaults
  /\ run.outcome \in {"running", "ok", "failed"}
  /\ run.targets \subseteq Workers /\ run.pinged \subseteq Workers /\ run.ready \subseteq Workers

Deployment == run.book \in {"deploy", "deployFlannel"}

\* A deployment in which nothing failed by accident but the cleaning tasks, which ignore
\* errors, makes one cluster of all machines, whatever earlier runs that broke off or
\* left machines in other clusters had done to them.
DeployRepairs ==
  Deployment /\ run.outcome = "ok" /\ run.hit \subseteq {"reset"} => Healthy

\* Such a deployment does not break off either, when it finds containerd on every machine:
\* each of its tasks finds what it needs, left by the tasks before it.
DeployCompletes ==
  Deployment /\ run.outcome = "failed" => run.hit \ {"reset"} # {} \/ ~run.prepared

\* A run ends well although a worker may not have joined: the error is ignored, and 08 lists
\* the nodes without judging them.  Still, where nothing failed by accident every worker that
\* has what joining needs is in the master's cluster after 07, 14 or a deployment, wherever
\* it was before and whatever join script an earlier run left on it.
WorkersJoined ==
  run.outcome = "ok" /\ run.hit = {} /\ (run.book \in {"join", "prepareJoin"} \/ Deployment) =>
    \A w \in Workers :
      {"containerd", "packages"} \subseteq done[w] => member[w] = member[Master]

\* Preparing and joining not-ready workers leaves alone the workers the cluster showed Ready
\* when it looked, unless the look itself failed by accident or the master's kubeconfig is
\* of an earlier cluster.
RepairLeavesReadyAlone ==
  run.book = "prepareJoin" /\ "precheck" \notin run.hit /\ admin = member[Master] =>
    \A w \in run.ready : member'[w] = member[w] /\ script'[w] = script[w]

===============================================================================
