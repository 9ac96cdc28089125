---------------------------- MODULE ResourceUsage -----------------------------
(***************************************************************************)
(* What the overview says of CPU, memory and disks in use                  *)
(* (ClusterAdminController.getOverviewResourceUsage): the sum over the     *)
(* nodes of what the Metrics API reports, against what the nodes have, or, *)
(* where that gives nothing, the average of what servers answer over SSH.  *)
(* Metrics and nodes are two calls, between and before which nodes come    *)
(* and go; the Metrics API reports a node for a while after it has left.   *)
(*                                                                         *)
(* A quantity is a number and a unit.  CPU is counted in billionths of a   *)
(* core, as cores times a Billion, memory in bytes, percentages in whole  *)
(* numbers.                                                                *)
(***************************************************************************)
EXTENDS Integers, FiniteSetsExt, Functions

CONSTANTS
  Nodes, SizeOf,         \* [Nodes -> [cpu, memory]]: what each has, as quantities
  Uses,                  \* what the Metrics API may report of a node, in the same form
  Servers, Outcomes,     \* what a server answers: Measured, or Failed
  Thousand, Kilo,        \* 1000 and 1024
  PlainCores,            \* a plain number up to this is cores, above it nano cores: 1000
  Sampled, SampledDisks, \* servers asked: 5, and for their disks 3
  None, Absent

VARIABLES
  nodes,     \* nodes of the cluster
  metrics,   \* [Nodes -> what the Metrics API reports, or Absent]
  ask        \* the request: its step, what it has read, and its result

usageVars == <<nodes, metrics, ask>>

Million == Thousand * Thousand
Billion == Million * Thousand
Mebi    == Kilo * Kilo
Gibi    == Mebi * Kilo
Tebi    == Gibi * Kilo

-------------------------------------------------------------------------------
\* What a quantity means in Kubernetes, and a number of "free -h".
NanoCoresMeant(q) ==
  q.n * CASE q.unit = "n" -> 1 [] q.unit = "m" -> Million [] OTHER -> Billion

BytesMeant(q) ==
  q.n * CASE q.unit = "Ki" -> Kilo [] q.unit = "Mi" -> Mebi
          [] q.unit = "Gi" -> Gibi [] q.unit = "Ti" -> Tebi [] OTHER -> 1

\* Assumed where the constants are given values: quantities come in the units that
\* kubelets, metrics servers and "free -h" write, a node has some of each, and no
\* server uses more memory than it has.
UsageAssumption ==
  /\ {Thousand, Kilo, PlainCores, Sampled, SampledDisks} \subseteq Nat
  /\ 1 < Thousand /\ Thousand < Kilo /\ SampledDisks <= Sampled
  /\ IsFiniteSet(Nodes) /\ IsFiniteSet(Servers)
  /\ SizeOf \in [Nodes -> [cpu : [n : Nat, unit : {""}], memory : [n : Nat, unit : {"Ki"}]]]
  /\ \A m \in Nodes : SizeOf[m].cpu.n > 0 /\ SizeOf[m].memory.n > 0
  /\ Uses \subseteq [cpu : [n : Nat, unit : {"n"}], memory : [n : Nat, unit : {"Ki"}]]
  /\ \A o \in Outcomes : o.cpu # None =>
       /\ o.cpu \in 0..100 /\ o.disk \in 0..100
       /\ {o.used, o.total} \subseteq [n : Nat, unit : {"", "Ki", "Mi", "Gi", "Ti"}]
       /\ o.total.n > 0 /\ BytesMeant(o.used) <= BytesMeant(o.total)
  /\ Absent \notin Uses

-------------------------------------------------------------------------------
\* What the client library gives for a quantity: its number, the unit being apart
\* (getFormat, which K8sStorageController puts after it and the overview does not).
GetAmount(q) == [q EXCEPT !.unit = ""]

\* What does not parse counts as nothing.
ParseQuantityToNanoCores(q) ==
  CASE q.unit = "n" -> q.n
    [] q.unit = "m" -> q.n * Million
    [] q.unit = ""  -> IF q.n > PlainCores THEN q.n ELSE q.n * Billion
    [] OTHER        -> 0

ParseQuantityToCores(q) ==
  CASE q.unit = "m" -> q.n * Million
    [] q.unit = ""  -> q.n * Billion
    [] OTHER        -> 0

\* The unit is read in upper case.
ParseQuantityToBytes(q) ==
  CASE q.unit = ""                     -> q.n
    [] q.unit \in {"Ki", "K", "k"}     -> q.n * Kilo
    [] q.unit \in {"Mi", "M", "m"}     -> q.n * Mebi
    [] q.unit \in {"Gi", "G"}          -> q.n * Gibi
    [] q.unit \in {"Ti", "T"}          -> q.n * Tebi
    [] OTHER                           -> 0

\* The numbers of "free -h": tera and bytes are not among what it knows.
ParseMemoryValue(q) ==
  CASE q.unit = ""              -> q.n
    [] q.unit \in {"Ki", "K"}   -> q.n * Kilo
    [] q.unit \in {"Mi", "M"}   -> q.n * Mebi
    [] q.unit \in {"Gi", "G"}   -> q.n * Gibi
    [] OTHER                    -> 0

Percent(part, whole) == IF whole > 0 THEN (part * 100) \div whole ELSE 0

\* Rounded, not cut off.
RamPercentage(used, total) ==
  LET u == ParseMemoryValue(used)
      t == ParseMemoryValue(total)
  IN IF u <= 0 \/ t <= 0 THEN 0 ELSE (200 * u + t) \div (2 * t)

Capped(percent) == Min({100, percent})

-------------------------------------------------------------------------------
Nothing == [cpu |-> 0, ram |-> 0, disk |-> 0, cpuUsed |-> 0, cpuTotal |-> 0,
            ramUsed |-> 0, ramTotal |-> 0]

Start == [step |-> "idle", seen |-> [n \in Nodes |-> Absent],
          answers |-> [s \in {} |-> None], result |-> Nothing]

UsageInit ==
  /\ nodes \in SUBSET Nodes
  /\ metrics = [n \in Nodes |-> Absent]
  /\ ask = Start

\* The cluster.
NodeJoins(n)  == n \notin nodes /\ nodes' = nodes \cup {n} /\ UNCHANGED <<metrics, ask>>
NodeLeaves(n) == nodes' = nodes \ {n} /\ n \in nodes /\ UNCHANGED <<metrics, ask>>

\* A node uses no more than it has, and none uses so little that its billionths of a
\* core would be taken for cores.
NodeMeasured(n) ==
  /\ n \in nodes
  /\ \E u \in Uses :
       /\ NanoCoresMeant(u.cpu) <= NanoCoresMeant(SizeOf[n].cpu)
       /\ u.cpu.n = 0 \/ u.cpu.n > PlainCores
       /\ BytesMeant(u.memory) <= BytesMeant(SizeOf[n].memory)
       /\ metrics' = [metrics EXCEPT ![n] = u]
  /\ UNCHANGED <<nodes, ask>>

NodeForgotten(n) ==
  /\ n \notin nodes /\ metrics[n] # Absent
  /\ metrics' = [metrics EXCEPT ![n] = Absent]
  /\ UNCHANGED <<nodes, ask>>

-------------------------------------------------------------------------------
\* The request.  Without nodes, or with an error, it ends with nothing.
ListNodes ==
  /\ ask.step = "idle"
  /\ ask' = [Start EXCEPT !.step = IF nodes = {} THEN "answered" ELSE "metrics"]
  /\ UNCHANGED <<nodes, metrics>>

ListFails ==
  /\ ask.step = "idle"
  /\ ask' = [Start EXCEPT !.step = "answered"]
  /\ UNCHANGED <<nodes, metrics>>

GetNodeMetrics ==
  /\ ask.step = "metrics"
  /\ ask' = [ask EXCEPT !.seen = metrics,
                        !.step = IF \E n \in Nodes : metrics[n] # Absent THEN "nodes"
                                                                       ELSE "servers"]
  /\ UNCHANGED <<nodes, metrics>>

\* No metrics server, or an error in either call: the result stays zero.
MetricsFail ==
  /\ ask.step \in {"metrics", "nodes"}
  /\ ask' = [Start EXCEPT !.step = "servers"]
  /\ UNCHANGED <<nodes, metrics>>

Reported == {n \in Nodes : ask.seen[n] # Absent}

CpuUsed(among)  ==
  SumFunction([n \in among |-> ParseQuantityToNanoCores(GetAmount(ask.seen[n].cpu))])
RamUsed(among)  ==
  SumFunction([n \in among |-> ParseQuantityToBytes(GetAmount(ask.seen[n].memory))])
CpuTotal(among) ==
  SumFunction([n \in among |-> ParseQuantityToCores(GetAmount(SizeOf[n].cpu))])
RamTotal(among) ==
  SumFunction([n \in among |-> ParseQuantityToBytes(GetAmount(SizeOf[n].memory))])

ResultOver(used, total) ==
  LET cpuUsed  == CpuUsed(used)
      ramUsed  == RamUsed(used)
      cpuTotal == CpuTotal(total)
      ramTotal == RamTotal(total)
  IN [cpu |-> Capped(Percent(cpuUsed, cpuTotal)), ram |-> Capped(Percent(ramUsed, ramTotal)),
      disk |-> 0, cpuUsed |-> cpuUsed, cpuTotal |-> cpuTotal,
      ramUsed |-> ramUsed, ramTotal |-> ramTotal]

\* Faulty variant: a reported node is counted whether it is still there or not.
ResultOfAllReported == ResultOver(Reported, Reported \cap nodes)

\* A node that has left is left out on both sides, and so is one without metrics.
CalculateClusterResourceUsageFromMetrics ==
  ResultOver(Reported \cap nodes, Reported \cap nodes)

GetNodes ==
  /\ ask.step = "nodes"
  /\ LET r == CalculateClusterResourceUsageFromMetrics IN
     ask' = [ask EXCEPT !.result = r, !.seen = Start.seen,
               !.step = IF r.cpuUsed * r.cpuTotal > 0 \/ r.ramUsed * r.ramTotal > 0
                          THEN "disks" ELSE "servers"]
  /\ UNCHANGED <<nodes, metrics>>

-------------------------------------------------------------------------------
\* A server asked over SSH answers with numbers, with an error (no CPU, no disk, and
\* 0 % of memory), or not within the time: then it is not among the answers.
Polled(limit) ==
  {a \in UNION {[s -> Outcomes] : s \in SUBSET Servers} : Cardinality(DOMAIN a) <= limit}

RamOf(answer) == IF answer.cpu = None THEN 0 ELSE RamPercentage(answer.used, answer.total)

Mean(values) ==
  IF DOMAIN values = {} THEN 0 ELSE SumFunction(values) \div Cardinality(DOMAIN values)

Answered(answers) == {s \in DOMAIN answers : answers[s].cpu # None}

DiskMean(answers) == Mean([s \in Answered(answers) |-> answers[s].disk])

\* The Metrics API knows nothing of disks.
GetDiskUsageFromSSH ==
  /\ ask.step = "disks"
  /\ \E a \in Polled(SampledDisks) :
       ask' = [ask EXCEPT !.step = "answered", !.answers = a, !.result.disk = DiskMean(a)]
  /\ UNCHANGED <<nodes, metrics>>

\* An error counts in the average of the memory, and in no other.
CalculateAverageResourceUsage(answers) ==
  [Nothing EXCEPT !.cpu  = Mean([s \in Answered(answers) |-> answers[s].cpu]),
                  !.ram  = Mean([s \in DOMAIN answers |-> RamOf(answers[s])]),
                  !.disk = DiskMean(answers)]

\* With nothing to average the result stays as the metrics left it.
FallBackToSSH ==
  /\ ask.step = "servers"
  /\ \E a \in Polled(Sampled) :
       ask' = [ask EXCEPT !.step = "answered", !.answers = a,
                 !.result = IF DOMAIN a = {} THEN @ ELSE CalculateAverageResourceUsage(a)]
  /\ UNCHANGED <<nodes, metrics>>

Answer == ask.step = "answered" /\ ask' = Start /\ UNCHANGED <<nodes, metrics>>

UsageNext ==
  \/ \E n \in Nodes : NodeJoins(n) \/ NodeLeaves(n) \/ NodeMeasured(n) \/ NodeForgotten(n)
  \/ ListNodes \/ ListFails \/ GetNodeMetrics \/ MetricsFail \/ GetNodes
  \/ GetDiskUsageFromSSH \/ FallBackToSSH \/ Answer

UsageSpec == UsageInit /\ [][UsageNext]_usageVars

-------------------------------------------------------------------------------
UsageTypeOK ==
  /\ nodes \subseteq Nodes
  /\ \A n \in Nodes : metrics[n] \in Uses \cup {Absent}
  /\ ask.step \in {"idle", "metrics", "nodes", "disks", "servers", "answered"}
  /\ ask.result.cpu \in 0..100 /\ ask.result.ram \in 0..100

\* Nodes leave between the two calls and are reported after they have left: never is
\* more said to be used than the nodes that are counted have.
UsedIsWithinTotal ==
  /\ ask.result.cpuUsed <= ask.result.cpuTotal
  /\ ask.result.ramUsed <= ask.result.ramTotal

\* The nodes a result is about.
CountedNodes == {n \in nodes : ask.seen[n] # Absent}

\* The percentages are those of what the nodes that were reported and are still there
\* really use of what they have, though the numbers are read without their units: for
\* CPU a number's size tells its unit, and for memory the units cancel out.
SharesAreTrue ==
  [][ask.step = "nodes" /\ ask'.result # Nothing =>
       /\ ask'.result.cpu =
            Percent(SumFunction([n \in CountedNodes |-> NanoCoresMeant(ask.seen[n].cpu)]),
                    SumFunction([n \in CountedNodes |-> NanoCoresMeant(SizeOf[n].cpu)]))
       /\ ask'.result.ram =
            Percent(SumFunction([n \in CountedNodes |-> BytesMeant(ask.seen[n].memory)]),
                    SumFunction([n \in CountedNodes |-> BytesMeant(SizeOf[n].memory)]))
    ]_usageVars

\* Of an average over SSH: it is of the servers that answered, however many did not; but
\* for the memory a server with an error counts as using none, and so does one whose
\* numbers are in bytes or tera, so that it is no more than what is used.
AverageIsTrue ==
  ask.step = "answered" /\ ask.result # Nothing /\ ask.result.cpuTotal = 0 =>
    LET ok == Answered(ask.answers)
        k == Cardinality(ok)
        cpu == SumFunction([s \in ok |-> ask.answers[s].cpu])
        ram == SumFunction([s \in ok |-> (200 * BytesMeant(ask.answers[s].used)
                                            + BytesMeant(ask.answers[s].total))
                                           \div (2 * BytesMeant(ask.answers[s].total))])
        known == \A s \in DOMAIN ask.answers :
                   s \in ok /\ {ask.answers[s].used.unit, ask.answers[s].total.unit}
                                 \subseteq {"Ki", "Mi", "Gi"}
    IN /\ ask.result.cpu * k <= cpu /\ cpu < (ask.result.cpu + 1) * k
       /\ ask.result.ram * k <= ram
       /\ known => ram < (ask.result.ram + 1) * k

===============================================================================
