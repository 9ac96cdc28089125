SPECIFICATION Spec
CONSTANTS
  Names = {"a", "b"}
  Kinds = {"deployment", "statefulset", "daemonset", "job", "cronjob", "pod", "output", "logs", "exec"}
  MaxViews = 3
  ResourcePages = {"storage", "services"}
  MaxChanges = 1
  MaxClicks = 2
  ConfigurationPages = {"configmaps", "rbac"}
  MaxSteps = 3
  Objects = {"a", "b", "sys"}
  System = {"sys"}
  MaxNamespaceSteps = 4
  Nodes = {"m", "w"}
  Masters = {"m"}
  MaxLoads = 1
  MaxNodeClicks = 3
  Counters = {"resources"}
  MaxReloads = 1
  EventKinds = {"Pod", "Node"}
  Types = {"Warning", "Normal"}
  Namespaces = {"a", "b"}
  MaxFailures = 1
INVARIANTS
  PagesTypeOK
  WindowsMatchTitles
  SpinnersAreAsked
  ListsAreTrue
  OneDeletion
PROPERTIES
  OvertakenLoses
  FailuresAreTold
CHECK_DEADLOCK FALSE
