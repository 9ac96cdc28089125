SPECIFICATION Spec
CONSTANTS
  Master = Master
  Workers = {w1, w2}
  Books = {"reset", "hosts", "kernel", "containerd", "kubernetes", "init", "calico", "flannel", "join", "verify", "helm", "metrics", "ingress", "metallb", "storage", "prepareJoin", "deploy", "deployFlannel"}
  MaxClusters = 2
  MaxFaults = 1
  Stems = {"a", "b"}
  Slots = {s1, s2}
  MaxFlowClicks = 3
  MaxChecks = 2
  MaxWindows = 2
  MaxPresses = 2
  MaxEdits = 4
  Shells = {"s1", "s2"}
  MaxClients = 2
  MaxRetries = 1
  MaxDrops = 2
  Cards = {"s1"}
  MaxDetails = 1
  MaxOps = 2
  Sessions <- ServerSessions
  Servers = {1, 2}
  MaxMoves = 2
  Nodes = {1}
  NodeStatuses = {"ONLINE", "OFFLINE"}
  MaxViews = 2
  Reused = {"A", "B"}
  Renewed = {"N"}
  MaxOpens = 3
  Projects = {1, 2, 3}
  Named = {2}
  PerPage = 1
  Keys = {"", "K"}
  MaxEnv = 2
  MaxActs = 3
  MaxFailures = 1
INVARIANTS
  PagesTypeOK
  DeploysWork
  ActsOnWhatIsShown
  BusyIsAsked
  SettledIsTrue
  OneMaster
PROPERTIES
  NothingUndone
CHECK_DEADLOCK FALSE
