----------------------------- MODULE MCAdminPages ------------------------------
(* The pages of servers, cluster set-up and applications: building the cluster from    *)
(* its playbooks, their manager, the installation and the files of Ansible, the        *)
(* terminal, the servers, the cluster and their place in it, the user's projects, and   *)
(* the windows of all pages. One of them is on the screen; the variables of the others *)
(* are unused.                                                                         *)
EXTENDS Integers, FiniteSets, Sequences

CONSTANTS
  Master, Workers, Books, MaxClusters, MaxFaults,          \* ClusterBootstrap
  Stems, Slots, MaxFlowClicks,                             \* PlaybookManager
  MaxChecks, MaxWindows, MaxPresses,                       \* AnsibleInstall
  MaxEdits,                                                \* AnsibleEditors
  Shells, MaxClients, MaxRetries, MaxDrops,                \* Terminal
  Cards, MaxDetails, MaxOps, Sessions,                     \* ServersPage
  Servers, MaxMoves,                                       \* AssignServers
  Nodes, NodeStatuses, MaxViews,                           \* ClusterPage
  Projects, Named, PerPage, Keys, MaxEnv, MaxActs,         \* ProjectsPage
  Reused, Renewed, MaxOpens,                               \* Windows
  MaxFailures                                              \* all but Windows

VARIABLES
  onScreen,   \* the page on screen
  done, member, etcd, admin, script, registered, network, made, online, faults, run,
  files, list, name, text, buttons, view, flows, clicks, failures, installed,
  nopasswd, token, checks, checking, status, due, opened, openings, window, sockets,
  runs, untold, backup, editors, shown, asked, busy, panel, tries, termWS, termInfo,
  tryKey, handlers, opening, autos, clients, shells, drops, connected, grid, loads,
  ops, windows, form, closing, mixed, db, tables, acts, careless, late, versions,
  summary, card, current, apps, term, tab, env, inputs, button, gone, page, newest,
  awaited, opens, changing, callbacks, appended, up, displayed, backdrops, locked,
  overflow, saved, ripe, crossed, session

Unused == "unused"

ClusterBootstrap == INSTANCE ClusterBootstrap
PlaybookManager == INSTANCE PlaybookManager WITH MaxClicks <- MaxFlowClicks
AnsibleInstall == INSTANCE AnsibleInstall
AnsibleEditors == INSTANCE AnsibleEditors WITH MaxActs <- MaxEdits
Terminal == INSTANCE Terminal WITH Servers <- Shells
ServersPage == INSTANCE ServersPage WITH Servers <- Cards
AssignServers == INSTANCE AssignServers WITH MaxActs <- MaxMoves
ClusterPage == INSTANCE ClusterPage WITH
  Servers <- Nodes, Statuses <- NodeStatuses, MaxActs <- MaxViews
ProjectsPage == INSTANCE ProjectsPage
Windows == INSTANCE Windows

\* Two operations of any kind on the servers, with loads that meet or a failure, or the edit
\* window five times opened or saved.
EveryUse ==
  {"delete", "shutdown", "disconnect", "metrics", "editOpen", "reconnectOpen", "add", "edit",
   "reconnect", "reload", "check", "refresh"}
ServerSessions ==
  {[uses |-> EveryUse, clicks |-> 2, loads |-> 2, failures |-> 0],
   [uses |-> EveryUse, clicks |-> 2, loads |-> 1, failures |-> 1],
   [uses |-> {"editOpen", "edit"}, clicks |-> 5, loads |-> 1, failures |-> 1]}

ASSUME PagesAssumption ==
  /\ ClusterBootstrap!BootstrapAssumption
  /\ PlaybookManager!PlaybookAssumption
  /\ AnsibleInstall!InstallAssumption
  /\ AnsibleEditors!EditorsAssumption
  /\ Terminal!TerminalAssumption
  /\ ServersPage!ServersPageAssumption
  /\ AssignServers!AssignAssumption
  /\ ClusterPage!ClusterPageAssumption
  /\ ProjectsPage!ProjectsAssumption
  /\ Windows!WindowsAssumption

\* The variables of the pages that are not on screen.
NotClusterBootstrap ==
  <<files, list, name, text, buttons, view, flows, clicks, failures, installed,
    nopasswd, token, checks, checking, status, due, opened, openings, window,
    sockets, runs, untold, backup, editors, shown, asked, busy, panel, tries,
    termWS, termInfo, tryKey, handlers, opening, autos, clients, shells, drops,
    connected, grid, loads, ops, windows, form, closing, mixed, db, tables, acts,
    careless, late, versions, summary, card, current, apps, term, tab, env,
    inputs, button, gone, page, newest, awaited, opens, changing, callbacks,
    appended, up, displayed, backdrops, locked, overflow, saved, ripe, crossed,
    session>>
NotPlaybookManager ==
  <<done, member, etcd, admin, script, registered, network, made, online, faults,
    run, installed, nopasswd, token, checks, checking, status, due, opened,
    openings, window, sockets, runs, untold, backup, editors, shown, asked, busy,
    panel, tries, termWS, termInfo, tryKey, handlers, opening, autos, clients,
    shells, drops, connected, grid, loads, ops, windows, form, closing, mixed, db,
    tables, acts, careless, late, versions, summary, card, current, apps, term,
    tab, env, inputs, button, gone, page, newest, awaited, opens, changing,
    callbacks, appended, up, displayed, backdrops, locked, overflow, saved, ripe,
    crossed, session>>
NotAnsibleInstall ==
  <<done, member, etcd, admin, script, registered, network, made, online, faults,
    run, files, list, name, text, buttons, view, flows, clicks, backup, editors,
    shown, asked, busy, panel, tries, termWS, termInfo, tryKey, handlers, opening,
    autos, clients, shells, drops, connected, grid, loads, ops, windows, form,
    closing, mixed, db, tables, acts, careless, late, versions, summary, card,
    current, apps, term, tab, env, inputs, button, gone, page, newest, awaited,
    opens, changing, callbacks, appended, up, displayed, backdrops, locked,
    overflow, saved, ripe, crossed, session>>
NotAnsibleEditors ==
  <<done, member, etcd, admin, script, registered, network, made, online, run,
    list, name, text, buttons, view, flows, clicks, failures, installed, nopasswd,
    token, checks, checking, status, due, opened, openings, window, sockets, runs,
    untold, termWS, termInfo, tryKey, handlers, opening, autos, clients, shells,
    drops, connected, grid, loads, ops, windows, form, closing, mixed, db, tables,
    acts, careless, late, versions, summary, card, current, apps, term, tab, env,
    inputs, button, gone, page, newest, awaited, opens, changing, callbacks,
    appended, up, displayed, backdrops, locked, overflow, saved, ripe, crossed,
    session>>
NotTerminal ==
  <<done, member, etcd, admin, script, registered, network, made, online, faults,
    run, files, list, name, text, buttons, view, flows, clicks, failures,
    installed, nopasswd, token, checks, checking, status, due, opened, openings,
    window, sockets, runs, untold, backup, editors, asked, busy, panel, tries,
    connected, grid, loads, ops, windows, form, closing, mixed, db, tables, acts,
    careless, late, versions, summary, card, current, apps, term, tab, env,
    inputs, button, gone, page, newest, awaited, opens, changing, callbacks,
    appended, up, displayed, backdrops, locked, overflow, saved, ripe, crossed,
    session>>
NotServersPage ==
  <<done, member, etcd, admin, script, registered, network, made, online, faults,
    run, files, list, name, text, buttons, view, flows, installed, nopasswd,
    token, checks, checking, due, opened, openings, window, sockets, runs, untold,
    backup, editors, shown, asked, panel, tries, termWS, termInfo, tryKey,
    handlers, opening, autos, clients, shells, drops, db, tables, acts, careless,
    late, versions, summary, card, current, apps, term, tab, env, inputs, button,
    gone, page, newest, awaited, opens, changing, callbacks, appended, up,
    displayed, backdrops, locked, overflow, saved, ripe>>
NotAssignServers ==
  <<done, member, etcd, admin, script, registered, network, made, online, faults,
    run, files, list, name, text, buttons, view, flows, clicks, installed,
    nopasswd, token, checks, checking, status, due, opened, openings, window,
    sockets, runs, untold, backup, editors, shown, asked, panel, tries, termWS,
    termInfo, tryKey, handlers, opening, autos, clients, shells, drops, connected,
    grid, loads, windows, form, closing, mixed, versions, summary, card, current,
    apps, term, tab, env, inputs, button, gone, page, newest, awaited, opens,
    changing, callbacks, appended, up, displayed, backdrops, locked, overflow,
    saved, ripe, crossed, session>>
NotClusterPage ==
  <<done, member, etcd, admin, script, registered, network, made, online, faults,
    run, files, list, name, text, buttons, view, flows, clicks, nopasswd, token,
    checks, checking, status, due, opened, openings, window, sockets, runs,
    untold, backup, editors, shown, asked, busy, panel, tries, termWS, termInfo,
    tryKey, handlers, opening, autos, clients, shells, drops, ops, windows, form,
    closing, mixed, tables, careless, apps, term, tab, env, inputs, button, gone,
    page, newest, awaited, opens, changing, callbacks, appended, up, displayed,
    backdrops, locked, overflow, saved, ripe, crossed, session>>
NotProjectsPage ==
  <<done, member, etcd, admin, script, registered, network, made, online, faults,
    run, files, name, text, buttons, view, flows, clicks, installed, nopasswd,
    token, checks, checking, status, due, opened, openings, window, sockets, runs,
    untold, backup, editors, shown, busy, panel, tries, termWS, termInfo, tryKey,
    handlers, opening, autos, clients, shells, drops, connected, grid, loads, ops,
    windows, form, closing, mixed, db, tables, careless, versions, summary, card,
    page, newest, awaited, opens, changing, callbacks, appended, up, displayed,
    backdrops, locked, overflow, saved, ripe, crossed, session>>
NotWindows ==
  <<done, member, etcd, admin, script, registered, network, made, online, faults,
    run, files, list, name, text, buttons, view, flows, clicks, failures,
    installed, nopasswd, token, checks, checking, status, opened, openings,
    window, sockets, runs, untold, backup, editors, busy, panel, tries, termWS,
    termInfo, tryKey, handlers, opening, autos, clients, shells, drops, connected,
    grid, loads, ops, windows, form, closing, mixed, db, tables, acts, careless,
    late, versions, summary, card, current, apps, term, tab, env, inputs, button,
    gone, session>>

Init ==
  \/ /\ onScreen = "bootstrap" /\ ClusterBootstrap!Init
     /\ files = Unused /\ list = Unused /\ name = Unused /\ text = Unused
     /\ buttons = Unused /\ view = Unused /\ flows = Unused /\ clicks = Unused
     /\ failures = Unused /\ installed = Unused /\ nopasswd = Unused
     /\ token = Unused /\ checks = Unused /\ checking = Unused
     /\ status = Unused /\ due = Unused /\ opened = Unused /\ openings = Unused
     /\ window = Unused /\ sockets = Unused /\ runs = Unused /\ untold = Unused
     /\ backup = Unused /\ editors = Unused /\ shown = Unused /\ asked = Unused
     /\ busy = Unused /\ panel = Unused /\ tries = Unused /\ termWS = Unused
     /\ termInfo = Unused /\ tryKey = Unused /\ handlers = Unused
     /\ opening = Unused /\ autos = Unused /\ clients = Unused
     /\ shells = Unused /\ drops = Unused /\ connected = Unused /\ grid = Unused
     /\ loads = Unused /\ ops = Unused /\ windows = Unused /\ form = Unused
     /\ closing = Unused /\ mixed = Unused /\ db = Unused /\ tables = Unused
     /\ acts = Unused /\ careless = Unused /\ late = Unused /\ versions = Unused
     /\ summary = Unused /\ card = Unused /\ current = Unused /\ apps = Unused
     /\ term = Unused /\ tab = Unused /\ env = Unused /\ inputs = Unused
     /\ button = Unused /\ gone = Unused /\ page = Unused /\ newest = Unused
     /\ awaited = Unused /\ opens = Unused /\ changing = Unused
     /\ callbacks = Unused /\ appended = Unused /\ up = Unused
     /\ displayed = Unused /\ backdrops = Unused /\ locked = Unused
     /\ overflow = Unused /\ saved = Unused /\ ripe = Unused /\ crossed = Unused
     /\ session = Unused
  \/ /\ onScreen = "playbooks" /\ PlaybookManager!Init
     /\ done = Unused /\ member = Unused /\ etcd = Unused /\ admin = Unused
     /\ script = Unused /\ registered = Unused /\ network = Unused
     /\ made = Unused /\ online = Unused /\ faults = Unused /\ run = Unused
     /\ installed = Unused /\ nopasswd = Unused /\ token = Unused
     /\ checks = Unused /\ checking = Unused /\ status = Unused /\ due = Unused
     /\ opened = Unused /\ openings = Unused /\ window = Unused
     /\ sockets = Unused /\ runs = Unused /\ untold = Unused /\ backup = Unused
     /\ editors = Unused /\ shown = Unused /\ asked = Unused /\ busy = Unused
     /\ panel = Unused /\ tries = Unused /\ termWS = Unused /\ termInfo = Unused
     /\ tryKey = Unused /\ handlers = Unused /\ opening = Unused
     /\ autos = Unused /\ clients = Unused /\ shells = Unused /\ drops = Unused
     /\ connected = Unused /\ grid = Unused /\ loads = Unused /\ ops = Unused
     /\ windows = Unused /\ form = Unused /\ closing = Unused /\ mixed = Unused
     /\ db = Unused /\ tables = Unused /\ acts = Unused /\ careless = Unused
     /\ late = Unused /\ versions = Unused /\ summary = Unused /\ card = Unused
     /\ current = Unused /\ apps = Unused /\ term = Unused /\ tab = Unused
     /\ env = Unused /\ inputs = Unused /\ button = Unused /\ gone = Unused
     /\ page = Unused /\ newest = Unused /\ awaited = Unused /\ opens = Unused
     /\ changing = Unused /\ callbacks = Unused /\ appended = Unused
     /\ up = Unused /\ displayed = Unused /\ backdrops = Unused
     /\ locked = Unused /\ overflow = Unused /\ saved = Unused /\ ripe = Unused
     /\ crossed = Unused /\ session = Unused
  \/ /\ onScreen = "install" /\ AnsibleInstall!Init
     /\ done = Unused /\ member = Unused /\ etcd = Unused /\ admin = Unused
     /\ script = Unused /\ registered = Unused /\ network = Unused
     /\ made = Unused /\ online = Unused /\ faults = Unused /\ run = Unused
     /\ files = Unused /\ list = Unused /\ name = Unused /\ text = Unused
     /\ buttons = Unused /\ view = Unused /\ flows = Unused /\ clicks = Unused
     /\ backup = Unused /\ editors = Unused /\ shown = Unused /\ asked = Unused
     /\ busy = Unused /\ panel = Unused /\ tries = Unused /\ termWS = Unused
     /\ termInfo = Unused /\ tryKey = Unused /\ handlers = Unused
     /\ opening = Unused /\ autos = Unused /\ clients = Unused
     /\ shells = Unused /\ drops = Unused /\ connected = Unused /\ grid = Unused
     /\ loads = Unused /\ ops = Unused /\ windows = Unused /\ form = Unused
     /\ closing = Unused /\ mixed = Unused /\ db = Unused /\ tables = Unused
     /\ acts = Unused /\ careless = Unused /\ late = Unused /\ versions = Unused
     /\ summary = Unused /\ card = Unused /\ current = Unused /\ apps = Unused
     /\ term = Unused /\ tab = Unused /\ env = Unused /\ inputs = Unused
     /\ button = Unused /\ gone = Unused /\ page = Unused /\ newest = Unused
     /\ awaited = Unused /\ opens = Unused /\ changing = Unused
     /\ callbacks = Unused /\ appended = Unused /\ up = Unused
     /\ displayed = Unused /\ backdrops = Unused /\ locked = Unused
     /\ overflow = Unused /\ saved = Unused /\ ripe = Unused /\ crossed = Unused
     /\ session = Unused
  \/ /\ onScreen = "editors" /\ AnsibleEditors!Init
     /\ done = Unused /\ member = Unused /\ etcd = Unused /\ admin = Unused
     /\ script = Unused /\ registered = Unused /\ network = Unused
     /\ made = Unused /\ online = Unused /\ run = Unused /\ list = Unused
     /\ name = Unused /\ text = Unused /\ buttons = Unused /\ view = Unused
     /\ flows = Unused /\ clicks = Unused /\ failures = Unused
     /\ installed = Unused /\ nopasswd = Unused /\ token = Unused
     /\ checks = Unused /\ checking = Unused /\ status = Unused /\ due = Unused
     /\ opened = Unused /\ openings = Unused /\ window = Unused
     /\ sockets = Unused /\ runs = Unused /\ untold = Unused /\ termWS = Unused
     /\ termInfo = Unused /\ tryKey = Unused /\ handlers = Unused
     /\ opening = Unused /\ autos = Unused /\ clients = Unused
     /\ shells = Unused /\ drops = Unused /\ connected = Unused /\ grid = Unused
     /\ loads = Unused /\ ops = Unused /\ windows = Unused /\ form = Unused
     /\ closing = Unused /\ mixed = Unused /\ db = Unused /\ tables = Unused
     /\ acts = Unused /\ careless = Unused /\ late = Unused /\ versions = Unused
     /\ summary = Unused /\ card = Unused /\ current = Unused /\ apps = Unused
     /\ term = Unused /\ tab = Unused /\ env = Unused /\ inputs = Unused
     /\ button = Unused /\ gone = Unused /\ page = Unused /\ newest = Unused
     /\ awaited = Unused /\ opens = Unused /\ changing = Unused
     /\ callbacks = Unused /\ appended = Unused /\ up = Unused
     /\ displayed = Unused /\ backdrops = Unused /\ locked = Unused
     /\ overflow = Unused /\ saved = Unused /\ ripe = Unused /\ crossed = Unused
     /\ session = Unused
  \/ /\ onScreen = "terminal" /\ Terminal!Init
     /\ done = Unused /\ member = Unused /\ etcd = Unused /\ admin = Unused
     /\ script = Unused /\ registered = Unused /\ network = Unused
     /\ made = Unused /\ online = Unused /\ faults = Unused /\ run = Unused
     /\ files = Unused /\ list = Unused /\ name = Unused /\ text = Unused
     /\ buttons = Unused /\ view = Unused /\ flows = Unused /\ clicks = Unused
     /\ failures = Unused /\ installed = Unused /\ nopasswd = Unused
     /\ token = Unused /\ checks = Unused /\ checking = Unused
     /\ status = Unused /\ due = Unused /\ opened = Unused /\ openings = Unused
     /\ window = Unused /\ sockets = Unused /\ runs = Unused /\ untold = Unused
     /\ backup = Unused /\ editors = Unused /\ asked = Unused /\ busy = Unused
     /\ panel = Unused /\ tries = Unused /\ connected = Unused /\ grid = Unused
     /\ loads = Unused /\ ops = Unused /\ windows = Unused /\ form = Unused
     /\ closing = Unused /\ mixed = Unused /\ db = Unused /\ tables = Unused
     /\ acts = Unused /\ careless = Unused /\ late = Unused /\ versions = Unused
     /\ summary = Unused /\ card = Unused /\ current = Unused /\ apps = Unused
     /\ term = Unused /\ tab = Unused /\ env = Unused /\ inputs = Unused
     /\ button = Unused /\ gone = Unused /\ page = Unused /\ newest = Unused
     /\ awaited = Unused /\ opens = Unused /\ changing = Unused
     /\ callbacks = Unused /\ appended = Unused /\ up = Unused
     /\ displayed = Unused /\ backdrops = Unused /\ locked = Unused
     /\ overflow = Unused /\ saved = Unused /\ ripe = Unused /\ crossed = Unused
     /\ session = Unused
  \/ /\ onScreen = "servers" /\ ServersPage!Init
     /\ done = Unused /\ member = Unused /\ etcd = Unused /\ admin = Unused
     /\ script = Unused /\ registered = Unused /\ network = Unused
     /\ made = Unused /\ online = Unused /\ faults = Unused /\ run = Unused
     /\ files = Unused /\ list = Unused /\ name = Unused /\ text = Unused
     /\ buttons = Unused /\ view = Unused /\ flows = Unused
     /\ installed = Unused /\ nopasswd = Unused /\ token = Unused
     /\ checks = Unused /\ checking = Unused /\ due = Unused /\ opened = Unused
     /\ openings = Unused /\ window = Unused /\ sockets = Unused
     /\ runs = Unused /\ untold = Unused /\ backup = Unused /\ editors = Unused
     /\ shown = Unused /\ asked = Unused /\ panel = Unused /\ tries = Unused
     /\ termWS = Unused /\ termInfo = Unused /\ tryKey = Unused
     /\ handlers = Unused /\ opening = Unused /\ autos = Unused
     /\ clients = Unused /\ shells = Unused /\ drops = Unused /\ db = Unused
     /\ tables = Unused /\ acts = Unused /\ careless = Unused /\ late = Unused
     /\ versions = Unused /\ summary = Unused /\ card = Unused
     /\ current = Unused /\ apps = Unused /\ term = Unused /\ tab = Unused
     /\ env = Unused /\ inputs = Unused /\ button = Unused /\ gone = Unused
     /\ page = Unused /\ newest = Unused /\ awaited = Unused /\ opens = Unused
     /\ changing = Unused /\ callbacks = Unused /\ appended = Unused
     /\ up = Unused /\ displayed = Unused /\ backdrops = Unused
     /\ locked = Unused /\ overflow = Unused /\ saved = Unused /\ ripe = Unused
  \/ /\ onScreen = "assign" /\ AssignServers!Init
     /\ done = Unused /\ member = Unused /\ etcd = Unused /\ admin = Unused
     /\ script = Unused /\ registered = Unused /\ network = Unused
     /\ made = Unused /\ online = Unused /\ faults = Unused /\ run = Unused
     /\ files = Unused /\ list = Unused /\ name = Unused /\ text = Unused
     /\ buttons = Unused /\ view = Unused /\ flows = Unused /\ clicks = Unused
     /\ installed = Unused /\ nopasswd = Unused /\ token = Unused
     /\ checks = Unused /\ checking = Unused /\ status = Unused /\ due = Unused
     /\ opened = Unused /\ openings = Unused /\ window = Unused
     /\ sockets = Unused /\ runs = Unused /\ untold = Unused /\ backup = Unused
     /\ editors = Unused /\ shown = Unused /\ asked = Unused /\ panel = Unused
     /\ tries = Unused /\ termWS = Unused /\ termInfo = Unused
     /\ tryKey = Unused /\ handlers = Unused /\ opening = Unused
     /\ autos = Unused /\ clients = Unused /\ shells = Unused /\ drops = Unused
     /\ connected = Unused /\ grid = Unused /\ loads = Unused
     /\ windows = Unused /\ form = Unused /\ closing = Unused /\ mixed = Unused
     /\ versions = Unused /\ summary = Unused /\ card = Unused
     /\ current = Unused /\ apps = Unused /\ term = Unused /\ tab = Unused
     /\ env = Unused /\ inputs = Unused /\ button = Unused /\ gone = Unused
     /\ page = Unused /\ newest = Unused /\ awaited = Unused /\ opens = Unused
     /\ changing = Unused /\ callbacks = Unused /\ appended = Unused
     /\ up = Unused /\ displayed = Unused /\ backdrops = Unused
     /\ locked = Unused /\ overflow = Unused /\ saved = Unused /\ ripe = Unused
     /\ crossed = Unused /\ session = Unused
  \/ /\ onScreen = "cluster" /\ ClusterPage!Init
     /\ done = Unused /\ member = Unused /\ etcd = Unused /\ admin = Unused
     /\ script = Unused /\ registered = Unused /\ network = Unused
     /\ made = Unused /\ online = Unused /\ faults = Unused /\ run = Unused
     /\ files = Unused /\ list = Unused /\ name = Unused /\ text = Unused
     /\ buttons = Unused /\ view = Unused /\ flows = Unused /\ clicks = Unused
     /\ nopasswd = Unused /\ token = Unused /\ checks = Unused
     /\ checking = Unused /\ status = Unused /\ due = Unused /\ opened = Unused
     /\ openings = Unused /\ window = Unused /\ sockets = Unused
     /\ runs = Unused /\ untold = Unused /\ backup = Unused /\ editors = Unused
     /\ shown = Unused /\ asked = Unused /\ busy = Unused /\ panel = Unused
     /\ tries = Unused /\ termWS = Unused /\ termInfo = Unused
     /\ tryKey = Unused /\ handlers = Unused /\ opening = Unused
     /\ autos = Unused /\ clients = Unused /\ shells = Unused /\ drops = Unused
     /\ ops = Unused /\ windows = Unused /\ form = Unused /\ closing = Unused
     /\ mixed = Unused /\ tables = Unused /\ careless = Unused /\ apps = Unused
     /\ term = Unused /\ tab = Unused /\ env = Unused /\ inputs = Unused
     /\ button = Unused /\ gone = Unused /\ page = Unused /\ newest = Unused
     /\ awaited = Unused /\ opens = Unused /\ changing = Unused
     /\ callbacks = Unused /\ appended = Unused /\ up = Unused
     /\ displayed = Unused /\ backdrops = Unused /\ locked = Unused
     /\ overflow = Unused /\ saved = Unused /\ ripe = Unused /\ crossed = Unused
     /\ session = Unused
  \/ /\ onScreen = "projects" /\ ProjectsPage!Init
     /\ done = Unused /\ member = Unused /\ etcd = Unused /\ admin = Unused
     /\ script = Unused /\ registered = Unused /\ network = Unused
     /\ made = Unused /\ online = Unused /\ faults = Unused /\ run = Unused
     /\ files = Unused /\ name = Unused /\ text = Unused /\ buttons = Unused
     /\ view = Unused /\ flows = Unused /\ clicks = Unused /\ installed = Unused
     /\ nopasswd = Unused /\ token = Unused /\ checks = Unused
     /\ checking = Unused /\ status = Unused /\ due = Unused /\ opened = Unused
     /\ openings = Unused /\ window = Unused /\ sockets = Unused
     /\ runs = Unused /\ untold = Unused /\ backup = Unused /\ editors = Unused
     /\ shown = Unused /\ busy = Unused /\ panel = Unused /\ tries = Unused
     /\ termWS = Unused /\ termInfo = Unused /\ tryKey = Unused
     /\ handlers = Unused /\ opening = Unused /\ autos = Unused
     /\ clients = Unused /\ shells = Unused /\ drops = Unused
     /\ connected = Unused /\ grid = Unused /\ loads = Unused /\ ops = Unused
     /\ windows = Unused /\ form = Unused /\ closing = Unused /\ mixed = Unused
     /\ db = Unused /\ tables = Unused /\ careless = Unused /\ versions = Unused
     /\ summary = Unused /\ card = Unused /\ page = Unused /\ newest = Unused
     /\ awaited = Unused /\ opens = Unused /\ changing = Unused
     /\ callbacks = Unused /\ appended = Unused /\ up = Unused
     /\ displayed = Unused /\ backdrops = Unused /\ locked = Unused
     /\ overflow = Unused /\ saved = Unused /\ ripe = Unused /\ crossed = Unused
     /\ session = Unused
  \/ /\ onScreen = "windows" /\ Windows!Init
     /\ done = Unused /\ member = Unused /\ etcd = Unused /\ admin = Unused
     /\ script = Unused /\ registered = Unused /\ network = Unused
     /\ made = Unused /\ online = Unused /\ faults = Unused /\ run = Unused
     /\ files = Unused /\ list = Unused /\ name = Unused /\ text = Unused
     /\ buttons = Unused /\ view = Unused /\ flows = Unused /\ clicks = Unused
     /\ failures = Unused /\ installed = Unused /\ nopasswd = Unused
     /\ token = Unused /\ checks = Unused /\ checking = Unused
     /\ status = Unused /\ opened = Unused /\ openings = Unused
     /\ window = Unused /\ sockets = Unused /\ runs = Unused /\ untold = Unused
     /\ backup = Unused /\ editors = Unused /\ busy = Unused /\ panel = Unused
     /\ tries = Unused /\ termWS = Unused /\ termInfo = Unused
     /\ tryKey = Unused /\ handlers = Unused /\ opening = Unused
     /\ autos = Unused /\ clients = Unused /\ shells = Unused /\ drops = Unused
     /\ connected = Unused /\ grid = Unused /\ loads = Unused /\ ops = Unused
     /\ windows = Unused /\ form = Unused /\ closing = Unused /\ mixed = Unused
     /\ db = Unused /\ tables = Unused /\ acts = Unused /\ careless = Unused
     /\ late = Unused /\ versions = Unused /\ summary = Unused /\ card = Unused
     /\ current = Unused /\ apps = Unused /\ term = Unused /\ tab = Unused
     /\ env = Unused /\ inputs = Unused /\ button = Unused /\ gone = Unused
     /\ session = Unused

Next ==
  \/ onScreen = "bootstrap" /\ ClusterBootstrap!Next /\ UNCHANGED <<onScreen, NotClusterBootstrap>>
  \/ onScreen = "playbooks" /\ PlaybookManager!Next /\ UNCHANGED <<onScreen, NotPlaybookManager>>
  \/ onScreen = "install" /\ AnsibleInstall!Next /\ UNCHANGED <<onScreen, NotAnsibleInstall>>
  \/ onScreen = "editors" /\ AnsibleEditors!Next /\ UNCHANGED <<onScreen, NotAnsibleEditors>>
  \/ onScreen = "terminal" /\ Terminal!Next /\ UNCHANGED <<onScreen, NotTerminal>>
  \/ onScreen = "servers" /\ ServersPage!Next /\ UNCHANGED <<onScreen, NotServersPage>>
  \/ onScreen = "assign" /\ AssignServers!Next /\ UNCHANGED <<onScreen, NotAssignServers>>
  \/ onScreen = "cluster" /\ ClusterPage!Next /\ UNCHANGED <<onScreen, NotClusterPage>>
  \/ onScreen = "projects" /\ ProjectsPage!Next /\ UNCHANGED <<onScreen, NotProjectsPage>>
  \/ onScreen = "windows" /\ Windows!Next /\ UNCHANGED <<onScreen, NotWindows>>

vars ==
  <<onScreen, done, member, etcd, admin, script, registered, network, made, online,
    faults, run, files, list, name, text, buttons, view, flows, clicks, failures,
    installed, nopasswd, token, checks, checking, status, due, opened, openings,
    window, sockets, runs, untold, backup, editors, shown, asked, busy, panel,
    tries, termWS, termInfo, tryKey, handlers, opening, autos, clients, shells,
    drops, connected, grid, loads, ops, windows, form, closing, mixed, db, tables,
    acts, careless, late, versions, summary, card, current, apps, term, tab, env,
    inputs, button, gone, page, newest, awaited, opens, changing, callbacks,
    appended, up, displayed, backdrops, locked, overflow, saved, ripe, crossed,
    session>>

Spec == Init /\ [][Next]_vars

-------------------------------------------------------------------------------
(* The properties of the pages, each for its own page                         *)

\* Each page's variables have their types.
PagesTypeOK ==
  /\ onScreen = "bootstrap" => ClusterBootstrap!BootstrapTypeOK
  /\ onScreen = "playbooks" => PlaybookManager!TypeOK
  /\ onScreen = "install" => AnsibleInstall!InstallTypeOK
  /\ onScreen = "editors" => AnsibleEditors!EditorsTypeOK
  /\ onScreen = "terminal" => Terminal!TerminalTypeOK
  /\ onScreen = "servers" => ServersPage!ServersTypeOK
  /\ onScreen = "assign" => AssignServers!AssignTypeOK
  /\ onScreen = "cluster" => ClusterPage!ClusterPageTypeOK
  /\ onScreen = "projects" => ProjectsPage!ProjectsTypeOK
  /\ onScreen = "windows" => Windows!WindowsTypeOK

\* The generated playbooks do what they are for, whatever earlier runs, broken off
\* anywhere, left on the hosts: a deployment in which nothing failed by accident but
\* the cleaning tasks, which ignore errors, makes one cluster of all machines, and
\* does not break off when it finds containerd on each; and where nothing failed by
\* accident every worker that has what joining needs is in the master's cluster after
\* 07, 14 or a deployment, wherever it was before (playbook-manager.js).
DeploysWork ==
  onScreen = "bootstrap" =>
    /\ ClusterBootstrap!DeployRepairs
    /\ ClusterBootstrap!DeployCompletes
    /\ ClusterBootstrap!WorkersJoined

\* An operation destroys nothing it was not asked to. Preparing and joining the
\* workers that are not ready leaves alone those the cluster showed Ready, unless the
\* look itself failed by accident or the master's kubeconfig is of an earlier cluster
\* (playbook-manager.js). A file that has a content is never emptied from Ansible's
\* window, neither by saving editors that a failed or partial reading emptied, nor by
\* rolling back to a copy never made (ansibleConfig.js). A server that leaves the
\* cluster keeps its role, unless something failed or was done meanwhile
\* (k8sClusters.js).
NothingUndone ==
  [][/\ onScreen = "bootstrap" => ClusterBootstrap!RepairLeavesReadyAlone
     /\ onScreen = "editors" => AnsibleEditors!NothingEmptied
     /\ onScreen = "assign" => AssignServers!RoleKept]_vars

\* What one does is done to what the page shows. No playbook's text stands in the
\* editor under another's name, or is saved under it, whatever flows overlap and
\* whatever answers come late (playbook-manager.js). A run of Ansible does what the
\* window's title said when its command was started, even when the window has been
\* opened for something else before the socket opened (ansibleWebSocket.js). A field
\* of the user's form changes the variable it shows (user.js). The shell one types
\* into is the title's server's, whatever clients were replaced, put off their
\* connection or opened late; a server's shell is behind the terminal's socket, or
\* behind one being closed; and the open socket has been told the server to log in to
\* before any key can be sent through it: keystrokes are never taken for a login
\* (servers.js, wsClient.js).
ActsOnWhatIsShown ==
  /\ onScreen = "playbooks" => PlaybookManager!TextUnderItsName
  /\ onScreen = "install" => AnsibleInstall!RunIsPressed
  /\ onScreen = "projects" => ProjectsPage!FieldsAreEnv
  /\ onScreen = "terminal" => /\ Terminal!ShellOfTitle
                             /\ Terminal!OnlyCurrentHasShell
                             /\ Terminal!LoginFirst

\* A button is at work exactly while its own operation is, however operations end and
\* windows are opened again, and no operation with a button is under way twice: the
\* newest check of Ansible, the editors' requests, the saves, checks and refreshes of
\* servers, and the upload (ansibleConfig.js, servers.js, user.js); and the cluster's
\* card says that it checks only while Kubernetes' version is awaited (k8sClusters.js).
\* Two saves of one server's window may be under way where the end of an earlier save,
\* which awaits its load, has enabled the button during the next (`finally`, servers.js),
\* and two of the window to add, whose opening resets its button.
BusyIsAsked ==
  /\ onScreen = "install" => AnsibleInstall!NewestIsShown
  /\ onScreen = "editors" => AnsibleEditors!SettledEditors
  /\ onScreen = "servers" => ServersPage!OneSave /\ ServersPage!BusyIsAsked
  /\ onScreen = "projects" => ProjectsPage!OneUpload
  /\ onScreen = "cluster" => ClusterPage!CheckingIsAsked

\* Once a page waits for nothing it shows what is so, however its operations
\* overlapped, unless a request failed or an answer came late: whether Ansible is
\* there (ansibleWebSocket.js), the servers' cards (servers.js), the servers in and
\* out of the cluster, its summary and their grid (k8sClusters.js), and the page of
\* the user's projects under the search, which is never past the last one (user.js).
\* Once no window opens or closes nothing covers the page when none is up, and one
\* that is open is seen over its own backdrop, unless its opening met another's end or
\* a second one of its own (modal.js, admin.js).
SettledIsTrue ==
  /\ onScreen = "install" => AnsibleInstall!SettledStatus
  /\ onScreen = "servers" => ServersPage!SettledCards
  /\ onScreen = "assign" => AssignServers!SettledTables
  /\ onScreen = "projects" => ProjectsPage!SettledProjects /\ ProjectsPage!PageHasProjects
  /\ onScreen = "cluster" => ClusterPage!SettledCluster
  /\ onScreen = "windows" => Windows!NothingLeft /\ Windows!OpenIsCovered

\* One operation after another, with no failure, makes no second master, whichever
\* rows they change and remove, as long as none is assigned as MASTER and none are
\* made MASTER together ("Cum chi co the co 1 master", k8sClusters.js:580, without its
\* accents).
OneMaster == onScreen = "assign" => AssignServers!OneMaster

================================================================================
