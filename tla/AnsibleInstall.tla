---------------------------- MODULE AnsibleInstall ----------------------------
(***************************************************************************)
(* Ansible's status on the cluster set-up page and its installation there  *)
(* (ansibleConfig.js, ansibleWebSocket.js): checks of the status, of which *)
(* a token keeps the newest; the window a button of the status opens after *)
(* three requests; and the WebSocket over which its command is sent and    *)
(* the server's run reports. The callbacks belong to the module and not to *)
(* a socket. A run goes on when its socket is gone, and nothing keeps two  *)
(* runs apart. There is one controller.                                    *)
(***************************************************************************)
EXTENDS Integers, FiniteSets, Sequences

CONSTANTS
  MaxChecks, MaxWindows, MaxPresses,   \* bounds: checks, openings, starts
  MaxFailures                          \* bound: failures, offline and empty answers

\* Assumed where the constants are given values.
InstallAssumption == {MaxChecks, MaxWindows, MaxPresses, MaxFailures} \subseteq Nat

VARIABLES
  installed,  \* whether the controller has Ansible
  nopasswd,   \* whether its user may use sudo without a password
  token, checks, checking,   \* the newest check; those under way; the button's spinner
  status,     \* what the page shows: of which check, the badge, the buttons
  due,        \* checks that a timer will start
  opened, openings,   \* openings of the window: how many, those under way
  window,
  sockets,    \* the WebSockets in the order of their creation
  runs,       \* the server's runs
  failures,
  untold      \* whether a run has ended that no check was asked for after

installVars == <<installed, nopasswd, token, checks, checking, status, due, opened,
                 openings, window, sockets, runs, failures, untold>>

Badges == {"unknown", "installed", "not_installed", "offline"}
Modes == {"install", "reinstall", "uninstall"}

Init ==
  /\ installed \in BOOLEAN /\ nopasswd \in BOOLEAN
  /\ token = 0 /\ checks = {} /\ checking = FALSE
  /\ status = [token |-> 0, badge |-> "unknown", buttons |-> {}]
  /\ due = 1 /\ opened = 0 /\ openings = {}
  /\ window = [open |-> FALSE, mode |-> "install", asks |-> 0, free |-> 0,
               output |-> FALSE, complete |-> FALSE]
  /\ sockets = <<>> /\ runs = {} /\ failures = 0 /\ untold = FALSE

Failure == failures < MaxFailures /\ failures' = failures + 1
Unfailing == UNCHANGED failures

-------------------------------------------------------------------------------
(* The status                                                              *)

Checks ==
  /\ token < MaxChecks
  /\ token' = token + 1
  /\ checks' = checks \cup {[token |-> token + 1, at |-> "cluster", answer |-> "none"]}
  /\ checking' = TRUE

UnchangedStatus == UNCHANGED <<token, checks, checking, status, due>>
UnchangedWindow == UNCHANGED <<opened, openings, window>>
UnchangedRuns == UNCHANGED <<installed, nopasswd, sockets, runs>>

ClickCheck ==
  /\ ~checking /\ ~window.open
  /\ Checks
  /\ UNCHANGED <<status, due, failures, untold>> /\ UnchangedWindow /\ UnchangedRuns

\* A timer's check: of the page's load when there are a cluster and servers, and of a
\* command that was carried out.
DueCheck ==
  /\ due > 0 /\ due' = due - 1
  /\ \/ Checks
     \/ token = 0 /\ UNCHANGED <<token, checks, checking>>
  /\ UNCHANGED <<status, failures, untold>> /\ UnchangedWindow /\ UnchangedRuns

\* The button of the installation's end closes the window and checks.
Complete ==
  /\ window.open /\ window.complete
  /\ window' = [window EXCEPT !.open = FALSE]
  /\ Checks
  /\ UNCHANGED <<status, due, opened, openings, failures, untold>> /\ UnchangedRuns

GotCluster(c) ==
  /\ c.at = "cluster"
  /\ checks' = (checks \ {c}) \cup {[c EXCEPT !.at = "status"]}
  /\ UNCHANGED <<token, checking, status, due, failures, untold>>
  /\ UnchangedWindow /\ UnchangedRuns

\* The server looks at the controller.
Look(c) ==
  /\ c.at = "status"
  /\ \E answer \in {"installed", "not_installed", "offline", "empty"} :
       /\ \/ answer = (IF installed THEN "installed" ELSE "not_installed") /\ Unfailing
          \/ answer \in {"offline", "empty"} /\ Failure
       /\ checks' = (checks \ {c}) \cup {[c EXCEPT !.at = "answered", !.answer = answer]}
  /\ untold' = (untold /\ c.token # token)
  /\ UNCHANGED <<token, checking, status, due>> /\ UnchangedWindow /\ UnchangedRuns

Buttons(answer) ==
  CASE answer = "installed" -> {"reinstall", "uninstall"}
    [] answer = "not_installed" -> {"install"}
    [] OTHER -> {}

\* Only the newest check's answer is shown. That of no server at all ends in an error:
\* it is written with a function that does not exist.
IsNewest(c) == c.token = token

Shows(c, badge, buttons) ==
  /\ checks' = checks \ {c}
  /\ IF IsNewest(c)
       THEN /\ status' = [token |-> c.token, badge |-> badge, buttons |-> buttons]
            /\ checking' = FALSE
       ELSE UNCHANGED <<status, checking>>
  /\ UNCHANGED <<token, due>>

Show(c) ==
  /\ c.at = "answered"
  /\ Shows(c, IF c.answer = "empty" THEN "unknown" ELSE c.answer, Buttons(c.answer))
  /\ UNCHANGED <<failures, untold>> /\ UnchangedWindow /\ UnchangedRuns

\* A check that fails leaves the buttons.
CheckFails(c) ==
  /\ c.at \in {"cluster", "status"}
  /\ Failure
  /\ Shows(c, "unknown", status.buttons)
  /\ UNCHANGED untold /\ UnchangedWindow /\ UnchangedRuns

-------------------------------------------------------------------------------
(* The window                                                              *)

Open(mode) ==
  /\ mode \in status.buttons /\ ~window.open
  /\ opened < MaxWindows
  /\ opened' = opened + 1
  /\ openings' = openings \cup {[id |-> opened + 1, mode |-> mode, at |-> "cluster"]}
  /\ UNCHANGED <<window, failures, untold>> /\ UnchangedStatus /\ UnchangedRuns

\* The controller is one of the cluster's nodes, or the status is asked for its role; the
\* window's inputs are emptied.
NodeKnown(o) ==
  /\ o.at \in {"cluster", "role"}
  /\ openings' = (openings \ {o}) \cup {[o EXCEPT !.at = "sudo"]}
  /\ window' = [window EXCEPT !.asks = 0, !.free = 0]
  /\ UNCHANGED <<opened, failures, untold>> /\ UnchangedStatus /\ UnchangedRuns

NodeUnknown(o) ==
  /\ o.at = "cluster"
  /\ openings' = (openings \ {o}) \cup {[o EXCEPT !.at = "role"]}
  /\ UNCHANGED <<opened, window, failures, untold>> /\ UnchangedStatus /\ UnchangedRuns

OpeningFails(o) ==
  /\ o.at = "cluster"
  /\ Failure
  /\ openings' = openings \ {o}
  /\ UNCHANGED <<opened, window, untold>> /\ UnchangedStatus /\ UnchangedRuns

\* The answer about sudo, or its failure: an input or a remark is added, the title, the
\* mode and the buttons are set and the window shown.
GotSudo(o) ==
  /\ o.at = "sudo"
  /\ openings' = openings \ {o}
  /\ \E free \in BOOLEAN :
       /\ \/ free = nopasswd /\ Unfailing
          \/ free = FALSE /\ nopasswd /\ Failure
       /\ window' = [open |-> TRUE, mode |-> o.mode, output |-> FALSE, complete |-> FALSE,
                     asks |-> window.asks + (IF free THEN 0 ELSE 1),
                     free |-> window.free + (IF free THEN 1 ELSE 0)]
  /\ UNCHANGED <<opened, untold>> /\ UnchangedStatus /\ UnchangedRuns

Close ==
  /\ window.open
  /\ window' = [window EXCEPT !.open = FALSE]
  /\ UNCHANGED <<opened, openings, failures, untold>> /\ UnchangedStatus /\ UnchangedRuns

-------------------------------------------------------------------------------
(* The command                                                             *)

Newest == Len(sockets)

\* Start: with a password typed, or a remark that none is needed. The newest socket is
\* closed if it is open, and another created.
Start(password) ==
  /\ window.open /\ ~window.output
  /\ password => window.asks > 0
  /\ password \/ window.free > 0
  /\ Newest < MaxPresses
  /\ window' = [window EXCEPT !.output = TRUE]
  /\ sockets' =
       Append([i \in 1..Newest |->
                 IF i = Newest /\ sockets[i].state = "open"
                   THEN [sockets[i] EXCEPT !.state = "closed"] ELSE sockets[i]],
              [state |-> "connecting", mode |-> window.mode, password |-> password])
  /\ UNCHANGED <<installed, nopasswd, runs, opened, openings, failures, untold>>
  /\ UnchangedStatus

\* The command of the press that is the newest, sent if the window still has a password or
\* a remark; the server's run begins.
Commands(opens) ==
  LET s == sockets'[Newest]
  IN  \E password \in {s.password, s.password \/ window.asks > 0} :
        IF s.state = "open" /\ (password \/ window.free > 0)
          THEN runs' = runs \cup {[socket |-> Newest, by |-> opens, mode |-> s.mode,
                                   password |-> password]}
          ELSE runs' = runs

\* Whichever socket opens, the newest press's callback is called.
SocketOpens(i) ==
  /\ sockets[i].state = "connecting"
  /\ sockets' = [sockets EXCEPT ![i].state = "open"]
  /\ Commands(i)
  /\ UNCHANGED <<installed, nopasswd, failures, untold>>
  /\ UnchangedStatus /\ UnchangedWindow

SocketLost(i) ==
  /\ sockets[i].state # "closed"
  /\ Failure
  /\ sockets' = [sockets EXCEPT ![i].state = "closed"]
  /\ UNCHANGED <<installed, nopasswd, runs, untold>>
  /\ UnchangedStatus /\ UnchangedWindow

\* The server asks for a password it was not given: an error, and no end is reported.
RunRefused(r) ==
  /\ ~nopasswd /\ ~r.password
  /\ runs' = runs \ {r}
  /\ UNCHANGED <<installed, nopasswd, sockets, failures, untold>>
  /\ UnchangedStatus /\ UnchangedWindow

\* The end of a run, reported over its socket. What it left installed is its own affair: a
\* removal that leaves Ansible in the path is reported as carried out. After a success the
\* status is checked two seconds later.
Told(r, done) ==
  /\ due' = IF done THEN due + 1 ELSE due
  /\ window' = [window EXCEPT !.complete = TRUE]

RunEnds(r, done) ==
  /\ nopasswd \/ r.password
  /\ runs' = runs \ {r}
  /\ installed' \in BOOLEAN
  /\ IF sockets[r.socket].state = "open"
       THEN Told(r, done)
       ELSE UNCHANGED <<due, window>>
  /\ untold' = (untold \/ ~done \/ sockets[r.socket].state # "open")
  /\ UNCHANGED <<nopasswd, token, checks, checking, status, opened, openings, sockets,
                 failures>>

-------------------------------------------------------------------------------
StatusNext ==
  \/ ClickCheck \/ DueCheck \/ Complete
  \/ \E c \in checks : GotCluster(c) \/ Look(c) \/ Show(c) \/ CheckFails(c)
WindowNext ==
  \/ \E mode \in Modes : Open(mode)
  \/ \E o \in openings : NodeKnown(o) \/ NodeUnknown(o) \/ OpeningFails(o) \/ GotSudo(o)
  \/ Close
RunNext ==
  \/ \E password \in BOOLEAN : Start(password)
  \/ \E i \in 1..Newest : SocketOpens(i) \/ SocketLost(i)
  \/ \E r \in runs : RunRefused(r) \/ \E done \in BOOLEAN : RunEnds(r, done)

Next == StatusNext \/ WindowNext \/ RunNext

Spec == Init /\ [][Next]_installVars

-------------------------------------------------------------------------------
(* Properties                                                              *)

InstallTypeOK ==
  /\ {installed, nopasswd, checking, untold} \subseteq BOOLEAN
  /\ token \in 0..MaxChecks /\ opened \in 0..MaxWindows /\ failures \in 0..MaxFailures
  /\ \A c \in checks : c.token \in 1..token /\ c.at \in {"cluster", "status", "answered"}
  /\ status.token \in 0..token /\ status.badge \in Badges /\ status.buttons \subseteq Modes
  /\ due \in Nat
  /\ window.mode \in Modes /\ {window.asks, window.free} \subseteq 0..MaxWindows
  /\ \A i \in 1..Newest : sockets[i].state \in {"connecting", "open", "closed"}
  /\ \A r \in runs : r.socket \in 1..Newest /\ r.mode \in Modes

\* The button spins exactly while the newest check is under way, whatever older ones do,
\* and when it does not the status shown is the newest check's (checkAnsibleStatus).
NewestIsShown ==
  /\ checking <=> \E c \in checks : c.token = token
  /\ ~checking => status.token = token

\* A run does what the window's title said when its command was started, even when the
\* window has been opened for something else before the socket opened.
RunIsPressed == \A r \in runs : r.mode = sockets[r.socket].mode

\* With nothing under way the badge tells whether Ansible is there, unless a run failed or
\* ended unheard after the last check.
Quiet == checks = {} /\ due = 0 /\ runs = {}
SettledStatus ==
  Quiet /\ ~untold /\ status.badge \in {"installed", "not_installed"}
    => (status.badge = "installed") = installed
===============================================================================
