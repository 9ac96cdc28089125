-------------------------------- MODULE Terminal --------------------------------
(***************************************************************************)
(* The web terminal, end to end: the terminal of servers.js, the WebSocket *)
(* client of wsClient.js that connects again by itself, and the server's   *)
(* TerminalWebSocketHandler, which takes the first message of a socket for *)
(* the server to log in to and every later one for input of the shell.     *)
(*                                                                         *)
(* Each connection makes a client of its own; termWS is the last. What a   *)
(* client does when its socket opens reads termWS and termInfo at that     *)
(* moment, so clients that were replaced meet the newer one's state.       *)
(***************************************************************************)
EXTENDS Integers, FiniteSets

CONSTANTS
  Servers,       \* the servers a terminal may be opened on
  MaxClients,    \* bound: clients made
  MaxRetries,    \* WSClient's maxRetries: 10 in the program
  MaxDrops       \* bound: sockets that fail or shells that end

\* Assumed where the constants are given values.
TerminalAssumption ==
  "none" \notin Servers /\ {MaxClients, MaxRetries, MaxDrops} \subseteq Nat

VARIABLES
  termWS,     \* the client termWS refers to, 0 if null
  termInfo,   \* the server termInfo describes
  shown,      \* whether the terminal's window is
  tryKey,     \* termTrySshKey
  handlers,   \* onData handlers of the xterm instance, -1 if there is none
  opening,    \* openTerminal's requests under way
  autos,      \* connectTerminalAuto timers set and not fired
  clients,    \* the WSClients made
  shells,     \* for each client's socket, what the server does for it, and for which server
  drops

termVars == <<termWS, termInfo, shown, tryKey, handlers, opening, autos, clients, shells, drops>>

Made == DOMAIN clients
Client(kind, pass) ==
  [kind |-> kind, pass |-> pass, manual |-> FALSE, retry |-> 0, timer |-> FALSE, socket |-> "connecting"]
Idle == [state |-> "idle", of |-> "none"]
IsOpen(c) == c # 0 /\ clients[c].socket = "open"

\* WSClient.close: it marks the client, and closes the socket it has at that time. A
\* connection it has put off is not called off.
Closing(cl) == [cl EXCEPT !.manual = TRUE,
                          !.socket = IF @ \in {"connecting", "open"} THEN "closing" ELSE @]
WithClosed(c) == IF c = 0 THEN clients ELSE [clients EXCEPT ![c] = Closing(@)]

Init ==
  /\ termWS = 0 /\ termInfo = "none" /\ shown = FALSE /\ tryKey = FALSE /\ handlers = -1
  /\ opening = {} /\ autos = 0
  /\ clients = <<>> /\ shells = <<>>
  /\ drops = 0

Drop == drops < MaxDrops /\ drops' = drops + 1

-------------------------------------------------------------------------------
\* openTerminal asks for the servers. (Opened only while its client may still be made.)
OpenTerminal(s) ==
  /\ ~shown /\ s \notin opening
  /\ Cardinality(Made) + autos + Cardinality(opening) < MaxClients
  /\ opening' = opening \cup {s}
  /\ UNCHANGED <<termWS, termInfo, shown, tryKey, handlers, autos, clients, shells, drops>>

\* Their answer: the old terminal and client go, and a timer will connect.
GotInfo(s) ==
  /\ s \in opening /\ opening' = opening \ {s}
  /\ termInfo' = s /\ shown' = TRUE /\ tryKey' = FALSE
  /\ handlers' = -1 /\ autos' = autos + 1
  /\ clients' = WithClosed(termWS) /\ termWS' = 0
  /\ UNCHANGED <<shells, drops>>

\* The window's buttons only hide it: nothing calls closeTerminal.
HideTerminal ==
  /\ shown /\ shown' = FALSE
  /\ UNCHANGED <<termWS, termInfo, tryKey, handlers, opening, autos, clients, shells, drops>>

\* A new client, and one more handler of keystrokes on the terminal there is.
Connect(kind, pass, key) ==
  /\ Cardinality(Made) < MaxClients
  /\ LET c == Cardinality(Made) + 1 IN
       /\ clients' = [d \in 1..c |-> IF d = c THEN Client(kind, pass) ELSE WithClosed(termWS)[d]]
       /\ shells' = [d \in 1..c |-> IF d = c THEN Idle ELSE shells[d]]
       /\ termWS' = c
  /\ handlers' = IF handlers = -1 THEN 1 ELSE handlers + 1
  /\ tryKey' = key

\* connectTerminal, by the button, with or without a password in the field.
ConnectTerminal(pass) ==
  /\ shown /\ ~IsOpen(termWS)
  /\ Connect("manual", pass, FALSE)
  /\ UNCHANGED <<termInfo, shown, opening, autos, drops>>

\* connectTerminalAuto, by the timer.
ConnectAuto ==
  /\ autos > 0 /\ autos' = autos - 1
  /\ IF IsOpen(termWS)
     THEN UNCHANGED <<termWS, tryKey, handlers, clients, shells>>
     ELSE Connect("auto", FALSE, TRUE)
  /\ UNCHANGED <<termInfo, shown, opening, drops>>

-------------------------------------------------------------------------------
\* What reaches the server on a socket: the first message starts a login.
Sent(c, s) == [shells EXCEPT ![c] = IF @.state = "idle" THEN [state |-> "trying", of |-> s] ELSE @]

\* A socket opens: onOpen sends termInfo through termWS, if that is there and open.
SocketOpens(c) ==
  /\ clients[c].socket = "connecting"
  /\ clients' = [clients EXCEPT ![c].socket = "open", ![c].retry = 0]
  /\ shells' = IF c = termWS \/ IsOpen(termWS) THEN Sent(termWS, termInfo) ELSE shells
  /\ tryKey' = IF clients[c].kind = "manual" /\ ~clients[c].pass /\ termWS # 0 THEN TRUE ELSE tryKey
  /\ UNCHANGED <<termWS, termInfo, shown, handlers, opening, autos, drops>>

\* A closed socket is opened again after a while, a bounded number of times, unless the
\* client closed it.
Retries(cl) == ~cl.manual /\ cl.retry < MaxRetries
Ended(cl) == [cl EXCEPT !.socket = "closed", !.timer = Retries(cl),
                        !.retry = IF Retries(cl) THEN @ + 1 ELSE @]

\* A socket fails to open: onError, then what onclose does.
SocketFails(c) ==
  /\ clients[c].socket = "connecting" /\ Drop
  /\ clients' = [clients EXCEPT ![c] = Ended(@)]
  /\ tryKey' = FALSE
  /\ UNCHANGED <<termWS, termInfo, shown, handlers, opening, autos, shells>>

\* A socket is closed by the server, or a close of the client's is through; the server
\* ends the shell it had for it.
SocketCloses(c) ==
  /\ \/ clients[c].socket = "closing"
     \/ clients[c].socket = "open" /\ shells[c].state = "ended"
  /\ clients' = [clients EXCEPT ![c] = Ended(@)]
  /\ shells' = [shells EXCEPT ![c] = Idle]
  /\ UNCHANGED <<termWS, termInfo, shown, tryKey, handlers, opening, autos, drops>>

\* The timer of scheduleReconnect connects, whatever was closed meanwhile.
Reconnect(c) ==
  /\ clients[c].timer
  /\ clients' = [clients EXCEPT ![c].timer = FALSE, ![c].socket = "connecting"]
  /\ UNCHANGED <<termWS, termInfo, shown, tryKey, handlers, opening, autos, shells, drops>>

-------------------------------------------------------------------------------
\* The server logs in, by the server's key or by the password sent.
Login(c) ==
  /\ shells[c].state = "trying" /\ shells[c].of # "none"
  /\ shells' = [shells EXCEPT ![c].state = "shell"]
  /\ UNCHANGED <<termWS, termInfo, shown, tryKey, handlers, opening, autos, clients, drops>>

\* It cannot: it says so and closes the socket.
Refuse(c) ==
  /\ shells[c].state = "trying"
  /\ shells' = [shells EXCEPT ![c].state = "refused"]
  /\ UNCHANGED <<termWS, termInfo, shown, tryKey, handlers, opening, autos, clients, drops>>

\* The words the client looks for in what it is sent, while it tries the key. An auto
\* client then closes the one termWS refers to.
Alarm(c) ==
  IF tryKey /\ ~clients[c].pass
  THEN /\ tryKey' = FALSE
       /\ clients' = IF clients[c].kind = "auto" THEN WithClosed(termWS) ELSE clients
  ELSE UNCHANGED <<tryKey, clients>>

GotRefusal(c) ==
  /\ shells[c].state = "refused" /\ clients[c].socket = "open"
  /\ shells' = [shells EXCEPT ![c].state = "ended"]
  /\ Alarm(c)
  /\ UNCHANGED <<termWS, termInfo, shown, handlers, opening, autos, drops>>

\* The shell prints such words itself.
GotWords(c) ==
  /\ shells[c].state = "shell" /\ clients[c].socket = "open" /\ tryKey
  /\ Alarm(c)
  /\ UNCHANGED <<termWS, termInfo, shown, handlers, opening, autos, shells, drops>>

\* The shell ends: the output pump closes the socket.
ShellEnds(c) ==
  /\ shells[c].state = "shell" /\ Drop
  /\ shells' = [shells EXCEPT ![c].state = "ended"]
  /\ UNCHANGED <<termWS, termInfo, shown, tryKey, handlers, opening, autos, clients>>

Next ==
  \/ \E s \in Servers : OpenTerminal(s) \/ GotInfo(s)
  \/ HideTerminal
  \/ \E pass \in BOOLEAN : ConnectTerminal(pass)
  \/ ConnectAuto
  \/ \E c \in Made :
       \/ SocketOpens(c) \/ SocketFails(c) \/ SocketCloses(c) \/ Reconnect(c)
       \/ Login(c) \/ Refuse(c) \/ GotRefusal(c) \/ GotWords(c) \/ ShellEnds(c)

Spec == Init /\ [][Next]_termVars

-------------------------------------------------------------------------------
\* Each variable has its type, and no client counts more retries than it may make.
TerminalTypeOK ==
  /\ termWS \in Made \cup {0} /\ termInfo \in Servers \cup {"none"}
  /\ \A c \in Made :
       /\ clients[c].socket \in {"connecting", "open", "closing", "closed"}
       /\ clients[c].retry \in 0..MaxRetries
       /\ shells[c].state \in {"idle", "trying", "shell", "refused", "ended"}

\* The shell one types into is the title's server's, whatever clients were replaced, put
\* off their connection or opened late.
ShellOfTitle ==
  IsOpen(termWS) /\ shells[termWS].state \in {"trying", "shell"} => shells[termWS].of = termInfo

\* A server's shell is behind the terminal's socket, or behind one being closed: a client
\* that was replaced and connects after all gets a socket, and no shell.
OnlyCurrentHasShell ==
  \A c \in Made : shells[c].state \in {"trying", "shell"} =>
    c = termWS \/ clients[c].socket = "closing"

\* The terminal's open socket has been told the server to log in to before any key can be
\* sent through it: keystrokes are never taken for a login.
LoginFirst == IsOpen(termWS) => shells[termWS].state # "idle"
===============================================================================
