--------------------------- MODULE AdminPagesProofs ----------------------------
(***************************************************************************)
(* The administrator's pages, and the windows of all pages: for any finite *)
(* sets of servers, nodes, machines, projects and names, and any numbers   *)
(* of clicks, answers, failures and connections, every invariant and the   *)
(* action property of MCAdminPages hold.                                   *)
(*                                                                         *)
(* Each page has its inductive invariant, in a section here or, for what   *)
(* Ansible does, in AnsibleProofs.  What a page promises once it waits for *)
(* nothing is not inductive: the invariants say of each request under way  *)
(* what its answer will be, or that a later one is coming, and of each     *)
(* flag what it has to do with a request.                                  *)
(***************************************************************************)
EXTENDS AnsibleProofs

-------------------------------------------------------------------------------
(* The terminal *)

TermClients ==
  [kind : {"manual", "auto"}, pass : BOOLEAN, manual : BOOLEAN, retry : 0..MaxRetries,
   timer : BOOLEAN, socket : {"connecting", "open", "closing", "closed"}]
TermShells ==
  [state : {"idle", "trying", "shell", "refused", "ended"}, of : Shells \cup {"none"}]

\* The server does something for a client only while the client's socket is open or closing,
\* and a client that will connect again has no socket.
TerminalIInv ==
  /\ \E n \in Nat : clients \in [1..n -> TermClients] /\ shells \in [1..n -> TermShells]
  /\ termWS \in Terminal!Made \cup {0} /\ termInfo \in Shells \cup {"none"}
  /\ opening \subseteq Shells
  /\ \A c \in Terminal!Made :
       /\ shells[c].state # "idle" => clients[c].socket \in {"open", "closing"}
       /\ clients[c].timer => clients[c].socket = "closed"
  /\ Terminal!ShellOfTitle /\ Terminal!OnlyCurrentHasShell /\ Terminal!LoginFirst

LEMMA TerminalNats == MaxClients \in Nat /\ MaxRetries \in Nat /\ MaxDrops \in Nat
BY PagesAssumption DEF PagesAssumption, Terminal!TerminalAssumption

LEMMA TerminalCardinality == \A S : Terminal!Cardinality(S) = Cardinality(S)
BY DEF Terminal!Cardinality, Cardinality

\* The invariant, one client at a time.
TerminalAt(n, cl, sh, ws, info) ==
  /\ cl \in [1..n -> TermClients] /\ sh \in [1..n -> TermShells] /\ ws \in (1..n) \cup {0}
  /\ info \in Shells \cup {"none"}
  /\ \A c \in 1..n : sh[c].state # "idle" => cl[c].socket \in {"open", "closing"}
  /\ \A c \in 1..n : cl[c].timer => cl[c].socket = "closed"
  /\ \A c \in 1..n : sh[c].state \in {"trying", "shell"} => c = ws \/ cl[c].socket = "closing"
  /\ ws # 0 /\ cl[ws].socket = "open" =>
       /\ sh[ws].state # "idle"
       /\ sh[ws].state \in {"trying", "shell"} => sh[ws].of = info

LEMMA TerminalKnows ==
  TerminalIInv <=> /\ opening \subseteq Shells
                   /\ \E n \in Nat : TerminalAt(n, clients, shells, termWS, termInfo)
<1>1. ASSUME NEW n \in Nat, clients \in [1..n -> TermClients] PROVE Terminal!Made = 1..n
  BY <1>1 DEF Terminal!Made
<1>2. ASSUME TerminalIInv
      PROVE  /\ opening \subseteq Shells
             /\ \E n \in Nat : TerminalAt(n, clients, shells, termWS, termInfo)
  <2>1. PICK n \in Nat : clients \in [1..n -> TermClients] /\ shells \in [1..n -> TermShells]
    BY <1>2 DEF TerminalIInv
  <2>2. Terminal!Made = 1..n
    BY <1>1, <2>1
  <2>3. TerminalAt(n, clients, shells, termWS, termInfo)
    BY <1>2, <2>1, <2>2
       DEF TerminalIInv, TerminalAt, Terminal!ShellOfTitle, Terminal!OnlyCurrentHasShell,
           Terminal!LoginFirst, Terminal!IsOpen
  <2> QED BY <1>2, <2>3 DEF TerminalIInv
<1>3. ASSUME opening \subseteq Shells,
             \E n \in Nat : TerminalAt(n, clients, shells, termWS, termInfo)
      PROVE  TerminalIInv
  <2>1. PICK n \in Nat : TerminalAt(n, clients, shells, termWS, termInfo)
    BY <1>3
  <2>3. clients \in [1..n -> TermClients] /\ shells \in [1..n -> TermShells]
    BY <2>1 DEF TerminalAt
  <2>2. Terminal!Made = 1..n
    BY <1>1, <2>3
  <2> QED BY <1>3, <2>1, <2>2
       DEF TerminalIInv, TerminalAt, Terminal!ShellOfTitle, Terminal!OnlyCurrentHasShell,
           Terminal!LoginFirst, Terminal!IsOpen
<1> QED BY <1>2, <1>3

LEMMA TerminalNext ==
  ASSUME opening' \subseteq Shells, NEW n \in Nat,
         TerminalAt(n, clients', shells', termWS', termInfo')
  PROVE  TerminalIInv'
<1>1. clients' \in [1..n -> TermClients] /\ shells' \in [1..n -> TermShells]
  BY DEF TerminalAt
<1>2. Terminal!Made' = 1..n
  BY <1>1 DEF Terminal!Made
<1> QED BY <1>1, <1>2
       DEF TerminalIInv, TerminalAt, Terminal!ShellOfTitle, Terminal!OnlyCurrentHasShell,
           Terminal!LoginFirst, Terminal!IsOpen

LEMMA TerminalInit == Terminal!Init => TerminalIInv
<1> SUFFICES ASSUME Terminal!Init PROVE TerminalIInv
  OBVIOUS
<1>1. /\ termWS = 0 /\ termInfo = "none" /\ opening = {} /\ clients = <<>> /\ shells = <<>>
  BY DEF Terminal!Init
<1>2. 1..0 = {} /\ <<>> \in [1..0 -> TermClients] /\ <<>> \in [1..0 -> TermShells]
  OBVIOUS
<1>3. TerminalAt(0, clients, shells, termWS, termInfo)
  BY <1>1, <1>2 DEF TerminalAt
<1> QED BY <1>1, <1>3, TerminalKnows

\* The client that goes is closed if it is not, and the others stay as they are.
LEMMA TerminalClosed ==
  ASSUME NEW n \in Nat, TerminalAt(n, clients, shells, termWS, termInfo)
  PROVE  LET closed == Terminal!WithClosed(termWS)
         IN  /\ closed \in [1..n -> TermClients]
             /\ \A c \in 1..n : c # termWS => closed[c] = clients[c]
             /\ \A c \in 1..n : closed[c].timer = clients[c].timer
             /\ termWS # 0 =>
                  closed[termWS].socket = IF clients[termWS].socket \in {"connecting", "open"}
                                            THEN "closing" ELSE clients[termWS].socket
<1> DEFINE closed == Terminal!WithClosed(termWS)
           d == Terminal!Closing(clients[termWS])
<1>1. clients \in [1..n -> TermClients] /\ termWS \in (1..n) \cup {0}
  BY DEF TerminalAt
<1>2. CASE termWS = 0
  <2>1. closed = clients
    BY <1>2 DEF Terminal!WithClosed
  <2> QED BY <1>1, <1>2, <2>1
<1>3. CASE termWS # 0
  <2>1. termWS \in 1..n /\ clients[termWS] \in TermClients
    BY <1>1, <1>3
  <2>2. /\ d \in TermClients /\ d.timer = clients[termWS].timer
        /\ d.socket = IF clients[termWS].socket \in {"connecting", "open"}
                        THEN "closing" ELSE clients[termWS].socket
    BY <2>1 DEF Terminal!Closing, TermClients
  <2>3. closed = [clients EXCEPT ![termWS] = d]
    BY <1>3 DEF Terminal!WithClosed
  <2> HIDE DEF d, closed
  <2>4. /\ closed \in [1..n -> TermClients] /\ closed[termWS] = d
        /\ \A c \in 1..n : c # termWS => closed[c] = clients[c]
    BY <1>1, <2>1, <2>2, <2>3
  <2>5. \A c \in 1..n : closed[c].timer = clients[c].timer
    BY <2>2, <2>4
  <2> QED BY <2>2, <2>4, <2>5 DEF closed
<1> QED BY <1>2, <1>3

\* A connection makes the newest client, of which the server does not know yet.
LEMMA TerminalConnects ==
  ASSUME NEW n \in Nat, TerminalAt(n, clients, shells, termWS, termInfo),
         NEW kind \in {"manual", "auto"}, NEW pass \in BOOLEAN, NEW key,
         Terminal!Connect(kind, pass, key), UNCHANGED termInfo
  PROVE  TerminalAt(n + 1, clients', shells', termWS', termInfo')
<1> DEFINE m == n + 1
           closed == Terminal!WithClosed(termWS)
           new == Terminal!Client(kind, pass)
<1>0. clients \in [1..n -> TermClients] /\ shells \in [1..n -> TermShells]
      /\ termInfo \in Shells \cup {"none"}
  BY DEF TerminalAt
<1>1. Terminal!Cardinality(Terminal!Made) = n
  <2>1. Terminal!Made = 1..n
    BY <1>0 DEF Terminal!Made
  <2>2. Cardinality(1..n) = n
    BY FS_Interval
  <2> QED BY <2>1, <2>2, TerminalCardinality
<1>2. /\ clients' = [d \in 1..m |-> IF d = m THEN new ELSE closed[d]]
      /\ shells' = [d \in 1..m |-> IF d = m THEN Terminal!Idle ELSE shells[d]]
      /\ termWS' = m
  BY <1>1 DEF Terminal!Connect
<1>3. /\ new \in TermClients /\ new.socket = "connecting" /\ new.timer = FALSE
      /\ Terminal!Idle \in TermShells /\ Terminal!Idle.state = "idle"
  BY TerminalNats DEF Terminal!Client, TermClients, Terminal!Idle, TermShells
<1>4. /\ closed \in [1..n -> TermClients]
      /\ \A c \in 1..n : c # termWS => closed[c] = clients[c]
      /\ \A c \in 1..n : closed[c].timer = clients[c].timer
      /\ termWS # 0 =>
           closed[termWS].socket = IF clients[termWS].socket \in {"connecting", "open"}
                                     THEN "closing" ELSE clients[termWS].socket
  BY TerminalClosed
<1>5. /\ m \in 1..m /\ m # 0 /\ \A c \in 1..m : c = m \/ (c \in 1..n /\ c # m)
      /\ \A c \in 1..n : c \in 1..m /\ c # m /\ c # 0
  OBVIOUS
<1> HIDE DEF m, closed, new
<1>6. clients' \in [1..m -> TermClients] /\ shells' \in [1..m -> TermShells]
  BY <1>0, <1>2, <1>3, <1>4, <1>5
<1>7. /\ clients'[m] = new /\ shells'[m] = Terminal!Idle
      /\ \A c \in 1..n : clients'[c] = closed[c] /\ shells'[c] = shells[c]
  BY <1>2, <1>5
<1>8. \A c \in 1..n : shells[c].state # "idle" => closed[c].socket \in {"open", "closing"}
  BY <1>4 DEF TerminalAt
<1>9. \A c \in 1..n : clients[c].timer => closed[c].socket = "closed"
  <2> SUFFICES ASSUME NEW c \in 1..n, clients[c].timer PROVE closed[c].socket = "closed"
    OBVIOUS
  <2>1. clients[c].socket = "closed"
    BY DEF TerminalAt
  <2> QED BY <1>4, <1>5, <2>1
<1>10. \A c \in 1..n : shells[c].state \in {"trying", "shell"} => closed[c].socket = "closing"
  <2> SUFFICES ASSUME NEW c \in 1..n, shells[c].state \in {"trying", "shell"}
               PROVE  closed[c].socket = "closing"
    OBVIOUS
  <2>1. /\ clients[c].socket \in {"open", "closing"}
        /\ c = termWS \/ clients[c].socket = "closing"
    BY DEF TerminalAt
  <2> QED BY <1>4, <1>5, <2>1
<1>11. termInfo' \in Shells \cup {"none"} /\ termWS' \in (1..m) \cup {0}
  BY <1>0, <1>2, <1>5
<1>12. \A c \in 1..m : shells'[c].state # "idle" => clients'[c].socket \in {"open", "closing"}
  BY <1>3, <1>5, <1>7, <1>8
<1>13. \A c \in 1..m : clients'[c].timer => clients'[c].socket = "closed"
  BY <1>3, <1>4, <1>5, <1>7, <1>9
<1>14. \A c \in 1..m : shells'[c].state \in {"trying", "shell"} =>
         c = termWS' \/ clients'[c].socket = "closing"
  BY <1>3, <1>5, <1>7, <1>10
<1>15. clients'[termWS'].socket # "open"
  BY <1>2, <1>3, <1>7
<1> QED BY <1>6, <1>11, <1>12, <1>13, <1>14, <1>15 DEF TerminalAt, m

\* One client changes, and what the server does for it.
LEMMA TerminalOne ==
  ASSUME NEW n \in Nat, TerminalAt(n, clients, shells, termWS, termInfo), NEW c \in 1..n,
         NEW d \in TermClients, NEW s \in TermShells,
         clients' = [clients EXCEPT ![c] = d], shells' = [shells EXCEPT ![c] = s],
         UNCHANGED <<termWS, termInfo>>,
         s.state # "idle" => d.socket \in {"open", "closing"},
         d.timer => d.socket = "closed",
         s.state \in {"trying", "shell"} => c = termWS \/ d.socket = "closing",
         c = termWS /\ d.socket = "open" =>
           /\ s.state # "idle"
           /\ s.state \in {"trying", "shell"} => s.of = termInfo
  PROVE  TerminalAt(n, clients', shells', termWS', termInfo')
<1>1. /\ clients \in [1..n -> TermClients] /\ shells \in [1..n -> TermShells]
      /\ termWS \in (1..n) \cup {0} /\ termInfo \in Shells \cup {"none"}
  BY DEF TerminalAt
<1>2. clients' \in [1..n -> TermClients] /\ shells' \in [1..n -> TermShells]
  BY <1>1
<1>3. /\ clients'[c] = d /\ shells'[c] = s
      /\ \A e \in 1..n : e # c => clients'[e] = clients[e] /\ shells'[e] = shells[e]
  BY <1>1
<1>4. \A e \in 1..n : shells'[e].state # "idle" => clients'[e].socket \in {"open", "closing"}
  BY <1>3 DEF TerminalAt
<1>5. \A e \in 1..n : clients'[e].timer => clients'[e].socket = "closed"
  BY <1>3 DEF TerminalAt
<1>6. \A e \in 1..n : shells'[e].state \in {"trying", "shell"} =>
        e = termWS' \/ clients'[e].socket = "closing"
  BY <1>3 DEF TerminalAt
<1>7. termWS' # 0 /\ clients'[termWS'].socket = "open" =>
        /\ shells'[termWS'].state # "idle"
        /\ shells'[termWS'].state \in {"trying", "shell"} => shells'[termWS'].of = termInfo'
  BY <1>1, <1>3 DEF TerminalAt
<1>8. termWS' \in (1..n) \cup {0} /\ termInfo' \in Shells \cup {"none"}
  BY <1>1
<1> QED BY <1>2, <1>4, <1>5, <1>6, <1>7, <1>8 DEF TerminalAt

LEMMA TerminalStep == ASSUME TerminalIInv, Terminal!Next PROVE TerminalIInv'
<1> PICK n \in Nat : TerminalAt(n, clients, shells, termWS, termInfo)
  BY TerminalKnows
<1>0. /\ clients \in [1..n -> TermClients] /\ shells \in [1..n -> TermShells]
      /\ termWS \in (1..n) \cup {0} /\ termInfo \in Shells \cup {"none"}
      /\ opening \subseteq Shells
  BY TerminalKnows DEF TerminalAt
<1>00. Terminal!Made = 1..n
  BY <1>0 DEF Terminal!Made
<1>1. CASE \E s \in Shells : Terminal!OpenTerminal(s)
  <2>1. UNCHANGED <<termWS, termInfo, clients, shells>> /\ opening' \subseteq Shells
    BY <1>0, <1>1 DEF Terminal!OpenTerminal
  <2>2. TerminalAt(n, clients', shells', termWS', termInfo')
    BY <2>1
  <2> QED BY <2>1, <2>2, TerminalNext
<1>2. CASE \E s \in Shells : Terminal!GotInfo(s)
  <2> DEFINE closed == Terminal!WithClosed(termWS)
  <2>1. PICK s \in Shells : Terminal!GotInfo(s)
    BY <1>2
  <2>2. /\ opening' \subseteq Shells /\ termInfo' = s /\ termWS' = 0
        /\ clients' = closed /\ shells' = shells
    BY <1>0, <2>1 DEF Terminal!GotInfo
  <2>3. /\ closed \in [1..n -> TermClients]
        /\ \A c \in 1..n : c # termWS => closed[c] = clients[c]
        /\ \A c \in 1..n : closed[c].timer = clients[c].timer
        /\ termWS # 0 =>
             closed[termWS].socket = IF clients[termWS].socket \in {"connecting", "open"}
                                       THEN "closing" ELSE clients[termWS].socket
    BY TerminalClosed
  <2> HIDE DEF closed
  <2>7. \A c \in 1..n : c # 0
    OBVIOUS
  <2>4. \A c \in 1..n : shells[c].state # "idle" => closed[c].socket \in {"open", "closing"}
    BY <2>3, <2>7 DEF TerminalAt
  <2>5. \A c \in 1..n : closed[c].timer => closed[c].socket = "closed"
    <3> SUFFICES ASSUME NEW c \in 1..n, closed[c].timer PROVE closed[c].socket = "closed"
      OBVIOUS
    <3>1. clients[c].socket = "closed"
      BY <2>3 DEF TerminalAt
    <3> QED BY <2>3, <2>7, <3>1
  <2>6. \A c \in 1..n : shells[c].state \in {"trying", "shell"} => closed[c].socket = "closing"
    <3> SUFFICES ASSUME NEW c \in 1..n, shells[c].state \in {"trying", "shell"}
                 PROVE  closed[c].socket = "closing"
      OBVIOUS
    <3>1. /\ clients[c].socket \in {"open", "closing"}
          /\ c = termWS \/ clients[c].socket = "closing"
      BY DEF TerminalAt
    <3> QED BY <2>3, <2>7, <3>1
  <2>8. TerminalAt(n, closed, shells, 0, s)
    BY <1>0, <2>3, <2>4, <2>5, <2>6 DEF TerminalAt
  <2> QED BY <2>2, <2>8, TerminalNext
<1>3. CASE Terminal!HideTerminal
  <2>1. UNCHANGED <<termWS, termInfo, clients, shells, opening>>
    BY <1>3 DEF Terminal!HideTerminal
  <2>2. TerminalAt(n, clients', shells', termWS', termInfo')
    BY <2>1
  <2> QED BY <1>0, <2>1, <2>2, TerminalNext
<1>4. CASE \E pass \in BOOLEAN : Terminal!ConnectTerminal(pass)
  <2>1. PICK pass \in BOOLEAN : Terminal!ConnectTerminal(pass)
    BY <1>4
  <2>2. Terminal!Connect("manual", pass, FALSE) /\ UNCHANGED <<termInfo, opening>>
    BY <2>1 DEF Terminal!ConnectTerminal
  <2>4. TerminalAt(n + 1, clients', shells', termWS', termInfo')
    BY <2>2, TerminalConnects
  <2>3. TerminalAt(n + 1, clients', shells', termWS', termInfo') /\ n + 1 \in Nat
    BY <2>4
  <2> QED BY <1>0, <2>2, <2>3, TerminalNext
<1>5. CASE Terminal!ConnectAuto
  <2>1. CASE UNCHANGED <<termWS, tryKey, handlers, clients, shells>>
    <3>1. UNCHANGED <<termWS, termInfo, clients, shells, opening>>
      BY <1>5, <2>1 DEF Terminal!ConnectAuto
    <3>2. TerminalAt(n, clients', shells', termWS', termInfo')
      BY <3>1
    <3> QED BY <1>0, <3>1, <3>2, TerminalNext
  <2>2. CASE Terminal!Connect("auto", FALSE, TRUE)
    <3>1. UNCHANGED <<termInfo, opening>>
      BY <1>5 DEF Terminal!ConnectAuto
    <3>3. TerminalAt(n + 1, clients', shells', termWS', termInfo')
      BY <2>2, <3>1, TerminalConnects
    <3>2. TerminalAt(n + 1, clients', shells', termWS', termInfo') /\ n + 1 \in Nat
      BY <3>3
    <3> QED BY <1>0, <3>1, <3>2, TerminalNext
  <2> QED BY <1>5, <2>1, <2>2 DEF Terminal!ConnectAuto
<1>6. CASE \E c \in 1..n : Terminal!SocketOpens(c)
  <2>1. PICK c \in 1..n : Terminal!SocketOpens(c)
    BY <1>6
  <2> DEFINE d == [clients[c] EXCEPT !.socket = "open", !.retry = 0]
             told == IF shells[termWS].state = "idle" THEN [state |-> "trying", of |-> termInfo]
                     ELSE shells[termWS]
  <2>2. /\ clients[c] \in TermClients /\ clients[c].socket = "connecting"
        /\ shells[c] \in TermShells
        /\ UNCHANGED <<termWS, termInfo, opening>>
    BY <1>0, <2>1 DEF Terminal!SocketOpens
  <2>3. clients' = [clients EXCEPT ![c] = d]
    <3>1. clients' = [clients EXCEPT ![c].socket = "open", ![c].retry = 0]
      BY <2>1 DEF Terminal!SocketOpens
    <3> QED BY <1>0, <2>2, <3>1 DEF TermClients
  <2>4. d \in TermClients /\ d.socket = "open" /\ d.timer = clients[c].timer
    <3>1. 0 \in 0..MaxRetries
      BY TerminalNats
    <3> QED BY <2>2, <3>1 DEF TermClients
  <2>5. ~clients[c].timer /\ shells[c].state = "idle"
    BY <2>2 DEF TerminalAt
  <2>6. CASE c = termWS
    <3>1. shells' = [shells EXCEPT ![c] = [state |-> "trying", of |-> termInfo]]
      BY <1>0, <2>1, <2>5, <2>6 DEF Terminal!SocketOpens, Terminal!Sent
    <3> DEFINE s == [state |-> "trying", of |-> termInfo]
    <3>2. s \in TermShells /\ s.state = "trying" /\ s.of = termInfo
      BY <1>0 DEF TermShells
    <3>3. shells' = [shells EXCEPT ![c] = s]
      BY <3>1
    <3> HIDE DEF s, d
    <3>4. TerminalAt(n, clients', shells', termWS', termInfo')
      BY <2>2, <2>3, <2>4, <2>5, <2>6, <3>2, <3>3, TerminalOne
    <3> QED BY <1>0, <2>2, <3>4, TerminalNext
  <2>7. CASE c # termWS
    <3>1. shells' = shells
      <4>1. CASE Terminal!IsOpen(termWS)
        <5>1. termWS \in 1..n /\ shells[termWS].state # "idle"
          BY <1>0, <4>1 DEF TerminalAt, Terminal!IsOpen
        <5>2. shells' = [shells EXCEPT ![termWS] = shells[termWS]]
          BY <2>1, <4>1, <5>1 DEF Terminal!SocketOpens, Terminal!Sent
        <5> QED BY <1>0, <5>1, <5>2
      <4>2. CASE ~Terminal!IsOpen(termWS)
        BY <2>1, <2>7, <4>2 DEF Terminal!SocketOpens
      <4> QED BY <4>1, <4>2
    <3> HIDE DEF d
    <3>2. shells' = [shells EXCEPT ![c] = shells[c]]
      BY <1>0, <3>1
    <3>3. TerminalAt(n, clients', shells', termWS', termInfo')
      BY <2>2, <2>3, <2>4, <2>5, <2>7, <3>2, TerminalOne
    <3> QED BY <1>0, <2>2, <3>3, TerminalNext
  <2> QED BY <2>6, <2>7
<1>7. CASE \E c \in 1..n : Terminal!SocketFails(c) \/ Terminal!SocketCloses(c)
  <2>1. PICK c \in 1..n : Terminal!SocketFails(c) \/ Terminal!SocketCloses(c)
    BY <1>7
  <2> DEFINE d == Terminal!Ended(clients[c])
  <2>2. /\ clients' = [clients EXCEPT ![c] = d] /\ clients[c] \in TermClients
        /\ UNCHANGED <<termWS, termInfo, opening>> /\ shells[c] \in TermShells
    BY <1>0, <2>1 DEF Terminal!SocketFails, Terminal!SocketCloses
  <2>3. d \in TermClients /\ d.socket = "closed"
    <3> DEFINE r == IF Terminal!Retries(clients[c]) THEN clients[c].retry + 1 ELSE clients[c].retry
    <3>1. clients[c].retry \in 0..MaxRetries
      BY <2>2 DEF TermClients
    <3>2. r \in 0..MaxRetries
      BY <3>1, TerminalNats DEF Terminal!Retries
    <3>3. Terminal!Retries(clients[c]) \in BOOLEAN
      BY DEF Terminal!Retries
    <3>4. d = [clients[c] EXCEPT !.socket = "closed", !.timer = Terminal!Retries(clients[c]),
                                 !.retry = r]
      BY DEF Terminal!Ended
    <3> HIDE DEF d, r
    <3> QED BY <2>2, <3>2, <3>3, <3>4 DEF TermClients
  <2>4. Terminal!Idle \in TermShells /\ Terminal!Idle.state = "idle"
    BY DEF Terminal!Idle, TermShells
  <2>5. PICK s \in TermShells : s.state = "idle" /\ shells' = [shells EXCEPT ![c] = s]
    <3>1. CASE Terminal!SocketFails(c)
      <4>1. shells[c].state = "idle"
        BY <3>1 DEF TerminalAt, Terminal!SocketFails
      <4>2. shells' = [shells EXCEPT ![c] = shells[c]]
        BY <1>0, <3>1 DEF Terminal!SocketFails
      <4> QED BY <2>2, <4>1, <4>2
    <3>2. CASE Terminal!SocketCloses(c)
      BY <2>4, <3>2 DEF Terminal!SocketCloses
    <3> QED BY <2>1, <3>1, <3>2
  <2> HIDE DEF d
  <2>6. TerminalAt(n, clients', shells', termWS', termInfo')
    BY <2>2, <2>3, <2>5, TerminalOne
  <2> QED BY <1>0, <2>2, <2>6, TerminalNext
<1>8. CASE \E c \in 1..n : Terminal!Reconnect(c)
  <2>1. PICK c \in 1..n : Terminal!Reconnect(c)
    BY <1>8
  <2> DEFINE d == [clients[c] EXCEPT !.timer = FALSE, !.socket = "connecting"]
  <2>2. /\ clients[c].timer /\ clients[c] \in TermClients /\ shells[c] \in TermShells
        /\ UNCHANGED <<termWS, termInfo, opening>> /\ shells' = shells
    BY <1>0, <2>1 DEF Terminal!Reconnect
  <2>3. clients' = [clients EXCEPT ![c] = d]
    <3>1. clients' = [clients EXCEPT ![c].timer = FALSE, ![c].socket = "connecting"]
      BY <2>1 DEF Terminal!Reconnect
    <3> QED BY <1>0, <2>2, <3>1 DEF TermClients
  <2>4. d \in TermClients /\ d.socket = "connecting" /\ d.timer = FALSE
    BY <2>2 DEF TermClients
  <2>5. shells[c].state = "idle"
    BY <2>2 DEF TerminalAt
  <2>6. shells' = [shells EXCEPT ![c] = shells[c]]
    BY <1>0, <2>2
  <2> HIDE DEF d
  <2>7. TerminalAt(n, clients', shells', termWS', termInfo')
    BY <2>2, <2>3, <2>4, <2>5, <2>6, TerminalOne
  <2> QED BY <1>0, <2>2, <2>7, TerminalNext
<1>9. CASE \E c \in 1..n : Terminal!Login(c) \/ Terminal!Refuse(c) \/ Terminal!ShellEnds(c)
  <2>1. PICK c \in 1..n : Terminal!Login(c) \/ Terminal!Refuse(c) \/ Terminal!ShellEnds(c)
    BY <1>9
  <2>2. /\ UNCHANGED <<termWS, termInfo, opening, clients>>
        /\ shells[c] \in TermShells /\ clients[c] \in TermClients
        /\ shells[c].state \in {"trying", "shell"}
    BY <1>0, <2>1 DEF Terminal!Login, Terminal!Refuse, Terminal!ShellEnds
  <2>3. PICK st \in {"shell", "refused", "ended"} : shells' = [shells EXCEPT ![c].state = st]
    BY <2>1 DEF Terminal!Login, Terminal!Refuse, Terminal!ShellEnds
  <2> DEFINE s == [shells[c] EXCEPT !.state = st]
  <2>4. /\ s \in TermShells /\ s.state = st /\ s.of = shells[c].of
        /\ shells' = [shells EXCEPT ![c] = s]
    BY <1>0, <2>2, <2>3 DEF TermShells
  <2>5. clients' = [clients EXCEPT ![c] = clients[c]]
    BY <1>0, <2>2
  <2>6. /\ clients[c].socket \in {"open", "closing"}
        /\ clients[c].timer => clients[c].socket = "closed"
        /\ c = termWS \/ clients[c].socket = "closing"
        /\ c = termWS /\ clients[c].socket = "open" => shells[c].of = termInfo
    BY <1>0, <2>2 DEF TerminalAt
  <2> HIDE DEF s
  <2>7. TerminalAt(n, clients', shells', termWS', termInfo')
    BY <2>2, <2>4, <2>5, <2>6, TerminalOne
  <2> QED BY <1>0, <2>2, <2>7, TerminalNext
<1>10. CASE \E c \in 1..n : Terminal!GotRefusal(c) \/ Terminal!GotWords(c)
  <2>1. PICK c \in 1..n : Terminal!GotRefusal(c) \/ Terminal!GotWords(c)
    BY <1>10
  <2>2. /\ UNCHANGED <<termWS, termInfo, opening>> /\ shells[c] \in TermShells
        /\ shells[c].state \in {"refused", "shell"}
        /\ clients' = clients \/ clients' = Terminal!WithClosed(termWS)
    BY <1>0, <2>1 DEF Terminal!GotRefusal, Terminal!GotWords, Terminal!Alarm
  <2> DEFINE closed == Terminal!WithClosed(termWS)
  <2>3. PICK s \in TermShells :
          /\ shells' = [shells EXCEPT ![c] = s]
          /\ s = shells[c] \/ s.state = "ended"
          /\ s.state # "idle"
    <3>1. CASE Terminal!GotRefusal(c)
      <4> DEFINE s == [shells[c] EXCEPT !.state = "ended"]
      <4>1. s \in TermShells /\ s.state = "ended" /\ shells' = [shells EXCEPT ![c] = s]
        BY <1>0, <2>2, <3>1 DEF Terminal!GotRefusal, TermShells
      <4> HIDE DEF s
      <4> QED BY <4>1
    <3>2. CASE Terminal!GotWords(c)
      <4>1. shells' = [shells EXCEPT ![c] = shells[c]]
        BY <1>0, <3>2 DEF Terminal!GotWords
      <4> QED BY <2>2, <4>1
    <3> QED BY <2>1, <3>1, <3>2
  <2>4. /\ closed \in [1..n -> TermClients]
        /\ \A e \in 1..n : e # termWS => closed[e] = clients[e]
        /\ \A e \in 1..n : closed[e].timer = clients[e].timer
        /\ termWS # 0 =>
             closed[termWS].socket = IF clients[termWS].socket \in {"connecting", "open"}
                                       THEN "closing" ELSE clients[termWS].socket
    BY TerminalClosed
  <2> HIDE DEF closed
  <2>5. /\ shells' \in [1..n -> TermShells]
        /\ \A e \in 1..n :
             /\ shells'[e].state = "idle" <=> shells[e].state = "idle"
             /\ shells'[e].state \in {"trying", "shell"} => shells'[e] = shells[e]
    <3>1. shells' \in [1..n -> TermShells] /\ shells'[c] = s
          /\ \A e \in 1..n : e # c => shells'[e] = shells[e]
      BY <1>0, <2>3
    <3>2. s.state # "idle" /\ shells[c].state # "idle"
          /\ (s.state \in {"trying", "shell"} => s = shells[c])
      BY <2>2, <2>3
    <3>3. ASSUME NEW e \in 1..n
          PROVE  /\ shells'[e].state = "idle" <=> shells[e].state = "idle"
                 /\ shells'[e].state \in {"trying", "shell"} => shells'[e] = shells[e]
      <4>1. CASE e = c
        BY <3>1, <3>2, <4>1
      <4>2. CASE e # c
        BY <3>1, <4>2
      <4> QED BY <4>1, <4>2
    <3> QED BY <3>1, <3>3
  <2>6. CASE clients' = clients
    <3>1. \A e \in 1..n : shells'[e].state # "idle" => clients[e].socket \in {"open", "closing"}
      BY <2>5 DEF TerminalAt
    <3>2. \A e \in 1..n : clients[e].timer => clients[e].socket = "closed"
      BY DEF TerminalAt
    <3>3. \A e \in 1..n : shells'[e].state \in {"trying", "shell"} =>
            e = termWS \/ clients[e].socket = "closing"
      BY <2>5 DEF TerminalAt
    <3>4. termWS # 0 /\ clients[termWS].socket = "open" =>
            /\ shells'[termWS].state # "idle"
            /\ shells'[termWS].state \in {"trying", "shell"} => shells'[termWS].of = termInfo
      BY <1>0, <2>5 DEF TerminalAt
    <3>5. TerminalAt(n, clients, shells', termWS, termInfo)
      BY <1>0, <2>5, <3>1, <3>2, <3>3, <3>4 DEF TerminalAt
    <3> QED BY <1>0, <2>2, <2>6, <3>5, TerminalNext
  <2>7. CASE clients' = closed
    <3>0. \A e \in 1..n : e # 0
      OBVIOUS
    <3>1. \A e \in 1..n : shells'[e].state # "idle" => closed[e].socket \in {"open", "closing"}
      <4> SUFFICES ASSUME NEW e \in 1..n, shells'[e].state # "idle"
                   PROVE  closed[e].socket \in {"open", "closing"}
        OBVIOUS
      <4>1. clients[e].socket \in {"open", "closing"}
        BY <2>5 DEF TerminalAt
      <4> QED BY <2>4, <3>0, <4>1
    <3>2. \A e \in 1..n : closed[e].timer => closed[e].socket = "closed"
      <4> SUFFICES ASSUME NEW e \in 1..n, closed[e].timer PROVE closed[e].socket = "closed"
        OBVIOUS
      <4>1. clients[e].socket = "closed"
        BY <2>4 DEF TerminalAt
      <4> QED BY <2>4, <3>0, <4>1
    <3>3. \A e \in 1..n : shells'[e].state \in {"trying", "shell"} =>
            e = termWS \/ closed[e].socket = "closing"
      <4> SUFFICES ASSUME NEW e \in 1..n, shells'[e].state \in {"trying", "shell"}, e # termWS
                   PROVE  closed[e].socket = "closing"
        OBVIOUS
      <4>1. clients[e].socket = "closing"
        BY <2>5 DEF TerminalAt
      <4> QED BY <2>4, <4>1
    <3>4. termWS # 0 => closed[termWS].socket # "open"
      BY <2>4
    <3>5. TerminalAt(n, closed, shells', termWS, termInfo)
      BY <1>0, <2>4, <2>5, <3>1, <3>2, <3>3, <3>4 DEF TerminalAt
    <3> QED BY <1>0, <2>2, <2>7, <3>5, TerminalNext
  <2> QED BY <2>2, <2>6, <2>7 DEF closed
<1> QED BY <1>00, <1>1, <1>2, <1>3, <1>4, <1>5, <1>6, <1>7, <1>8, <1>9, <1>10 DEF Terminal!Next

LEMMA TerminalSame == ASSUME TerminalIInv, UNCHANGED Terminal!termVars PROVE TerminalIInv'
<1> PICK n \in Nat : TerminalAt(n, clients, shells, termWS, termInfo)
  BY TerminalKnows
<1>1. UNCHANGED <<termWS, termInfo, clients, shells, opening>>
  BY DEF Terminal!termVars
<1>2. opening' \subseteq Shells /\ TerminalAt(n, clients', shells', termWS', termInfo')
  BY <1>1, TerminalKnows
<1> QED BY <1>2, TerminalNext

LEMMA TerminalGives ==
  ASSUME TerminalIInv
  PROVE  /\ Terminal!TerminalTypeOK /\ Terminal!ShellOfTitle
         /\ Terminal!OnlyCurrentHasShell /\ Terminal!LoginFirst
<1> PICK n \in Nat : TerminalAt(n, clients, shells, termWS, termInfo)
  BY TerminalKnows
<1>1. clients \in [1..n -> TermClients] /\ shells \in [1..n -> TermShells]
  BY DEF TerminalAt
<1>2. Terminal!Made = 1..n
  BY <1>1 DEF Terminal!Made
<1>3. \A c \in Terminal!Made :
       /\ clients[c].socket \in {"connecting", "open", "closing", "closed"}
       /\ clients[c].retry \in 0..MaxRetries
       /\ shells[c].state \in {"idle", "trying", "shell", "refused", "ended"}
  BY <1>1, <1>2 DEF TermClients, TermShells
<1> QED BY <1>3 DEF TerminalIInv, Terminal!TerminalTypeOK

-------------------------------------------------------------------------------
(* The user's projects *)

\* A request is whole, and a list that was served is of projects.
AskOK(r) ==
  /\ r = [id |-> r.id, what |-> r.what, of |-> r.of, at |-> r.at, seen |-> r.seen]
  /\ r.what \in {"list", "scale", "delete", "upload"} /\ r.at \in {"sent", "done", "refused"}
  /\ r.what = "list" /\ r.at = "done" => DOMAIN r.seen \subseteq Projects

MatchingNow == ProjectsPage!Matching(DOMAIN apps)

ListPart ==
  /\ DOMAIN apps \subseteq Projects /\ current \in 1..Cardinality(Projects)
  /\ term \in {"", "some"} /\ tab \in {"projects", "new"}
  /\ list.kind \in {"loading", "empty", "rows"} /\ ProjectsPage!Ids \subseteq Projects
  /\ \A r \in asked : AskOK(r)
  /\ acts \in 0..MaxActs /\ failures \in 0..MaxFailures

FormPart ==
  /\ env \in Seq(Keys) /\ env # <<>> /\ Len(env) <= MaxEnv
  /\ inputs = env

UploadPart ==
  /\ button \in BOOLEAN
  /\ button <=> ~\E r \in asked : r.what = "upload"
  /\ \A r, q \in asked : r.what = "upload" /\ q.what = "upload" => r = q

\* Until a request fails or an answer comes late, the list shows what there is, or is asked for,
\* or will be once the answer that changed the applications has come.
ShownPart ==
  /\ late \in BOOLEAN
  /\ failures = 0 /\ ~late =>
       list = ProjectsPage!Rendered(apps) \/ \E r \in asked : r.what = "list" \/ r.at = "done"

\* While nothing is deleted and nothing comes late, the page is not past the last one, and a list
\* counts no more than match.
PagePart ==
  gone = {} /\ ~late =>
    /\ current = 1 \/ current <= ProjectsPage!Pages(Cardinality(MatchingNow))
    /\ list.kind = "rows" =>
         /\ list.total \in Nat /\ list.total <= Cardinality(MatchingNow)
         /\ list.rows # {}

ProjectsIInv == ListPart /\ FormPart /\ UploadPart /\ ShownPart /\ PagePart

LEMMA ProjectsConstants ==
  /\ Projects \subseteq Nat /\ IsFiniteSet(Projects) /\ Projects # {} /\ Named \subseteq Projects
  /\ PerPage \in Nat \ {0} /\ "" \in Keys /\ MaxEnv \in Nat \ {0}
  /\ MaxActs \in Nat /\ MaxFailures \in Nat
  /\ Cardinality(Projects) \in Nat /\ Cardinality(Projects) >= 1
<1>1. \A S : ProjectsPage!IsFiniteSet(S) <=> IsFiniteSet(S)
  BY DEF ProjectsPage!IsFiniteSet, IsFiniteSet
<1>2. ProjectsPage!ProjectsAssumption
  BY PagesAssumption DEF PagesAssumption
<1>3. /\ Projects \subseteq Nat /\ IsFiniteSet(Projects) /\ Projects # {} /\ Named \subseteq Projects
      /\ PerPage \in Nat \ {0} /\ "" \in Keys /\ MaxEnv \in Nat \ {0}
      /\ MaxActs \in Nat /\ MaxFailures \in Nat
  BY <1>1, <1>2 DEF ProjectsPage!ProjectsAssumption
<1>4. Cardinality(Projects) \in Nat /\ Cardinality(Projects) # 0
  <2>1. IsFiniteSet(Projects) /\ Projects # {}
    BY <1>3
  <2> QED BY <2>1, FS_CardinalityType, FS_EmptySet
<1>5. Cardinality(Projects) >= 1
  BY <1>4
<1> QED BY <1>3, <1>4, <1>5

LEMMA ProjectsNats ==
  /\ MaxActs \in Nat /\ MaxFailures \in Nat /\ 1 \in 1..Cardinality(Projects)
  /\ \A c \in 1..Cardinality(Projects) : c \in Nat \ {0}
  /\ MaxEnv \in Nat /\ 1 <= MaxEnv
<1>1. MaxActs \in Nat /\ MaxFailures \in Nat
  BY ProjectsConstants
<1>3. MaxEnv \in Nat \ {0}
  BY ProjectsConstants
<1>4. MaxEnv \in Nat /\ 1 <= MaxEnv
  BY <1>3
<1>2. Cardinality(Projects) \in Nat /\ Cardinality(Projects) >= 1
  BY ProjectsConstants
<1> QED BY <1>1, <1>2, <1>4

LEMMA ProjectsCardinality == \A S : ProjectsPage!Cardinality(S) = Cardinality(S)
BY DEF ProjectsPage!Cardinality, Cardinality

\* Of finitely many projects there is one of every rank.
LEMMA ProjectsRanked ==
  ASSUME NEW ids, ids \subseteq Nat, IsFiniteSet(ids), NEW k \in 1..Cardinality(ids)
  PROVE  \E x \in ids : ProjectsPage!Rank(x, ids) = k
<1> DEFINE upto(x) == {y \in ids : y <= x}
           n == Cardinality(ids)
           f == [x \in ids |-> Cardinality(upto(x))]
<1>1. n \in Nat
  BY FS_CardinalityType
<1>2. ASSUME NEW x \in ids
      PROVE  /\ IsFiniteSet(upto(x)) /\ Cardinality(upto(x)) \in 1..n
             /\ ProjectsPage!Rank(x, ids) = Cardinality(upto(x))
  <2>1. upto(x) \in SUBSET ids /\ x \in upto(x)
    OBVIOUS
  <2>2. IsFiniteSet(upto(x)) /\ Cardinality(upto(x)) <= n
    BY <2>1, FS_Subset
  <2>3. Cardinality(upto(x)) \in Nat /\ Cardinality(upto(x)) # 0
    BY <2>1, <2>2, FS_CardinalityType, FS_EmptySet
  <2>4. ProjectsPage!Rank(x, ids) = Cardinality(upto(x))
    BY ProjectsCardinality DEF ProjectsPage!Rank
  <2> HIDE DEF upto, n
  <2> QED BY <1>1, <2>2, <2>3, <2>4
<1>3. ASSUME NEW x \in ids, NEW y \in ids, x < y PROVE Cardinality(upto(x)) # Cardinality(upto(y))
  <2>0. x \in Nat /\ y \in Nat /\ y <= y /\ ~(y <= x) /\ \A z \in ids : z \in Nat
    BY <1>3
  <2>4. \A z \in ids : z <= x => z <= y
    BY <1>3, <2>0
  <2>1. upto(x) \in SUBSET upto(y) /\ y \in upto(y) /\ y \notin upto(x)
    BY <2>0, <2>4
  <2>2. IsFiniteSet(upto(y))
    BY <1>2
  <2>3. upto(x) # upto(y)
    BY <2>1
  <2> HIDE DEF upto
  <2> QED BY <2>1, <2>2, <2>3, FS_Subset
<1>4. f \in Injection(ids, 1..n)
  <2>1. f \in [ids -> 1..n]
    BY <1>2
  <2>2. \A x, y \in ids : f[x] = f[y] => x = y
    <3> SUFFICES ASSUME NEW x \in ids, NEW y \in ids, f[x] = f[y], x # y PROVE FALSE
      OBVIOUS
    <3>1. x < y \/ y < x
      OBVIOUS
    <3>2. Cardinality(upto(x)) = Cardinality(upto(y))
      OBVIOUS
    <3> HIDE DEF upto, f
    <3> QED BY <1>3, <3>1, <3>2
  <2>3. DOMAIN f = ids
    OBVIOUS
  <2> HIDE DEF f
  <2> QED BY <2>1, <2>2, <2>3 DEF Injection, IsInjective
<1>5. IsFiniteSet(1..n) /\ Cardinality(1..n) = n
  BY <1>1, FS_Interval
<1>6. f \in Surjection(ids, 1..n)
  <2> HIDE DEF f
  <2> QED BY <1>1, <1>4, <1>5, FS_Injection
<1>7. PICK x \in ids : f[x] = k
  <2> HIDE DEF f
  <2> QED BY <1>6 DEF Surjection
<1> QED BY <1>2, <1>7

LEMMA ProjectsDivided ==
  ASSUME NEW a \in Nat, NEW b \in Nat \ {0}, NEW q \in Nat
  PROVE  /\ a \div b \in Nat
         /\ b * q <= a /\ a < b * q + b => a \div b = q
         /\ q <= a \div b => b * q <= a
OBVIOUS

LEMMA ProjectsPages ==
  ASSUME NEW m \in Nat, NEW n \in Nat, m <= n
  PROVE  /\ ProjectsPage!Pages(m) \in Int /\ ProjectsPage!Pages(n) \in Int
         /\ ProjectsPage!Pages(m) <= ProjectsPage!Pages(n)
<1> DEFINE a == m + PerPage - 1
           b == n + PerPage - 1
<1>1. PerPage \in Nat \ {0}
  BY ProjectsConstants
<1>2. a \in Nat /\ b \in Nat /\ a <= b
  BY <1>1
<1>4. ProjectsPage!Pages(m) = a \div PerPage /\ ProjectsPage!Pages(n) = b \div PerPage
  BY DEF ProjectsPage!Pages
<1> HIDE DEF a, b
<1>3. a \div PerPage \in Int /\ b \div PerPage \in Int /\ a \div PerPage <= b \div PerPage
  BY <1>1, <1>2
<1> QED BY <1>3, <1>4

\* A page that is not past the last one has a project on it.
LEMMA ProjectsOnPage ==
  ASSUME NEW ids, ids \subseteq Nat, IsFiniteSet(ids), ids # {}, current \in Nat \ {0},
         current = 1 \/ current <= ProjectsPage!Pages(Cardinality(ids))
  PROVE  ProjectsPage!OnPage(ids) # {}
<1> DEFINE n == Cardinality(ids)
           k == PerPage * (current - 1) + 1
<1>1. n \in Nat /\ n # 0
  BY FS_CardinalityType, FS_EmptySet
<1>2. PerPage \in Nat \ {0}
  BY ProjectsConstants
<1>3. k \in 1..n
  <2>1. CASE current = 1
    <3>1. k = 1
      BY <1>2, <2>1
    <3> HIDE DEF k, n
    <3> QED BY <1>1, <3>1
  <2>2. CASE current <= ProjectsPage!Pages(n)
    <3> DEFINE a == n + PerPage - 1
    <3>1. current <= a \div PerPage
      BY <2>2 DEF ProjectsPage!Pages
    <3>2. a \in Nat
      BY <1>1, <1>2
    <3>3. PerPage * current <= a
      <4> HIDE DEF a
      <4> QED BY <1>2, <3>1, <3>2, ProjectsDivided
    <3>4. PerPage * current = PerPage * (current - 1) + PerPage /\ PerPage * (current - 1) \in Nat
      BY <1>2
    <3> DEFINE p == PerPage * (current - 1)
    <3>5. p \in Nat /\ p + PerPage <= n + PerPage - 1
      BY <3>3, <3>4
    <3> HIDE DEF p, n
    <3>6. p + 1 \in 1..n
      BY <1>1, <1>2, <3>5
    <3> QED BY <3>6 DEF p
  <2> QED BY <2>1, <2>2
<1>4. PICK x \in ids : ProjectsPage!Rank(x, ids) = k
  <2> HIDE DEF k
  <2> QED BY <1>3, ProjectsRanked
<1>5. (k - 1) \div PerPage = current - 1
  <2>1. k - 1 = PerPage * (current - 1) /\ current - 1 \in Nat /\ PerPage * (current - 1) \in Nat
    BY <1>2
  <2> DEFINE p == PerPage * (current - 1)
  <2>2. p \in Nat /\ PerPage * (current - 1) <= p /\ p < PerPage * (current - 1) + PerPage
    BY <1>2, <2>1
  <2>3. p \div PerPage = current - 1
    <3> HIDE DEF p
    <3> QED BY <1>2, <2>1, <2>2, ProjectsDivided
  <2> QED BY <2>1, <2>3
<1>6. x \in ProjectsPage!OnPage(ids)
  <2> HIDE DEF k
  <2> QED BY <1>4, <1>5 DEF ProjectsPage!OnPage
<1> QED BY <1>6

\* What is rendered is the text of none, or rows of projects.
LEMMA ProjectsRendered ==
  ASSUME NEW d, DOMAIN d \subseteq Projects
  PROVE  /\ ProjectsPage!Rendered(d).kind \in {"empty", "rows"}
         /\ {row[1] : row \in ProjectsPage!Rendered(d).rows} \subseteq Projects
<1> DEFINE ids == ProjectsPage!Matching(DOMAIN d)
           l == ProjectsPage!Rendered(d)
<1>1. ids \subseteq DOMAIN d
  BY DEF ProjectsPage!Matching
<1>2. CASE ids = {}
  <2>1. l = ProjectsPage!Empty
    BY <1>2 DEF ProjectsPage!Rendered
  <2> QED BY <2>1 DEF ProjectsPage!Empty
<1>3. CASE ids # {}
  <2>1. l.kind = "rows" /\ l.rows = {<<x, d[x]>> : x \in ProjectsPage!OnPage(ids)}
    BY <1>3 DEF ProjectsPage!Rendered
  <2>2. ProjectsPage!OnPage(ids) \subseteq ids
    BY DEF ProjectsPage!OnPage
  <2>3. \A row \in l.rows : \E x \in ids : row = <<x, d[x]>>
    BY <2>1, <2>2
  <2>4. \A row \in l.rows : row[1] \in Projects
    BY <1>1, <2>3
  <2> QED BY <2>1, <2>4
<1> QED BY <1>2, <1>3

LEMMA ProjectsRows ==
  ASSUME DOMAIN apps \subseteq Projects, current \in Nat \ {0},
         current = 1 \/ current <= ProjectsPage!Pages(Cardinality(MatchingNow)),
         ProjectsPage!Rendered(apps).kind = "rows"
  PROVE  /\ ProjectsPage!Rendered(apps).total = Cardinality(MatchingNow)
         /\ ProjectsPage!Rendered(apps).rows # {}
<1> DEFINE ids == ProjectsPage!Matching(DOMAIN apps)
           l == ProjectsPage!Rendered(apps)
<1>1. ids \subseteq DOMAIN apps
  BY DEF ProjectsPage!Matching
<1>2. ids # {}
  <2>1. ASSUME ids = {} PROVE l.kind = "empty"
    BY <2>1 DEF ProjectsPage!Rendered, ProjectsPage!Empty
  <2> QED BY <2>1
<1>3. /\ l.total = ProjectsPage!Cardinality(ids)
      /\ l.rows = {<<x, apps[x]>> : x \in ProjectsPage!OnPage(ids)}
  BY <1>2 DEF ProjectsPage!Rendered
<1>4. ids \subseteq Nat /\ ids \in SUBSET Projects /\ IsFiniteSet(Projects)
  BY <1>1, ProjectsConstants
<1>5. IsFiniteSet(ids)
  BY <1>4, FS_Subset
<1>7. ids = MatchingNow
  BY DEF MatchingNow
<1> HIDE DEF ids
<1>6. ProjectsPage!OnPage(ids) # {}
  BY <1>2, <1>4, <1>5, <1>7, ProjectsOnPage
<1> QED BY <1>3, <1>6, <1>7, ProjectsCardinality

LEMMA ProjectsAsk ==
  ASSUME NEW id, NEW what \in {"list", "scale", "delete", "upload"}, NEW of
  PROVE  /\ AskOK(ProjectsPage!Ask(id, what, of))
         /\ ProjectsPage!Ask(id, what, of).what = what /\ ProjectsPage!Ask(id, what, of).at = "sent"
BY DEF AskOK, ProjectsPage!Ask

LEMMA ProjectsList ==
  ASSUME NEW id
  PROVE  /\ AskOK(ProjectsPage!List(id))
         /\ ProjectsPage!List(id).what = "list" /\ ProjectsPage!List(id).at = "sent"
BY DEF AskOK, ProjectsPage!Ask, ProjectsPage!List

LEMMA ProjectsSameRendered ==
  ASSUME UNCHANGED <<apps, term, current>>
  PROVE  ProjectsPage!Rendered(apps)' = ProjectsPage!Rendered(apps) /\ MatchingNow' = MatchingNow
BY DEF ProjectsPage!Rendered, ProjectsPage!Matching, ProjectsPage!OnPage, ProjectsPage!Empty,
       MatchingNow

LEMMA ProjectsShownKept ==
  ASSUME ShownPart, UNCHANGED <<apps, term, current, list, failures, late>>,
         \A r \in asked : r.what = "list" \/ r.at = "done" =>
           \E q \in asked' : q.what = "list" \/ q.at = "done"
  PROVE  ShownPart'
BY ProjectsSameRendered DEF ShownPart

LEMMA ProjectsShownAsked ==
  ASSUME late' \in BOOLEAN, \E q \in asked' : q.what = "list" \/ q.at = "done"
  PROVE  ShownPart'
BY DEF ShownPart

LEMMA ProjectsUploadKept ==
  ASSUME UploadPart, UNCHANGED button,
         \A r \in asked : r.what = "upload" => r \in asked',
         \A r \in asked' : r.what = "upload" => r \in asked
  PROVE  UploadPart'
<1>1. (\E r \in asked' : r.what = "upload") <=> (\E r \in asked : r.what = "upload")
  OBVIOUS
<1>2. \A r, q \in asked' : r.what = "upload" /\ q.what = "upload" => r = q
  BY DEF UploadPart
<1>3. button' \in BOOLEAN /\ (button' <=> ~\E r \in asked' : r.what = "upload")
  BY <1>1 DEF UploadPart
<1> QED BY <1>2, <1>3 DEF UploadPart

LEMMA ProjectsFormKept == ASSUME FormPart, UNCHANGED <<env, inputs>> PROVE FormPart'
BY DEF FormPart

\* The list, as loading or as none, and the requests, as they are with others.
LEMMA ProjectsListKept ==
  ASSUME ListPart, DOMAIN apps' \subseteq Projects, current' \in 1..Cardinality(Projects),
         term' \in {"", "some"}, tab' \in {"projects", "new"},
         list' \in {list, ProjectsPage!Loading, ProjectsPage!Empty},
         \A r \in asked' : r \in asked \/ AskOK(r),
         acts' \in 0..MaxActs, failures' \in 0..MaxFailures
  PROVE  ListPart'
<1>0. /\ ProjectsPage!Loading.kind = "loading" /\ ProjectsPage!Loading.rows = {}
      /\ ProjectsPage!Empty.kind = "empty" /\ ProjectsPage!Empty.rows = {}
  BY DEF ProjectsPage!Loading, ProjectsPage!Empty
<1>1. list'.kind \in {"loading", "empty", "rows"}
  BY <1>0 DEF ListPart
<1>2. ProjectsPage!Ids' \subseteq Projects
  <2>1. CASE list' = list
    <3>1. ProjectsPage!Ids' = ProjectsPage!Ids
      BY <2>1 DEF ProjectsPage!Ids
    <3> QED BY <3>1 DEF ListPart
  <2>2. CASE list' \in {ProjectsPage!Loading, ProjectsPage!Empty}
    <3>1. list'.rows = {}
      BY <1>0, <2>2
    <3> QED BY <3>1 DEF ProjectsPage!Ids
  <2> QED BY <2>1, <2>2
<1>3. \A r \in asked' : AskOK(r)'
  BY DEF ListPart, AskOK
<1> QED BY <1>1, <1>2, <1>3 DEF ListPart

\* What matches is finite, and more when there is more.
LEMMA ProjectsMatching ==
  ASSUME DOMAIN apps \subseteq Projects
  PROVE  IsFiniteSet(MatchingNow) /\ Cardinality(MatchingNow) \in Nat
<1>1. MatchingNow \in SUBSET Projects /\ IsFiniteSet(Projects)
  BY ProjectsConstants DEF MatchingNow, ProjectsPage!Matching
<1> HIDE DEF MatchingNow
<1>2. IsFiniteSet(MatchingNow)
  BY <1>1, FS_Subset
<1> QED BY <1>2, FS_CardinalityType

LEMMA ProjectsMatchingNext ==
  ASSUME DOMAIN apps' \subseteq Projects
  PROVE  IsFiniteSet(MatchingNow') /\ Cardinality(MatchingNow') \in Nat
<1>1. MatchingNow' \in SUBSET Projects /\ IsFiniteSet(Projects)
  BY ProjectsConstants DEF MatchingNow, ProjectsPage!Matching
<1> DEFINE m == MatchingNow'
<1>2. m \in SUBSET Projects
  BY <1>1
<1> HIDE DEF m
<1>3. IsFiniteSet(m)
  BY <1>1, <1>2, FS_Subset
<1>4. Cardinality(m) \in Nat
  BY <1>3, FS_CardinalityType
<1> QED BY <1>3, <1>4 DEF m

LEMMA ProjectsMatchingGrows ==
  ASSUME DOMAIN apps \subseteq DOMAIN apps', DOMAIN apps' \subseteq Projects, UNCHANGED term
  PROVE  Cardinality(MatchingNow) <= Cardinality(MatchingNow')
<1> DEFINE m == MatchingNow
           n == MatchingNow'
<1>1. m \in SUBSET n
  BY DEF MatchingNow, ProjectsPage!Matching
<1>2. IsFiniteSet(n)
  BY ProjectsMatchingNext
<1> HIDE DEF m, n
<1>3. Cardinality(m) <= Cardinality(n)
  BY <1>1, <1>2, FS_Subset
<1> QED BY <1>3 DEF m, n

LEMMA ProjectsPageKept ==
  ASSUME PagePart, DOMAIN apps \subseteq Projects, DOMAIN apps' \subseteq Projects,
         DOMAIN apps \subseteq DOMAIN apps' \/ gone' # {},
         gone \subseteq gone', late => late', UNCHANGED term, current \in Nat,
         \/ current' = 1 \/ current' = current
         \/ list.kind = "rows" /\ current' \in 1..ProjectsPage!Pages(list.total),
         list' \in {list, ProjectsPage!Loading, ProjectsPage!Empty}
  PROVE  PagePart'
<1> SUFFICES ASSUME gone' = {}, ~late'
             PROVE  /\ current' = 1 \/ current' <= ProjectsPage!Pages(Cardinality(MatchingNow'))
                    /\ list'.kind = "rows" =>
                         /\ list'.total \in Nat /\ list'.total <= Cardinality(MatchingNow')
                         /\ list'.rows # {}
  BY DEF PagePart, ProjectsPage!Pages
<1> DEFINE m == Cardinality(MatchingNow)
           n == Cardinality(MatchingNow')
<1>1. m \in Nat
  BY ProjectsMatching
<1>2. n \in Nat
  BY ProjectsMatchingNext
<1>3. m <= n
  BY ProjectsMatchingGrows
<1>4. /\ current = 1 \/ current <= ProjectsPage!Pages(m)
      /\ list.kind = "rows" => list.total \in Nat /\ list.total <= m /\ list.rows # {}
  <2>1. gone = {} /\ ~late
    OBVIOUS
  <2> QED BY <2>1 DEF PagePart
<1>5. list' = list \/ list'.kind # "rows"
  BY DEF ProjectsPage!Loading, ProjectsPage!Empty
<1> HIDE DEF m, n
<1>6. ProjectsPage!Pages(m) <= ProjectsPage!Pages(n) /\ ProjectsPage!Pages(n) \in Int
      /\ ProjectsPage!Pages(m) \in Int
  BY <1>1, <1>2, <1>3, ProjectsPages
<1>7. current' = 1 \/ current' <= ProjectsPage!Pages(n)
  <2>1. CASE current' = 1
    BY <2>1
  <2>2. CASE current' = current
    BY <1>4, <1>6, <2>2
  <2>3. CASE list.kind = "rows" /\ current' \in 1..ProjectsPage!Pages(list.total)
    <3>1. list.total \in Nat /\ list.total <= n
      BY <1>1, <1>2, <1>3, <1>4, <2>3
    <3>2. ProjectsPage!Pages(list.total) <= ProjectsPage!Pages(n)
          /\ ProjectsPage!Pages(list.total) \in Int
      BY <1>2, <3>1, ProjectsPages
    <3> QED BY <1>6, <2>3, <3>2
  <2> QED BY <2>1, <2>2, <2>3
<1>8. list'.kind = "rows" => list'.total \in Nat /\ list'.total <= n /\ list'.rows # {}
  BY <1>1, <1>2, <1>3, <1>4, <1>5
<1> QED BY <1>7, <1>8 DEF n

\* A sequence of one.
LEMMA SequenceOfOne ==
  ASSUME NEW S, NEW x \in S PROVE <<x>> \in Seq(S) /\ <<x>> # <<>> /\ Len(<<x>>) = 1
<1>1. <<x>> \in Seq(S)
  OBVIOUS
<1>2. Len(<<x>>) = 1
  OBVIOUS
<1>3. Len(<<>>) = 0
  OBVIOUS
<1>4. <<x>> # <<>>
  BY <1>2, <1>3
<1> QED BY <1>1, <1>2, <1>4

\* One more at the end.
LEMMA SequenceOneMore ==
  ASSUME NEW S, NEW s \in Seq(S), NEW x \in S, NEW m \in Nat, Len(s) < m
  PROVE  Append(s, x) \in Seq(S) /\ Append(s, x) # <<>> /\ Len(Append(s, x)) <= m
<1>1. Append(s, x) \in Seq(S)
  OBVIOUS
<1>2. Len(Append(s, x)) = Len(s) + 1 /\ Len(s) \in Nat
  OBVIOUS
<1>3. Len(Append(s, x)) <= m /\ Len(Append(s, x)) # 0
  BY <1>2
<1>4. Len(<<>>) = 0
  OBVIOUS
<1>5. Append(s, x) # <<>>
  BY <1>3, <1>4
<1> QED BY <1>1, <1>3, <1>5

\* One less.
LEMMA SequenceOneLess ==
  ASSUME NEW S, NEW s \in Seq(S), NEW t, NEW n \in Nat, NEW m \in Nat,
         n > 1, n <= m, s = t, Len(s) = n - 1
  PROVE  t # <<>> /\ Len(t) <= m
<1>1. Len(<<>>) = 0
  OBVIOUS
<1>2. n - 1 # 0 /\ n - 1 <= m
  OBVIOUS
<1> QED BY <1>1, <1>2

\* A counter below its bound, counted.
LEMMA CountedUp == ASSUME NEW m \in Nat, NEW a \in 0..m, NEW b, a < m, b = a + 1 PROVE b \in 0..m
OBVIOUS

LEMMA ProjectsInit == ProjectsPage!Init => ProjectsIInv
<1> SUFFICES ASSUME ProjectsPage!Init PROVE ProjectsIInv
  OBVIOUS
<1>1. /\ term = "" /\ current = 1 /\ list = ProjectsPage!Loading /\ tab = "projects"
      /\ env = <<"">> /\ inputs = <<"">> /\ asked = {ProjectsPage!List(0)} /\ acts = 0 /\ failures = 0
      /\ DOMAIN apps \subseteq Projects
  BY DEF ProjectsPage!Init
<1>2. button = TRUE /\ late = FALSE
  BY DEF ProjectsPage!Init
<1>3. /\ list.kind = "loading" /\ list.rows = {}
  BY <1>1 DEF ProjectsPage!Loading
<1>4. ListPart
  <2>0. current = 1 /\ acts = 0 /\ failures = 0
    BY <1>1
  <2>1. current \in 1..Cardinality(Projects) /\ acts \in 0..MaxActs /\ failures \in 0..MaxFailures
    BY <2>0, ProjectsNats
  <2>2. ProjectsPage!Ids = {}
    BY <1>3 DEF ProjectsPage!Ids
  <2>3. \A r \in asked : AskOK(r)
    BY <1>1, ProjectsList
  <2> QED BY <1>1, <1>3, <2>1, <2>2, <2>3 DEF ListPart
<1>5. FormPart
  <2>0. "" \in Keys
    BY ProjectsConstants
  <2>1. <<"">> \in Seq(Keys) /\ <<"">> # <<>> /\ Len(<<"">>) = 1
    BY <2>0, SequenceOfOne
  <2>2. 1 <= MaxEnv
    BY ProjectsNats
  <2> QED BY <1>1, <2>1, <2>2 DEF FormPart
<1>6. UploadPart
  BY <1>1, <1>2, ProjectsList DEF UploadPart
<1>7. ShownPart
  BY <1>1, <1>2, ProjectsList DEF ShownPart
<1>8. PagePart
  BY <1>1, <1>3 DEF PagePart
<1> QED BY <1>4, <1>5, <1>6, <1>7, <1>8 DEF ProjectsIInv

\* Going to the list, searching, paging and pressing the buttons of a row.
LEMMA ProjectsActs ==
  ASSUME ProjectsIInv,
         \/ \E t \in {"projects", "new"} : ProjectsPage!SwitchTab(t)
         \/ \E t \in {"", "some"} : ProjectsPage!Search(t)
         \/ \E p \in 1..Cardinality(Projects) : ProjectsPage!GoTo(p)
         \/ \E what \in {"scale", "delete"}, x \in Projects : ProjectsPage!Press(what, x)
  PROVE  ProjectsIInv'
<1>0. /\ UNCHANGED <<env, inputs, button>> /\ UNCHANGED <<apps, failures, gone, late>>
      /\ acts < MaxActs /\ acts' = acts + 1
  BY DEF ProjectsPage!SwitchTab, ProjectsPage!Search, ProjectsPage!GoTo, ProjectsPage!Press,
         ProjectsPage!Act
<1>1. /\ DOMAIN apps \subseteq Projects /\ current \in 1..Cardinality(Projects)
      /\ term \in {"", "some"} /\ tab \in {"projects", "new"} /\ acts \in 0..MaxActs
      /\ failures \in 0..MaxFailures
  BY DEF ProjectsIInv, ListPart
<1>2. acts' \in 0..MaxActs /\ 1 \in 1..Cardinality(Projects) /\ current \in Nat
  <2>1. acts < MaxActs /\ acts' = acts + 1 /\ acts \in 0..MaxActs
    BY <1>0, <1>1
  <2>2. acts' \in 0..MaxActs
    <3>1. MaxActs \in Nat
      BY ProjectsNats
    <3> QED BY <2>1, <3>1, CountedUp
  <2>3. current \in 1..Cardinality(Projects)
    BY <1>1
  <2> QED BY <2>2, <2>3, ProjectsNats
<1>3. \E w \in {"list", "scale", "delete"} : \E x :
        \/ asked' = asked \cup {ProjectsPage!Ask(acts + 1, w, x)} \/ asked' = asked
  BY DEF ProjectsPage!SwitchTab, ProjectsPage!Search, ProjectsPage!GoTo, ProjectsPage!Press,
         ProjectsPage!LoadProjects, ProjectsPage!List
<1>4. /\ asked \subseteq asked' /\ \A r \in asked' : r \in asked \/ (AskOK(r) /\ r.what # "upload")
  <2>0. PICK w \in {"list", "scale", "delete"} : \E x :
          asked' = asked \cup {ProjectsPage!Ask(acts + 1, w, x)} \/ asked' = asked
    BY <1>3
  <2>1. PICK x : asked' = asked \cup {ProjectsPage!Ask(acts + 1, w, x)} \/ asked' = asked
    BY <2>0
  <2> DEFINE q == ProjectsPage!Ask(acts + 1, w, x)
  <2>2. AskOK(q) /\ q.what # "upload"
    BY ProjectsAsk
  <2>3. asked' = asked \cup {q} \/ asked' = asked
    BY <2>1
  <2> HIDE DEF q
  <2> QED BY <2>2, <2>3
<1>5. /\ term' \in {"", "some"} /\ tab' \in {"projects", "new"}
      /\ current' \in 1..Cardinality(Projects) /\ list' \in {list, ProjectsPage!Loading}
  BY <1>1, <1>2
     DEF ProjectsPage!SwitchTab, ProjectsPage!Search, ProjectsPage!GoTo, ProjectsPage!Press,
         ProjectsPage!LoadProjects
<1>6. \/ UNCHANGED <<term, current, list>>
      \/ \E r \in asked' : r.what = "list"
  BY ProjectsList
     DEF ProjectsPage!SwitchTab, ProjectsPage!Search, ProjectsPage!GoTo, ProjectsPage!Press,
         ProjectsPage!LoadProjects
<1>7. ListPart'
  BY <1>0, <1>1, <1>2, <1>4, <1>5, ProjectsListKept DEF ProjectsIInv
<1>8. FormPart'
  BY <1>0, ProjectsFormKept DEF ProjectsIInv
<1>9. UploadPart'
  BY <1>0, <1>4, ProjectsUploadKept DEF ProjectsIInv
<1>10. ShownPart'
  <2>1. late' \in BOOLEAN
    BY <1>0 DEF ProjectsIInv, ShownPart
  <2> QED BY <1>0, <1>4, <1>6, <2>1, ProjectsShownKept, ProjectsShownAsked DEF ProjectsIInv
<1>11. PagePart'
  <2>1. CASE UNCHANGED term
    <3>1. \/ current' = current
          \/ list.kind = "rows" /\ current' \in 1..ProjectsPage!Pages(list.total)
          \/ current' = 1
      BY DEF ProjectsPage!SwitchTab, ProjectsPage!Search, ProjectsPage!GoTo, ProjectsPage!Press
    <3>2. DOMAIN apps' = DOMAIN apps
      BY <1>0
    <3> QED BY <1>0, <1>1, <1>2, <1>5, <2>1, <3>1, <3>2, ProjectsPageKept DEF ProjectsIInv
  <2>2. CASE \E t \in {"", "some"} : ProjectsPage!Search(t)
    <3>1. current' = 1 /\ list' = ProjectsPage!Loading
      BY <2>2 DEF ProjectsPage!Search, ProjectsPage!LoadProjects
    <3>2. list'.kind # "rows"
      BY <3>1 DEF ProjectsPage!Loading
    <3> QED BY <3>1, <3>2 DEF PagePart
  <2> QED BY <2>1, <2>2 DEF ProjectsPage!SwitchTab, ProjectsPage!GoTo, ProjectsPage!Press
<1> QED BY <1>7, <1>8, <1>9, <1>10, <1>11 DEF ProjectsIInv

\* A request in another's place, which keeps being awaited.
LEMMA ProjectsReplaced ==
  ASSUME NEW r \in asked, AskOK(r), NEW q, asked' = (asked \ {r}) \cup {q}, AskOK(q)
  PROVE  /\ \A p \in asked' : p \in asked \/ AskOK(p)
         /\ q \in asked'
OBVIOUS

LEMMA ProjectsServe ==
  ASSUME ProjectsIInv, NEW r \in asked, ProjectsPage!Serve(r) PROVE ProjectsIInv'
<1>1. /\ DOMAIN apps \subseteq Projects /\ current \in 1..Cardinality(Projects)
      /\ term \in {"", "some"} /\ tab \in {"projects", "new"} /\ acts \in 0..MaxActs
      /\ failures \in 0..MaxFailures /\ AskOK(r)
  BY DEF ProjectsIInv, ListPart
<1> DEFINE at == IF r.what = "list" \/ r.of \in DOMAIN apps THEN "done" ELSE "refused"
           seen == IF r.what = "list" THEN apps ELSE <<>>
           q == [r EXCEPT !.at = at, !.seen = seen]
<1>2. /\ UNCHANGED <<term, current, list, tab, env, inputs, acts, failures, late, button>>
      /\ asked' = (asked \ {r}) \cup {q} /\ r.what # "upload" /\ r.at = "sent"
      /\ gone' = gone \cup (DOMAIN apps \ DOMAIN apps')
  BY DEF ProjectsPage!Serve
<1>9. UNCHANGED button
  BY DEF ProjectsPage!Serve
<1>3. /\ q.what = r.what /\ q.at = at /\ q.seen = seen /\ at \in {"done", "refused"}
      /\ q = [id |-> q.id, what |-> q.what, of |-> q.of, at |-> q.at, seen |-> q.seen]
  <2>1. r = [id |-> r.id, what |-> r.what, of |-> r.of, at |-> r.at, seen |-> r.seen]
    BY <1>1 DEF AskOK
  <2>4. PICK i, w, o, a, n : r = [id |-> i, what |-> w, of |-> o, at |-> a, seen |-> n]
    BY <2>1
  <2> HIDE DEF at, seen
  <2>2. q = [id |-> i, what |-> w, of |-> o, at |-> at, seen |-> seen] /\ r.what = w
    <3>1. /\ [r EXCEPT !.at = at, !.seen = seen] = [id |-> i, what |-> w, of |-> o, at |-> at,
             seen |-> seen]
          /\ r.what = w
      <4>1. [r EXCEPT !.at = at, !.seen = seen] = [[r EXCEPT !.at = at] EXCEPT !.seen = seen]
        OBVIOUS
      <4>2. [r EXCEPT !.at = at] = [id |-> i, what |-> w, of |-> o, at |-> at, seen |-> n]
        BY <2>4
      <4>3. [[id |-> i, what |-> w, of |-> o, at |-> at, seen |-> n] EXCEPT !.seen = seen]
              = [id |-> i, what |-> w, of |-> o, at |-> at, seen |-> seen]
        OBVIOUS
      <4>4. r.what = w
        BY <2>4
      <4> QED BY <4>1, <4>2, <4>3, <4>4
    <3> QED BY <3>1
  <2> HIDE DEF q
  <2>3. q.what = r.what /\ q.at = at /\ q.seen = seen
        /\ q = [id |-> q.id, what |-> q.what, of |-> q.of, at |-> q.at, seen |-> q.seen]
    BY <2>2
  <2> QED BY <2>3 DEF at
<1>4. AskOK(q)
  <2>1. r.what = "list" => seen = apps
    OBVIOUS
  <2> HIDE DEF q, at, seen
  <2> QED BY <1>1, <1>3, <2>1 DEF AskOK
<1>5. /\ apps' = apps \/ at = "done"
      /\ DOMAIN apps' \subseteq Projects
  <2>1. CASE r.what = "list" \/ r.of \notin DOMAIN apps
    BY <1>1, <2>1 DEF ProjectsPage!Serve
  <2>2. CASE ~(r.what = "list" \/ r.of \notin DOMAIN apps)
    <3>1. r.what \in {"scale", "delete"}
      BY <1>1, <1>2, <2>2 DEF AskOK
    <3>2. CASE r.what = "scale"
      BY <1>1, <2>2, <3>2 DEF ProjectsPage!Serve
    <3>3. CASE r.what = "delete"
      <4>1. apps' = [x \in DOMAIN apps \ {r.of} |-> apps[x]]
        BY <2>2, <3>3 DEF ProjectsPage!Serve
      <4> QED BY <1>1, <2>2, <4>1
    <3> QED BY <3>1, <3>2, <3>3
  <2> QED BY <2>1, <2>2
<1> HIDE DEF q, at, seen
<1>6. \A p \in asked' : p \in asked \/ AskOK(p)
  BY <1>2, <1>4
<1>7. ListPart'
  BY <1>1, <1>2, <1>5, <1>6, ProjectsListKept DEF ProjectsIInv
<1>8. FormPart' /\ UploadPart'
  <2>1. FormPart'
    BY <1>2, ProjectsFormKept DEF ProjectsIInv
  <2>2. /\ \A p \in asked : p.what = "upload" => p \in asked'
        /\ \A p \in asked' : p.what = "upload" => p \in asked
    BY <1>2, <1>3
  <2> QED BY <1>9, <2>1, <2>2, ProjectsUploadKept DEF ProjectsIInv
<1>10. ShownPart'
  <2>1. CASE r.what = "list" \/ at = "done"
    <3>1. late' \in BOOLEAN
      BY <1>2 DEF ProjectsIInv, ShownPart
    <3> QED BY <1>2, <1>3, <2>1, <3>1, ProjectsShownAsked
  <2>2. CASE r.what # "list" /\ at # "done"
    <3>1. \A p \in asked : p.what = "list" \/ p.at = "done" => p \in asked'
      BY <1>2, <2>2
    <3> QED BY <1>2, <1>5, <2>2, <3>1, ProjectsShownKept DEF ProjectsIInv
  <2> QED BY <2>1, <2>2
<1>11. PagePart'
  <2>1. DOMAIN apps \subseteq DOMAIN apps' \/ gone' # {}
    BY <1>2
  <2>2. gone \subseteq gone' /\ (late => late') /\ current \in Nat
    BY <1>1, <1>2, ProjectsNats
  <2> QED BY <1>1, <1>2, <1>5, <2>1, <2>2, ProjectsPageKept DEF ProjectsIInv
<1> QED BY <1>7, <1>8, <1>10, <1>11 DEF ProjectsIInv

LEMMA ProjectsPressed ==
  ASSUME ProjectsIInv, NEW r \in asked, ProjectsPage!Pressed(r) \/ ProjectsPage!Fails(r)
  PROVE  ProjectsIInv'
<1>1. /\ DOMAIN apps \subseteq Projects /\ current \in 1..Cardinality(Projects)
      /\ term \in {"", "some"} /\ tab \in {"projects", "new"} /\ acts \in 0..MaxActs
      /\ failures \in 0..MaxFailures /\ AskOK(r)
  BY DEF ProjectsIInv, ListPart
<1>2. /\ UNCHANGED <<apps, term, current, tab, env, inputs, acts, gone, late>>
      /\ r.what # "upload" /\ list' \in {list, ProjectsPage!Loading, ProjectsPage!Empty}
      /\ asked' = asked \ {r} \/ asked' = (asked \ {r}) \cup {ProjectsPage!List(r.id)}
  BY DEF ProjectsPage!Pressed, ProjectsPage!Fails
<1>3. UNCHANGED button
  BY DEF ProjectsPage!Pressed, ProjectsPage!Fails
<1> DEFINE q == ProjectsPage!List(r.id)
<1>4. AskOK(q) /\ q.what = "list"
  BY ProjectsList
<1>6. asked' = asked \ {r} \/ asked' = (asked \ {r}) \cup {q}
  BY <1>2
<1>5. failures' \in 0..MaxFailures /\ (failures' = failures \/ failures' # 0)
  <2>1. failures' = failures \/ (failures < MaxFailures /\ failures' = failures + 1)
    BY DEF ProjectsPage!Pressed, ProjectsPage!Fails, ProjectsPage!Failure
  <2>2. failures \in 0..MaxFailures
    BY <1>1
  <2> QED BY <2>1, <2>2, ProjectsNats
<1>10. ShownPart'
  <2>0. late' \in BOOLEAN
    BY <1>2 DEF ProjectsIInv, ShownPart
  <2>1. CASE ProjectsPage!Fails(r)
    <3>1. failures' # 0
      <4>1. failures' = failures + 1 /\ failures \in 0..MaxFailures
        BY <1>1, <2>1 DEF ProjectsPage!Fails, ProjectsPage!Failure
      <4> QED BY <4>1, ProjectsNats
    <3> QED BY <2>0, <3>1 DEF ShownPart
  <2>2. CASE ProjectsPage!Pressed(r) /\ r.at = "done"
    <3>1. ProjectsPage!List(r.id) \in asked'
      BY <2>2 DEF ProjectsPage!Pressed
    <3> QED BY <2>0, <3>1, ProjectsList, ProjectsShownAsked
  <2>3. CASE ProjectsPage!Pressed(r) /\ r.at # "done"
    <3>1. asked' = asked \ {r} /\ r.what # "list" /\ UNCHANGED <<list, failures>>
      BY <2>3 DEF ProjectsPage!Pressed
    <3>2. \A p \in asked : p.what = "list" \/ p.at = "done" => p \in asked'
      BY <2>3, <3>1
    <3> QED BY <1>2, <3>1, <3>2, ProjectsShownKept DEF ProjectsIInv
  <2> QED BY <2>1, <2>2, <2>3
<1> HIDE DEF q
<1>7. ListPart'
  <2>1. \A p \in asked' : p \in asked \/ AskOK(p)
    BY <1>4, <1>6
  <2>2. DOMAIN apps' \subseteq Projects
    BY <1>1, <1>2
  <2> QED BY <1>1, <1>2, <1>5, <2>1, <2>2, ProjectsListKept DEF ProjectsIInv
<1>8. FormPart' /\ UploadPart'
  <2>1. FormPart'
    BY <1>2, ProjectsFormKept DEF ProjectsIInv
  <2>2. /\ \A p \in asked : p.what = "upload" => p \in asked'
        /\ \A p \in asked' : p.what = "upload" => p \in asked
    BY <1>2, <1>4, <1>6
  <2> QED BY <1>3, <2>1, <2>2, ProjectsUploadKept DEF ProjectsIInv
<1>11. PagePart'
  <2>1. DOMAIN apps \subseteq DOMAIN apps' /\ DOMAIN apps' \subseteq Projects
    BY <1>1, <1>2
  <2>2. gone \subseteq gone' /\ (late => late') /\ current \in Nat
    BY <1>1, <1>2, ProjectsNats
  <2> QED BY <1>1, <1>2, <2>1, <2>2, ProjectsPageKept DEF ProjectsIInv
<1> QED BY <1>7, <1>8, <1>10, <1>11 DEF ProjectsIInv

LEMMA ProjectsGotList ==
  ASSUME ProjectsIInv, NEW r \in asked, ProjectsPage!GotList(r) PROVE ProjectsIInv'
<1>1. /\ DOMAIN apps \subseteq Projects /\ current \in 1..Cardinality(Projects)
      /\ term \in {"", "some"} /\ tab \in {"projects", "new"} /\ acts \in 0..MaxActs
      /\ failures \in 0..MaxFailures /\ AskOK(r)
  BY DEF ProjectsIInv, ListPart
<1>2. /\ UNCHANGED <<apps, term, current, tab, env, inputs, acts, failures, gone>>
      /\ r.what = "list" /\ r.at = "done" /\ asked' = asked \ {r}
      /\ list' = ProjectsPage!Rendered(r.seen)
  BY DEF ProjectsPage!GotList
<1>3. UNCHANGED button
  BY DEF ProjectsPage!GotList
<1>4. late' = (late \/ r.seen # apps)
  BY DEF ProjectsPage!GotList
<1>5. late' \in BOOLEAN /\ (late => late') /\ (~late' => r.seen = apps)
  BY <1>4
<1>6. DOMAIN r.seen \subseteq Projects
  BY <1>1, <1>2 DEF AskOK
<1>7. ListPart'
  <2>1. list'.kind \in {"empty", "rows"} /\ {row[1] : row \in list'.rows} \subseteq Projects
    BY <1>2, <1>6, ProjectsRendered
  <2>2. ProjectsPage!Ids' = {row[1] : row \in list'.rows}
    BY DEF ProjectsPage!Ids
  <2>3. \A p \in asked' : AskOK(p)'
    BY <1>2 DEF ProjectsIInv, ListPart, AskOK
  <2> QED BY <1>1, <1>2, <2>1, <2>2, <2>3 DEF ListPart
<1>8. FormPart' /\ UploadPart'
  <2>1. FormPart'
    BY <1>2, ProjectsFormKept DEF ProjectsIInv
  <2>2. /\ \A p \in asked : p.what = "upload" => p \in asked'
        /\ \A p \in asked' : p.what = "upload" => p \in asked
    BY <1>2
  <2> QED BY <1>3, <2>1, <2>2, ProjectsUploadKept DEF ProjectsIInv
<1>9. ProjectsPage!Rendered(apps)' = ProjectsPage!Rendered(apps) /\ MatchingNow' = MatchingNow
  BY <1>2, ProjectsSameRendered
<1>10. ShownPart'
  BY <1>2, <1>5, <1>9 DEF ShownPart
<1>11. PagePart'
  <2> SUFFICES ASSUME gone = {}, ~late, r.seen = apps
               PROVE  /\ current = 1 \/ current <= ProjectsPage!Pages(Cardinality(MatchingNow))
                      /\ ProjectsPage!Rendered(apps).kind = "rows" =>
                           /\ ProjectsPage!Rendered(apps).total \in Nat
                           /\ ProjectsPage!Rendered(apps).total <= Cardinality(MatchingNow)
                           /\ ProjectsPage!Rendered(apps).rows # {}
    BY <1>2, <1>5, <1>9 DEF PagePart, ProjectsPage!Pages
  <2>1. current = 1 \/ current <= ProjectsPage!Pages(Cardinality(MatchingNow))
    BY DEF ProjectsIInv, PagePart
  <2>2. current \in Nat \ {0} /\ Cardinality(MatchingNow) \in Nat
    BY <1>1, ProjectsNats, ProjectsMatching
  <2>3. ProjectsPage!Rendered(apps).kind = "rows" =>
          /\ ProjectsPage!Rendered(apps).total = Cardinality(MatchingNow)
          /\ ProjectsPage!Rendered(apps).rows # {}
    BY <1>1, <2>1, <2>2, ProjectsRows
  <2> QED BY <2>1, <2>2, <2>3
<1> QED BY <1>7, <1>8, <1>10, <1>11 DEF ProjectsIInv

\* The fields of the form, and the file that replaces them.
LEMMA ProjectsForm ==
  ASSUME ProjectsIInv,
         \/ ProjectsPage!Add
         \/ \E i \in 1..MaxEnv : ProjectsPage!Remove(i) \/ \E k \in Keys : ProjectsPage!Change(i, k)
         \/ \E n \in 1..MaxEnv : \E ks \in [1..n -> Keys] : ProjectsPage!Import(ks)
  PROVE  ProjectsIInv'
<1>1. UNCHANGED <<apps, term, current, list, tab, asked, acts, failures, gone, late>>
  BY DEF ProjectsPage!Add, ProjectsPage!Remove, ProjectsPage!Change, ProjectsPage!Import
<1>2. UNCHANGED button
  BY DEF ProjectsPage!Add, ProjectsPage!Remove, ProjectsPage!Change, ProjectsPage!Import
<1>3. env \in Seq(Keys) /\ env # <<>> /\ Len(env) <= MaxEnv /\ inputs = env /\ Len(env) \in Nat
  BY DEF ProjectsIInv, FormPart
<1>4. FormPart'
  <2>1. CASE ProjectsPage!Add
    <3>1. env' = Append(env, "") /\ inputs' = env' /\ Len(env) < MaxEnv
      BY <2>1 DEF ProjectsPage!Add
    <3>2. "" \in Keys
      BY ProjectsConstants
    <3>3. env \in Seq(Keys) /\ MaxEnv \in Nat
      BY <1>3, ProjectsNats
    <3>4. Append(env, "") \in Seq(Keys) /\ Append(env, "") # <<>> /\ Len(Append(env, "")) <= MaxEnv
      BY <3>1, <3>2, <3>3, SequenceOneMore
    <3>5. env' \in Seq(Keys) /\ env' # <<>> /\ Len(env') <= MaxEnv
      BY <3>1, <3>4
    <3> QED BY <3>1, <3>5 DEF FormPart
  <2>2. CASE \E i \in 1..MaxEnv, k \in Keys : ProjectsPage!Change(i, k)
    <3>1. PICK i \in 1..MaxEnv, k \in Keys : ProjectsPage!Change(i, k)
      BY <2>2
    <3>2. /\ i \in DOMAIN env /\ inputs' = [env EXCEPT ![i] = k] /\ env' = [env EXCEPT ![i] = k]
      BY <1>3, <3>1 DEF ProjectsPage!Change
    <3>3. env' \in Seq(Keys) /\ Len(env') = Len(env) /\ env' # <<>>
      BY <1>3, <3>2
    <3> QED BY <1>3, <3>2, <3>3 DEF FormPart
  <2>3. CASE \E i \in 1..MaxEnv : ProjectsPage!Remove(i)
    <3>1. PICK i \in 1..MaxEnv : ProjectsPage!Remove(i)
      BY <2>3
    <3>2. /\ i \in DOMAIN env /\ Len(env) > 1 /\ inputs' = env'
          /\ env' = SubSeq(env, 1, i - 1) \o SubSeq(env, i + 1, Len(env))
      BY <3>1 DEF ProjectsPage!Remove
    <3> DEFINE a == SubSeq(env, 1, i - 1)
               b == SubSeq(env, i + 1, Len(env))
    <3>3. i \in 1..Len(env)
      BY <1>3, <3>2
    <3>4. a \in Seq(Keys) /\ Len(a) = i - 1
      BY <1>3, <3>3
    <3>5. b \in Seq(Keys) /\ Len(b) = Len(env) - i
      BY <1>3, <3>3
    <3> HIDE DEF a, b
    <3>6. a \o b \in Seq(Keys) /\ Len(a \o b) = Len(env) - 1
      BY <1>3, <3>3, <3>4, <3>5
    <3>7. env' = a \o b
      BY <3>2 DEF a, b
    <3>8. env' \in Seq(Keys) /\ Len(env') = Len(env) - 1
      BY <3>6, <3>7
    <3>9. env' # <<>> /\ Len(env') <= MaxEnv
      <4>1. Len(env) \in Nat /\ MaxEnv \in Nat /\ Len(env) > 1 /\ Len(env) <= MaxEnv
        BY <1>3, <3>2, ProjectsNats
      <4> QED BY <3>6, <3>7, <4>1, SequenceOneLess
    <3> QED BY <3>2, <3>8, <3>9 DEF FormPart
  <2>4. CASE \E n \in 1..MaxEnv : \E ks \in [1..n -> Keys] : ProjectsPage!Import(ks)
    <3>1. PICK n \in 1..MaxEnv : \E ks \in [1..n -> Keys] : ProjectsPage!Import(ks)
      BY <2>4
    <3>2. PICK ks \in [1..n -> Keys] : ProjectsPage!Import(ks)
      BY <3>1
    <3>3. env' = ks /\ inputs' = env' /\ ks # <<>>
      BY <3>2 DEF ProjectsPage!Import
    <3>4. n \in Nat /\ n <= MaxEnv
      BY ProjectsNats
    <3>5. ks \in Seq(Keys) /\ Len(ks) = n
      BY <3>2, <3>4
    <3> QED BY <3>3, <3>4, <3>5 DEF FormPart
  <2> QED BY <2>1, <2>2, <2>3, <2>4
<1>5. ListPart'
  <2>1. \A r \in asked' : AskOK(r)'
    BY <1>1 DEF ProjectsIInv, ListPart, AskOK
  <2> QED BY <1>1, <2>1 DEF ProjectsIInv, ListPart, ProjectsPage!Ids
<1>6. UploadPart'
  BY <1>1, <1>2, ProjectsUploadKept DEF ProjectsIInv
<1>7. ShownPart'
  BY <1>1, ProjectsShownKept DEF ProjectsIInv
<1>8. PagePart'
  <2>1. MatchingNow' = MatchingNow
    BY <1>1, ProjectsSameRendered
  <2> QED BY <1>1, <2>1 DEF ProjectsIInv, PagePart, ProjectsPage!Pages
<1> QED BY <1>4, <1>5, <1>6, <1>7, <1>8 DEF ProjectsIInv

LEMMA ProjectsSubmit == ASSUME ProjectsIInv, ProjectsPage!Submit PROVE ProjectsIInv'
<1>1. /\ UNCHANGED <<apps, term, current, list, tab, env, inputs, failures, gone, late>>
      /\ acts < MaxActs /\ acts' = acts + 1
      /\ asked' = asked \cup {ProjectsPage!Ask(acts + 1, "upload", 0)}
  BY DEF ProjectsPage!Submit, ProjectsPage!Act
<1>2. button /\ button' = FALSE
  BY DEF ProjectsPage!Submit
<1> DEFINE q == ProjectsPage!Ask(acts + 1, "upload", 0)
<1>3. AskOK(q) /\ q.what = "upload" /\ asked' = asked \cup {q}
  BY <1>1, ProjectsAsk
<1> HIDE DEF q
<1>4. \A r \in asked : r.what # "upload"
  BY <1>2 DEF ProjectsIInv, UploadPart
<1>5. UploadPart'
  BY <1>2, <1>3, <1>4 DEF UploadPart
<1>6. acts' \in 0..MaxActs /\ current \in Nat /\ DOMAIN apps \subseteq Projects
  <2>1. acts \in 0..MaxActs /\ current \in 1..Cardinality(Projects) /\ DOMAIN apps \subseteq Projects
    BY DEF ProjectsIInv, ListPart
  <2>2. acts' \in 0..MaxActs
    BY <1>1, <2>1, ProjectsNats
  <2> QED BY <2>1, <2>2, ProjectsNats
<1>7. ListPart'
  <2>1. \A r \in asked' : AskOK(r)'
    BY <1>3 DEF ProjectsIInv, ListPart, AskOK
  <2> QED BY <1>1, <1>6, <2>1 DEF ProjectsIInv, ListPart, ProjectsPage!Ids
<1>8. ShownPart'
  <2>1. asked \subseteq asked'
    BY <1>3
  <2> QED BY <1>1, <2>1, ProjectsShownKept DEF ProjectsIInv
<1>9. PagePart'
  <2>1. MatchingNow' = MatchingNow
    BY <1>1, ProjectsSameRendered
  <2> QED BY <1>1, <2>1 DEF ProjectsIInv, PagePart, ProjectsPage!Pages
<1>10. FormPart'
  BY <1>1, ProjectsFormKept DEF ProjectsIInv
<1> QED BY <1>5, <1>7, <1>8, <1>9, <1>10 DEF ProjectsIInv

LEMMA ProjectsServeUpload ==
  ASSUME ProjectsIInv, NEW r \in asked, ProjectsPage!ServeUpload(r) PROVE ProjectsIInv'
<1>1. /\ DOMAIN apps \subseteq Projects /\ current \in 1..Cardinality(Projects)
      /\ term \in {"", "some"} /\ tab \in {"projects", "new"} /\ acts \in 0..MaxActs
      /\ failures \in 0..MaxFailures /\ AskOK(r)
  BY DEF ProjectsIInv, ListPart
<1>2. /\ UNCHANGED <<term, current, list, tab, env, inputs, acts, failures, gone, late>>
      /\ r.what = "upload" /\ r.at = "sent"
  BY DEF ProjectsPage!ServeUpload
<1>3. UNCHANGED button
  BY DEF ProjectsPage!ServeUpload
<1>4. PICK at \in {"done", "refused"} :
        /\ asked' = (asked \ {r}) \cup {[r EXCEPT !.at = at]}
        /\ at = "refused" => apps' = apps
  BY DEF ProjectsPage!ServeUpload
<1>5. DOMAIN apps \subseteq DOMAIN apps' /\ DOMAIN apps' \subseteq Projects
  <2>1. CASE apps' = apps
    BY <1>1, <2>1
  <2>2. CASE \E x \in Projects :
               apps' = [y \in DOMAIN apps \cup {x} |-> IF y = x THEN FALSE ELSE apps[y]]
    BY <1>1, <2>2
  <2> QED BY <2>1, <2>2 DEF ProjectsPage!ServeUpload
<1> DEFINE q == [r EXCEPT !.at = at]
<1>6. /\ AskOK(q) /\ q.what = "upload" /\ q.at = at /\ asked' = (asked \ {r}) \cup {q}
  <2>1. PICK i, w, o, a, n : r = [id |-> i, what |-> w, of |-> o, at |-> a, seen |-> n]
    BY <1>1 DEF AskOK
  <2>2. q = [id |-> i, what |-> w, of |-> o, at |-> at, seen |-> n] /\ w = "upload"
    BY <1>2, <2>1
  <2> HIDE DEF q
  <2>3. AskOK(q) /\ q.what = "upload" /\ q.at = at
    BY <2>2 DEF AskOK
  <2> QED BY <1>4, <2>3 DEF q
<1> HIDE DEF q
<1>7. ListPart'
  <2>1. \A p \in asked' : p \in asked \/ AskOK(p)
    BY <1>6
  <2> QED BY <1>1, <1>2, <1>5, <2>1, ProjectsListKept DEF ProjectsIInv
<1>8. FormPart'
  BY <1>2, ProjectsFormKept DEF ProjectsIInv
<1>9. UploadPart'
  <2>1. (\E p \in asked' : p.what = "upload") /\ (\E p \in asked : p.what = "upload")
    BY <1>2, <1>6
  <2>2. \A p \in asked' : p.what = "upload" => p = q
    BY <1>2, <1>6 DEF ProjectsIInv, UploadPart
  <2>3. button = FALSE
    BY <2>1 DEF ProjectsIInv, UploadPart
  <2> QED BY <1>3, <2>1, <2>2, <2>3 DEF UploadPart
<1>10. ShownPart'
  <2>1. CASE at = "done"
    <3>1. late' \in BOOLEAN
      BY <1>2 DEF ProjectsIInv, ShownPart
    <3> QED BY <1>6, <2>1, <3>1, ProjectsShownAsked
  <2>2. CASE at = "refused"
    <3>1. \A p \in asked : p.what = "list" \/ p.at = "done" => p \in asked'
      BY <1>2, <1>6
    <3> QED BY <1>2, <1>4, <2>2, <3>1, ProjectsShownKept DEF ProjectsIInv
  <2> QED BY <2>1, <2>2
<1>11. PagePart'
  <2>2. gone \subseteq gone' /\ (late => late') /\ current \in Nat
    BY <1>1, <1>2, ProjectsNats
  <2> QED BY <1>1, <1>2, <1>5, <2>2, ProjectsPageKept DEF ProjectsIInv
<1> QED BY <1>7, <1>8, <1>9, <1>10, <1>11 DEF ProjectsIInv

LEMMA ProjectsUploaded ==
  ASSUME ProjectsIInv, NEW r \in asked, ProjectsPage!Uploaded(r) \/ ProjectsPage!NotUploaded(r)
  PROVE  ProjectsIInv'
<1>1. /\ DOMAIN apps \subseteq Projects /\ current \in 1..Cardinality(Projects)
      /\ term \in {"", "some"} /\ tab \in {"projects", "new"} /\ acts \in 0..MaxActs
      /\ failures \in 0..MaxFailures /\ AskOK(r)
  BY DEF ProjectsIInv, ListPart
<1>2. /\ UNCHANGED <<apps, term, current, acts, gone, late>> /\ r.what = "upload"
      /\ tab' \in {"projects", "new"} /\ list' \in {list, ProjectsPage!Loading}
  BY <1>1 DEF ProjectsPage!Uploaded, ProjectsPage!NotUploaded
<1>3. button' = TRUE
  BY DEF ProjectsPage!Uploaded, ProjectsPage!NotUploaded
<1> DEFINE q == ProjectsPage!List(r.id)
           p == [ProjectsPage!List(r.id) EXCEPT !.of = 1]
<1>4. /\ AskOK(q) /\ q.what = "list" /\ AskOK(p) /\ p.what = "list"
  BY DEF AskOK, ProjectsPage!List, ProjectsPage!Ask
<1>5. asked' = asked \ {r} \/ (ProjectsPage!Uploaded(r) /\ asked' = (asked \ {r}) \cup {q, p})
  BY DEF ProjectsPage!Uploaded, ProjectsPage!NotUploaded
<1>12. ProjectsPage!Uploaded(r) => asked' = (asked \ {r}) \cup {q, p}
  BY DEF ProjectsPage!Uploaded
<1> HIDE DEF q, p
<1>6. /\ failures' \in 0..MaxFailures
      /\ failures' # failures => failures' # 0
  <2>1. failures' = failures \/ (failures < MaxFailures /\ failures' = failures + 1)
    BY DEF ProjectsPage!Uploaded, ProjectsPage!NotUploaded, ProjectsPage!Failure
  <2>2. failures \in 0..MaxFailures
    BY <1>1
  <2> QED BY <2>1, <2>2, ProjectsNats
<1>7. ListPart'
  <2>1. \A s \in asked' : s \in asked \/ AskOK(s)
    BY <1>4, <1>5
  <2>2. DOMAIN apps' \subseteq Projects
    BY <1>1, <1>2
  <2> QED BY <1>1, <1>2, <1>6, <2>1, <2>2, ProjectsListKept DEF ProjectsIInv
<1>8. FormPart'
  <2>1. CASE ProjectsPage!Uploaded(r)
    <3>0. "" \in Keys
      BY ProjectsConstants
    <3>1. <<"">> \in Seq(Keys) /\ <<"">> # <<>> /\ Len(<<"">>) = 1
      BY <3>0, SequenceOfOne
    <3>2. env' = <<"">> /\ inputs' = env'
      BY <2>1 DEF ProjectsPage!Uploaded
    <3>3. 1 <= MaxEnv
      BY ProjectsNats
    <3> QED BY <3>1, <3>2, <3>3 DEF FormPart
  <2>2. CASE ProjectsPage!NotUploaded(r)
    <3>1. UNCHANGED <<env, inputs>>
      BY <2>2 DEF ProjectsPage!NotUploaded
    <3> QED BY <3>1, ProjectsFormKept DEF ProjectsIInv
  <2> QED BY <2>1, <2>2
<1>9. UploadPart'
  <2>1. \A s \in asked : s.what = "upload" => s = r
    BY <1>2 DEF ProjectsIInv, UploadPart
  <2>2. \A s \in asked' : s.what # "upload"
    BY <1>4, <1>5, <2>1
  <2> QED BY <1>3, <2>2 DEF UploadPart
<1>10. ShownPart'
  <2>0. late' \in BOOLEAN
    BY <1>2 DEF ProjectsIInv, ShownPart
  <2>1. CASE ProjectsPage!Uploaded(r)
    BY <1>4, <1>12, <2>0, <2>1, ProjectsShownAsked
  <2>2. CASE ProjectsPage!NotUploaded(r) /\ r.at = "refused"
    <3>1. UNCHANGED <<list, failures>> /\ asked' = asked \ {r}
      BY <2>2 DEF ProjectsPage!NotUploaded
    <3>2. \A s \in asked : s.what = "list" \/ s.at = "done" => s \in asked'
      BY <1>2, <2>2, <3>1
    <3> QED BY <1>2, <3>1, <3>2, ProjectsShownKept DEF ProjectsIInv
  <2>3. CASE ProjectsPage!NotUploaded(r) /\ r.at # "refused"
    <3>1. failures' = failures + 1 /\ failures \in 0..MaxFailures
      BY <1>1, <2>3 DEF ProjectsPage!NotUploaded, ProjectsPage!Failure
    <3>2. failures' # 0
      BY <3>1, ProjectsNats
    <3> QED BY <2>0, <3>2 DEF ShownPart
  <2> QED BY <2>1, <2>2, <2>3
<1>11. PagePart'
  <2>1. DOMAIN apps \subseteq DOMAIN apps' /\ DOMAIN apps' \subseteq Projects
    BY <1>1, <1>2
  <2>2. gone \subseteq gone' /\ (late => late') /\ current \in Nat
    BY <1>1, <1>2, ProjectsNats
  <2> QED BY <1>1, <1>2, <2>1, <2>2, ProjectsPageKept DEF ProjectsIInv
<1> QED BY <1>7, <1>8, <1>9, <1>10, <1>11 DEF ProjectsIInv

LEMMA ProjectsStep == ASSUME ProjectsIInv, ProjectsPage!Next PROVE ProjectsIInv'
<1>1. \A S : ProjectsPage!Cardinality(S) = Cardinality(S)
  BY ProjectsCardinality
<1>2. ProjectsPage!Next =>
        \/ \E t \in {"projects", "new"} : ProjectsPage!SwitchTab(t)
        \/ \E t \in {"", "some"} : ProjectsPage!Search(t)
        \/ \E p \in 1..Cardinality(Projects) : ProjectsPage!GoTo(p)
        \/ \E what \in {"scale", "delete"}, x \in Projects : ProjectsPage!Press(what, x)
        \/ ProjectsPage!Add \/ ProjectsPage!Submit
        \/ \E i \in 1..MaxEnv : ProjectsPage!Remove(i) \/ \E k \in Keys : ProjectsPage!Change(i, k)
        \/ \E n \in 1..MaxEnv : \E ks \in [1..n -> Keys] : ProjectsPage!Import(ks)
        \/ \E r \in asked :
             \/ ProjectsPage!Serve(r) \/ ProjectsPage!Pressed(r) \/ ProjectsPage!GotList(r)
             \/ ProjectsPage!Fails(r) \/ ProjectsPage!ServeUpload(r) \/ ProjectsPage!Uploaded(r)
             \/ ProjectsPage!NotUploaded(r)
  BY <1>1 DEF ProjectsPage!Next
<1> QED BY <1>2, ProjectsActs, ProjectsServe, ProjectsPressed, ProjectsGotList, ProjectsForm,
        ProjectsSubmit, ProjectsServeUpload, ProjectsUploaded

LEMMA ProjectsSame == ASSUME ProjectsIInv, UNCHANGED ProjectsPage!projectsVars PROVE ProjectsIInv'
<1>1. UNCHANGED <<apps, term, current, list, tab, env, inputs, asked, acts, failures, gone, late>>
  BY DEF ProjectsPage!projectsVars
<1>2. UNCHANGED button
  BY DEF ProjectsPage!projectsVars
<1>3. ListPart'
  <2>1. \A r \in asked' : AskOK(r)'
    BY <1>1 DEF ProjectsIInv, ListPart, AskOK
  <2> QED BY <1>1, <2>1 DEF ProjectsIInv, ListPart, ProjectsPage!Ids
<1>4. FormPart' /\ UploadPart' /\ ShownPart'
  BY <1>1, <1>2, ProjectsFormKept, ProjectsUploadKept, ProjectsShownKept DEF ProjectsIInv
<1>5. PagePart'
  <2>1. MatchingNow' = MatchingNow
    BY <1>1, ProjectsSameRendered
  <2> QED BY <1>1, <2>1 DEF ProjectsIInv, PagePart, ProjectsPage!Pages
<1> QED BY <1>3, <1>4, <1>5 DEF ProjectsIInv

LEMMA ProjectsGives ==
  ASSUME ProjectsIInv
  PROVE  /\ ProjectsPage!ProjectsTypeOK /\ ProjectsPage!SettledProjects
         /\ ProjectsPage!PageHasProjects /\ ProjectsPage!FieldsAreEnv /\ ProjectsPage!OneUpload
<1>1. ProjectsPage!ProjectsTypeOK
  <2>1. env # <<>> /\ Len(env) <= MaxEnv /\ \A i \in DOMAIN env : env[i] \in Keys
    BY DEF ProjectsIInv, FormPart
  <2> QED BY <2>1, ProjectsCardinality DEF ProjectsIInv, ListPart, ProjectsPage!ProjectsTypeOK
<1>2. ProjectsPage!SettledProjects
  BY DEF ProjectsIInv, ShownPart, ProjectsPage!SettledProjects
<1>3. ProjectsPage!PageHasProjects
  BY DEF ProjectsIInv, PagePart, ProjectsPage!PageHasProjects
<1>4. ProjectsPage!FieldsAreEnv
  BY DEF ProjectsIInv, FormPart, ProjectsPage!FieldsAreEnv
<1>5. ProjectsPage!OneUpload
  <2> DEFINE uploads == {r \in asked : r.what = "upload"}
  <2>1. Cardinality(uploads) <= 1
    <3>1. CASE uploads = {}
      <4>1. Cardinality(uploads) = 0
        BY <3>1, FS_EmptySet
      <4> QED BY <4>1
    <3>2. CASE uploads # {}
      <4>1. PICK r \in uploads : TRUE
        BY <3>2
      <4>2. uploads = {r}
        BY DEF ProjectsIInv, UploadPart
      <4>3. Cardinality(uploads) = 1
        BY <4>2, FS_Singleton
      <4> QED BY <4>3
    <3> QED BY <3>1, <3>2
  <2>2. button <=> ~\E r \in asked : r.what = "upload"
    BY DEF ProjectsIInv, UploadPart
  <2>3. ProjectsPage!Cardinality(uploads) <= 1
    BY <2>1, ProjectsCardinality
  <2> QED BY <2>2, <2>3 DEF ProjectsPage!OneUpload
<1> QED BY <1>1, <1>2, <1>3, <1>4, <1>5

-------------------------------------------------------------------------------
(* The servers in and out of the cluster. AssignServersProofs proves its      *)
(* invariant of the page by itself; its definitions are the ones of the page  *)
(* on the screen.                                                             *)

Assign == INSTANCE AssignServersProofs WITH MaxActs <- MaxMoves

LEMMA AssignSameAssumption == Assign!AssignAssumption
BY PagesAssumption
DEF AssignServers!AssignAssumption, Assign!AssignAssumption,
    AssignServers!IsFiniteSet, Assign!IsFiniteSet

LEMMA AssignSameInit == AssignServers!Init => Assign!Init
BY DEF AssignServers!Init, Assign!Init,
  AssignServers!InCluster, Assign!InCluster, AssignServers!MastersOf,
  Assign!MastersOf, AssignServers!NoRows, Assign!NoRows, AssignServers!Roles,
  Assign!Roles, AssignServers!Cardinality, Assign!Cardinality,
  AssignServers!IsFiniteSet, Assign!IsFiniteSet

LEMMA AssignSameNext == AssignServers!Next => Assign!Next
BY DEF AssignServers!Next, Assign!Next,
  AssignServers!InCluster, Assign!InCluster, AssignServers!MastersOf,
  Assign!MastersOf, AssignServers!First, Assign!First, AssignServers!Op, Assign!Op,
  AssignServers!Act, Assign!Act, AssignServers!Failure, Assign!Failure,
  AssignServers!Becomes, Assign!Becomes, AssignServers!Ends, Assign!Ends,
  AssignServers!Refresh, Assign!Refresh, AssignServers!Assign, Assign!Assign,
  AssignServers!ChangeRole, Assign!ChangeRole, AssignServers!ChangeRoles,
  Assign!ChangeRoles, AssignServers!Remove, Assign!Remove, AssignServers!RemoveAll,
  Assign!RemoveAll, AssignServers!Confirm, Assign!Confirm, AssignServers!Passes,
  Assign!Passes, AssignServers!Check, Assign!Check, AssignServers!CheckFails,
  Assign!CheckFails, AssignServers!GetRole, Assign!GetRole,
  AssignServers!GetRoleFails, Assign!GetRoleFails, AssignServers!Stored,
  Assign!Stored, AssignServers!Rest, Assign!Rest, AssignServers!Put, Assign!Put,
  AssignServers!PutFails, Assign!PutFails, AssignServers!Detail, Assign!Detail,
  AssignServers!DetailFails, Assign!DetailFails, AssignServers!Serve, Assign!Serve,
  AssignServers!Shown, Assign!Shown, AssignServers!GotTables, Assign!GotTables,
  AssignServers!TablesFail, Assign!TablesFail, AssignServers!NoRows, Assign!NoRows,
  AssignServers!Roles, Assign!Roles, AssignServers!Cardinality, Assign!Cardinality,
  AssignServers!IsFiniteSet, Assign!IsFiniteSet

LEMMA AssignInit == AssignServers!Init => Assign!AssignIInv
BY AssignSameAssumption, AssignSameInit, Assign!InitHolds

LEMMA AssignStep == ASSUME Assign!AssignIInv, AssignServers!Next PROVE Assign!AssignIInv'
<1>1. [Assign!Next]_(Assign!assignVars)
  BY AssignSameNext
<1> QED BY <1>1, AssignSameAssumption, Assign!StepHolds

LEMMA AssignSame ==
  ASSUME Assign!AssignIInv, UNCHANGED <<db, tables, ops, busy, acts, failures, careless, late>>
  PROVE  Assign!AssignIInv'
<1>1. [Assign!Next]_(Assign!assignVars)
  BY DEF Assign!assignVars
<1> QED BY <1>1, AssignSameAssumption, Assign!StepHolds

LEMMA AssignGives ==
  ASSUME Assign!AssignIInv
  PROVE  AssignServers!AssignTypeOK /\ AssignServers!OneMaster /\ AssignServers!SettledTables
<1>1. Assign!AssignTypeOK /\ Assign!OneMaster /\ Assign!SettledTables
  BY AssignSameAssumption, Assign!InvariantGives
<1>2. AssignServers!AssignTypeOK
  BY <1>1
  DEF AssignServers!AssignTypeOK, Assign!AssignTypeOK, AssignServers!NoRows, Assign!NoRows,
      AssignServers!Roles, Assign!Roles
<1>3. AssignServers!OneMaster
  BY <1>1
  DEF AssignServers!OneMaster, Assign!OneMaster, AssignServers!InCluster, Assign!InCluster,
      AssignServers!MastersOf, Assign!MastersOf,
      AssignServers!Cardinality, Assign!Cardinality, AssignServers!IsFiniteSet, Assign!IsFiniteSet
<1>4. AssignServers!SettledTables
  BY <1>1 DEF AssignServers!SettledTables, Assign!SettledTables
<1> QED BY <1>2, <1>3, <1>4

LEMMA AssignKeepsRole ==
  ASSUME Assign!AssignIInv, AssignServers!Next PROVE AssignServers!RoleKept
<1>1. [Assign!Next]_(Assign!assignVars)
  BY AssignSameNext
<1>2. Assign!RoleKept
  BY <1>1, AssignSameAssumption, Assign!StepKeepsRole
<1> QED BY <1>2 DEF AssignServers!RoleKept, Assign!RoleKept

LEMMA AssignSameKeepsRole ==
  ASSUME UNCHANGED <<db, careless>>
  PROVE AssignServers!RoleKept
BY DEF AssignServers!RoleKept

-------------------------------------------------------------------------------
(* The servers *)

BusyKinds == {"add", "edit", "reconnect", "check", "refresh"}
ChangingKinds ==
  {"add", "edit", "reconnect", "key", "delete", "shutdown", "disconnect", "check", "auto"}
LookingKinds == {"metrics", "refresh", "editOpen", "reconnectOpen"}
CardStatuses == {"ONLINE", "OFFLINE", "DISABLED"}
CardRecords == [of : Cards, status : CardStatuses, on : BOOLEAN, work : Nat]
AwaitingKinds == {"edit", "reconnect", "check"}

\* An operation and a load are whole; a list that was read has each server once.
ServerOpOK(op) ==
  /\ op = [kind |-> op.kind, of |-> op.of, id |-> op.id, stage |-> op.stage]
  /\ op.kind \in ChangingKinds \cup LookingKinds
  /\ op.of \in Cards \cup {"none"} /\ op.id \in Int
  /\ op.stage \in {"asked", "done", "missing", "loading"}
  /\ op.stage = "loading" => op.kind \in AwaitingKinds
  /\ op.kind = "add" => op.of \in Cards
LoadOK(l) ==
  /\ l = [id |-> l.id, list |-> l.list, on |-> l.on, left |-> l.left]
  /\ \A row \in l.list : row \in Cards \X CardStatuses
  /\ \A row, other \in l.list : row[1] = other[1] => row = other

RowsNow == {<<s, status[s]>> : s \in ServersPage!Exist}
ViewOf(cards) == {<<c.of, c.status, c.on>> : c \in cards}
ViewNow == {<<s, status[s], s \in connected>> : s \in ServersPage!Exist}

RowsPart ==
  /\ status \in [Cards -> CardStatuses \cup {"gone"}] /\ connected \subseteq Cards
  /\ grid \subseteq CardRecords /\ \A c, d \in grid : c.of = d.of => c = d
OpsPart == (\A op \in ops : ServerOpOK(op)) /\ \A l \in loads : LoadOK(l)
BoundsPart ==
  /\ clicks \in Nat /\ failures \in Nat /\ closing \subseteq Int
  /\ session \in Sessions
  /\ windows \subseteq ServersPage!Forms
  /\ form \in [{"edit", "reconnect"} -> Cards \cup {"none"}]
Pressed(op) == \/ op.kind \in {"edit", "reconnect"} /\ op.stage # "loading"
               \/ op.kind \in {"check", "refresh"}
SavePart ==
  /\ busy \subseteq BusyKinds /\ crossed \subseteq {"edit", "reconnect"}
  /\ \A b \in busy : \E op \in ops : op.kind = b /\ (b = "add" \/ Pressed(op))
  /\ \A op \in ops : Pressed(op) /\ op.kind \notin crossed => op.kind \in busy
  /\ \A a, b \in ops : Pressed(a) /\ Pressed(b) /\ a.kind = b.kind /\ a.kind \notin crossed => a = b

\* Until something fails or two loads meet: what has changed the servers still has its load
\* before it, or a load has read nothing that has changed since, or the cards are right.
IsRight(l) ==
  /\ "servers" \in l.left \/ l.list = RowsNow
  /\ "connected" \in l.left \/ l.on = connected
WillLoad == (\E op \in ops : op.kind \in ChangingKinds /\ op.stage = "done") \/ closing # {}
CardsPart ==
  failures = 0 /\ ~mixed =>
    /\ \A l, m \in loads : l = m
    /\ \/ WillLoad
       \/ \E l \in loads : IsRight(l)
       \/ loads = {} /\ ViewOf(grid) = ViewNow

ServersIInv == RowsPart /\ OpsPart /\ BoundsPart /\ SavePart /\ CardsPart

LEMMA ServersNats ==
  MaxDetails \in Nat
  /\ "none" \notin Cards
BY PagesAssumption DEF ServersPage!ServersPageAssumption

LEMMA ServersConstants ==
  /\ ServersPage!Statuses = CardStatuses /\ ServersPage!Forms = {"add", "edit", "reconnect"}
  /\ ServersPage!CardOps = {"delete", "shutdown", "disconnect", "metrics", "editOpen", "reconnectOpen"}
  /\ ServersPage!Exist \subseteq Cards
BY DEF ServersPage!Statuses, CardStatuses, ServersPage!Forms, ServersPage!CardOps, ServersPage!Exist

\* One more operation, one in the place of another, and one less, with its button.
LEMMA SaveMore ==
  ASSUME SavePart, NEW p, ops' = ops \cup {p}, p.stage # "loading", crossed' = crossed,
         \/ p.kind \notin BusyKinds /\ busy' = busy
         \/ p.kind \in BusyKinds /\ p.kind \notin busy /\ busy' = busy \cup {p.kind}
  PROVE  SavePart'
<1>1. busy' \subseteq BusyKinds /\ crossed' \subseteq {"edit", "reconnect"}
  BY DEF SavePart
<1>2. \A b \in busy' : \E q \in ops' : q.kind = b /\ (b = "add" \/ Pressed(q))
  BY DEF SavePart, Pressed, BusyKinds
<1>3. \A q \in ops' : Pressed(q) /\ q.kind \notin crossed' => q.kind \in busy'
  BY DEF SavePart, Pressed, BusyKinds
<1>4. \A a, b \in ops' : Pressed(a) /\ Pressed(b) /\ a.kind = b.kind /\ a.kind \notin crossed' => a = b
  BY DEF SavePart, Pressed, BusyKinds
<1> QED BY <1>1, <1>2, <1>3, <1>4 DEF SavePart

LEMMA SaveChanged ==
  ASSUME SavePart, NEW op \in ops, NEW p, ops' = (ops \ {op}) \cup {p}, busy' = busy,
         crossed' = crossed,
         \/ p.kind = op.kind /\ ((op.stage # "loading" /\ p.stage # "loading") \/ p.kind = "check")
         \/ p.kind \notin BusyKinds /\ op.kind \notin BusyKinds
  PROVE  SavePart'
<1>1. busy' \subseteq BusyKinds /\ crossed' \subseteq {"edit", "reconnect"}
  BY DEF SavePart
<1>2. \A b \in busy' : \E q \in ops' : q.kind = b /\ (b = "add" \/ Pressed(q))
  BY DEF SavePart, Pressed, BusyKinds
<1>3. \A q \in ops' : Pressed(q) /\ q.kind \notin crossed' => q.kind \in busy'
  BY DEF SavePart, Pressed, BusyKinds
<1>4. \A a, b \in ops' : Pressed(a) /\ Pressed(b) /\ a.kind = b.kind /\ a.kind \notin crossed' => a = b
  BY DEF SavePart, Pressed, BusyKinds
<1> QED BY <1>1, <1>2, <1>3, <1>4 DEF SavePart

LEMMA SaveLess ==
  ASSUME SavePart, NEW op \in ops, ops' = ops \ {op}, busy' = busy \ {op.kind},
         op.stage # "loading", crossed' = crossed
  PROVE  SavePart'
<1>1. busy' \subseteq BusyKinds /\ crossed' \subseteq {"edit", "reconnect"}
  BY DEF SavePart
<1>2. \A b \in busy' : \E q \in ops' : q.kind = b /\ (b = "add" \/ Pressed(q))
  BY DEF SavePart, Pressed
<1>3. \A q \in ops' : Pressed(q) /\ q.kind \notin crossed' => q.kind \in busy'
  BY DEF SavePart, Pressed
<1>4. \A a, b \in ops' : Pressed(a) /\ Pressed(b) /\ a.kind = b.kind /\ a.kind \notin crossed' => a = b
  BY DEF SavePart, Pressed
<1> QED BY <1>1, <1>2, <1>3, <1>4 DEF SavePart

\* A save is over for its window, and goes on loading the list.
LEMMA SaveAwaits ==
  ASSUME SavePart, NEW op \in ops, NEW p, ops' = (ops \ {op}) \cup {p}, p.kind = op.kind,
         op.kind \in {"edit", "reconnect"}, op.stage # "loading", p.stage = "loading",
         busy' = busy \ {op.kind}, crossed' = crossed
  PROVE  SavePart'
<1>1. busy' \subseteq BusyKinds /\ crossed' \subseteq {"edit", "reconnect"}
  BY DEF SavePart
<1>2. \A b \in busy' : \E q \in ops' : q.kind = b /\ (b = "add" \/ Pressed(q))
  BY DEF SavePart, Pressed
<1>3. \A q \in ops' : Pressed(q) /\ q.kind \notin crossed' => q.kind \in busy'
  BY DEF SavePart, Pressed
<1>4. \A a, b \in ops' : Pressed(a) /\ Pressed(b) /\ a.kind = b.kind /\ a.kind \notin crossed' => a = b
  BY DEF SavePart, Pressed
<1> QED BY <1>1, <1>2, <1>3, <1>4 DEF SavePart

\* The end of a load enables the buttons of what awaited it.
LEMMA SaveLoaded ==
  ASSUME SavePart, NEW ended \in SUBSET ops, NEW kinds,
         \A op \in ended : op.stage = "loading" /\ op.kind \in AwaitingKinds,
         kinds = {op.kind : op \in ended}, ops' = ops \ ended, busy' = busy \ kinds,
         crossed' = crossed \cup {k \in kinds : \E op \in ops : op.kind = k /\ op.stage # "loading"}
  PROVE  SavePart'
<1>1. "check" \notin crossed' /\ crossed' \subseteq {"edit", "reconnect"}
  <2>1. ASSUME NEW op \in ops, op.kind = "check", op.stage # "loading", NEW e \in ended, e.kind = "check"
        PROVE  FALSE
    <3>1. Pressed(op) /\ Pressed(e) /\ op # e /\ e \in ops
      BY <2>1 DEF Pressed
    <3>2. "check" \notin crossed
      BY DEF SavePart
    <3> QED BY <2>1, <3>1, <3>2 DEF SavePart
  <2>2. ASSUME NEW k \in kinds, NEW op \in ops, op.kind = k, op.stage # "loading"
        PROVE  k \in {"edit", "reconnect"}
    <3>1. PICK e \in ended : e.kind = k
      OBVIOUS
    <3>2. k \in AwaitingKinds /\ k # "check"
      BY <2>1, <2>2, <3>1
    <3> QED BY <3>2 DEF AwaitingKinds
  <2>3. crossed \subseteq {"edit", "reconnect"}
    BY DEF SavePart
  <2> QED BY <2>2, <2>3
<1>2. busy' \subseteq BusyKinds
  BY DEF SavePart
<1>3. \A b \in busy' : \E q \in ops' : q.kind = b /\ (b = "add" \/ Pressed(q))
  BY DEF SavePart
<1>4. ASSUME NEW q \in ops', Pressed(q), q.kind \notin crossed' PROVE q.kind \in busy'
  <2>1. q \in ops /\ q.kind \in busy
    BY <1>4 DEF SavePart
  <2>2. ASSUME NEW e \in ended, e.kind = q.kind PROVE FALSE
    <3>1. q.kind \in AwaitingKinds /\ e.stage = "loading" /\ e # q
      BY <2>2
    <3>2. CASE q.kind = "check"
      <4>1. Pressed(e)
        BY <2>2, <3>2 DEF Pressed
      <4> QED BY <1>4, <2>1, <2>2, <3>1, <4>1 DEF SavePart
    <3>3. CASE q.kind # "check"
      <4>1. q.stage # "loading"
        BY <1>4, <3>1, <3>3 DEF Pressed, AwaitingKinds
      <4> QED BY <1>4, <2>1, <2>2, <4>1
    <3> QED BY <3>2, <3>3
  <2> QED BY <2>1, <2>2
<1>5. \A a, b \in ops' : Pressed(a) /\ Pressed(b) /\ a.kind = b.kind /\ a.kind \notin crossed' => a = b
  BY DEF SavePart
<1> QED BY <1>1, <1>2, <1>3, <1>4, <1>5 DEF SavePart

LEMMA SaveReset ==
  ASSUME SavePart, ops' = ops, busy' = busy \/ busy' = busy \ {"add"}, crossed' = crossed
  PROVE  SavePart'
<1>1. busy' \subseteq BusyKinds /\ crossed' \subseteq {"edit", "reconnect"}
  BY DEF SavePart
<1>2. \A b \in busy' : \E q \in ops' : q.kind = b /\ (b = "add" \/ Pressed(q))
  BY DEF SavePart, Pressed
<1>3. \A q \in ops' : Pressed(q) /\ q.kind \notin crossed' => q.kind \in busy'
  BY DEF SavePart, Pressed
<1>4. \A a, b \in ops' : Pressed(a) /\ Pressed(b) /\ a.kind = b.kind /\ a.kind \notin crossed' => a = b
  BY DEF SavePart, Pressed
<1> QED BY <1>1, <1>2, <1>3, <1>4 DEF SavePart

\* A new load has read nothing yet.
LEMMA NewLoad ==
  ASSUME NEW i, NEW during, \A l \in during : LoadOK(l),
         NEW after, after = ServersPage!Loading(i, during)
  PROVE  \E p : /\ after = during \cup {p} /\ LoadOK(p)
                /\ p.left = {"servers", "connected"}
<1> DEFINE p == [id |-> i, list |-> {}, on |-> {}, left |-> {"servers", "connected"}]
<1>1. after = during \cup {p}
  BY DEF ServersPage!Loading
<1>2. /\ p = [id |-> p.id, list |-> p.list, on |-> p.on, left |-> p.left] /\ p.list = {}
      /\ p.left = {"servers", "connected"}
  OBVIOUS
<1> HIDE DEF p
<1>3. LoadOK(p)
  BY <1>2 DEF LoadOK
<1> QED BY <1>1, <1>2, <1>3

\* Whatever else a step does, a load it starts alone is right.
LEMMA CardsLoad ==
  ASSUME OpsPart, NEW i, ServersPage!Load(i)
  PROVE  CardsPart' /\ \A l \in loads' : LoadOK(l)
<1>1. loads' = ServersPage!Loading(i, loads) /\ (~mixed' => loads = {})
  BY DEF ServersPage!Load
<1>2. PICK p : loads' = loads \cup {p} /\ LoadOK(p) /\ p.left = {"servers", "connected"}
  BY <1>1, NewLoad DEF OpsPart
<1>3. \A l \in loads' : LoadOK(l)
  BY <1>2 DEF OpsPart
<1>4. CardsPart'
  <2> SUFFICES ASSUME ~mixed'
               PROVE  (\A l, m \in loads' : l = m) /\ \E l \in loads' : IsRight(l)'
    BY DEF CardsPart
  <2>1. loads' = {p}
    BY <1>1, <1>2
  <2>2. IsRight(p)'
    BY <1>2 DEF IsRight
  <2> QED BY <2>1, <2>2
<1> QED BY <1>3, <1>4

\* A step that starts no load and changes neither the servers nor the loads.
LEMMA CardsKept ==
  ASSUME CardsPart, UNCHANGED <<status, connected, loads>>, mixed' = mixed,
         ViewOf(grid)' = ViewOf(grid), failures' = 0 => failures = 0,
         failures = 0 /\ failures' = 0 /\ WillLoad => WillLoad'
  PROVE  CardsPart'
<1> SUFFICES ASSUME failures' = 0, ~mixed'
             PROVE  /\ \A l, m \in loads' : l = m
                    /\ \/ WillLoad'
                       \/ \E l \in loads' : IsRight(l)'
                       \/ loads' = {} /\ ViewOf(grid)' = ViewNow'
  BY DEF CardsPart
<1>1. failures = 0 /\ ~mixed
  OBVIOUS
<1>2. \A l, m \in loads' : l = m
  BY <1>1 DEF CardsPart
<1>3. RowsNow' = RowsNow /\ ViewNow' = ViewNow
  BY DEF RowsNow, ViewNow, ServersPage!Exist
<1>4. \A l : IsRight(l)' <=> IsRight(l)
  BY <1>3 DEF IsRight
<1> QED BY <1>1, <1>2, <1>3, <1>4 DEF CardsPart

LEMMA ServersInit == ServersPage!Init => ServersIInv
<1> SUFFICES ASSUME ServersPage!Init PROVE ServersIInv
  OBVIOUS
<1>1. /\ grid = {} /\ loads = ServersPage!Loading(0, {})
      /\ ops = {[kind |-> "auto", of |-> "none", id |-> -1, stage |-> "asked"]}
      /\ session \in Sessions /\ crossed = {}
      /\ windows = {} /\ form = [w \in {"edit", "reconnect"} |-> "none"]
      /\ busy = {} /\ closing = {} /\ clicks = 0 /\ failures = 0
  BY DEF ServersPage!Init
<1>2. status \in [Cards -> CardStatuses \cup {"gone"}] /\ connected \subseteq Cards
  BY ServersConstants DEF ServersPage!Init
<1>3. RowsPart
  BY <1>1, <1>2 DEF RowsPart
<1>4. PICK p : loads = {p} /\ LoadOK(p) /\ p.left = {"servers", "connected"}
  <2>1. \A l \in {} : LoadOK(l)
    OBVIOUS
  <2> QED BY <1>1, <2>1, NewLoad
<1>5. OpsPart
  <2> DEFINE op == [kind |-> "auto", of |-> "none", id |-> -1, stage |-> "asked"]
  <2>1. /\ op = [kind |-> op.kind, of |-> op.of, id |-> op.id, stage |-> op.stage]
        /\ op.kind = "auto" /\ op.of = "none" /\ op.stage = "asked" /\ op.id \in Int
    OBVIOUS
  <2>2. ops = {op}
    BY <1>1
  <2> HIDE DEF op
  <2>3. ServerOpOK(op)
    BY <2>1 DEF ServerOpOK, ChangingKinds
  <2> QED BY <1>4, <2>2, <2>3 DEF OpsPart
<1>6. BoundsPart
  <2>1. 0 \in Nat
    OBVIOUS
  <2> QED BY <1>1, <2>1 DEF BoundsPart
<1>7. SavePart
  <2>1. \A op \in ops : op.kind = "auto"
    BY <1>1
  <2> QED BY <1>1, <2>1 DEF SavePart, Pressed, BusyKinds
<1>8. CardsPart
  BY <1>4 DEF CardsPart, IsRight
<1> QED BY <1>3, <1>5, <1>6, <1>7, <1>8 DEF ServersIInv

LEMMA RowsKept ==
  ASSUME RowsPart, UNCHANGED <<status, connected, grid>> PROVE RowsPart' /\ ViewOf(grid)' = ViewOf(grid)
BY DEF RowsPart, ViewOf

LEMMA OpsKept == ASSUME OpsPart, UNCHANGED <<ops, loads>> PROVE OpsPart'
BY DEF OpsPart, ServerOpOK, LoadOK

LEMMA OpsMore ==
  ASSUME OpsPart, NEW p, ServerOpOK(p), ops' \subseteq ops \cup {p}, loads' = loads
  PROVE  OpsPart'
BY DEF OpsPart, ServerOpOK, LoadOK

LEMMA WillLoadKept ==
  ASSUME WillLoad, UNCHANGED <<ops, closing>> PROVE WillLoad'
BY DEF WillLoad

\* A click that starts an operation.
LEMMA ServersStart ==
  ASSUME ServersIInv, NEW kind \in ChangingKinds \cup LookingKinds, NEW s \in Cards \cup {"none"},
         ServersPage!Start(kind, s), kind = "add" => s \in Cards
  PROVE  /\ \E p : ops' = ops \cup {p} /\ ServerOpOK(p) /\ p.kind = kind /\ p.stage = "asked"
         /\ clicks' \in Nat
<1> DEFINE p == [kind |-> kind, of |-> s, id |-> clicks', stage |-> "asked"]
<1>1. ops' = ops \cup {p}
  BY DEF ServersPage!Start
<1>4. clicks' \in Nat
  BY DEF ServersPage!Start, ServersPage!Click, ServersIInv, BoundsPart
<1>2. /\ p = [kind |-> p.kind, of |-> p.of, id |-> p.id, stage |-> p.stage]
      /\ p.kind = kind /\ p.of = s /\ p.stage = "asked" /\ p.id \in Int
  BY <1>4
<1> HIDE DEF p
<1>3. ServerOpOK(p)
  BY <1>2 DEF ServerOpOK
<1> QED BY <1>1, <1>2, <1>3, <1>4

LEMMA ServersReload == ASSUME ServersIInv, ServersPage!Reload PROVE ServersIInv'
<1>1. /\ UNCHANGED <<status, connected, grid, ops, windows, form, busy, closing, session, failures,
                     crossed>>
      /\ ServersPage!Load(clicks') /\ clicks' = clicks + 1
  BY DEF ServersPage!Reload, ServersPage!Click
<1>2. RowsPart'
  BY <1>1, RowsKept DEF ServersIInv
<1>3. CardsPart' /\ \A l \in loads' : LoadOK(l)
  BY <1>1, CardsLoad DEF ServersIInv
<1>4. OpsPart'
  BY <1>1, <1>3 DEF ServersIInv, OpsPart, ServerOpOK, LoadOK
<1>5. BoundsPart'
  <2>1. clicks' \in Nat
    BY <1>1 DEF ServersIInv, BoundsPart
  <2> QED BY <1>1, <2>1 DEF ServersIInv, BoundsPart
<1>6. SavePart'
  BY <1>1, SaveReset DEF ServersIInv
<1> QED BY <1>2, <1>3, <1>4, <1>5, <1>6 DEF ServersIInv

\* A load that goes on, no less right than it was.
LEMMA LoadGoesOn ==
  ASSUME ServersIInv, NEW l \in loads, NEW p, LoadOK(p), loads' = (loads \ {l}) \cup {p},
         UNCHANGED <<status, connected, grid, ops, windows, form, busy, closing, session, clicks>>,
         mixed' = mixed, crossed' = crossed, failures' \in Nat, failures' = 0 => failures = 0,
         failures' = 0 /\ IsRight(l) => IsRight(p)
  PROVE  ServersIInv'
<1>1. RowsPart'
  BY RowsKept DEF ServersIInv
<1>2. OpsPart'
  BY DEF ServersIInv, OpsPart, ServerOpOK, LoadOK
<1>3. BoundsPart'
  BY DEF ServersIInv, BoundsPart
<1>4. SavePart'
  BY SaveReset DEF ServersIInv
<1>5. CardsPart'
  <2> SUFFICES ASSUME failures' = 0, ~mixed'
               PROVE  /\ \A k, m \in loads' : k = m
                      /\ \/ WillLoad'
                         \/ \E k \in loads' : IsRight(k)'
                         \/ loads' = {} /\ ViewOf(grid)' = ViewNow'
    BY DEF CardsPart
  <2>1. /\ \A k, m \in loads : k = m
        /\ WillLoad \/ (\E k \in loads : IsRight(k)) \/ (loads = {} /\ ViewOf(grid) = ViewNow)
    BY DEF ServersIInv, CardsPart
  <2>2. loads = {l} /\ loads' = {p}
    BY <2>1
  <2>3. WillLoad \/ IsRight(p)
    BY <2>1, <2>2
  <2>4. RowsNow' = RowsNow
    BY DEF RowsNow, ServersPage!Exist
  <2>5. IsRight(p) => IsRight(p)'
    BY <2>4 DEF IsRight
  <2>6. WillLoad => WillLoad'
    BY DEF WillLoad
  <2> QED BY <2>2, <2>3, <2>5, <2>6
<1> QED BY <1>1, <1>2, <1>3, <1>4, <1>5 DEF ServersIInv

LEMMA ServersFailure ==
  ASSUME BoundsPart, failures' = failures \/ (failures < session.failures /\ failures' = failures + 1)
  PROVE  failures' \in Nat /\ (failures' = 0 => failures' = failures)
<1>1. failures \in Nat
  BY DEF BoundsPart
<1> QED BY <1>1

LEMMA RowsAreOK ==
  ASSUME RowsPart
  PROVE  /\ \A row \in RowsNow : row \in Cards \X CardStatuses
         /\ \A row, other \in RowsNow : row[1] = other[1] => row = other
<1>1. \A s \in ServersPage!Exist : s \in Cards /\ status[s] \in CardStatuses
  BY DEF RowsPart, ServersPage!Exist
<1>2. ASSUME NEW row \in RowsNow PROVE row \in Cards \X CardStatuses
  <2>1. PICK s \in ServersPage!Exist : row = <<s, status[s]>>
    BY DEF RowsNow
  <2> QED BY <1>1, <2>1
<1>3. ASSUME NEW row \in RowsNow, NEW other \in RowsNow, row[1] = other[1] PROVE row = other
  <2>1. PICK s \in ServersPage!Exist : row = <<s, status[s]>>
    BY DEF RowsNow
  <2>2. PICK u \in ServersPage!Exist : other = <<u, status[u]>>
    BY DEF RowsNow
  <2> QED BY <1>3, <2>1, <2>2
<1> QED BY <1>2, <1>3

LEMMA ServersReadList ==
  ASSUME ServersIInv, NEW l \in loads, ServersPage!ReadList(l) PROVE ServersIInv'
<1>1. /\ UNCHANGED <<status, connected, grid, ops, windows, form, busy, closing, session, clicks>>
      /\ crossed' = crossed
  BY DEF ServersPage!ReadList
<1>2. mixed' = mixed /\ "servers" \in l.left
  BY DEF ServersPage!ReadList
<1>3. LoadOK(l) /\ BoundsPart /\ RowsPart
  BY DEF ServersIInv, OpsPart
<1>4. failures' = failures \/ (failures < session.failures /\ failures' = failures + 1)
  BY DEF ServersPage!ReadList
<1>5. failures' \in Nat /\ (failures' = 0 => failures = 0)
  BY <1>3, <1>4, ServersFailure
<1> DEFINE left == l.left \ {"servers"}
<1>6. CASE loads' = (loads \ {l}) \cup {[l EXCEPT !.list = RowsNow, !.left = left]}
  <2> DEFINE p == [l EXCEPT !.list = RowsNow, !.left = left]
  <2>4. "connected" \in left <=> "connected" \in l.left
    OBVIOUS
  <2>5. loads' = (loads \ {l}) \cup {p}
    BY <1>6
  <2> HIDE DEF left
  <2>6. PICK i, li, on, le : l = [id |-> i, list |-> li, on |-> on, left |-> le]
    BY <1>3 DEF LoadOK
  <2>7. p = [[l EXCEPT !.list = RowsNow] EXCEPT !.left = left]
    OBVIOUS
  <2> HIDE DEF p
  <2>8. [l EXCEPT !.list = RowsNow] = [id |-> i, list |-> RowsNow, on |-> on, left |-> le]
    BY <2>6
  <2>9. [[id |-> i, list |-> RowsNow, on |-> on, left |-> le] EXCEPT !.left = left] = [id |-> i,
        list |-> RowsNow, on |-> on, left |-> left]
    OBVIOUS
  <2>10. p = [id |-> i, list |-> RowsNow, on |-> on, left |-> left]
    BY <2>7, <2>8, <2>9
  <2>11. /\ p = [id |-> p.id, list |-> p.list, on |-> p.on, left |-> p.left]
         /\ p.list = RowsNow /\ p.on = l.on /\ p.left = left
    BY <2>6, <2>10
  <2>1. LoadOK(p) /\ p.list = RowsNow /\ p.on = l.on /\ p.left = left
    BY <1>3, <2>11, RowsAreOK DEF LoadOK
  <2>3. IsRight(l) => IsRight(p)
    BY <2>1, <2>4 DEF IsRight
  <2> QED BY <1>1, <1>2, <1>5, <2>1, <2>5, <2>3, LoadGoesOn
<1>7. CASE loads' = (loads \ {l}) \cup {[l EXCEPT !.left = left]} /\ failures < session.failures
           /\ failures' = failures + 1
  <2> DEFINE p == [l EXCEPT !.left = left]
  <2>1. LoadOK(p)
    <3>1. PICK i, li, on, le : l = [id |-> i, list |-> li, on |-> on, left |-> le]
      BY <1>3 DEF LoadOK
    <3> HIDE DEF left
    <3>2. p = [id |-> i, list |-> li, on |-> on, left |-> left]
      BY <3>1
    <3> HIDE DEF p
    <3>3. /\ p = [id |-> p.id, list |-> p.list, on |-> p.on, left |-> p.left]
          /\ p.list = l.list
      BY <3>1, <3>2
    <3> QED BY <1>3, <3>3 DEF LoadOK
  <2>2. loads' = (loads \ {l}) \cup {p}
    BY <1>7
  <2>3. failures' # 0
    <3>1. failures \in Nat
      BY <1>3 DEF BoundsPart
    <3> QED BY <1>7, <3>1
  <2> HIDE DEF p
  <2> QED BY <1>1, <1>2, <1>5, <2>1, <2>2, <2>3, LoadGoesOn
<1> QED BY <1>6, <1>7 DEF ServersPage!ReadList, RowsNow

LEMMA ServersReadConnected ==
  ASSUME ServersIInv, NEW l \in loads, ServersPage!ReadConnected(l) PROVE ServersIInv'
<1>1. /\ UNCHANGED <<status, connected, grid, ops, windows, form, busy, closing, session, clicks>>
      /\ crossed' = crossed
  BY DEF ServersPage!ReadConnected
<1>2. mixed' = mixed
  BY DEF ServersPage!ReadConnected
<1>3. LoadOK(l) /\ BoundsPart /\ RowsPart
  BY DEF ServersIInv, OpsPart
<1>4. failures' = failures \/ (failures < session.failures /\ failures' = failures + 1)
  BY DEF ServersPage!ReadConnected
<1>5. failures' \in Nat /\ (failures' = 0 => failures = 0)
  BY <1>3, <1>4, ServersFailure
<1> DEFINE left == l.left \ {"connected"}
<1>6. CASE loads' = (loads \ {l}) \cup {[l EXCEPT !.on = connected, !.left = left]}
  <2> DEFINE p == [l EXCEPT !.on = connected, !.left = left]
  <2>4. "servers" \in left <=> "servers" \in l.left
    OBVIOUS
  <2>5. loads' = (loads \ {l}) \cup {p}
    BY <1>6
  <2> HIDE DEF left
  <2>6. PICK i, li, on, le : l = [id |-> i, list |-> li, on |-> on, left |-> le]
    BY <1>3 DEF LoadOK
  <2>7. p = [[l EXCEPT !.on = connected] EXCEPT !.left = left]
    OBVIOUS
  <2> HIDE DEF p
  <2>8. [l EXCEPT !.on = connected] = [id |-> i, list |-> li, on |-> connected, left |-> le]
    BY <2>6
  <2>9. [[id |-> i, list |-> li, on |-> connected, left |-> le] EXCEPT !.left = left] = [id |-> i,
        list |-> li, on |-> connected, left |-> left]
    OBVIOUS
  <2>10. p = [id |-> i, list |-> li, on |-> connected, left |-> left]
    BY <2>7, <2>8, <2>9
  <2>11. /\ p = [id |-> p.id, list |-> p.list, on |-> p.on, left |-> p.left]
         /\ p.list = l.list /\ p.on = connected /\ p.left = left
    BY <2>6, <2>10
  <2>1. LoadOK(p) /\ p.list = l.list /\ p.on = connected /\ p.left = left
    BY <1>3, <2>11, RowsAreOK DEF LoadOK
  <2>3. IsRight(l) => IsRight(p)
    BY <2>1, <2>4 DEF IsRight
  <2> QED BY <1>1, <1>2, <1>5, <2>1, <2>5, <2>3, LoadGoesOn
<1>7. CASE loads' = (loads \ {l}) \cup {[l EXCEPT !.left = left]} /\ failures < session.failures
           /\ failures' = failures + 1
  <2> DEFINE p == [l EXCEPT !.left = left]
  <2>1. LoadOK(p)
    <3>1. PICK i, li, on, le : l = [id |-> i, list |-> li, on |-> on, left |-> le]
      BY <1>3 DEF LoadOK
    <3> HIDE DEF left
    <3>2. p = [id |-> i, list |-> li, on |-> on, left |-> left]
      BY <3>1
    <3> HIDE DEF p
    <3>3. /\ p = [id |-> p.id, list |-> p.list, on |-> p.on, left |-> p.left]
          /\ p.list = l.list
      BY <3>1, <3>2
    <3> QED BY <1>3, <3>3 DEF LoadOK
  <2>2. loads' = (loads \ {l}) \cup {p}
    BY <1>7
  <2>3. failures' # 0
    <3>1. failures \in Nat
      BY <1>3 DEF BoundsPart
    <3> QED BY <1>7, <3>1
  <2> HIDE DEF p
  <2> QED BY <1>1, <1>2, <1>5, <2>1, <2>2, <2>3, LoadGoesOn
<1> QED BY <1>6, <1>7 DEF ServersPage!ReadConnected

LEMMA ServersShowCards ==
  ASSUME ServersIInv, NEW l \in loads, ServersPage!ShowCards(l) PROVE ServersIInv'
<1> DEFINE Card(row) == [of |-> row[1], status |-> row[2], on |-> row[1] \in l.on, work |-> 0]
       ended == {op \in ops : op.stage = "loading" /\ op.id = l.id}
       kinds == {op.kind : op \in ended}
<1>1. /\ UNCHANGED <<status, connected, windows, form, closing, session, clicks, failures>>
      /\ grid' = {Card(row) : row \in l.list} /\ loads' = loads \ {l} /\ l.left = {}
  BY DEF ServersPage!ShowCards
<1>11. /\ ops' = ops \ ended /\ busy' = busy \ kinds
       /\ crossed' = crossed \cup {k \in kinds : \E op \in ops : op.kind = k /\ op.stage # "loading"}
  BY DEF ServersPage!ShowCards, ServersPage!AwaitedEnd
<1>2. mixed' = mixed
  BY DEF ServersPage!ShowCards
<1>3. LoadOK(l)
  BY DEF ServersIInv, OpsPart
<1>4. 0 \in Nat
  OBVIOUS
<1>5. ASSUME NEW row \in l.list
      PROVE  /\ Card(row) \in CardRecords /\ Card(row).of = row[1]
             /\ <<Card(row).of, Card(row).status, Card(row).on>> = <<row[1], row[2], row[1] \in l.on>>
  <2>1. row[1] \in Cards /\ row[2] \in CardStatuses
    BY <1>3 DEF LoadOK
  <2> QED BY <1>4, <2>1 DEF CardRecords
<1>6. RowsPart'
  <2>1. grid' \subseteq CardRecords
    BY <1>1, <1>5
  <2>2. ASSUME NEW c \in grid', NEW d \in grid', c.of = d.of PROVE c = d
    <3>1. PICK row \in l.list : c = Card(row)
      BY <1>1
    <3>2. PICK other \in l.list : d = Card(other)
      BY <1>1
    <3>3. row[1] = other[1]
      BY <2>2, <1>5, <3>1, <3>2
    <3>4. row = other
      BY <1>3, <3>3 DEF LoadOK
    <3> QED BY <3>1, <3>2, <3>4
  <2>3. status' = status /\ connected' = connected
    BY <1>1
  <2> QED BY <2>1, <2>2, <2>3 DEF ServersIInv, RowsPart
<1>7. OpsPart'
  BY <1>1, <1>11 DEF ServersIInv, OpsPart, ServerOpOK, LoadOK
<1>8. BoundsPart'
  BY <1>1 DEF ServersIInv, BoundsPart
<1>9. SavePart'
  <2>1. \A op \in ended : op.stage = "loading" /\ op.kind \in AwaitingKinds
    BY DEF ServersIInv, OpsPart, ServerOpOK
  <2>2. SavePart /\ ended \in SUBSET ops
    BY DEF ServersIInv
  <2> QED BY <1>11, <2>1, <2>2, SaveLoaded
<1>10. CardsPart'
  <2> SUFFICES ASSUME failures' = 0, ~mixed'
               PROVE  /\ \A k, m \in loads' : k = m
                      /\ \/ WillLoad'
                         \/ \E k \in loads' : IsRight(k)'
                         \/ loads' = {} /\ ViewOf(grid)' = ViewNow'
    BY DEF CardsPart
  <2>0. failures = 0 /\ ~mixed
    BY <1>1, <1>2
  <2>1. /\ \A k, m \in loads : k = m
        /\ WillLoad \/ (\E k \in loads : IsRight(k)) \/ (loads = {} /\ ViewOf(grid) = ViewNow)
    BY <2>0 DEF ServersIInv, CardsPart
  <2>2. loads = {l} /\ loads' = {}
    BY <1>1, <2>1
  <2>3. WillLoad => WillLoad'
    BY <1>1, <1>11 DEF WillLoad
  <2>4. ASSUME IsRight(l) PROVE ViewOf(grid)' = ViewNow'
    <3>1. l.list = RowsNow /\ l.on = connected
      BY <1>1, <2>4 DEF IsRight
    <3>2. ViewOf(grid') = {<<row[1], row[2], row[1] \in l.on>> : row \in l.list}
      <4> HIDE DEF Card
      <4> QED BY <1>1, <1>5 DEF ViewOf
    <3>3. {<<row[1], row[2], row[1] \in l.on>> : row \in l.list} = ViewNow
      <4>1. ASSUME NEW row \in RowsNow
            PROVE  <<row[1], row[2], row[1] \in connected>> \in ViewNow
        <5>1. PICK s \in ServersPage!Exist : row = <<s, status[s]>>
          BY DEF RowsNow
        <5>2. row[1] = s /\ row[2] = status[s]
          BY <5>1
        <5> QED BY <5>2 DEF ViewNow
      <4>2. ASSUME NEW v \in ViewNow
            PROVE  \E row \in RowsNow : v = <<row[1], row[2], row[1] \in connected>>
        <5>1. PICK s \in ServersPage!Exist : v = <<s, status[s], s \in connected>>
          BY DEF ViewNow
        <5>2. <<s, status[s]>> \in RowsNow
          BY DEF RowsNow
        <5>3. <<s, status[s]>>[1] = s /\ <<s, status[s]>>[2] = status[s]
          OBVIOUS
        <5> QED BY <5>1, <5>2, <5>3
      <4> HIDE DEF Card
      <4> QED BY <3>1, <4>1, <4>2
    <3>4. ViewNow' = ViewNow
      BY <1>1 DEF ViewNow, ServersPage!Exist
    <3>5. ViewOf(grid)' = ViewOf(grid')
      BY DEF ViewOf
    <3> QED BY <3>2, <3>3, <3>4, <3>5
  <2> QED BY <2>1, <2>2, <2>3, <2>4
<1> QED BY <1>6, <1>7, <1>8, <1>9, <1>10 DEF ServersIInv

\* A card whose button is at work, or no more, shows the same.
LEMMA CardWorks ==
  ASSUME NEW c \in CardRecords, NEW w \in Nat
  PROVE  /\ [c EXCEPT !.work = w] \in CardRecords /\ [c EXCEPT !.work = w].of = c.of
         /\ [c EXCEPT !.work = w].status = c.status /\ [c EXCEPT !.work = w].on = c.on
<1>1. PICK o \in Cards, s \in CardStatuses, b \in BOOLEAN, v \in Nat :
        c = [of |-> o, status |-> s, on |-> b, work |-> v]
  BY DEF CardRecords
<1> DEFINE d == [c EXCEPT !.work = w]
<1>2. d = [of |-> o, status |-> s, on |-> b, work |-> w]
  BY <1>1
<1> HIDE DEF d
<1>3. d \in CardRecords
  BY <1>2 DEF CardRecords
<1>4. d.of = c.of /\ d.status = c.status /\ d.on = c.on
  BY <1>1, <1>2
<1> QED BY <1>3, <1>4 DEF d

\* The cards, one or some of them at work.
LEMMA CardsSame ==
  ASSUME RowsPart, UNCHANGED <<status, connected>>, NEW now,
         \A c \in grid : /\ now[c] \in CardRecords /\ now[c].of = c.of
                        /\ now[c].status = c.status /\ now[c].on = c.on,
         grid' = {now[c] : c \in grid}
  PROVE  RowsPart' /\ ViewOf(grid)' = ViewOf(grid)
<1>1. grid' \subseteq CardRecords
  OBVIOUS
<1>2. ASSUME NEW c \in grid', NEW d \in grid', c.of = d.of PROVE c = d
  <2>1. PICK a \in grid : c = now[a]
    OBVIOUS
  <2>2. PICK b \in grid : d = now[b]
    OBVIOUS
  <2>3. a.of = b.of
    BY <1>2, <2>1, <2>2
  <2>4. a = b
    BY <2>3 DEF RowsPart
  <2> QED BY <2>1, <2>2, <2>4
<1>3. ViewOf(grid') = ViewOf(grid)
  <2>1. ASSUME NEW a \in grid
        PROVE  <<now[a].of, now[a].status, now[a].on>> = <<a.of, a.status, a.on>>
    OBVIOUS
  <2> QED BY <2>1 DEF ViewOf
<1>4. ViewOf(grid)' = ViewOf(grid')
  BY DEF ViewOf
<1> QED BY <1>1, <1>2, <1>3, <1>4 DEF RowsPart

LEMMA ServersClickCard ==
  ASSUME ServersIInv, NEW one \in grid, NEW kind \in ServersPage!CardOps,
         ServersPage!ClickCard(one, kind)
  PROVE  ServersIInv'
<1>1. /\ UNCHANGED <<status, connected, loads, windows, form, busy, closing, session, failures, crossed>>
      /\ ServersPage!Start(kind, one.of)
      /\ grid' = IF kind = "metrics" THEN (grid \ {one}) \cup {[one EXCEPT !.work = clicks']} ELSE grid
  BY DEF ServersPage!ClickCard
<1>2. mixed' = mixed
  BY DEF ServersPage!ClickCard
<1>3. grid \subseteq CardRecords /\ one.of \in Cards
  BY DEF ServersIInv, RowsPart, CardRecords
<1>4. kind \in ChangingKinds \cup LookingKinds /\ kind \notin BusyKinds /\ kind # "add"
  BY ServersConstants DEF ChangingKinds, LookingKinds, BusyKinds
<1>5. PICK p : ops' = ops \cup {p} /\ ServerOpOK(p) /\ p.kind = kind /\ p.stage = "asked"
  BY <1>1, <1>3, <1>4, ServersStart
<1>6. clicks' \in Nat
  BY <1>1, <1>3, <1>4, ServersStart
<1>7. RowsPart' /\ ViewOf(grid)' = ViewOf(grid)
  <2>1. CASE kind # "metrics"
    <3>1. UNCHANGED <<status, connected, grid>>
      BY <1>1, <2>1
    <3> QED BY <3>1, RowsKept DEF ServersIInv
  <2>2. CASE kind = "metrics"
    <3> DEFINE now == [c \in grid |-> IF c = one THEN [c EXCEPT !.work = clicks'] ELSE c]
    <3>1. grid' = {now[c] : c \in grid}
      BY <1>1, <2>2
    <3>2. ASSUME NEW c \in grid
          PROVE  /\ now[c] \in CardRecords /\ now[c].of = c.of
                 /\ now[c].status = c.status /\ now[c].on = c.on
      BY <1>3, <1>6, CardWorks
    <3>3. UNCHANGED <<status, connected>> /\ RowsPart
      BY <1>1 DEF ServersIInv
    <3> HIDE DEF now
    <3> QED BY <3>1, <3>2, <3>3, CardsSame
  <2> QED BY <2>1, <2>2
<1>8. OpsPart'
  BY <1>1, <1>5, OpsMore DEF ServersIInv
<1>9. BoundsPart'
  BY <1>1, <1>6 DEF ServersIInv, BoundsPart
<1>10. SavePart'
  BY <1>1, <1>4, <1>5, SaveMore DEF ServersIInv
<1>11. CardsPart'
  <2>1. WillLoad => WillLoad'
    BY <1>1, <1>5 DEF WillLoad
  <2> QED BY <1>1, <1>2, <1>7, <2>1, CardsKept DEF ServersIInv
<1> QED BY <1>7, <1>8, <1>9, <1>10, <1>11 DEF ServersIInv

\* The buttons above the cards, and the save buttons.
LEMMA ServersButton ==
  ASSUME ServersIInv, NEW kind \in BusyKinds, NEW s \in Cards \cup {"none"},
         kind = "add" => s \in Cards, kind \notin busy, busy' = busy \cup {kind},
         ServersPage!Start(kind, s), mixed' = mixed,
         UNCHANGED <<status, connected, grid, loads, windows, form, closing, session, failures, crossed>>
  PROVE  ServersIInv'
<1>1. kind \in ChangingKinds \cup LookingKinds
  BY DEF ChangingKinds, LookingKinds, BusyKinds
<1>2. PICK p : ops' = ops \cup {p} /\ ServerOpOK(p) /\ p.kind = kind /\ p.stage = "asked"
  BY <1>1, ServersStart
<1>3. clicks' \in Nat
  BY <1>1, ServersStart
<1>4. RowsPart' /\ ViewOf(grid)' = ViewOf(grid)
  BY RowsKept DEF ServersIInv
<1>5. OpsPart'
  BY <1>2, OpsMore DEF ServersIInv
<1>6. BoundsPart'
  BY <1>3 DEF ServersIInv, BoundsPart
<1>7. SavePart'
  BY <1>2, SaveMore DEF ServersIInv
<1>8. CardsPart'
  <2>1. WillLoad => WillLoad'
    BY <1>2 DEF WillLoad
  <2> QED BY <1>4, <2>1, CardsKept DEF ServersIInv
<1> QED BY <1>4, <1>5, <1>6, <1>7, <1>8 DEF ServersIInv

LEMMA ServersClickAll ==
  ASSUME ServersIInv, NEW kind \in {"check", "refresh"}, ServersPage!ClickAll(kind)
  PROVE  ServersIInv'
<1>1. /\ UNCHANGED <<status, connected, grid, loads, windows, form, closing, session, failures, crossed>>
      /\ ServersPage!Start(kind, "none") /\ busy' = busy \cup {kind} /\ kind \notin busy
  BY DEF ServersPage!ClickAll
<1>2. mixed' = mixed
  BY DEF ServersPage!ClickAll
<1>3. kind \in BusyKinds /\ kind # "add"
  BY DEF BusyKinds
<1> QED BY <1>1, <1>2, <1>3, ServersButton

LEMMA ServersSave ==
  ASSUME ServersIInv, NEW w \in ServersPage!Forms, ServersPage!Save(w) PROVE ServersIInv'
<1>1. /\ UNCHANGED <<status, connected, grid, loads, windows, form, closing, session, failures, crossed>>
      /\ busy' = busy \cup {w} /\ w \notin busy
  BY DEF ServersPage!Save
<1>2. mixed' = mixed
  BY DEF ServersPage!Save
<1>3. w \in BusyKinds
  BY ServersConstants DEF BusyKinds
<1>4. PICK s \in Cards \cup {"none"} : ServersPage!Start(w, s) /\ (w = "add" => s \in Cards)
  <2>1. CASE w = "add"
    BY <2>1 DEF ServersPage!Save
  <2>2. CASE w # "add"
    <3>1. w \in {"edit", "reconnect"}
      BY <2>2, ServersConstants
    <3>2. form[w] \in Cards \cup {"none"}
      BY <3>1 DEF ServersIInv, BoundsPart
    <3> QED BY <2>2, <3>2 DEF ServersPage!Save
  <2> QED BY <2>1, <2>2
<1> QED BY <1>1, <1>2, <1>3, <1>4, ServersButton

\* Opening the window to add, and hiding one.
LEMMA ServersWindow ==
  ASSUME ServersIInv, ServersPage!OpenAdd \/ \E w \in ServersPage!Forms : ServersPage!Hide(w)
  PROVE  ServersIInv'
<1>1. /\ UNCHANGED <<status, connected, grid, loads, ops, form, closing, session, clicks, failures, crossed>>
      /\ busy' = busy \/ busy' = busy \ {"add"}
      /\ windows' \subseteq windows \cup {"add"}
  BY DEF ServersPage!OpenAdd, ServersPage!Hide
<1>2. mixed' = mixed
  BY DEF ServersPage!OpenAdd, ServersPage!Hide
<1>3. RowsPart' /\ ViewOf(grid)' = ViewOf(grid)
  BY <1>1, RowsKept DEF ServersIInv
<1>4. OpsPart'
  BY <1>1, OpsKept DEF ServersIInv
<1>5. BoundsPart'
  <2>1. windows' \subseteq ServersPage!Forms
    BY <1>1, ServersConstants DEF ServersIInv, BoundsPart
  <2> QED BY <1>1, <2>1 DEF ServersIInv, BoundsPart
<1>6. SavePart'
  BY <1>1, SaveReset DEF ServersIInv
<1>7. CardsPart'
  BY <1>1, <1>2, <1>3, WillLoadKept, CardsKept DEF ServersIInv
<1> QED BY <1>3, <1>4, <1>5, <1>6, <1>7 DEF ServersIInv

\* What the server does with an operation: the rows stay rows, and one that only looks
\* changes nothing.
LEMMA ServersOutcome ==
  ASSUME RowsPart, NEW op, ServerOpOK(op), NEW after \in ServersPage!Outcomes(op),
         op.kind \notin {"add", "check", "auto", "refresh", "editOpen", "reconnectOpen"}
           => op.of \in ServersPage!Exist
  PROVE  /\ after[1] \in [Cards -> CardStatuses \cup {"gone"}] /\ after[2] \subseteq Cards
         /\ op.kind \in LookingKinds => after[1] = status /\ after[2] = connected
<1>1. status \in [Cards -> CardStatuses \cup {"gone"}] /\ connected \subseteq Cards
  BY DEF RowsPart
<1> DEFINE s == op.of
           Now(st, on) == <<[status EXCEPT ![s] = st], on>>
<1>2. CASE op.kind = "add"
  <2>1. s \in Cards
    BY <1>2 DEF ServerOpOK
  <2>2. after \in {Now("ONLINE", connected \cup {s}), Now("OFFLINE", connected)}
    BY <1>2 DEF ServersPage!Outcomes
  <2> QED BY <1>1, <1>2, <2>1, <2>2 DEF CardStatuses, LookingKinds
<1>3. CASE op.kind = "edit"
  <2>1. after \in {Now("DISABLED", connected \ {s}), Now("OFFLINE", connected \ {s}),
                   Now("ONLINE", connected)}
    BY <1>3 DEF ServersPage!Outcomes
  <2> QED BY <1>1, <1>3, <2>1 DEF CardStatuses, LookingKinds
<1>4. CASE op.kind \in {"reconnect", "key"}
  <2>1. s \in Cards
    BY <1>4, ServersConstants
  <2>2. after \in {Now("ONLINE", connected \cup {s})}
    BY <1>4 DEF ServersPage!Outcomes
  <2> QED BY <1>1, <1>4, <2>1, <2>2 DEF CardStatuses, LookingKinds
<1>5. CASE op.kind \in {"delete", "shutdown", "disconnect"}
  <2>1. after \in {Now("gone", connected), Now("OFFLINE", connected \ {s}),
                   Now("DISABLED", connected \ {s})}
    BY <1>5 DEF ServersPage!Outcomes
  <2> QED BY <1>1, <1>5, <2>1 DEF CardStatuses, LookingKinds
<1>6. CASE op.kind \in {"check", "auto"}
  <2>1. PICK on \in SUBSET ServersPage!Exist :
          after = <<[x \in Cards |-> IF status[x] \in {"gone", "DISABLED"} THEN status[x]
                                     ELSE IF x \in on THEN "ONLINE" ELSE "OFFLINE"],
                    {x \in on : status[x] \notin {"gone", "DISABLED"}}>>
    BY <1>6 DEF ServersPage!Outcomes
  <2>2. on \subseteq Cards
    BY ServersConstants
  <2>3. after[1] \in [Cards -> CardStatuses \cup {"gone"}]
    BY <1>1, <2>1 DEF CardStatuses
  <2>4. after[2] \subseteq Cards
    BY <2>1, <2>2
  <2> QED BY <1>6, <2>3, <2>4 DEF LookingKinds
<1>7. CASE op.kind \in LookingKinds
  <2>1. after \in {<<status, connected>>}
    BY <1>7 DEF ServersPage!Outcomes, LookingKinds
  <2> QED BY <1>1, <2>1
<1> QED BY <1>2, <1>3, <1>4, <1>5, <1>6, <1>7 DEF ServerOpOK, ChangingKinds

LEMMA ServerOpStage ==
  ASSUME NEW op, ServerOpOK(op), NEW stage \in {"done", "missing", "loading"},
         stage = "loading" => op.kind \in AwaitingKinds
  PROVE  /\ ServerOpOK([op EXCEPT !.stage = stage]) /\ [op EXCEPT !.stage = stage].kind = op.kind
         /\ [op EXCEPT !.stage = stage].stage = stage
<1> DEFINE p == [op EXCEPT !.stage = stage]
<1>1. PICK k, o, i, g : op = [kind |-> k, of |-> o, id |-> i, stage |-> g]
  BY DEF ServerOpOK
<1>2. p = [kind |-> k, of |-> o, id |-> i, stage |-> stage]
  BY <1>1
<1> HIDE DEF p
<1>3. /\ p = [kind |-> p.kind, of |-> p.of, id |-> p.id, stage |-> p.stage]
      /\ p.kind = op.kind /\ p.of = op.of /\ p.id = op.id /\ p.stage = stage
  BY <1>1, <1>2
<1>4. ServerOpOK(p)
  BY <1>3 DEF ServerOpOK
<1> QED BY <1>3, <1>4 DEF p

LEMMA ServersServe ==
  ASSUME ServersIInv, NEW op \in ops, ServersPage!Serve(op) PROVE ServersIInv'
<1>1. /\ UNCHANGED <<grid, loads, windows, form, busy, closing, session, clicks, failures, crossed>>
      /\ op.stage = "asked"
  BY DEF ServersPage!Serve
<1>2. mixed' = mixed
  BY DEF ServersPage!Serve
<1>3. ServerOpOK(op) /\ RowsPart
  BY DEF ServersIInv, OpsPart
<1> DEFINE stage == IF op.kind \in {"editOpen", "reconnectOpen"} /\ op.of \notin ServersPage!Exist
                    THEN "missing" ELSE "done"
           p == [op EXCEPT !.stage = stage]
<1>4. ops' = (ops \ {op}) \cup {p}
  BY DEF ServersPage!Serve
<1>5. op.kind \in ChangingKinds => stage = "done"
  BY DEF ChangingKinds
<1> HIDE DEF stage
<1>6. ServerOpOK(p) /\ p.kind = op.kind /\ p.stage = stage
  <2>1. stage \in {"done", "missing"}
    BY DEF stage
  <2> QED BY <1>3, <2>1, ServerOpStage
<1> HIDE DEF p
<1>7. /\ status' \in [Cards -> CardStatuses \cup {"gone"}] /\ connected' \subseteq Cards
      /\ op.kind \in LookingKinds => status' = status /\ connected' = connected
  <2>1. PICK after \in ServersPage!Outcomes(op) : status' = after[1] /\ connected' = after[2]
    BY DEF ServersPage!Serve
  <2>2. op.kind \notin {"add", "check", "auto", "refresh", "editOpen", "reconnectOpen"}
          => op.of \in ServersPage!Exist
    BY DEF ServersPage!Serve
  <2> QED BY <1>3, <2>1, <2>2, ServersOutcome
<1>8. RowsPart'
  BY <1>1, <1>7 DEF ServersIInv, RowsPart
<1>9. OpsPart'
  BY <1>1, <1>4, <1>6, OpsMore DEF ServersIInv
<1>10. BoundsPart'
  BY <1>1 DEF ServersIInv, BoundsPart
<1>11. SavePart'
  <2>1. p.stage # "loading"
    BY <1>6 DEF stage
  <2> QED BY <1>1, <1>4, <1>6, <2>1, SaveChanged DEF ServersIInv
<1>12. CardsPart'
  <2>1. CASE op.kind \in ChangingKinds
    <3>1. p \in ops' /\ p.kind \in ChangingKinds /\ p.stage = "done"
      BY <1>4, <1>5, <1>6, <2>1
    <3>2. WillLoad'
      BY <3>1 DEF WillLoad
    <3>3. failures' = 0 /\ ~mixed' => \A l, m \in loads' : l = m
      BY <1>1, <1>2 DEF ServersIInv, CardsPart
    <3> QED BY <3>2, <3>3 DEF CardsPart
  <2>2. CASE op.kind \in LookingKinds
    <3>1. op.kind \notin ChangingKinds
      BY <2>2 DEF LookingKinds, ChangingKinds
    <3>2. WillLoad => WillLoad'
      BY <1>1, <1>4, <3>1 DEF WillLoad
    <3>3. ViewOf(grid)' = ViewOf(grid)
      BY <1>1 DEF ViewOf
    <3> QED BY <1>1, <1>2, <1>7, <2>2, <3>2, <3>3, CardsKept DEF ServersIInv
  <2> QED BY <1>3, <2>1, <2>2 DEF ServerOpOK
<1> QED BY <1>8, <1>9, <1>10, <1>11, <1>12 DEF ServersIInv

\* An operation ends with a load.
LEMMA ServersEnd ==
  ASSUME ServersIInv, NEW op \in ops, ops' = ops \ {op}, busy' = busy \ {op.kind},
         op.stage # "loading", crossed' = crossed, RowsPart', BoundsPart', NEW i, ServersPage!Load(i)
  PROVE  ServersIInv'
<1>1. CardsPart' /\ \A l \in loads' : LoadOK(l)
  BY CardsLoad DEF ServersIInv
<1>2. OpsPart'
  BY <1>1 DEF ServersIInv, OpsPart, ServerOpOK, LoadOK
<1>3. SavePart'
  BY SaveLess DEF ServersIInv
<1> QED BY <1>1, <1>2, <1>3 DEF ServersIInv

\* An operation awaits its load: a save, which is over for its window, or a check.
LEMMA ServersAwait ==
  ASSUME ServersIInv, NEW op \in ops, op.kind \in AwaitingKinds, op.stage = "done",
         ServersPage!AwaitLoad(op), crossed' = crossed,
         busy' = IF op.kind = "check" THEN busy ELSE busy \ {op.kind}, RowsPart', BoundsPart'
  PROVE  ServersIInv'
<1> DEFINE p == [op EXCEPT !.stage = "loading"]
<1>1. ops' = (ops \ {op}) \cup {p} /\ ServersPage!Load(op.id)
  BY DEF ServersPage!AwaitLoad
<1>2. ServerOpOK(p) /\ p.kind = op.kind /\ p.stage = "loading"
  BY ServerOpStage DEF ServersIInv, OpsPart
<1> HIDE DEF p
<1>3. CardsPart' /\ \A l \in loads' : LoadOK(l)
  BY <1>1, CardsLoad DEF ServersIInv
<1>4. OpsPart'
  BY <1>1, <1>2, <1>3 DEF ServersIInv, OpsPart, ServerOpOK, LoadOK
<1>5. CASE op.kind = "check"
  <2>1. SavePart'
    BY <1>1, <1>2, <1>5, SaveChanged DEF ServersIInv
  <2> QED BY <1>3, <1>4, <2>1 DEF ServersIInv
<1>6. CASE op.kind # "check"
  <2>1. op.kind \in {"edit", "reconnect"}
    BY <1>6 DEF AwaitingKinds
  <2>2. SavePart'
    BY <1>1, <1>2, <1>6, <2>1, SaveAwaits DEF ServersIInv
  <2> QED BY <1>3, <1>4, <2>2 DEF ServersIInv
<1> QED BY <1>5, <1>6

\* An operation ends without one.
LEMMA ServersEndQuiet ==
  ASSUME ServersIInv, NEW op \in ops, ops' = ops \ {op}, busy' = busy \ {op.kind},
         op.stage # "loading", crossed' = crossed, RowsPart', BoundsPart',
         UNCHANGED <<status, connected, loads>>, mixed' = mixed,
         ViewOf(grid)' = ViewOf(grid), failures' = 0 => failures = 0,
         failures' = 0 => closing' # {} \/ (closing' = closing /\ (op.stage # "done"
         \/ op.kind \in LookingKinds))
  PROVE  ServersIInv'
<1>1. OpsPart'
  BY DEF ServersIInv, OpsPart, ServerOpOK, LoadOK
<1>2. SavePart'
  BY SaveLess DEF ServersIInv
<1>3. CardsPart'
  <2>1. op.kind \in LookingKinds => op.kind \notin ChangingKinds
    BY DEF LookingKinds, ChangingKinds
  <2>2. failures' = 0 /\ WillLoad => WillLoad'
    BY <2>1 DEF WillLoad
  <2> QED BY <2>2, CardsKept DEF ServersIInv
<1> QED BY <1>1, <1>2, <1>3 DEF ServersIInv

LEMMA ServersSaved ==
  ASSUME ServersIInv, NEW op \in ops, ServersPage!Saved(op) PROVE ServersIInv'
<1>1. /\ UNCHANGED <<status, connected, grid, form, session, clicks, failures, crossed>>
      /\ busy' = busy \ {op.kind} /\ op.kind \in ServersPage!Forms /\ op.stage = "done"
  BY DEF ServersPage!Saved, ServersPage!SavedForm, ServersPage!Enabled
<1>2. RowsPart' /\ ViewOf(grid)' = ViewOf(grid)
  BY <1>1, RowsKept DEF ServersIInv
<1>3. closing \subseteq Int /\ windows \subseteq ServersPage!Forms /\ op.id \in Int
  BY DEF ServersIInv, BoundsPart, OpsPart, ServerOpOK
<1>4. CASE /\ ops' = ops \ {op} /\ closing' = closing \cup {op.id} /\ UNCHANGED windows
           /\ UNCHANGED loads /\ mixed' = mixed
  <2>1. closing' \subseteq Int /\ closing' # {}
    BY <1>3, <1>4
  <2>2. BoundsPart'
    BY <1>1, <1>4, <2>1 DEF ServersIInv, BoundsPart
  <2> QED BY <1>1, <1>2, <1>4, <2>1, <2>2, ServersEndQuiet
<1>5. CASE /\ op.kind # "add" /\ ServersPage!AwaitLoad(op) /\ windows' = windows \ {op.kind}
           /\ UNCHANGED closing
  <2>1. windows' \subseteq ServersPage!Forms
    BY <1>3, <1>5
  <2>2. BoundsPart'
    BY <1>1, <1>5, <2>1 DEF ServersIInv, BoundsPart
  <2>3. op.kind \in AwaitingKinds /\ op.kind # "check"
    BY <1>1, <1>5, ServersConstants DEF AwaitingKinds
  <2> QED BY <1>1, <1>2, <1>5, <2>2, <2>3, ServersAwait
<1> QED BY <1>4, <1>5 DEF ServersPage!Saved, ServersPage!SavedForm, ServersPage!NoLoad

LEMMA ServersChecked ==
  ASSUME ServersIInv, NEW op \in ops, ServersPage!Checked(op) PROVE ServersIInv'
<1>1. /\ UNCHANGED <<status, connected, grid, windows, form, busy, closing, session, clicks, failures,
                     crossed>>
      /\ op.kind = "check" /\ op.stage = "done" /\ ServersPage!AwaitLoad(op)
  BY DEF ServersPage!Checked
<1>2. RowsPart'
  BY <1>1, RowsKept DEF ServersIInv
<1>3. BoundsPart'
  BY <1>1 DEF ServersIInv, BoundsPart
<1>4. op.kind \in AwaitingKinds
  BY <1>1 DEF AwaitingKinds
<1> QED BY <1>1, <1>2, <1>3, <1>4, ServersAwait

LEMMA ServersAddCloses == ASSUME ServersIInv, ServersPage!AddCloses PROVE ServersIInv'
<1>1. PICK id \in closing :
        /\ UNCHANGED <<status, connected, grid, ops, form, session, clicks, failures, crossed>>
        /\ closing' = closing \ {id} /\ windows' = windows \ {"add"}
        /\ busy' = busy \ {"add"} /\ ServersPage!Load(id)
  BY DEF ServersPage!AddCloses
<1>2. RowsPart'
  BY <1>1, RowsKept DEF ServersIInv
<1>3. CardsPart' /\ \A l \in loads' : LoadOK(l)
  BY <1>1, CardsLoad DEF ServersIInv
<1>4. OpsPart'
  BY <1>1, <1>3 DEF ServersIInv, OpsPart, ServerOpOK, LoadOK
<1>5. BoundsPart'
  <2>1. closing' \subseteq Int
    BY <1>1 DEF ServersIInv, BoundsPart
  <2> QED BY <1>1, <2>1 DEF ServersIInv, BoundsPart
<1>6. SavePart'
  BY <1>1, SaveReset DEF ServersIInv
<1> QED BY <1>2, <1>3, <1>4, <1>5, <1>6 DEF ServersIInv

LEMMA ServersWorkOver ==
  ASSUME RowsPart, NEW op, UNCHANGED <<status, connected>>, grid' = ServersPage!WithoutWork(op)
  PROVE  RowsPart' /\ ViewOf(grid)' = ViewOf(grid)
<1> DEFINE now == [c \in grid |->
                     IF c.work = op.id /\ op.kind = "metrics" THEN [c EXCEPT !.work = 0] ELSE c]
<1>1. grid' = {now[c] : c \in grid}
  BY DEF ServersPage!WithoutWork
<1>2. 0 \in Nat
  OBVIOUS
<1>3. grid \subseteq CardRecords
  BY DEF RowsPart
<1>4. ASSUME NEW c \in grid
      PROVE  /\ now[c] \in CardRecords /\ now[c].of = c.of
             /\ now[c].status = c.status /\ now[c].on = c.on
  BY <1>2, <1>3, CardWorks
<1> HIDE DEF now
<1> QED BY <1>1, <1>4, CardsSame

LEMMA ServersDone ==
  ASSUME ServersIInv, NEW op \in ops, ServersPage!Done(op) PROVE ServersIInv'
<1>1. /\ UNCHANGED <<status, connected, windows, form, closing, session, clicks, failures, crossed>>
      /\ op.stage # "loading"
      /\ ops' = ops \ {op} /\ busy' = busy \ {op.kind} /\ grid' = ServersPage!WithoutWork(op)
  BY DEF ServersPage!Done, ServersPage!Enabled
<1>2. RowsPart' /\ ViewOf(grid)' = ViewOf(grid)
  BY <1>1, ServersWorkOver DEF ServersIInv
<1>3. BoundsPart'
  BY <1>1 DEF ServersIInv, BoundsPart
<1>4. CASE ServersPage!Load(op.id)
  BY <1>1, <1>2, <1>3, <1>4, ServersEnd
<1>5. CASE op.kind = "refresh" /\ UNCHANGED loads /\ mixed' = mixed
  <2>1. op.kind \in LookingKinds
    BY <1>5 DEF LookingKinds
  <2> QED BY <1>1, <1>2, <1>3, <1>5, <2>1, ServersEndQuiet
<1> QED BY <1>4, <1>5 DEF ServersPage!Done, ServersPage!NoLoad

\* The windows that an answer opens.
LEMMA ServersFormOf ==
  ASSUME BoundsPart, NEW w \in {"edit", "reconnect"}, NEW s \in Cards \cup {"none"},
         form' = [form EXCEPT ![w] = s], windows' = windows \cup {w}
  PROVE  /\ form' \in [{"edit", "reconnect"} -> Cards \cup {"none"}]
         /\ windows' \subseteq ServersPage!Forms
BY ServersConstants DEF BoundsPart

LEMMA ServersFilled ==
  ASSUME ServersIInv, NEW op \in ops, ServersPage!FillEdit(op) \/ ServersPage!KeyRefused(op)
  PROVE  ServersIInv'
<1>1. /\ UNCHANGED <<status, connected, grid, busy, closing, session, clicks, failures, loads, crossed>>
      /\ ops' = ops \ {op}
      /\ \/ op.kind = "editOpen" /\ op.stage = "done"
         \/ op.kind = "key" /\ op.stage = "asked"
  BY DEF ServersPage!FillEdit, ServersPage!KeyRefused, ServersPage!NoLoad
<1>2. mixed' = mixed
  BY DEF ServersPage!FillEdit, ServersPage!KeyRefused, ServersPage!NoLoad
<1>3. PICK w \in {"edit", "reconnect"} :
        form' = [form EXCEPT ![w] = op.of] /\ windows' = windows \cup {w}
  BY DEF ServersPage!FillEdit, ServersPage!KeyRefused
<1>4. op.of \in Cards \cup {"none"} /\ BoundsPart
  BY DEF ServersIInv, OpsPart, ServerOpOK
<1>5. BoundsPart'
  <2>1. /\ form' \in [{"edit", "reconnect"} -> Cards \cup {"none"}]
        /\ windows' \subseteq ServersPage!Forms
    BY <1>3, <1>4, ServersFormOf
  <2> QED BY <1>1, <1>4, <2>1 DEF BoundsPart
<1>6. RowsPart' /\ ViewOf(grid)' = ViewOf(grid)
  BY <1>1, RowsKept DEF ServersIInv
<1>7. busy' = busy \ {op.kind} /\ op.stage # "loading"
  BY <1>1 DEF ServersIInv, SavePart, BusyKinds
<1>8. op.stage # "done" \/ op.kind \in LookingKinds
  BY <1>1 DEF LookingKinds
<1> QED BY <1>1, <1>2, <1>5, <1>6, <1>7, <1>8, ServersEndQuiet

LEMMA ServersTryKey ==
  ASSUME ServersIInv, NEW op \in ops, ServersPage!TryKey(op) PROVE ServersIInv'
<1> DEFINE p == [op EXCEPT !.kind = "key", !.stage = "asked"]
<1>1. /\ UNCHANGED <<status, connected, grid, windows, form, busy, closing, session, clicks, failures,
                     loads, crossed>>
      /\ ops' = (ops \ {op}) \cup {p} /\ op.kind = "reconnectOpen"
  BY DEF ServersPage!TryKey, ServersPage!NoLoad
<1>2. mixed' = mixed
  BY DEF ServersPage!TryKey, ServersPage!NoLoad
<1>3. ServerOpOK(op)
  BY DEF ServersIInv, OpsPart
<1>4. ServerOpOK(p) /\ p.kind = "key"
  <2>1. PICK k, o, i, g : op = [kind |-> k, of |-> o, id |-> i, stage |-> g]
    BY <1>3 DEF ServerOpOK
  <2>2. p = [[op EXCEPT !.kind = "key"] EXCEPT !.stage = "asked"]
    OBVIOUS
  <2>3. [op EXCEPT !.kind = "key"] = [kind |-> "key", of |-> o, id |-> i, stage |-> g]
    BY <2>1
  <2>4. [[kind |-> "key", of |-> o, id |-> i, stage |-> g] EXCEPT !.stage = "asked"]
          = [kind |-> "key", of |-> o, id |-> i, stage |-> "asked"]
    OBVIOUS
  <2>5. p = [kind |-> "key", of |-> o, id |-> i, stage |-> "asked"]
    BY <2>2, <2>3, <2>4
  <2> HIDE DEF p
  <2>6. /\ p = [kind |-> p.kind, of |-> p.of, id |-> p.id, stage |-> p.stage]
        /\ p.kind = "key" /\ p.of = op.of /\ p.id = op.id /\ p.stage = "asked"
    BY <2>1, <2>5
  <2> QED BY <1>3, <2>6 DEF ServerOpOK, ChangingKinds
<1> HIDE DEF p
<1>5. RowsPart' /\ ViewOf(grid)' = ViewOf(grid)
  BY <1>1, RowsKept DEF ServersIInv
<1>6. OpsPart'
  BY <1>1, <1>4, OpsMore DEF ServersIInv
<1>7. BoundsPart'
  BY <1>1 DEF ServersIInv, BoundsPart
<1>8. SavePart'
  BY <1>1, <1>4, SaveChanged DEF ServersIInv, BusyKinds
<1>9. CardsPart'
  <2>1. WillLoad => WillLoad'
    BY <1>1 DEF WillLoad, ChangingKinds
  <2> QED BY <1>1, <1>2, <1>5, <2>1, CardsKept DEF ServersIInv
<1> QED BY <1>5, <1>6, <1>7, <1>8, <1>9 DEF ServersIInv

LEMMA ServersFails ==
  ASSUME ServersIInv, NEW op \in ops, ServersPage!Fails(op) PROVE ServersIInv'
<1>1. /\ UNCHANGED <<status, connected, closing, session, clicks, loads, crossed>>
      /\ op.stage # "loading"
      /\ ops' = ops \ {op} /\ busy' = busy \ {op.kind} /\ grid' = ServersPage!WithoutWork(op)
  BY DEF ServersPage!Fails, ServersPage!NoLoad, ServersPage!Enabled
<1>2. mixed' = mixed
  BY DEF ServersPage!Fails, ServersPage!NoLoad
<1>3. op.of \in Cards \cup {"none"} /\ BoundsPart
  BY DEF ServersIInv, OpsPart, ServerOpOK
<1>4. /\ form' \in [{"edit", "reconnect"} -> Cards \cup {"none"}]
      /\ windows' \subseteq ServersPage!Forms
  <2>1. CASE op.kind = "key" /\ op.stage # "asked"
    <3>1. form' = [form EXCEPT !["reconnect"] = op.of] /\ windows' = windows \cup {"reconnect"}
      BY <2>1 DEF ServersPage!Fails
    <3> QED BY <1>3, <3>1, ServersFormOf
  <2>2. CASE ~(op.kind = "key" /\ op.stage # "asked")
    <3>1. UNCHANGED <<form, windows>>
      BY <2>2 DEF ServersPage!Fails
    <3> QED BY <1>3, <3>1 DEF BoundsPart
  <2> QED BY <2>1, <2>2
<1>5. /\ failures' = failures \/ (failures < session.failures /\ failures' = failures + 1)
      /\ failures' = failures => op.stage # "done" \/ failures' = failures + 1
  BY DEF ServersPage!Fails
<1>6. failures' \in Nat /\ (failures' = 0 => failures' = failures)
  BY <1>3, <1>5, ServersFailure
<1>7. failures' = failures => op.stage # "done"
  <2>1. failures \in Nat
    BY <1>3 DEF BoundsPart
  <2>2. failures' = failures => failures' # failures + 1
    BY <2>1
  <2> QED BY <1>5, <2>2
<1>8. RowsPart' /\ ViewOf(grid)' = ViewOf(grid)
  BY <1>1, ServersWorkOver DEF ServersIInv
<1>9. BoundsPart'
  BY <1>1, <1>3, <1>4, <1>6 DEF BoundsPart
<1>10. failures' = 0 => failures = 0
  BY <1>6
<1>11. failures' = 0 => closing' = closing /\ op.stage # "done"
  BY <1>1, <1>6, <1>7
<1> QED BY <1>1, <1>2, <1>8, <1>9, <1>10, <1>11, ServersEndQuiet

LEMMA ServersStep == ASSUME ServersIInv, ServersPage!Next PROVE ServersIInv'
<1>1. CASE \/ ServersPage!Reload \/ ServersPage!OpenAdd \/ ServersPage!AddCloses
           \/ \E l \in loads : \/ ServersPage!ReadList(l) \/ ServersPage!ReadConnected(l)
                              \/ ServersPage!ShowCards(l)
           \/ \E kind \in {"check", "refresh"} : ServersPage!ClickAll(kind)
           \/ \E w \in ServersPage!Forms : ServersPage!Hide(w) \/ ServersPage!Save(w)
  BY <1>1, ServersReload, ServersWindow, ServersAddCloses, ServersReadList, ServersReadConnected,
     ServersShowCards, ServersClickAll, ServersSave
<1>2. CASE \E one \in grid, kind \in ServersPage!CardOps : ServersPage!ClickCard(one, kind)
  BY <1>2, ServersClickCard
<1>3. CASE \E op \in ops : \/ ServersPage!Serve(op) \/ ServersPage!Saved(op)
                          \/ ServersPage!Checked(op) \/ ServersPage!Done(op)
                          \/ ServersPage!FillEdit(op) \/ ServersPage!TryKey(op)
                          \/ ServersPage!KeyRefused(op) \/ ServersPage!Fails(op)
  BY <1>3, ServersServe, ServersSaved, ServersChecked, ServersDone, ServersFilled, ServersTryKey, ServersFails
<1> QED BY <1>1, <1>2, <1>3 DEF ServersPage!Next

LEMMA ServersSame ==
  ASSUME ServersIInv,
         UNCHANGED <<status, connected, grid, loads, ops, windows, form, busy, closing, session,
                     clicks, failures>>,
         mixed' = mixed, crossed' = crossed
  PROVE  ServersIInv'
<1>1. RowsPart' /\ ViewOf(grid)' = ViewOf(grid)
  BY RowsKept DEF ServersIInv
<1>2. OpsPart'
  BY OpsKept DEF ServersIInv
<1>3. BoundsPart'
  BY DEF ServersIInv, BoundsPart
<1>4. SavePart'
  BY SaveReset DEF ServersIInv
<1>5. CardsPart'
  BY <1>1, WillLoadKept, CardsKept DEF ServersIInv
<1> QED BY <1>1, <1>2, <1>3, <1>4, <1>5 DEF ServersIInv

LEMMA ServersGives ==
  ASSUME ServersIInv
  PROVE  /\ ServersPage!ServersTypeOK /\ ServersPage!OneSave /\ ServersPage!BusyIsAsked
         /\ ServersPage!SettledCards
<1>1. ServersPage!ServersTypeOK
  <2>1. /\ status \in [Cards -> ServersPage!Statuses \cup {"gone"}] /\ connected \subseteq Cards
        /\ grid \subseteq [of : Cards, status : ServersPage!Statuses, on : BOOLEAN, work : Nat]
        /\ \A c, d \in grid : c.of = d.of => c = d
    BY ServersConstants DEF ServersIInv, RowsPart, CardRecords
  <2>2. windows \subseteq ServersPage!Forms /\ busy \subseteq ServersPage!Forms \cup {"check", "refresh"}
    BY ServersConstants DEF ServersIInv, BoundsPart, SavePart, BusyKinds
  <2>3. \A op \in ops : /\ op.of \in Cards \cup {"none"} /\ op.id \in Int
                        /\ op.stage \in {"asked", "done", "missing", "loading"}
                        /\ op.stage = "loading" => op.kind \in {"edit", "reconnect", "check"}
    BY DEF ServersIInv, OpsPart, ServerOpOK, AwaitingKinds
  <2>4. closing \subseteq Int /\ crossed \subseteq {"edit", "reconnect"}
    BY DEF ServersIInv, BoundsPart, SavePart
  <2> QED BY <2>1, <2>2, <2>3, <2>4 DEF ServersPage!ServersTypeOK
<1>5. \A op : ServersPage!Pressed(op) <=> Pressed(op)
  BY DEF ServersPage!Pressed, ServersPage!Saving, Pressed
<1>2. ServersPage!OneSave
  BY <1>5 DEF ServersIInv, SavePart, ServersPage!OneSave
<1>3. ServersPage!BusyIsAsked
  BY <1>5 DEF ServersIInv, SavePart, ServersPage!BusyIsAsked
<1>4. ServersPage!SettledCards
  <2> SUFFICES ASSUME loads = {}, ops = {}, closing = {}, failures = 0, ~mixed
               PROVE  {<<c.of, c.status, c.on>> : c \in grid}
                        = {<<s, status[s], s \in connected>> : s \in ServersPage!Exist}
    BY DEF ServersPage!SettledCards
  <2>1. ~WillLoad
    BY DEF WillLoad
  <2>2. ViewOf(grid) = ViewNow
    BY <2>1 DEF ServersIInv, CardsPart
  <2> QED BY <2>2 DEF ViewOf, ViewNow
<1> QED BY <1>1, <1>2, <1>3, <1>4

-------------------------------------------------------------------------------
(* The cluster *)

NodeRecords == [in : BOOLEAN, role : {"MASTER", "WORKER"}, status : NodeStatuses]
LoadParts == {"cluster", "servers", "connected"}

\* A load and a request for the version are whole.
ClusterLoadOK(l) ==
  /\ l = [id |-> l.id, awaits |-> l.awaits, cluster |-> l.cluster, rows |-> l.rows, ids |-> l.ids]
  /\ l.id \in 0..MaxViews /\ l.awaits \subseteq LoadParts
  /\ DOMAIN l.rows \subseteq Nodes /\ l.ids \subseteq Nodes
VersionOK(v) ==
  /\ v = [id |-> v.id, answer |-> v.answer]
  /\ v.answer \in {"awaited", "installed", "missing"}

\* Whether Kubernetes is installed is said apart, and so are the page's two flags.
ClusterFlags == installed \in BOOLEAN /\ current \in BOOLEAN /\ late \in BOOLEAN
ClusterValues ==
  /\ db \in [Nodes -> NodeRecords] /\ connected \subseteq Nodes
  /\ (\A l \in loads : ClusterLoadOK(l)) /\ \A v \in versions : VersionOK(v)
  /\ DOMAIN grid \subseteq Nodes /\ card \in {"none", "checking", "installed", "missing"}
  /\ acts \in 0..MaxViews /\ failures \in 0..MaxFailures

\* Until something fails, changes or comes late the summary and the grid show what is so, or a
\* load is under way; and the card does, or a version is.
ClusterRight ==
  /\ summary = ClusterPage!SummaryOf(ClusterPage!ClusterOf(db), db, connected)
  /\ grid = ClusterPage!GridOf(db, connected)
ClusterShown ==
  failures = 0 /\ current /\ ~late =>
    loads # {} \/ (ClusterRight /\ (versions # {} \/ card = ClusterPage!Told))

ClusterIInv == ClusterFlags /\ ClusterValues /\ ClusterPage!CheckingIsAsked /\ ClusterShown

LEMMA ClusterNats == MaxViews \in Nat /\ MaxFailures \in Nat
BY PagesAssumption DEF ClusterPage!ClusterPageAssumption

LEMMA ClusterConstants ==
  /\ ClusterPage!Rows = [Nodes -> NodeRecords] /\ ClusterPage!Parts = LoadParts
  /\ ClusterPage!None = {} /\ DOMAIN ClusterPage!NoRows = {}
BY DEF ClusterPage!Rows, ClusterPage!Roles, NodeRecords, ClusterPage!Parts, LoadParts,
       ClusterPage!None, ClusterPage!NoRows

LEMMA ClusterNew ==
  ASSUME NEW i \in 0..MaxViews PROVE ClusterLoadOK(ClusterPage!Load(i))
<1> DEFINE l == ClusterPage!Load(i)
<1>1. l = [id |-> i, awaits |-> LoadParts, cluster |-> {}, rows |-> ClusterPage!NoRows, ids |-> {}]
  BY ClusterConstants DEF ClusterPage!Load
<1> HIDE DEF l
<1>2. /\ l = [id |-> l.id, awaits |-> l.awaits, cluster |-> l.cluster, rows |-> l.rows, ids |-> l.ids]
      /\ l.id = i /\ l.awaits = LoadParts /\ l.rows = ClusterPage!NoRows /\ l.ids = {}
  BY <1>1
<1>3. ClusterLoadOK(l)
  BY <1>2, ClusterConstants DEF ClusterLoadOK
<1> QED BY <1>3 DEF l

LEMMA ClusterInit == ClusterPage!Init => ClusterIInv
<1> SUFFICES ASSUME ClusterPage!Init PROVE ClusterIInv
  OBVIOUS
<1>1. /\ db \in ClusterPage!Rows /\ connected \subseteq Nodes
      /\ loads = {ClusterPage!Load(0)} /\ versions = {} /\ summary = ClusterPage!None
      /\ card = "none" /\ grid = ClusterPage!NoRows /\ acts = 0 /\ failures = 0
  BY DEF ClusterPage!Init
<1>2. ClusterFlags
  BY DEF ClusterPage!Init, ClusterFlags
<1>3. 0 \in 0..MaxViews /\ 0 \in 0..MaxFailures
  BY ClusterNats
<1>4. ClusterValues
  BY <1>1, <1>3, ClusterNew, ClusterConstants DEF ClusterValues
<1>5. ClusterPage!CheckingIsAsked
  BY <1>1 DEF ClusterPage!CheckingIsAsked
<1>6. ClusterShown
  BY <1>1 DEF ClusterShown
<1> QED BY <1>2, <1>4, <1>5, <1>6 DEF ClusterIInv

\* What is shown, while neither it nor what is so changes.
LEMMA ClusterShownKept ==
  ASSUME ClusterShown, UNCHANGED <<db, connected, summary, grid, card>>, installed' = installed,
         current' = current, late' = late, failures' = 0 => failures = 0,
         loads # {} => loads' # {}, versions # {} => versions' # {}
  PROVE  ClusterShown'
<1> SUFFICES ASSUME failures' = 0, current', ~late'
             PROVE  \/ loads' # {}
                    \/ ClusterRight' /\ (versions' # {} \/ card' = ClusterPage!Told')
  BY DEF ClusterShown
<1>1. loads # {} \/ (ClusterRight /\ (versions # {} \/ card = ClusterPage!Told))
  BY DEF ClusterShown
<1>2. ClusterPage!Told' = ClusterPage!Told
  BY DEF ClusterPage!Told
<1>3. ClusterRight => ClusterRight'
  BY DEF ClusterRight, ClusterPage!SummaryOf, ClusterPage!ClusterOf, ClusterPage!GridOf,
         ClusterPage!InCluster, ClusterPage!WithRole, ClusterPage!WithStatus
<1> QED BY <1>1, <1>2, <1>3

LEMMA ClusterFlagsKept ==
  ASSUME ClusterFlags, installed' = installed, current' = current, late' = late PROVE ClusterFlags'
BY DEF ClusterFlags

LEMMA ClusterCheckingKept ==
  ASSUME ClusterPage!CheckingIsAsked, UNCHANGED <<summary, card>>, versions # {} => versions' # {}
  PROVE  ClusterPage!CheckingIsAsked'
BY ClusterConstants DEF ClusterPage!CheckingIsAsked, ClusterPage!None

LEMMA ClusterActs ==
  ASSUME ClusterValues, ClusterPage!Act PROVE acts' \in 0..MaxViews
<1>1. acts \in 0..MaxViews /\ MaxViews \in Nat
  BY ClusterNats DEF ClusterValues
<1>2. acts < MaxViews /\ acts' = acts + 1
  BY DEF ClusterPage!Act
<1> QED BY <1>1, <1>2

LEMMA ClusterFailure ==
  ASSUME ClusterValues, ClusterPage!Failure PROVE failures' \in 0..MaxFailures /\ failures' # 0
<1>1. failures \in 0..MaxFailures /\ MaxFailures \in Nat
  BY ClusterNats DEF ClusterValues
<1>2. failures < MaxFailures /\ failures' = failures + 1
  BY DEF ClusterPage!Failure
<1> QED BY <1>1, <1>2

LEMMA ClusterRefresh == ASSUME ClusterIInv, ClusterPage!Refresh PROVE ClusterIInv'
<1>1. /\ UNCHANGED <<db, connected, versions, summary, card, grid, failures>>
      /\ ClusterPage!Act /\ loads' = loads \cup {ClusterPage!Load(acts')}
  BY DEF ClusterPage!Refresh
<1>2. installed' = installed /\ late' = late /\ current' = TRUE
  BY DEF ClusterPage!Refresh
<1>3. ClusterFlags'
  BY <1>2 DEF ClusterIInv, ClusterFlags
<1>4. acts' \in 0..MaxViews
  BY <1>1, ClusterActs DEF ClusterIInv
<1>5. ClusterLoadOK(ClusterPage!Load(acts'))
  BY <1>4, ClusterNew
<1>6. ClusterValues'
  BY <1>1, <1>4, <1>5 DEF ClusterIInv, ClusterValues, ClusterLoadOK, VersionOK
<1>7. ClusterPage!CheckingIsAsked'
  BY <1>1, ClusterCheckingKept DEF ClusterIInv
<1>8. ClusterShown'
  BY <1>1 DEF ClusterShown
<1> QED BY <1>3, <1>6, <1>7, <1>8 DEF ClusterIInv

\* A server whose membership, role or status is changed is a server still.
LEMMA NodeChanged ==
  ASSUME NEW d \in [Nodes -> NodeRecords], NEW s \in Nodes, NEW e,
         \/ e = [d EXCEPT ![s].in = ~@]
         \/ \E r \in {"MASTER", "WORKER"} : e = [d EXCEPT ![s].role = r]
         \/ \E t \in NodeStatuses : e = [d EXCEPT ![s].status = t]
  PROVE  e \in [Nodes -> NodeRecords]
<1>1. d[s] \in NodeRecords
  OBVIOUS
<1>2. PICK i \in BOOLEAN, r \in {"MASTER", "WORKER"}, t \in NodeStatuses :
        d[s] = [in |-> i, role |-> r, status |-> t]
  BY <1>1 DEF NodeRecords
<1>3. CASE e = [d EXCEPT ![s].in = ~@]
  <2>1. e = [d EXCEPT ![s] = [d[s] EXCEPT !.in = ~d[s].in]]
    BY <1>3
  <2>2. [d[s] EXCEPT !.in = ~d[s].in] = [in |-> ~d[s].in, role |-> r, status |-> t]
    BY <1>2
  <2>3. [in |-> ~d[s].in, role |-> r, status |-> t] \in NodeRecords
    BY <1>2 DEF NodeRecords
  <2> QED BY <2>1, <2>2, <2>3
<1>4. CASE \E q \in {"MASTER", "WORKER"} : e = [d EXCEPT ![s].role = q]
  <2>1. PICK q \in {"MASTER", "WORKER"} : e = [d EXCEPT ![s].role = q]
    BY <1>4
  <2>2. e = [d EXCEPT ![s] = [d[s] EXCEPT !.role = q]]
    BY <2>1
  <2>3. [d[s] EXCEPT !.role = q] = [in |-> i, role |-> q, status |-> t]
    BY <1>2
  <2>4. [in |-> i, role |-> q, status |-> t] \in NodeRecords
    BY <1>2, <2>1 DEF NodeRecords
  <2> QED BY <2>2, <2>3, <2>4
<1>5. CASE \E u \in NodeStatuses : e = [d EXCEPT ![s].status = u]
  <2>1. PICK u \in NodeStatuses : e = [d EXCEPT ![s].status = u]
    BY <1>5
  <2>2. e = [d EXCEPT ![s] = [d[s] EXCEPT !.status = u]]
    BY <2>1
  <2>3. [d[s] EXCEPT !.status = u] = [in |-> i, role |-> r, status |-> u]
    BY <1>2
  <2>4. [in |-> i, role |-> r, status |-> u] \in NodeRecords
    BY <1>2, <2>1 DEF NodeRecords
  <2> QED BY <2>2, <2>3, <2>4
<1> QED BY <1>3, <1>4, <1>5

LEMMA ClusterChange == ASSUME ClusterIInv, ClusterPage!Change PROVE ClusterIInv'
<1>1. UNCHANGED <<loads, versions, summary, card, grid, failures>> /\ ClusterPage!Act
  BY DEF ClusterPage!Change
<1>2. late' = late /\ current' = FALSE /\ installed' \in BOOLEAN
  BY DEF ClusterIInv, ClusterFlags, ClusterPage!Change
<1>3. ClusterFlags'
  BY <1>2 DEF ClusterIInv, ClusterFlags
<1>4. acts' \in 0..MaxViews
  BY <1>1, ClusterActs DEF ClusterIInv
<1>5. db' \in [Nodes -> NodeRecords] /\ connected' \subseteq Nodes
  <2>1. db \in [Nodes -> NodeRecords] /\ connected \subseteq Nodes
    BY DEF ClusterIInv, ClusterValues
  <2>2. CASE UNCHANGED db
    BY <2>1, <2>2 DEF ClusterPage!Change
  <2>3. CASE /\ UNCHANGED connected
             /\ \E s \in Nodes :
                  db' \in {[db EXCEPT ![s].in = ~@]}
                            \cup {[db EXCEPT ![s].role = r] : r \in ClusterPage!Roles}
                            \cup {[db EXCEPT ![s].status = t] : t \in NodeStatuses}
    <3>1. PICK s \in Nodes :
            db' \in {[db EXCEPT ![s].in = ~@]}
                      \cup {[db EXCEPT ![s].role = r] : r \in ClusterPage!Roles}
                      \cup {[db EXCEPT ![s].status = t] : t \in NodeStatuses}
      BY <2>3
    <3>2. \/ db' = [db EXCEPT ![s].in = ~@]
          \/ \E r \in {"MASTER", "WORKER"} : db' = [db EXCEPT ![s].role = r]
          \/ \E t \in NodeStatuses : db' = [db EXCEPT ![s].status = t]
      BY <3>1 DEF ClusterPage!Roles
    <3> QED BY <2>1, <2>3, <3>2, NodeChanged
  <2> QED BY <2>2, <2>3 DEF ClusterPage!Change
<1>6. ClusterValues'
  BY <1>1, <1>4, <1>5 DEF ClusterIInv, ClusterValues, ClusterLoadOK, VersionOK
<1>7. ClusterPage!CheckingIsAsked'
  BY <1>1, ClusterCheckingKept DEF ClusterIInv
<1>8. ClusterShown'
  BY <1>2 DEF ClusterShown
<1> QED BY <1>3, <1>6, <1>7, <1>8 DEF ClusterIInv

\* A load that goes on.
LEMMA ClusterGoesOn ==
  ASSUME ClusterIInv, NEW l \in loads, NEW p, ClusterLoadOK(p), loads' = (loads \ {l}) \cup {p},
         UNCHANGED <<db, connected, versions, summary, card, grid, acts>>,
         installed' = installed, current' = current, late' = late,
         failures' = failures \/ ClusterPage!Failure
  PROVE  ClusterIInv'
<1>1. ClusterFlags'
  BY ClusterFlagsKept DEF ClusterIInv
<1>2. failures' \in 0..MaxFailures /\ (failures' = 0 => failures = 0)
  BY ClusterFailure DEF ClusterIInv, ClusterValues
<1>3. ClusterValues'
  BY <1>2 DEF ClusterIInv, ClusterValues, ClusterLoadOK, VersionOK
<1>4. ClusterPage!CheckingIsAsked'
  BY ClusterCheckingKept DEF ClusterIInv
<1>5. ClusterShown'
  BY <1>2, ClusterShownKept DEF ClusterIInv
<1> QED BY <1>1, <1>3, <1>4, <1>5 DEF ClusterIInv

LEMMA ClusterAwaitsLess ==
  ASSUME NEW l, ClusterLoadOK(l), NEW part
  PROVE  ClusterLoadOK([l EXCEPT !.awaits = @ \ {part}])
<1> DEFINE p == [l EXCEPT !.awaits = @ \ {part}]
<1>1. PICK i, a, c, r, d : l = [id |-> i, awaits |-> a, cluster |-> c, rows |-> r, ids |-> d]
  BY DEF ClusterLoadOK
<1>2. p = [id |-> i, awaits |-> a \ {part}, cluster |-> c, rows |-> r, ids |-> d]
  BY <1>1
<1> HIDE DEF p
<1>3. /\ p = [id |-> p.id, awaits |-> p.awaits, cluster |-> p.cluster, rows |-> p.rows, ids |-> p.ids]
      /\ p.id = l.id /\ p.awaits = l.awaits \ {part} /\ p.rows = l.rows /\ p.ids = l.ids
  BY <1>1, <1>2
<1>4. ClusterLoadOK(p)
  BY <1>3 DEF ClusterLoadOK
<1> QED BY <1>4 DEF p

LEMMA ClusterAnswered ==
  ASSUME NEW l, ClusterLoadOK(l), NEW cluster, NEW rows, NEW ids, NEW p,
         DOMAIN rows \subseteq Nodes, ids \subseteq Nodes,
         \/ p = [l EXCEPT !.cluster = cluster] \/ p = [l EXCEPT !.rows = rows]
         \/ p = [l EXCEPT !.ids = ids]
  PROVE  ClusterLoadOK(p)
<1>1. PICK i, a, c, r, d : l = [id |-> i, awaits |-> a, cluster |-> c, rows |-> r, ids |-> d]
  BY DEF ClusterLoadOK
<1>2. i \in 0..MaxViews /\ a \subseteq LoadParts /\ DOMAIN r \subseteq Nodes /\ d \subseteq Nodes
  BY <1>1 DEF ClusterLoadOK
<1>3. CASE p = [l EXCEPT !.cluster = cluster]
  <2>1. p = [id |-> i, awaits |-> a, cluster |-> cluster, rows |-> r, ids |-> d]
    BY <1>1, <1>3
  <2> QED BY <1>2, <2>1 DEF ClusterLoadOK
<1>4. CASE p = [l EXCEPT !.rows = rows]
  <2>1. p = [id |-> i, awaits |-> a, cluster |-> c, rows |-> rows, ids |-> d]
    BY <1>1, <1>4
  <2> QED BY <1>2, <2>1 DEF ClusterLoadOK
<1>5. CASE p = [l EXCEPT !.ids = ids]
  <2>1. p = [id |-> i, awaits |-> a, cluster |-> c, rows |-> r, ids |-> ids]
    BY <1>1, <1>5
  <2> QED BY <1>2, <2>1 DEF ClusterLoadOK
<1> QED BY <1>3, <1>4, <1>5

LEMMA ClusterServe ==
  ASSUME ClusterIInv, NEW l \in loads, NEW part \in ClusterPage!Parts,
         ClusterPage!Serve(l, part) \/ ClusterPage!Fails(l, part)
  PROVE  ClusterIInv'
<1> DEFINE q == [l EXCEPT !.awaits = @ \ {part}]
<1>1. UNCHANGED <<db, connected, versions, summary, card, grid, acts>>
  BY DEF ClusterPage!Serve, ClusterPage!Fails
<1>2. installed' = installed
  BY DEF ClusterPage!Serve, ClusterPage!Fails
<1>3. current' = current /\ late' = late
  BY DEF ClusterPage!Serve, ClusterPage!Fails
<1>4. failures' = failures \/ ClusterPage!Failure
  BY DEF ClusterPage!Serve, ClusterPage!Fails
<1>5. ClusterLoadOK(q)
  <2>1. ClusterLoadOK(l)
    BY DEF ClusterIInv, ClusterValues
  <2> QED BY <2>1, ClusterAwaitsLess
<1>6. \/ loads' = (loads \ {l}) \cup {q}
      \/ loads' = (loads \ {l}) \cup {[q EXCEPT !.cluster = ClusterPage!ClusterOf(db)]}
      \/ loads' = (loads \ {l}) \cup {[q EXCEPT !.rows = db]}
      \/ loads' = (loads \ {l}) \cup {[q EXCEPT !.ids = connected]}
  <2>1. part \in {"cluster", "servers", "connected"}
    BY ClusterConstants DEF LoadParts
  <2>2. CASE ClusterPage!Fails(l, part)
    BY <2>2 DEF ClusterPage!Fails
  <2>3. CASE ClusterPage!Serve(l, part) /\ part = "cluster"
    BY <2>3 DEF ClusterPage!Serve
  <2>4. CASE ClusterPage!Serve(l, part) /\ part = "servers"
    BY <2>4 DEF ClusterPage!Serve
  <2>5. CASE ClusterPage!Serve(l, part) /\ part = "connected"
    BY <2>5 DEF ClusterPage!Serve
  <2> QED BY <2>1, <2>2, <2>3, <2>4, <2>5
<1> HIDE DEF q
<1>7. DOMAIN db \subseteq Nodes /\ connected \subseteq Nodes
  BY DEF ClusterIInv, ClusterValues
<1>8. \E p : loads' = (loads \ {l}) \cup {p} /\ ClusterLoadOK(p)
  BY <1>5, <1>6, <1>7, ClusterAnswered
<1> QED BY <1>1, <1>2, <1>3, <1>4, <1>8, ClusterGoesOn

LEMMA ClusterRender ==
  ASSUME ClusterIInv, NEW l \in loads, ClusterPage!Render(l) PROVE ClusterIInv'
<1>1. /\ UNCHANGED <<db, connected, acts, failures>> /\ loads' = loads \ {l}
      /\ summary' = ClusterPage!SummaryOf(l.cluster, l.rows, l.ids)
      /\ grid' = ClusterPage!GridOf(l.rows, l.ids)
      /\ IF l.cluster = {} THEN card' = "none" /\ versions' = versions
         ELSE card' = "checking" /\ versions' = versions \cup {[id |-> l.id, answer |-> "awaited"]}
  BY ClusterConstants DEF ClusterPage!Render
<1>2. installed' = installed /\ current' = current
  BY DEF ClusterPage!Render
<1>3. late' = (late \/ <<l.cluster, l.rows, l.ids>> # <<ClusterPage!ClusterOf(db), db, connected>>)
  BY DEF ClusterPage!Render
<1>4. ClusterFlags'
  BY <1>2, <1>3 DEF ClusterIInv, ClusterFlags
<1>5. ClusterValues'
  <2>1. DOMAIN grid' \subseteq Nodes
    <3>1. DOMAIN l.rows \subseteq Nodes
      BY DEF ClusterIInv, ClusterValues, ClusterLoadOK
    <3>2. DOMAIN grid' = ClusterPage!InCluster(l.rows)
      BY <1>1 DEF ClusterPage!GridOf
    <3> QED BY <3>1, <3>2 DEF ClusterPage!InCluster
  <2>2. \A v \in versions' : v \in versions \/ VersionOK(v)
    BY <1>1 DEF VersionOK
  <2>3. card' \in {"none", "checking", "installed", "missing"}
    BY <1>1
  <2> QED BY <1>1, <2>1, <2>2, <2>3 DEF ClusterIInv, ClusterValues, ClusterLoadOK, VersionOK
<1>6. summary' = {} <=> l.cluster = {}
  BY <1>1 DEF ClusterPage!SummaryOf
<1>7. ClusterPage!CheckingIsAsked'
  BY <1>1, <1>6 DEF ClusterPage!CheckingIsAsked, ClusterPage!None
<1>8. ClusterShown'
  <2> SUFFICES ASSUME ~late' PROVE ClusterRight' /\ versions' # {}
    BY DEF ClusterShown
  <2>1. l.cluster = ClusterPage!ClusterOf(db) /\ l.rows = db /\ l.ids = connected
    BY <1>3
  <2>2. summary' = ClusterPage!SummaryOf(ClusterPage!ClusterOf(db), db, connected)
    BY <1>1, <2>1
  <2>3. grid' = ClusterPage!GridOf(db, connected)
    BY <1>1, <2>1
  <2>4. ClusterRight'
    <3>1. UNCHANGED <<db, connected>>
      BY <1>1
    <3>2. ClusterPage!SummaryOf(ClusterPage!ClusterOf(db), db, connected)'
            = ClusterPage!SummaryOf(ClusterPage!ClusterOf(db), db, connected)
      BY <3>1 DEF ClusterPage!SummaryOf, ClusterPage!ClusterOf, ClusterPage!InCluster,
                  ClusterPage!WithRole, ClusterPage!WithStatus
    <3>3. ClusterPage!GridOf(db, connected)' = ClusterPage!GridOf(db, connected)
      BY <3>1 DEF ClusterPage!GridOf, ClusterPage!InCluster
    <3> QED BY <2>2, <2>3, <3>2, <3>3 DEF ClusterRight
  <2>5. l.cluster # {}
    BY <2>1 DEF ClusterPage!ClusterOf
  <2>6. versions' # {}
    BY <1>1, <2>5
  <2> QED BY <2>4, <2>6
<1> QED BY <1>4, <1>5, <1>7, <1>8 DEF ClusterIInv

LEMMA ClusterServeVersion ==
  ASSUME ClusterIInv, NEW v \in versions, ClusterPage!ServeVersion(v) PROVE ClusterIInv'
<1> DEFINE w == [v EXCEPT !.answer = ClusterPage!Told]
<1>1. /\ UNCHANGED <<db, connected, loads, summary, card, grid, acts, failures>>
      /\ versions' = (versions \ {v}) \cup {w}
  BY DEF ClusterPage!ServeVersion
<1>2. installed' = installed
  BY DEF ClusterPage!ServeVersion
<1>3. current' = current /\ late' = late
  BY DEF ClusterPage!ServeVersion
<1>4. VersionOK(w)
  <2>1. ClusterPage!Told \in {"installed", "missing"}
    BY DEF ClusterPage!Told
  <2>2. PICK i, a : v = [id |-> i, answer |-> a]
    BY DEF ClusterIInv, ClusterValues, VersionOK
  <2>3. w = [id |-> i, answer |-> ClusterPage!Told]
    BY <2>2
  <2> HIDE DEF w
  <2> QED BY <2>1, <2>3 DEF VersionOK
<1> HIDE DEF w
<1>5. ClusterFlags'
  BY <1>2, <1>3, ClusterFlagsKept DEF ClusterIInv
<1>6. ClusterValues'
  BY <1>1, <1>4 DEF ClusterIInv, ClusterValues, ClusterLoadOK, VersionOK
<1>7. ClusterPage!CheckingIsAsked'
  BY <1>1, ClusterCheckingKept DEF ClusterIInv
<1>8. ClusterShown'
  BY <1>1, <1>2, <1>3, ClusterShownKept DEF ClusterIInv
<1> QED BY <1>5, <1>6, <1>7, <1>8 DEF ClusterIInv

LEMMA ClusterShowVersion ==
  ASSUME ClusterIInv, NEW v \in versions, NEW answer \in {"installed", "missing"},
         ClusterPage!ShowVersion(v, answer),
         failures' = failures \/ (ClusterPage!Failure /\ answer = "missing")
  PROVE  ClusterIInv'
<1>1. /\ UNCHANGED <<db, connected, loads, summary, grid, acts>> /\ versions' = versions \ {v}
      /\ card' = IF card = "none" THEN "none" ELSE answer
  BY DEF ClusterPage!ShowVersion
<1>2. installed' = installed /\ current' = current
  BY DEF ClusterPage!ShowVersion
<1>3. late' = (late \/ answer # ClusterPage!Told)
  BY DEF ClusterPage!ShowVersion
<1>4. ClusterFlags'
  BY <1>2, <1>3 DEF ClusterIInv, ClusterFlags
<1>5. failures' \in 0..MaxFailures /\ (failures' = 0 => failures = 0)
  BY ClusterFailure DEF ClusterIInv, ClusterValues
<1>6. ClusterValues'
  BY <1>1, <1>5 DEF ClusterIInv, ClusterValues, ClusterLoadOK, VersionOK
<1>7. ClusterPage!CheckingIsAsked'
  BY <1>1 DEF ClusterIInv, ClusterPage!CheckingIsAsked, ClusterPage!None
<1>8. ClusterShown'
  <2> SUFFICES ASSUME failures' = 0, current', ~late'
               PROVE  loads' # {} \/ (ClusterRight' /\ card' = ClusterPage!Told')
    BY DEF ClusterShown
  <2>1. loads # {} \/ ClusterRight
    BY <1>2, <1>3, <1>5 DEF ClusterIInv, ClusterShown
  <2>2. CASE loads # {}
    BY <1>1, <2>2
  <2>3. CASE ClusterRight
    <3>1. summary # {}
      BY <2>3 DEF ClusterRight, ClusterPage!SummaryOf, ClusterPage!ClusterOf
    <3>2. card # "none"
      BY <3>1 DEF ClusterIInv, ClusterPage!CheckingIsAsked, ClusterPage!None
    <3>3. card' = ClusterPage!Told
      BY <1>1, <1>3, <3>2
    <3>4. ClusterPage!Told' = ClusterPage!Told
      BY <1>2 DEF ClusterPage!Told
    <3>5. ClusterRight'
      BY <1>1, <2>3
      DEF ClusterRight, ClusterPage!SummaryOf, ClusterPage!ClusterOf, ClusterPage!GridOf,
          ClusterPage!InCluster, ClusterPage!WithRole, ClusterPage!WithStatus
    <3> QED BY <3>3, <3>4, <3>5
  <2> QED BY <2>1, <2>2, <2>3
<1> QED BY <1>4, <1>6, <1>7, <1>8 DEF ClusterIInv

LEMMA ClusterStep == ASSUME ClusterIInv, ClusterPage!Next PROVE ClusterIInv'
<1>1. CASE ClusterPage!Refresh \/ ClusterPage!Change
  BY <1>1, ClusterRefresh, ClusterChange
<1>2. CASE \E l \in loads : ClusterPage!Render(l)
  BY <1>2, ClusterRender
<1>3. CASE \E l \in loads : \E part \in ClusterPage!Parts :
             ClusterPage!Serve(l, part) \/ ClusterPage!Fails(l, part)
  BY <1>3, ClusterServe
<1>4. CASE \E v \in versions : ClusterPage!ServeVersion(v)
  BY <1>4, ClusterServeVersion
<1>5. CASE \E v \in versions : ClusterPage!GotVersion(v)
  <2>1. PICK v \in versions : ClusterPage!GotVersion(v)
    BY <1>5
  <2>2. v.answer \in {"installed", "missing"}
    BY <2>1 DEF ClusterPage!GotVersion, ClusterIInv, ClusterValues, VersionOK
  <2>3. ClusterPage!ShowVersion(v, v.answer) /\ failures' = failures
    BY <2>1 DEF ClusterPage!GotVersion
  <2> QED BY <2>2, <2>3, ClusterShowVersion
<1>6. CASE \E v \in versions : ClusterPage!VersionFails(v)
  BY <1>6, ClusterShowVersion DEF ClusterPage!VersionFails
<1> QED BY <1>1, <1>2, <1>3, <1>4, <1>5, <1>6 DEF ClusterPage!Next

LEMMA ClusterSame ==
  ASSUME ClusterIInv,
         UNCHANGED <<db, connected, loads, versions, summary, card, grid, acts, failures>>,
         installed' = installed, current' = current, late' = late
  PROVE  ClusterIInv'
<1>1. ClusterFlags'
  BY ClusterFlagsKept DEF ClusterIInv
<1>2. ClusterValues'
  BY DEF ClusterIInv, ClusterValues, ClusterLoadOK, VersionOK
<1>3. ClusterPage!CheckingIsAsked'
  BY ClusterCheckingKept DEF ClusterIInv
<1>4. ClusterShown'
  BY ClusterShownKept DEF ClusterIInv
<1> QED BY <1>1, <1>2, <1>3, <1>4 DEF ClusterIInv

LEMMA ClusterGives ==
  ASSUME ClusterIInv
  PROVE  ClusterPage!ClusterPageTypeOK /\ ClusterPage!CheckingIsAsked /\ ClusterPage!SettledCluster
<1>1. {installed, current, late} \subseteq BOOLEAN
  BY DEF ClusterIInv, ClusterFlags
<1>2. /\ db \in ClusterPage!Rows /\ connected \subseteq Nodes
      /\ DOMAIN grid \subseteq Nodes /\ card \in {"none", "checking", "installed", "missing"}
  BY ClusterConstants DEF ClusterIInv, ClusterValues
<1>3. \A l \in loads : l.id \in 0..MaxViews /\ l.awaits \subseteq ClusterPage!Parts
      /\ l.ids \subseteq Nodes
  BY ClusterConstants DEF ClusterIInv, ClusterValues, ClusterLoadOK
<1>4. \A v \in versions : v.answer \in {"awaited", "installed", "missing"}
  BY DEF ClusterIInv, ClusterValues, VersionOK
<1>5. ClusterPage!ClusterPageTypeOK
  BY <1>1, <1>2, <1>3, <1>4 DEF ClusterPage!ClusterPageTypeOK
<1>6. ClusterPage!SettledCluster
  BY DEF ClusterIInv, ClusterShown, ClusterRight, ClusterPage!SettledCluster
<1> QED BY <1>5, <1>6 DEF ClusterIInv

-------------------------------------------------------------------------------
(* The windows *)

\* What the variables may be, but for the instances' own.
WindowsValues ==
  /\ page \in {"setup", "lists"} /\ opens \in 0..MaxOpens
  /\ newest \in [Renewed -> Nat] /\ \A w \in Renewed : newest[w] <= opens
  /\ asked \subseteq Reused /\ up \subseteq Windows!Windows /\ displayed \subseteq Windows!Windows
  /\ awaited \subseteq Windows!Instances /\ ripe \subseteq Windows!Instances
  /\ crossed \subseteq Windows!Instances
WindowsFlags == {locked, overflow, saved, due} \subseteq BOOLEAN

\* What an instance may wait for.
NoCall == <<>>
ElementCall == <<"element">>
ShownCall == <<"shown">>
ModalCall == <<"modal">>
HiddenCall == <<"hidden">>
HiddenElement == <<"hidden", "element">>

\* An instance is closed, opening, open or closing; while its backdrop still fades out it
\* may be opened again.
IsClosed(i) == i \notin shown /\ i \notin changing /\ callbacks[i] \in {NoCall, HiddenCall}
IsOpening(i) ==
  i \in shown /\ i \in changing /\ callbacks[i] \in {ElementCall, ShownCall, HiddenElement}
IsOpen(i) == i \in shown /\ i \notin changing /\ callbacks[i] = NoCall
IsClosing(i) == i \in changing /\ i \notin shown /\ callbacks[i] = ModalCall
InstancesPart ==
  /\ shown \subseteq Windows!Instances /\ changing \subseteq Windows!Instances
  /\ appended \subseteq Windows!Instances /\ backdrops \subseteq Windows!Instances
  /\ DOMAIN callbacks = Windows!Instances
  /\ \A i \in Windows!Instances : IsClosed(i) \/ IsOpening(i) \/ IsOpen(i) \/ IsClosing(i)
  /\ \A i \in appended : i \in shown \/ callbacks[i] # NoCall

\* The body is held by each instance that is shown, and by each closing not over yet: it is
\* let go by the last, for one that was held before is kept in saved.
FadesOut(i) == callbacks[i] \in {ModalCall, HiddenCall, HiddenElement}
Holds(i) == i \in shown \/ FadesOut(i)
HoldsTwice(i) == i \in shown /\ FadesOut(i)
BodyPart ==
  /\ locked \/ overflow => \E i \in Windows!Instances : Holds(i)
  /\ saved => \/ \E i \in Windows!Instances : HoldsTwice(i)
              \/ \E i, j \in Windows!Instances : i # j /\ Holds(i) /\ Holds(j)

\* A backdrop without a window up is that of a window to come, or goes with the next frame,
\* which comes.
BackdropsPart ==
  up = {} /\ backdrops # {} =>
    due \/ \E i \in Windows!Instances : FadesOut(i) \/ callbacks[i] = ElementCall

\* An instance whose opening met nothing is alone in its window, and is seen over its own
\* backdrop once that has faded in; until then nothing closes.
Seen(i) ==
  /\ \A j \in shown \cup changing : j # i => Windows!Of(j) # Windows!Of(i)
  /\ i \in appended /\ i \in backdrops
  /\ callbacks[i] \in {NoCall, ElementCall, ShownCall}
  /\ callbacks[i] = ElementCall => ~due /\ \A j \in Windows!Instances : ~FadesOut(j)
  /\ callbacks[i] # ElementCall => Windows!Of(i) \in up /\ Windows!Of(i) \in displayed
SeenPart == \A i \in shown \ crossed : Seen(i)

WindowsIInv ==
  WindowsValues /\ WindowsFlags /\ InstancesPart /\ BodyPart /\ BackdropsPart /\ SeenPart

\* The lists of callbacks differ, and lose their head or gain an end as lists do.
LEMMA Calls ==
  /\ NoCall = <<>>
  /\ NoCall # ElementCall /\ NoCall # ShownCall /\ NoCall # ModalCall /\ NoCall # HiddenCall
  /\ NoCall # HiddenElement /\ ElementCall # ShownCall /\ ElementCall # ModalCall
  /\ ElementCall # HiddenCall /\ ElementCall # HiddenElement /\ ShownCall # ModalCall
  /\ ShownCall # HiddenCall /\ ShownCall # HiddenElement /\ ModalCall # HiddenCall
  /\ ModalCall # HiddenElement /\ HiddenCall # HiddenElement
<1>1. /\ Len(<<>>) = 0 /\ Len(ElementCall) = 1 /\ Len(ShownCall) = 1 /\ Len(ModalCall) = 1
      /\ Len(HiddenCall) = 1 /\ Len(HiddenElement) = 2
  BY DEF ElementCall, ShownCall, ModalCall, HiddenCall, HiddenElement
<1>2. /\ ElementCall[1] = "element" /\ ShownCall[1] = "shown" /\ ModalCall[1] = "modal"
      /\ HiddenCall[1] = "hidden"
  BY DEF ElementCall, ShownCall, ModalCall, HiddenCall
<1> QED BY <1>1, <1>2 DEF NoCall

LEMMA CallHeads ==
  /\ Head(ElementCall) = "element" /\ Head(ShownCall) = "shown" /\ Head(ModalCall) = "modal"
  /\ Head(HiddenCall) = "hidden" /\ Head(HiddenElement) = "hidden"
BY DEF ElementCall, ShownCall, ModalCall, HiddenCall, HiddenElement

LEMMA CallMoves ==
  /\ Tail(ElementCall) \o <<"shown">> = ShownCall /\ Tail(ShownCall) \o <<>> = NoCall
  /\ Tail(ModalCall) \o <<"hidden">> = HiddenCall /\ Tail(HiddenCall) \o <<>> = NoCall
  /\ Tail(HiddenElement) \o <<>> = ElementCall
  /\ Append(NoCall, "element") = ElementCall /\ Append(HiddenCall, "element") = HiddenElement
  /\ Append(NoCall, "modal") = ModalCall
<1>1. Tail(ElementCall) = <<>> /\ Tail(ShownCall) = <<>> /\ Tail(ModalCall) = <<>>
      /\ Tail(HiddenCall) = <<>>
  BY DEF ElementCall, ShownCall, ModalCall, HiddenCall
<1>2. Tail(HiddenElement) = <<"element">>
  BY DEF HiddenElement
<1>3. <<>> \o <<"shown">> = ShownCall /\ <<>> \o <<>> = NoCall /\ <<>> \o <<"hidden">> = HiddenCall
      /\ <<"element">> \o <<>> = ElementCall
  BY DEF NoCall, ElementCall, ShownCall, HiddenCall
<1>4. Append(NoCall, "element") = ElementCall /\ Append(NoCall, "modal") = ModalCall
  BY DEF NoCall, ElementCall, ModalCall
<1>5. Append(HiddenCall, "element") = HiddenElement
  <2> DEFINE W == {"hidden", "element"}
  <2>1. HiddenCall \in Seq(W)
    BY DEF HiddenCall
  <2>2. Len(HiddenCall) = 1 /\ HiddenCall[1] = "hidden"
    BY DEF HiddenCall
  <2>3. "element" \in W
    OBVIOUS
  <2> HIDE DEF W
  <2>4. Len(Append(HiddenCall, "element")) = 2 /\ Append(HiddenCall, "element") \in Seq(W)
    BY <2>1, <2>2, <2>3
  <2>5. Append(HiddenCall, "element")[1] = "hidden" /\ Append(HiddenCall, "element")[2] = "element"
    <3>1. /\ \A n \in 1..Len(HiddenCall) : Append(HiddenCall, "element")[n] = HiddenCall[n]
          /\ Append(HiddenCall, "element")[Len(HiddenCall) + 1] = "element"
      BY <2>1, <2>3, AppendProperties
    <3> QED BY <2>2, <3>1
  <2>6. HiddenElement \in Seq(W) /\ Len(HiddenElement) = 2
        /\ HiddenElement[1] = "hidden" /\ HiddenElement[2] = "element"
    BY DEF HiddenElement, W
  <2> QED BY <2>4, <2>5, <2>6
<1> QED BY <1>1, <1>2, <1>3, <1>4, <1>5

LEMMA WindowsNat == MaxOpens \in Nat /\ Reused \cap Renewed = {}
BY PagesAssumption DEF Windows!WindowsAssumption

\* What an instance waits for tells what it is.
LEMMA WindowsAwaits ==
  ASSUME InstancesPart, NEW i \in Windows!Instances
  PROVE  /\ Windows!Awaits(i, "element") <=> callbacks[i] = ElementCall
         /\ Windows!Awaits(i, "shown") <=> callbacks[i] = ShownCall
         /\ Windows!Awaits(i, "modal") <=> callbacks[i] = ModalCall
         /\ Windows!Awaits(i, "hidden") <=> callbacks[i] \in {HiddenCall, HiddenElement}
         /\ Windows!Opening(i) <=> callbacks[i] = ElementCall
         /\ Windows!Closing(i) <=> FadesOut(i)
<1>1. callbacks[i] \in {NoCall, ElementCall, ShownCall, ModalCall, HiddenCall, HiddenElement}
  BY DEF InstancesPart, IsClosed, IsOpening, IsOpen, IsClosing
<1>2. /\ Windows!Awaits(i, "element") <=> callbacks[i] = ElementCall
      /\ Windows!Awaits(i, "shown") <=> callbacks[i] = ShownCall
      /\ Windows!Awaits(i, "modal") <=> callbacks[i] = ModalCall
      /\ Windows!Awaits(i, "hidden") <=> callbacks[i] \in {HiddenCall, HiddenElement}
  BY <1>1, Calls, CallHeads DEF Windows!Awaits
<1> QED BY <1>2 DEF Windows!Opening, Windows!Closing, FadesOut

LEMMA WindowsInit == Windows!Init => WindowsIInv
<1> SUFFICES ASSUME Windows!Init PROVE WindowsIInv
  OBVIOUS
<1>1. /\ shown = {} /\ changing = {} /\ appended = {} /\ backdrops = {} /\ locked = FALSE
      /\ overflow = FALSE /\ saved = FALSE /\ due = FALSE
      /\ callbacks = [i \in Windows!Instances |-> <<>>]
  BY DEF Windows!Init
<1>2. WindowsValues
  BY WindowsNat DEF Windows!Init, WindowsValues
<1>3. InstancesPart
  BY <1>1 DEF InstancesPart, IsClosed, NoCall
<1>4. WindowsFlags /\ BodyPart /\ BackdropsPart /\ SeenPart
  BY <1>1 DEF WindowsFlags, BodyPart, BackdropsPart, SeenPart
<1> QED BY <1>2, <1>3, <1>4 DEF WindowsIInv

LEMMA WindowsSame ==
  ASSUME WindowsIInv, UNCHANGED Windows!windowVars PROVE WindowsIInv'
BY DEF WindowsIInv, WindowsValues, WindowsFlags, InstancesPart, BodyPart, BackdropsPart, SeenPart,
       Seen, Holds, HoldsTwice, FadesOut, IsClosed, IsOpening, IsOpen, IsClosing,
       Windows!windowVars, Windows!asks, Windows!body

\* Only one instance moves.
Alone(i) ==
  /\ DOMAIN callbacks' = Windows!Instances
  /\ \A j \in Windows!Instances \ {i} :
       /\ callbacks'[j] = callbacks[j]
       /\ j \in shown' <=> j \in shown
       /\ j \in changing' <=> j \in changing

LEMMA WindowsEnds ==
  ASSUME InstancesPart, NEW i \in Windows!Instances, NEW what, NEW next,
         Windows!Ends(i, what, next)
  PROVE  /\ Windows!Awaits(i, what)
         /\ callbacks'[i] = Tail(callbacks[i]) \o next
         /\ DOMAIN callbacks' = Windows!Instances
         /\ \A j \in Windows!Instances \ {i} : callbacks'[j] = callbacks[j]
BY DEF InstancesPart, Windows!Ends

LEMMA WindowsOthers ==
  ASSUME InstancesPart, NEW i \in Windows!Instances, Alone(i),
         (IsClosed(i) \/ IsOpening(i) \/ IsOpen(i) \/ IsClosing(i))'
  PROVE  \A j \in Windows!Instances : (IsClosed(j) \/ IsOpening(j) \/ IsOpen(j) \/ IsClosing(j))'
<1> SUFFICES ASSUME NEW j \in Windows!Instances, j # i
             PROVE  (IsClosed(j) \/ IsOpening(j) \/ IsOpen(j) \/ IsClosing(j))'
  OBVIOUS
<1>1. callbacks'[j] = callbacks[j] /\ (j \in shown' <=> j \in shown)
      /\ (j \in changing' <=> j \in changing)
  BY DEF Alone
<1>2. IsClosed(j) \/ IsOpening(j) \/ IsOpen(j) \/ IsClosing(j)
  BY DEF InstancesPart
<1> QED BY <1>1, <1>2 DEF IsClosed, IsOpening, IsOpen, IsClosing

LEMMA WindowsShowElement ==
  ASSUME WindowsIInv, NEW i \in Windows!Instances, Windows!ShowElement(i) PROVE WindowsIInv'
<1>1. /\ UNCHANGED <<page, newest, awaited, asked, opens, shown, changing, appended, backdrops,
                     locked, overflow, saved, due, crossed>>
      /\ up' = up \cup {Windows!Of(i)} /\ displayed' = displayed \cup {Windows!Of(i)}
      /\ ripe' = ripe \ {i}
  BY DEF Windows!ShowElement, Windows!Later, Windows!asks, Windows!body
<1>2. /\ callbacks[i] = ElementCall /\ callbacks'[i] = ShownCall
      /\ DOMAIN callbacks' = Windows!Instances
      /\ \A j \in Windows!Instances \ {i} : callbacks'[j] = callbacks[j]
  <2>1. InstancesPart /\ Windows!Ends(i, "element", <<"shown">>)
    BY DEF WindowsIInv, Windows!ShowElement
  <2>2. Windows!Awaits(i, "element") /\ callbacks'[i] = Tail(callbacks[i]) \o <<"shown">>
        /\ DOMAIN callbacks' = Windows!Instances
        /\ \A j \in Windows!Instances \ {i} : callbacks'[j] = callbacks[j]
    BY <2>1, WindowsEnds
  <2>3. callbacks[i] = ElementCall
    BY <2>1, <2>2, WindowsAwaits
  <2> QED BY <2>2, <2>3, CallMoves
<1>3. WindowsValues' /\ WindowsFlags'
  <2>1. Windows!Of(i) \in Windows!Windows
    BY DEF Windows!Instances, Windows!Of, Windows!Windows
  <2> QED BY <1>1, <2>1 DEF WindowsIInv, WindowsValues, WindowsFlags
<1>4. InstancesPart'
  <2>1. Alone(i)
    BY <1>1, <1>2 DEF Alone
  <2>2. IsOpening(i)
    BY <1>2, Calls DEF WindowsIInv, InstancesPart, IsClosed, IsOpening, IsOpen, IsClosing
  <2>3. IsOpening(i)'
    BY <1>1, <1>2, <2>2 DEF IsOpening
  <2>4. \A j \in Windows!Instances : (IsClosed(j) \/ IsOpening(j) \/ IsOpen(j) \/ IsClosing(j))'
    BY <2>1, <2>3, WindowsOthers DEF WindowsIInv
  <2>5. \A j \in appended' : j \in shown' \/ callbacks'[j] # NoCall
    BY <1>1, <1>2, Calls DEF WindowsIInv, InstancesPart
  <2> QED BY <1>1, <1>2, <2>4, <2>5 DEF WindowsIInv, InstancesPart
<1>5. \A j \in Windows!Instances : (FadesOut(j)' <=> FadesOut(j)) /\ (Holds(j)' <=> Holds(j))
                                   /\ (HoldsTwice(j)' <=> HoldsTwice(j))
  <2>1. \A j \in Windows!Instances : FadesOut(j)' <=> FadesOut(j)
    BY <1>2, Calls DEF FadesOut
  <2> QED BY <1>1, <2>1 DEF Holds, HoldsTwice
<1>6. BodyPart'
  BY <1>1, <1>5 DEF WindowsIInv, BodyPart
<1>7. BackdropsPart'
  BY <1>1 DEF BackdropsPart
<1>8. SeenPart'
  <2> SUFFICES ASSUME NEW j \in shown \ crossed PROVE Seen(j)'
    BY <1>1 DEF SeenPart
  <2>1. Seen(j) /\ j \in Windows!Instances
    BY DEF WindowsIInv, SeenPart, InstancesPart
  <2>2. CASE j = i
    BY <1>1, <1>2, <2>1, <2>2, Calls DEF Seen
  <2>3. CASE j # i
    BY <1>1, <1>2, <1>5, <2>1, <2>3 DEF Seen
  <2> QED BY <2>2, <2>3
<1> QED BY <1>3, <1>4, <1>6, <1>7, <1>8 DEF WindowsIInv

LEMMA WindowsShown ==
  ASSUME WindowsIInv, NEW i \in Windows!Instances, Windows!Shown(i) PROVE WindowsIInv'
<1>1. /\ UNCHANGED <<page, newest, awaited, asked, opens, shown, appended, backdrops,
                     locked, overflow, saved, due, crossed, up, displayed>>
      /\ changing' = changing \ {i} /\ ripe' = ripe \ {i}
  BY DEF Windows!Shown, Windows!Later, Windows!asks, Windows!body
<1>2. /\ callbacks[i] = ShownCall /\ callbacks'[i] = NoCall
      /\ DOMAIN callbacks' = Windows!Instances
      /\ \A j \in Windows!Instances \ {i} : callbacks'[j] = callbacks[j]
  <2>1. InstancesPart /\ Windows!Ends(i, "shown", <<>>)
    BY DEF WindowsIInv, Windows!Shown
  <2>2. Windows!Awaits(i, "shown") /\ callbacks'[i] = Tail(callbacks[i]) \o <<>>
        /\ DOMAIN callbacks' = Windows!Instances
        /\ \A j \in Windows!Instances \ {i} : callbacks'[j] = callbacks[j]
    BY <2>1, WindowsEnds
  <2>3. callbacks[i] = ShownCall
    BY <2>1, <2>2, WindowsAwaits
  <2> QED BY <2>2, <2>3, CallMoves
<1>3. WindowsValues' /\ WindowsFlags'
  BY <1>1 DEF WindowsIInv, WindowsValues, WindowsFlags
<1>4. InstancesPart'
  <2>1. Alone(i)
    BY <1>1, <1>2 DEF Alone
  <2>2. IsOpening(i)
    BY <1>2, Calls DEF WindowsIInv, InstancesPart, IsClosed, IsOpening, IsOpen, IsClosing
  <2>3. IsOpen(i)'
    BY <1>1, <1>2, <2>2 DEF IsOpening, IsOpen
  <2>4. \A j \in Windows!Instances : (IsClosed(j) \/ IsOpening(j) \/ IsOpen(j) \/ IsClosing(j))'
    BY <2>1, <2>3, WindowsOthers DEF WindowsIInv
  <2>5. \A j \in appended' : j \in shown' \/ callbacks'[j] # NoCall
    BY <1>1, <1>2, <2>2 DEF WindowsIInv, InstancesPart, IsOpening
  <2> QED BY <1>1, <1>2, <2>4, <2>5 DEF WindowsIInv, InstancesPart
<1>5. \A j \in Windows!Instances : (FadesOut(j)' <=> FadesOut(j)) /\ (Holds(j)' <=> Holds(j))
                                   /\ (HoldsTwice(j)' <=> HoldsTwice(j))
  <2>1. \A j \in Windows!Instances : FadesOut(j)' <=> FadesOut(j)
    BY <1>2, Calls DEF FadesOut
  <2> QED BY <1>1, <2>1 DEF Holds, HoldsTwice
<1>6. BodyPart'
  BY <1>1, <1>5 DEF WindowsIInv, BodyPart
<1>7. BackdropsPart'
  <2>1. \A j \in Windows!Instances : callbacks[j] = ElementCall => callbacks'[j] = ElementCall
    BY <1>2, Calls
  <2> QED BY <1>1, <1>5, <2>1 DEF WindowsIInv, BackdropsPart
<1>8. SeenPart'
  <2> SUFFICES ASSUME NEW j \in shown \ crossed PROVE Seen(j)'
    BY <1>1 DEF SeenPart
  <2>1. Seen(j) /\ j \in Windows!Instances
    BY DEF WindowsIInv, SeenPart, InstancesPart
  <2>2. CASE j = i
    BY <1>1, <1>2, <2>1, <2>2, Calls DEF Seen
  <2>3. CASE j # i
    BY <1>1, <1>2, <1>5, <2>1, <2>3 DEF Seen
  <2> QED BY <2>2, <2>3
<1> QED BY <1>3, <1>4, <1>6, <1>7, <1>8 DEF WindowsIInv

LEMMA WindowsHideModal ==
  ASSUME WindowsIInv, NEW i \in Windows!Instances, Windows!HideModal(i) PROVE WindowsIInv'
<1>1. /\ UNCHANGED <<page, newest, awaited, asked, opens, shown, appended, backdrops,
                     locked, overflow, saved, due, crossed, up>>
      /\ changing' = changing \ {i} /\ ripe' = ripe \ {i}
      /\ displayed' = displayed \ {Windows!Of(i)}
  BY DEF Windows!HideModal, Windows!Later, Windows!asks, Windows!body
<1>2. /\ callbacks[i] = ModalCall /\ callbacks'[i] = HiddenCall
      /\ DOMAIN callbacks' = Windows!Instances
      /\ \A j \in Windows!Instances \ {i} : callbacks'[j] = callbacks[j]
  <2>1. InstancesPart /\ Windows!Ends(i, "modal", <<"hidden">>)
    BY DEF WindowsIInv, Windows!HideModal
  <2>2. Windows!Awaits(i, "modal") /\ callbacks'[i] = Tail(callbacks[i]) \o <<"hidden">>
        /\ DOMAIN callbacks' = Windows!Instances
        /\ \A j \in Windows!Instances \ {i} : callbacks'[j] = callbacks[j]
    BY <2>1, WindowsEnds
  <2>3. callbacks[i] = ModalCall
    BY <2>1, <2>2, WindowsAwaits
  <2> QED BY <2>2, <2>3, CallMoves
<1>3. WindowsValues' /\ WindowsFlags'
  BY <1>1 DEF WindowsIInv, WindowsValues, WindowsFlags
<1>4. IsClosing(i)
  BY <1>2, Calls DEF WindowsIInv, InstancesPart, IsClosed, IsOpening, IsOpen, IsClosing
<1>5. InstancesPart'
  <2>1. Alone(i)
    BY <1>1, <1>2 DEF Alone
  <2>2. IsClosed(i)'
    BY <1>1, <1>2, <1>4 DEF IsClosing, IsClosed
  <2>3. \A j \in Windows!Instances : (IsClosed(j) \/ IsOpening(j) \/ IsOpen(j) \/ IsClosing(j))'
    BY <2>1, <2>2, WindowsOthers DEF WindowsIInv
  <2>4. \A j \in appended' : j \in shown' \/ callbacks'[j] # NoCall
    BY <1>1, <1>2, Calls DEF WindowsIInv, InstancesPart
  <2> QED BY <1>1, <1>2, <2>3, <2>4 DEF WindowsIInv, InstancesPart
<1>6. \A j \in Windows!Instances : (FadesOut(j)' <=> FadesOut(j)) /\ (Holds(j)' <=> Holds(j))
                                   /\ (HoldsTwice(j)' <=> HoldsTwice(j))
  <2>1. \A j \in Windows!Instances : FadesOut(j)' <=> FadesOut(j)
    BY <1>2 DEF FadesOut
  <2> QED BY <1>1, <2>1 DEF Holds, HoldsTwice
<1>7. BodyPart'
  BY <1>1, <1>6 DEF WindowsIInv, BodyPart
<1>8. BackdropsPart'
  <2>1. \A j \in Windows!Instances : callbacks[j] = ElementCall => callbacks'[j] = ElementCall
    BY <1>2, Calls
  <2> QED BY <1>1, <1>6, <2>1 DEF WindowsIInv, BackdropsPart
<1>9. SeenPart'
  <2> SUFFICES ASSUME NEW j \in shown \ crossed PROVE Seen(j)'
    BY <1>1 DEF SeenPart
  <2>1. Seen(j) /\ j \in Windows!Instances /\ j # i /\ i \in changing
    BY <1>4 DEF WindowsIInv, SeenPart, InstancesPart, IsClosing
  <2>2. Windows!Of(j) # Windows!Of(i)
    BY <2>1 DEF Seen
  <2>3. callbacks'[j] = callbacks[j]
    BY <1>2, <2>1
  <2> QED BY <1>1, <1>6, <2>1, <2>2, <2>3 DEF Seen
<1> QED BY <1>3, <1>5, <1>7, <1>8, <1>9 DEF WindowsIInv

LEMMA WindowsHidden ==
  ASSUME WindowsIInv, NEW i \in Windows!Instances, Windows!Hidden(i) PROVE WindowsIInv'
<1>1. /\ UNCHANGED <<page, newest, awaited, asked, opens, shown, changing, crossed, up, displayed>>
      /\ appended' = appended \ {i} /\ backdrops' = IF i \in appended THEN backdrops \ {i} ELSE backdrops
      /\ locked' = FALSE /\ overflow' = saved /\ saved' = FALSE /\ due' = TRUE
      /\ ripe' \subseteq ripe \cup Windows!Instances
  BY DEF Windows!Hidden, Windows!NewFrame, Windows!asks
<1>2. /\ callbacks[i] \in {HiddenCall, HiddenElement}
      /\ callbacks'[i] = IF callbacks[i] = HiddenCall THEN NoCall ELSE ElementCall
      /\ DOMAIN callbacks' = Windows!Instances
      /\ \A j \in Windows!Instances \ {i} : callbacks'[j] = callbacks[j]
  <2>1. InstancesPart /\ Windows!Ends(i, "hidden", <<>>)
    BY DEF WindowsIInv, Windows!Hidden
  <2>2. Windows!Awaits(i, "hidden") /\ callbacks'[i] = Tail(callbacks[i]) \o <<>>
        /\ DOMAIN callbacks' = Windows!Instances
        /\ \A j \in Windows!Instances \ {i} : callbacks'[j] = callbacks[j]
    BY <2>1, WindowsEnds
  <2>3. callbacks[i] \in {HiddenCall, HiddenElement}
    BY <2>1, <2>2, WindowsAwaits
  <2> QED BY <2>2, <2>3, CallMoves, Calls
<1>3. WindowsValues'
  BY <1>1 DEF WindowsIInv, WindowsValues
<1>4. WindowsFlags'
  BY <1>1 DEF WindowsIInv, WindowsFlags
<1>5. InstancesPart'
  <2>1. Alone(i)
    BY <1>1, <1>2 DEF Alone
  <2>2. (IsClosed(i) /\ callbacks[i] = HiddenCall) \/ (IsOpening(i) /\ callbacks[i] = HiddenElement)
    BY <1>2, Calls DEF WindowsIInv, InstancesPart, IsClosed, IsOpening, IsOpen, IsClosing
  <2>3. IsClosed(i)' \/ IsOpening(i)'
    BY <1>1, <1>2, <2>2, Calls DEF IsClosed, IsOpening
  <2>4. \A j \in Windows!Instances : (IsClosed(j) \/ IsOpening(j) \/ IsOpen(j) \/ IsClosing(j))'
    BY <2>1, <2>3, WindowsOthers DEF WindowsIInv
  <2>5. \A j \in appended' : j \in shown' \/ callbacks'[j] # NoCall
    BY <1>1, <1>2 DEF WindowsIInv, InstancesPart
  <2> QED BY <1>1, <1>2, <2>4, <2>5 DEF WindowsIInv, InstancesPart
<1>6. FadesOut(i) /\ ~FadesOut(i)' /\ \A j \in Windows!Instances \ {i} : FadesOut(j)' <=> FadesOut(j)
  BY <1>2, Calls DEF FadesOut
<1>7. BodyPart'
  <2>1. \A j \in Windows!Instances \ {i} : Holds(j) => Holds(j)'
    BY <1>1, <1>6 DEF Holds
  <2>2. HoldsTwice(i) => Holds(i)'
    BY <1>1 DEF HoldsTwice, Holds
  <2>3. \A j \in Windows!Instances : HoldsTwice(j) => Holds(j)
    BY DEF HoldsTwice, Holds
  <2>4. saved => \E j \in Windows!Instances : Holds(j)'
    BY <2>1, <2>2, <2>3 DEF WindowsIInv, BodyPart
  <2> QED BY <1>1, <2>4 DEF BodyPart
<1>8. BackdropsPart'
  BY <1>1 DEF BackdropsPart
<1>9. SeenPart'
  <2> SUFFICES ASSUME NEW j \in shown \ crossed PROVE Seen(j)'
    BY <1>1 DEF SeenPart
  <2>1. Seen(j) /\ j \in Windows!Instances
    BY DEF WindowsIInv, SeenPart, InstancesPart
  <2>2. j # i
    BY <1>2, <2>1, Calls DEF Seen
  <2>3. callbacks[j] # ElementCall /\ callbacks'[j] = callbacks[j]
    BY <1>2, <1>6, <2>1, <2>2 DEF Seen
  <2>4. j \in appended' /\ j \in backdrops'
    BY <1>1, <2>1, <2>2 DEF Seen
  <2> QED BY <1>1, <2>1, <2>3, <2>4 DEF Seen
<1> QED BY <1>3, <1>4, <1>5, <1>7, <1>8, <1>9 DEF WindowsIInv

LEMMA WindowsFrame == ASSUME WindowsIInv, Windows!Frame PROVE WindowsIInv'
<1>1. /\ UNCHANGED <<page, newest, awaited, asked, opens, shown, changing, callbacks, appended, up,
                     displayed, ripe, crossed>>
      /\ due' = FALSE /\ saved' = saved
  BY DEF Windows!Frame, Windows!ForceCleanupBackdrop, Windows!asks, Windows!body
<1>2. \/ up = {} /\ backdrops' = {} /\ locked' = FALSE /\ overflow' = FALSE
      \/ ~(up = {} /\ backdrops # {}) /\ UNCHANGED <<backdrops, locked, overflow>>
  BY DEF Windows!Frame, Windows!ForceCleanupBackdrop, Windows!body
<1>3. WindowsValues' /\ WindowsFlags'
  BY <1>1, <1>2 DEF WindowsIInv, WindowsValues, WindowsFlags
<1>4. InstancesPart'
  BY <1>1, <1>2
  DEF WindowsIInv, InstancesPart, IsClosed, IsOpening, IsOpen, IsClosing
<1>5. BodyPart'
  BY <1>1, <1>2 DEF WindowsIInv, BodyPart, Holds, HoldsTwice, FadesOut
<1>6. BackdropsPart'
  BY <1>1, <1>2 DEF BackdropsPart
<1>7. SeenPart'
  <2> SUFFICES ASSUME NEW j \in shown \ crossed PROVE Seen(j)'
    BY <1>1 DEF SeenPart
  <2>1. Seen(j) /\ due
    BY DEF WindowsIInv, SeenPart, Windows!Frame
  <2>2. Windows!Of(j) \in up /\ callbacks[j] # ElementCall
    BY <2>1 DEF Seen
  <2>3. backdrops' = backdrops
    BY <1>2, <2>2
  <2> QED BY <1>1, <2>1, <2>2, <2>3 DEF Seen
<1> QED BY <1>3, <1>4, <1>5, <1>6, <1>7 DEF WindowsIInv

LEMMA WindowsHide ==
  ASSUME WindowsIInv, NEW w \in Windows!Windows, NEW instances,
         \A i \in instances : Windows!Of(i) = w, Windows!Hide(w, instances)
  PROVE  WindowsIInv'
<1> DEFINE hiding == (instances \cap shown) \ changing
<1>1. /\ UNCHANGED <<page, newest, awaited, asked, opens, appended, displayed, backdrops,
                     locked, overflow, saved, due, ripe>>
      /\ hiding # {} /\ shown' = shown \ hiding /\ changing' = changing \cup hiding
      /\ up' = up \ {w}
      /\ crossed' = crossed \cup {i \in Windows!Instances : Windows!Opening(i)}
      /\ callbacks' = [i \in Windows!Instances |->
                         IF i \in hiding THEN Append(callbacks[i], "modal") ELSE callbacks[i]]
  BY DEF Windows!Hide, Windows!asks, Windows!body
<1>2. hiding \subseteq Windows!Instances
  BY DEF WindowsIInv, InstancesPart
<1>3. \A i \in hiding : IsOpen(i) /\ Windows!Of(i) = w
  BY DEF WindowsIInv, InstancesPart, IsClosed, IsOpening, IsOpen, IsClosing
<1> HIDE DEF hiding
<1>4. /\ \A i \in hiding : callbacks[i] = NoCall /\ callbacks'[i] = ModalCall
      /\ \A i \in Windows!Instances \ hiding : callbacks'[i] = callbacks[i]
      /\ DOMAIN callbacks' = Windows!Instances
  <2>1. \A i \in hiding : callbacks[i] = NoCall
    BY <1>3 DEF IsOpen
  <2>2. \A i \in hiding : callbacks'[i] = Append(callbacks[i], "modal")
    BY <1>1, <1>2
  <2> QED BY <1>1, <2>1, <2>2, CallMoves
<1>5. WindowsValues' /\ WindowsFlags'
  BY <1>1 DEF WindowsIInv, WindowsValues, WindowsFlags
<1>6. InstancesPart'
  <2>1. \A i \in hiding : IsClosing(i)'
    BY <1>1, <1>3, <1>4 DEF IsClosing, IsOpen
  <2>2. ASSUME NEW i \in Windows!Instances \ hiding
        PROVE  (IsClosed(i) \/ IsOpening(i) \/ IsOpen(i) \/ IsClosing(i))'
    <3>1. /\ callbacks'[i] = callbacks[i]
          /\ i \in shown' <=> i \in shown
          /\ i \in changing' <=> i \in changing
      BY <1>1, <1>4
    <3>2. IsClosed(i) \/ IsOpening(i) \/ IsOpen(i) \/ IsClosing(i)
      BY DEF WindowsIInv, InstancesPart
    <3> QED BY <3>1, <3>2 DEF IsClosed, IsOpening, IsOpen, IsClosing
  <2>3. \A i \in appended' : i \in shown' \/ callbacks'[i] # NoCall
    BY <1>1, <1>2, <1>4, Calls DEF WindowsIInv, InstancesPart
  <2>4. shown' \subseteq Windows!Instances /\ changing' \subseteq Windows!Instances
    BY <1>1, <1>2 DEF WindowsIInv, InstancesPart
  <2> QED BY <1>1, <1>4, <2>1, <2>2, <2>3, <2>4 DEF WindowsIInv, InstancesPart
<1>7. \A i \in Windows!Instances \ hiding : FadesOut(i)' <=> FadesOut(i)
  BY <1>4 DEF FadesOut
<1>8. \A i \in hiding : FadesOut(i)' /\ ~FadesOut(i) /\ i \in shown /\ i \notin shown'
  BY <1>1, <1>3, <1>4, Calls DEF FadesOut, IsOpen
<1>9. \A i \in Windows!Instances : (Holds(i)' <=> Holds(i)) /\ (HoldsTwice(i)' <=> HoldsTwice(i))
  BY <1>1, <1>7, <1>8 DEF Holds, HoldsTwice
<1>10. BodyPart'
  BY <1>1, <1>9 DEF WindowsIInv, BodyPart
<1>11. BackdropsPart'
  BY <1>1, <1>2, <1>8 DEF BackdropsPart
<1>12. SeenPart'
  <2> SUFFICES ASSUME NEW j \in shown', j \notin crossed' PROVE Seen(j)'
    BY DEF SeenPart
  <2>1. j \in shown /\ j \notin hiding /\ j \in Windows!Instances /\ j \notin crossed
        /\ ~Windows!Opening(j)
    BY <1>1 DEF WindowsIInv, InstancesPart
  <2>2. Seen(j) /\ callbacks[j] # ElementCall
    BY <2>1, WindowsAwaits DEF WindowsIInv, SeenPart
  <2>3. callbacks'[j] = callbacks[j]
    BY <1>4, <2>1
  <2>4. Windows!Of(j) # w
    BY <1>1, <1>3, <1>8, <2>1, <2>2 DEF Seen
  <2>5. shown' \cup changing' \subseteq shown \cup changing
    BY <1>1, <1>8
  <2> QED BY <1>1, <2>2, <2>3, <2>4, <2>5 DEF Seen
<1> QED BY <1>5, <1>6, <1>10, <1>11, <1>12 DEF WindowsIInv

\* What a show changes, whoever asks for it.
LEMMA WindowsShow ==
  ASSUME WindowsIInv, NEW i \in Windows!Instances, Windows!Show(i),
         UNCHANGED <<up, displayed, due>>, WindowsValues'
  PROVE  WindowsIInv'
<1>1. CASE i \in shown \cup changing
  <2>1. UNCHANGED <<shown, changing, callbacks, appended, backdrops, locked, overflow, saved, crossed>>
    BY <1>1 DEF Windows!Show, Windows!body
  <2> QED BY <2>1 DEF WindowsIInv, WindowsFlags, InstancesPart, BodyPart, BackdropsPart, SeenPart,
             Seen, Holds, HoldsTwice, FadesOut, IsClosed, IsOpening, IsOpen, IsClosing
<1>2. CASE i \notin shown \cup changing
  <2>1. /\ shown' = shown \cup {i} /\ changing' = changing \cup {i}
        /\ locked' = TRUE /\ overflow' = TRUE
        /\ appended' = appended \cup {i}
        /\ backdrops' = IF i \in appended THEN backdrops ELSE backdrops \cup {i}
        /\ callbacks' = [callbacks EXCEPT ![i] = Append(callbacks[i], "element")]
        /\ crossed' = IF Windows!MeetsClosing \/ Windows!Alike(i) # {}
                      THEN crossed \cup {i} \cup Windows!Alike(i) ELSE crossed \ {i}
    BY <1>2 DEF Windows!Show
  <2>2. saved' = (saved \/ overflow)
    BY <1>2 DEF Windows!Show
  <2>3. IsClosed(i)
    BY <1>2 DEF WindowsIInv, InstancesPart, IsClosed, IsOpening, IsOpen, IsClosing
  <2>4. /\ callbacks'[i] = IF callbacks[i] = NoCall THEN ElementCall ELSE HiddenElement
        /\ DOMAIN callbacks' = Windows!Instances
        /\ \A j \in Windows!Instances \ {i} : callbacks'[j] = callbacks[j]
    <3>1. DOMAIN callbacks = Windows!Instances
      BY DEF WindowsIInv, InstancesPart
    <3>2. callbacks'[i] = Append(callbacks[i], "element")
      BY <2>1, <3>1
    <3>3. callbacks[i] = NoCall \/ callbacks[i] = HiddenCall
      BY <2>3 DEF IsClosed
    <3> QED BY <2>1, <3>1, <3>2, <3>3, CallMoves, Calls
  <2>5. WindowsFlags'
    <3>1. saved' \in BOOLEAN
      BY <2>2
    <3> QED BY <2>1, <3>1 DEF WindowsIInv, WindowsFlags
  <2>6. InstancesPart'
    <3>1. Alone(i)
      BY <2>1, <2>4 DEF Alone
    <3>2. IsOpening(i)'
      BY <2>1, <2>4 DEF IsOpening
    <3>3. \A j \in Windows!Instances : (IsClosed(j) \/ IsOpening(j) \/ IsOpen(j) \/ IsClosing(j))'
      BY <3>1, <3>2, WindowsOthers DEF WindowsIInv
    <3>4. \A j \in appended' : j \in shown' \/ callbacks'[j] # NoCall
      BY <2>1, <2>4 DEF WindowsIInv, InstancesPart
    <3> QED BY <2>1, <2>4, <3>3, <3>4 DEF WindowsIInv, InstancesPart
  <2>7. \A j \in Windows!Instances : FadesOut(j)' <=> FadesOut(j)
    <3>1. FadesOut(i)' <=> FadesOut(i)
      BY <2>3, <2>4, Calls DEF FadesOut, IsClosed
    <3> QED BY <2>4, <3>1 DEF FadesOut
  <2>8. BodyPart'
    <3>1. Holds(i)' /\ (Holds(i) => HoldsTwice(i)')
      BY <2>1, <2>3, <2>7 DEF Holds, HoldsTwice, IsClosed
    <3>2. \A j \in Windows!Instances : (Holds(j) => Holds(j)') /\ (HoldsTwice(j) => HoldsTwice(j)')
      BY <2>1, <2>7 DEF Holds, HoldsTwice
    <3>3. overflow => \E j \in Windows!Instances : Holds(j)
      BY DEF WindowsIInv, BodyPart
    <3>4. overflow => (\E j \in Windows!Instances : HoldsTwice(j)')
                      \/ \E j, k \in Windows!Instances : j # k /\ Holds(j)' /\ Holds(k)'
      BY <3>1, <3>2, <3>3
    <3>5. saved => (\E j \in Windows!Instances : HoldsTwice(j)')
                   \/ \E j, k \in Windows!Instances : j # k /\ Holds(j)' /\ Holds(k)'
      BY <3>2 DEF WindowsIInv, BodyPart
    <3> QED BY <2>2, <3>1, <3>4, <3>5 DEF BodyPart
  <2>9. BackdropsPart'
    <3>1. FadesOut(i)' \/ callbacks'[i] = ElementCall
      BY <2>4 DEF FadesOut
    <3> QED BY <3>1 DEF BackdropsPart
  <2>10. SeenPart'
    <3> SUFFICES ASSUME NEW j \in shown', j \notin crossed' PROVE Seen(j)'
      BY DEF SeenPart
    <3>1. CASE j = i
      <4>1. ~Windows!MeetsClosing /\ Windows!Alike(i) = {}
        BY <2>1, <3>1
      <4>2. ~due /\ \A k \in Windows!Instances : ~FadesOut(k)
        BY <4>1, WindowsAwaits DEF Windows!MeetsClosing, WindowsIInv
      <4>3. callbacks[i] = NoCall
        BY <2>3, <4>2, Calls DEF IsClosed, FadesOut
      <4>4. i \notin appended
        BY <2>3, <4>3 DEF WindowsIInv, InstancesPart, IsClosed
      <4>5. i \in appended' /\ i \in backdrops' /\ callbacks'[i] = ElementCall
        BY <2>1, <2>4, <4>3, <4>4
      <4>6. \A k \in shown' \cup changing' : k # i => Windows!Of(k) # Windows!Of(i)
        BY <2>1, <4>1 DEF Windows!Alike
      <4>7. \A k \in Windows!Instances : ~FadesOut(k)'
        BY <2>7, <4>2
      <4> QED BY <3>1, <4>2, <4>5, <4>6, <4>7 DEF Seen
    <3>2. CASE j # i
      <4>1. j \in shown /\ j \notin crossed
        BY <2>1, <3>2
      <4>2. Seen(j) /\ j \in Windows!Instances
        BY <4>1 DEF WindowsIInv, SeenPart, InstancesPart
      <4>3. Windows!Of(i) # Windows!Of(j)
        BY <2>1, <3>2, <4>1 DEF Windows!Alike
      <4>4. \A k \in shown' \cup changing' : k # j => Windows!Of(k) # Windows!Of(j)
        BY <2>1, <4>2, <4>3 DEF Seen
      <4>5. callbacks'[j] = callbacks[j]
        BY <2>4, <3>2, <4>2
      <4>6. j \in appended' /\ j \in backdrops'
        BY <2>1, <4>2 DEF Seen
      <4> QED BY <2>7, <4>2, <4>4, <4>5, <4>6 DEF Seen
    <3> QED BY <3>1, <3>2
  <2> QED BY <2>5, <2>6, <2>8, <2>9, <2>10 DEF WindowsIInv
<1> QED BY <1>1, <1>2

LEMMA WindowsClick ==
  ASSUME WindowsIInv, NEW w \in Windows!Windows, Windows!ClickToggle(w) PROVE WindowsIInv'
<1>1. /\ UNCHANGED <<page, newest, awaited, shown, changing, callbacks, appended, up, displayed, due>>
      /\ w \in Reused /\ asked' = asked \cup {w} /\ displayed = {} /\ saved' = saved
      /\ crossed' = crossed \cup {i \in Windows!Instances : Windows!Opening(i)}
      /\ ripe' \subseteq ripe \cup Windows!Instances
  BY DEF Windows!ClickToggle, Windows!ForceCleanupBackdrop, Windows!body
<1>2. opens < MaxOpens /\ opens' = opens + 1
  BY DEF Windows!ClickToggle, Windows!Opens
<1>3. \/ up = {} /\ backdrops' = {} /\ locked' = FALSE /\ overflow' = FALSE
      \/ UNCHANGED <<backdrops, locked, overflow>>
  BY DEF Windows!ClickToggle, Windows!ForceCleanupBackdrop, Windows!body
<1>4. WindowsValues'
  <2>1. opens' \in 0..MaxOpens
    BY <1>2, WindowsNat DEF WindowsIInv, WindowsValues
  <2>2. \A v \in Renewed : newest'[v] <= opens'
    <3> SUFFICES ASSUME NEW v \in Renewed PROVE newest'[v] <= opens'
      OBVIOUS
    <3>1. newest[v] \in Nat /\ newest[v] <= opens /\ opens \in Nat
      BY WindowsNat DEF WindowsIInv, WindowsValues
    <3>2. newest[v] <= opens'
      BY <3>1, <1>2
    <3> QED BY <1>1, <3>2
  <2> QED BY <1>1, <2>1, <2>2 DEF WindowsIInv, WindowsValues
<1>5. WindowsFlags'
  BY <1>1, <1>3 DEF WindowsIInv, WindowsFlags
<1>6. InstancesPart'
  BY <1>1, <1>3 DEF WindowsIInv, InstancesPart, IsClosed, IsOpening, IsOpen, IsClosing
<1>7. BodyPart'
  BY <1>1, <1>3 DEF WindowsIInv, BodyPart, Holds, HoldsTwice, FadesOut
<1>8. BackdropsPart'
  BY <1>1, <1>3 DEF WindowsIInv, BackdropsPart, FadesOut
<1>9. SeenPart'
  <2> SUFFICES ASSUME NEW j \in shown', j \notin crossed' PROVE Seen(j)'
    BY DEF SeenPart
  <2>1. j \in shown /\ j \notin crossed /\ j \in Windows!Instances /\ ~Windows!Opening(j)
    BY <1>1 DEF WindowsIInv, InstancesPart
  <2>2. Seen(j) /\ callbacks[j] # ElementCall
    BY <2>1, WindowsAwaits DEF WindowsIInv, SeenPart
  <2> QED BY <1>1, <2>2 DEF Seen
<1> QED BY <1>4, <1>5, <1>6, <1>7, <1>8, <1>9 DEF WindowsIInv

LEMMA WindowsAsk ==
  ASSUME WindowsIInv, NEW w \in Windows!Windows, Windows!AskDetail(w) PROVE WindowsIInv'
<1>1. /\ UNCHANGED <<page, asked, shown, changing, callbacks, appended, up, displayed, backdrops,
                     locked, overflow, saved, due, ripe, crossed>>
      /\ w \in Renewed /\ newest' = [newest EXCEPT ![w] = newest[w] + 1]
      /\ awaited' = awaited \cup {<<w, newest'[w]>>}
  BY DEF Windows!AskDetail, Windows!body
<1>2. opens < MaxOpens /\ opens' = opens + 1
  BY DEF Windows!AskDetail, Windows!Opens
<1>3. newest[w] \in Nat /\ newest[w] <= opens /\ opens \in 0..MaxOpens
  BY <1>1 DEF WindowsIInv, WindowsValues
<1>4. newest \in [Renewed -> Nat] /\ \A v \in Renewed : newest[v] <= opens
  BY DEF WindowsIInv, WindowsValues
<1>5. newest[w] + 1 \in 1..MaxOpens /\ opens' \in 0..MaxOpens /\ newest[w] + 1 \in Nat
      /\ newest[w] + 1 <= opens'
  BY <1>2, <1>3, WindowsNat
<1>6. newest' \in [Renewed -> Nat] /\ newest'[w] = newest[w] + 1
  BY <1>1, <1>4, <1>5
<1>7. \A v \in Renewed : newest'[v] <= opens'
  <2> SUFFICES ASSUME NEW v \in Renewed PROVE newest'[v] <= opens'
    OBVIOUS
  <2>1. CASE v = w
    BY <2>1, <1>5, <1>6
  <2>2. CASE v # w
    <3>1. newest'[v] = newest[v] /\ newest[v] \in Nat /\ newest[v] <= opens
      BY <1>1, <1>4, <2>2
    <3> QED BY <3>1, <1>2, <1>3
  <2> QED BY <2>1, <2>2
<1>8. <<w, newest'[w]>> \in Windows!Instances
  BY <1>1, <1>5, <1>6 DEF Windows!Instances
<1>9. WindowsValues'
  BY <1>1, <1>5, <1>6, <1>7, <1>8 DEF WindowsIInv, WindowsValues
<1> QED BY <1>1, <1>9 DEF WindowsIInv, WindowsFlags, InstancesPart, BodyPart, BackdropsPart,
        SeenPart, Seen, Holds, HoldsTwice, FadesOut, IsClosed, IsOpening, IsOpen, IsClosing

\* A show by the page, by the frame after a click, and by an answer.
LEMMA WindowsShows ==
  ASSUME WindowsIInv,
         \/ \E w \in Windows!Windows : Windows!ShowWindow(w) \/ Windows!ShowAsked(w)
         \/ \E i \in Windows!Instances : Windows!ShowDetail(i)
  PROVE  WindowsIInv'
<1>1. \A w \in Reused : <<w, 0>> \in Windows!Instances
  BY DEF Windows!Instances
<1>2. ASSUME NEW i \in Windows!Instances, Windows!Show(i) PROVE crossed' \subseteq Windows!Instances
  BY <1>2 DEF WindowsIInv, WindowsValues, InstancesPart, Windows!Show, Windows!Alike
<1>3. ASSUME NEW w \in Windows!Windows, Windows!ShowWindow(w) PROVE WindowsIInv'
  <2>1. /\ w \in Reused /\ Windows!Show(<<w, 0>>)
        /\ UNCHANGED <<page, newest, awaited, asked, up, displayed, due, ripe>>
        /\ opens < MaxOpens /\ opens' = opens + 1
    BY <1>3 DEF Windows!ShowWindow, Windows!Opens
  <2>2. opens' \in 0..MaxOpens
    BY <2>1, WindowsNat DEF WindowsIInv, WindowsValues
  <2>3. \A v \in Renewed : newest'[v] <= opens'
    <3> SUFFICES ASSUME NEW v \in Renewed PROVE newest'[v] <= opens'
      OBVIOUS
    <3>1. newest[v] \in Nat /\ newest[v] <= opens /\ opens \in Nat
      BY WindowsNat DEF WindowsIInv, WindowsValues
    <3>2. newest[v] <= opens'
      BY <3>1, <2>1
    <3> QED BY <2>1, <3>2
  <2>4. crossed' \subseteq Windows!Instances
    BY <1>1, <1>2, <2>1
  <2>5. WindowsValues'
    BY <2>1, <2>2, <2>3, <2>4 DEF WindowsIInv, WindowsValues
  <2> QED BY <1>1, <2>1, <2>5, WindowsShow
<1>4. ASSUME NEW w \in Windows!Windows, Windows!ShowAsked(w) PROVE WindowsIInv'
  <2>1. /\ w \in asked /\ asked' = asked \ {w} /\ Windows!Show(<<w, 0>>)
        /\ UNCHANGED <<page, newest, awaited, opens, up, displayed, due, ripe>>
    BY <1>4 DEF Windows!ShowAsked
  <2>2. <<w, 0>> \in Windows!Instances
    BY <1>1, <2>1 DEF WindowsIInv, WindowsValues
  <2>3. crossed' \subseteq Windows!Instances
    BY <1>2, <2>1, <2>2
  <2>4. WindowsValues'
    BY <2>1, <2>3 DEF WindowsIInv, WindowsValues
  <2> QED BY <2>1, <2>2, <2>4, WindowsShow
<1>5. ASSUME NEW i \in Windows!Instances, Windows!ShowDetail(i) PROVE WindowsIInv'
  <2>1. /\ awaited' = awaited \ {i} /\ Windows!Show(i)
        /\ UNCHANGED <<page, newest, asked, opens, up, displayed, due, ripe>>
    BY <1>5 DEF Windows!ShowDetail
  <2>2. crossed' \subseteq Windows!Instances
    BY <1>2, <2>1
  <2>3. WindowsValues'
    BY <2>1, <2>2 DEF WindowsIInv, WindowsValues
  <2> QED BY <2>1, <2>3, WindowsShow
<1> QED BY <1>3, <1>4, <1>5

LEMMA WindowsStep == ASSUME WindowsIInv, Windows!Next PROVE WindowsIInv'
<1>1. \A w \in Reused : Windows!Of(<<w, 0>>) = w
  BY DEF Windows!Of
<1>2. \A w \in Renewed : Windows!Of(<<w, newest[w]>>) = w
  BY DEF Windows!Of
<1>3. ASSUME NEW w \in Windows!Windows, Windows!Dismiss(w) PROVE WindowsIInv'
  <2>1. Windows!Of(Windows!Current(w)) = w
    BY <1>1, <1>2 DEF Windows!Current, Windows!Windows
  <2>2. Windows!Hide(w, {Windows!Current(w)})
    BY <1>3 DEF Windows!Dismiss
  <2> QED BY <2>1, <2>2, WindowsHide
<1>4. ASSUME NEW w \in Windows!Windows, Windows!Escape(w) PROVE WindowsIInv'
  <2>1. Windows!Hide(w, {i \in Windows!Instances : Windows!Of(i) = w})
    BY <1>4 DEF Windows!Escape
  <2> QED BY <2>1, WindowsHide
<1>5. CASE Windows!Frame
  BY <1>5, WindowsFrame
<1>6. CASE \E w \in Windows!Windows : Windows!ClickToggle(w)
  BY <1>6, WindowsClick
<1>7. CASE \E w \in Windows!Windows : Windows!AskDetail(w)
  BY <1>7, WindowsAsk
<1>8. CASE \E w \in Windows!Windows : Windows!ShowWindow(w) \/ Windows!ShowAsked(w)
  BY <1>8, WindowsShows
<1>9. CASE \E i \in Windows!Instances : Windows!ShowDetail(i)
  BY <1>9, WindowsShows
<1>10. CASE \E i \in Windows!Instances : Windows!ShowElement(i)
  BY <1>10, WindowsShowElement
<1>11. CASE \E i \in Windows!Instances : Windows!Shown(i)
  BY <1>11, WindowsShown
<1>12. CASE \E i \in Windows!Instances : Windows!HideModal(i)
  BY <1>12, WindowsHideModal
<1>13. CASE \E i \in Windows!Instances : Windows!Hidden(i)
  BY <1>13, WindowsHidden
<1> QED BY <1>3, <1>4, <1>5, <1>6, <1>7, <1>8, <1>9, <1>10, <1>11, <1>12, <1>13 DEF Windows!Next

\* An instance waits for two ends at most.
LEMMA CallsAreFew ==
  ASSUME NEW s \in {NoCall, ElementCall, ShownCall, ModalCall, HiddenCall, HiddenElement}
  PROVE  /\ Len(s) <= 2
         /\ \A n \in 1..Len(s) : s[n] \in {"element", "shown", "modal", "hidden"}
<1>1. CASE s = NoCall
  BY <1>1 DEF NoCall
<1>2. CASE s = ElementCall
  BY <1>2 DEF ElementCall
<1>3. CASE s = ShownCall
  BY <1>3 DEF ShownCall
<1>4. CASE s = ModalCall
  BY <1>4 DEF ModalCall
<1>5. CASE s = HiddenCall
  BY <1>5 DEF HiddenCall
<1>6. CASE s = HiddenElement
  <2>1. Len(s) = 2 /\ s[1] = "hidden" /\ s[2] = "element"
    BY <1>6 DEF HiddenElement
  <2>2. \A n \in 1..2 : n = 1 \/ n = 2
    OBVIOUS
  <2> QED BY <2>1, <2>2
<1> QED BY <1>1, <1>2, <1>3, <1>4, <1>5, <1>6

LEMMA WindowsGives ==
  WindowsIInv => Windows!WindowsTypeOK /\ Windows!NothingLeft /\ Windows!OpenIsCovered
<1> SUFFICES ASSUME WindowsIInv
             PROVE  Windows!WindowsTypeOK /\ Windows!NothingLeft /\ Windows!OpenIsCovered
  OBVIOUS
<1>1. Windows!WindowsTypeOK
  <2>1. newest \in [Renewed -> 0..MaxOpens]
    <3>1. opens \in 0..MaxOpens /\ newest \in [Renewed -> Nat]
      BY DEF WindowsIInv, WindowsValues
    <3>2. ASSUME NEW w \in Renewed PROVE newest[w] \in 0..MaxOpens
      <4>1. newest[w] \in Nat /\ newest[w] <= opens
        BY <3>1 DEF WindowsIInv, WindowsValues
      <4> QED BY <3>1, <4>1, WindowsNat
    <3> QED BY <3>1, <3>2
  <2>2. UNION {awaited, shown, changing, appended, backdrops, ripe, crossed} \subseteq Windows!Instances
    BY DEF WindowsIInv, WindowsValues, InstancesPart
  <2>3. ASSUME NEW i \in Windows!Instances
        PROVE  /\ Len(callbacks[i]) <= 2
               /\ \A n \in 1..Len(callbacks[i]) :
                    callbacks[i][n] \in {"element", "shown", "modal", "hidden"}
    <3>1. callbacks[i] \in {NoCall, ElementCall, ShownCall, ModalCall, HiddenCall, HiddenElement}
      BY DEF WindowsIInv, InstancesPart, IsClosed, IsOpening, IsOpen, IsClosing
    <3> QED BY <3>1, CallsAreFew
  <2>4. {locked, overflow, saved, due} \subseteq BOOLEAN
    BY DEF WindowsIInv, WindowsFlags
  <2>5. /\ page \in {"setup", "lists"} /\ opens \in 0..MaxOpens /\ asked \subseteq Reused
        /\ up \cup displayed \subseteq Windows!Windows
    BY DEF WindowsIInv, WindowsValues
  <2> QED BY <2>1, <2>2, <2>3, <2>4, <2>5 DEF Windows!WindowsTypeOK
<1>2. Windows!NothingLeft
  <2> SUFFICES ASSUME Windows!Settled, up = {}
               PROVE  backdrops = {} /\ (shown = {} => ~locked /\ ~overflow)
    BY DEF Windows!NothingLeft
  <2>1. ~due /\ \A i \in Windows!Instances : callbacks[i] = NoCall
    BY DEF Windows!Settled, Windows!FrameAwaited, NoCall
  <2>2. \A i \in Windows!Instances : ~FadesOut(i) /\ callbacks[i] # ElementCall
    BY <2>1, Calls DEF FadesOut
  <2>3. backdrops = {}
    BY <2>1, <2>2 DEF WindowsIInv, BackdropsPart
  <2>4. shown = {} => \A i \in Windows!Instances : ~Holds(i)
    BY <2>2 DEF Holds
  <2> QED BY <2>3, <2>4 DEF WindowsIInv, BodyPart
<1>3. Windows!OpenIsCovered
  <2> SUFFICES ASSUME NEW i \in (shown \ changing) \ crossed
               PROVE  Windows!Of(i) \in up /\ Windows!Of(i) \in displayed /\ i \in backdrops
    <3>1. ASSUME NEW w \in Windows!Windows PROVE Windows!Of(Windows!Current(w)) = w
      BY DEF Windows!Of, Windows!Current
    <3> QED BY <3>1 DEF Windows!OpenIsCovered
  <2>1. Seen(i) /\ i \in Windows!Instances
    BY DEF WindowsIInv, SeenPart, InstancesPart
  <2>2. callbacks[i] = NoCall
    BY <2>1 DEF WindowsIInv, InstancesPart, IsClosed, IsOpening, IsOpen, IsClosing
  <2> QED BY <2>1, <2>2, Calls DEF Seen
<1> QED BY <1>1, <1>2, <1>3

-------------------------------------------------------------------------------
(* The page on screen *)

PagesIInv ==
  /\ onScreen \in {"bootstrap", "playbooks", "install", "editors", "terminal", "servers", "assign",
                    "cluster", "projects", "windows"}
  /\ onScreen = "bootstrap" => BootstrapIInv
  /\ onScreen = "playbooks" => PlaybooksIInv
  /\ onScreen = "install" => InstallIInv
  /\ onScreen = "editors" => EditorsIInv
  /\ onScreen = "terminal" => TerminalIInv
  /\ onScreen = "servers" => ServersIInv
  /\ onScreen = "assign" => Assign!AssignIInv
  /\ onScreen = "cluster" => ClusterIInv
  /\ onScreen = "projects" => ProjectsIInv
  /\ onScreen = "windows" => WindowsIInv

LEMMA PagesInit == Init => PagesIInv
<1> SUFFICES ASSUME Init PROVE PagesIInv
  OBVIOUS
<1>1. \/ onScreen = "bootstrap" /\ ClusterBootstrap!Init
      \/ onScreen = "playbooks" /\ PlaybookManager!Init
      \/ onScreen = "install" /\ AnsibleInstall!Init
      \/ onScreen = "editors" /\ AnsibleEditors!Init
      \/ onScreen = "terminal" /\ Terminal!Init
      \/ onScreen = "servers" /\ ServersPage!Init
      \/ onScreen = "assign" /\ AssignServers!Init
      \/ onScreen = "cluster" /\ ClusterPage!Init
      \/ onScreen = "projects" /\ ProjectsPage!Init
      \/ onScreen = "windows" /\ Windows!Init
  BY DEF Init
<1>2. ClusterBootstrap!Init => BootstrapIInv
  BY BootstrapInit
<1>3. PlaybookManager!Init => PlaybooksIInv
  BY PlaybooksInit
<1>4. AnsibleInstall!Init => InstallIInv
  BY InstallInit
<1>5. AnsibleEditors!Init => EditorsIInv
  BY EditorsInit
<1>6. Terminal!Init => TerminalIInv
  BY TerminalInit
<1>7. ServersPage!Init => ServersIInv
  BY ServersInit
<1>8. AssignServers!Init => Assign!AssignIInv
  BY AssignInit
<1>9. ClusterPage!Init => ClusterIInv
  BY ClusterInit
<1>10. ProjectsPage!Init => ProjectsIInv
  BY ProjectsInit
<1>11. Windows!Init => WindowsIInv
  BY WindowsInit
<1> QED BY <1>1, <1>2, <1>3, <1>4, <1>5, <1>6, <1>7, <1>8, <1>9, <1>10, <1>11 DEF PagesIInv

\* What a step of a page may not do.
PagesMayNot ==
  /\ onScreen = "bootstrap" => ClusterBootstrap!RepairLeavesReadyAlone
  /\ onScreen = "editors" => AnsibleEditors!NothingEmptied
  /\ onScreen = "assign" => AssignServers!RoleKept

LEMMA PagesStep == ASSUME PagesIInv, Next PROVE PagesIInv' /\ PagesMayNot
<1>1. \/ onScreen = "bootstrap" /\ ClusterBootstrap!Next /\ UNCHANGED onScreen
      \/ onScreen = "playbooks" /\ PlaybookManager!Next /\ UNCHANGED onScreen
      \/ onScreen = "install" /\ AnsibleInstall!Next /\ UNCHANGED onScreen
      \/ onScreen = "editors" /\ AnsibleEditors!Next /\ UNCHANGED onScreen
      \/ onScreen = "terminal" /\ Terminal!Next /\ UNCHANGED onScreen
      \/ onScreen = "servers" /\ ServersPage!Next /\ UNCHANGED onScreen
      \/ onScreen = "assign" /\ AssignServers!Next /\ UNCHANGED onScreen
      \/ onScreen = "cluster" /\ ClusterPage!Next /\ UNCHANGED onScreen
      \/ onScreen = "projects" /\ ProjectsPage!Next /\ UNCHANGED onScreen
      \/ onScreen = "windows" /\ Windows!Next /\ UNCHANGED onScreen
  BY Zenon DEF Next
<1>2. CASE onScreen = "bootstrap" /\ ClusterBootstrap!Next /\ UNCHANGED onScreen
  BY <1>2, BootstrapStep DEF PagesIInv, PagesMayNot
<1>3. CASE onScreen = "playbooks" /\ PlaybookManager!Next /\ UNCHANGED onScreen
  BY <1>3, PlaybooksStep DEF PagesIInv, PagesMayNot
<1>4. CASE onScreen = "install" /\ AnsibleInstall!Next /\ UNCHANGED onScreen
  BY <1>4, InstallStep DEF PagesIInv, PagesMayNot
<1>5. CASE onScreen = "editors" /\ AnsibleEditors!Next /\ UNCHANGED onScreen
  BY <1>5, EditorsStep DEF PagesIInv, PagesMayNot
<1>6. CASE onScreen = "terminal" /\ Terminal!Next /\ UNCHANGED onScreen
  BY <1>6, TerminalStep DEF PagesIInv, PagesMayNot
<1>7. CASE onScreen = "servers" /\ ServersPage!Next /\ UNCHANGED onScreen
  BY <1>7, ServersStep DEF PagesIInv, PagesMayNot
<1>8. CASE onScreen = "assign" /\ AssignServers!Next /\ UNCHANGED onScreen
  BY <1>8, AssignStep, AssignKeepsRole DEF PagesIInv, PagesMayNot
<1>9. CASE onScreen = "cluster" /\ ClusterPage!Next /\ UNCHANGED onScreen
  BY <1>9, ClusterStep DEF PagesIInv, PagesMayNot
<1>10. CASE onScreen = "projects" /\ ProjectsPage!Next /\ UNCHANGED onScreen
  BY <1>10, ProjectsStep DEF PagesIInv, PagesMayNot
<1>11. CASE onScreen = "windows" /\ Windows!Next /\ UNCHANGED onScreen
  BY <1>11, WindowsStep DEF PagesIInv, PagesMayNot
<1> QED BY <1>1, <1>2, <1>3, <1>4, <1>5, <1>6, <1>7, <1>8, <1>9, <1>10, <1>11

LEMMA PagesStay == ASSUME PagesIInv, UNCHANGED vars PROVE PagesIInv'
<1>1. UNCHANGED onScreen
  BY DEF vars
<1>2. UNCHANGED ClusterBootstrap!bvars
  BY DEF vars, ClusterBootstrap!bvars
<1>3. UNCHANGED PlaybookManager!pvars
  BY DEF vars, PlaybookManager!pvars
<1>4. UNCHANGED AnsibleInstall!installVars
  BY DEF vars, AnsibleInstall!installVars
<1>5. /\ UNCHANGED <<files, backup, editors, asked, busy, panel, tries, faults>>
      /\ shown' = shown
  BY DEF vars
<1>6. UNCHANGED Terminal!termVars
  BY DEF vars, Terminal!termVars
<1>7. /\ UNCHANGED <<status, connected, grid, loads, ops, windows, form, busy, closing, session,
                     clicks, failures>>
      /\ mixed' = mixed /\ crossed' = crossed
  BY DEF vars
<1>8. UNCHANGED <<db, tables, ops, busy, acts, failures, careless, late>>
  BY DEF vars
<1>9. /\ UNCHANGED <<db, connected, loads, versions, summary, card, grid, acts, failures>>
      /\ installed' = installed /\ current' = current /\ late' = late
  BY DEF vars
<1>10. UNCHANGED ProjectsPage!projectsVars
  BY DEF vars, ProjectsPage!projectsVars
<1>11. UNCHANGED Windows!windowVars
  BY DEF vars, Windows!windowVars, Windows!asks, Windows!body
<1>12. BootstrapIInv => BootstrapIInv'
  BY <1>2, BootstrapSame
<1>13. PlaybooksIInv => PlaybooksIInv'
  BY <1>3, PlaybooksSame
<1>14. InstallIInv => InstallIInv'
  BY <1>4, InstallSame
<1>15. EditorsIInv => EditorsIInv'
  BY <1>5, EditorsSame
<1>16. TerminalIInv => TerminalIInv'
  BY <1>6, TerminalSame
<1>17. ServersIInv => ServersIInv'
  BY <1>7, ServersSame
<1>18. Assign!AssignIInv => Assign!AssignIInv'
  BY <1>8, AssignSame
<1>19. ClusterIInv => ClusterIInv'
  BY <1>9, ClusterSame
<1>20. ProjectsIInv => ProjectsIInv'
  BY <1>10, ProjectsSame
<1>21. WindowsIInv => WindowsIInv'
  BY <1>11, WindowsSame
<1> QED BY <1>1, <1>12, <1>13, <1>14, <1>15, <1>16, <1>17, <1>18, <1>19, <1>20, <1>21 DEF PagesIInv

\* The invariant of the page on screen holds throughout, whatever the order of clicks, answers,
\* timers, connections and failures.
THEOREM AdminInductive == Spec => []PagesIInv
<1>1. PagesIInv /\ [Next]_vars => PagesIInv'
  BY PagesStep, PagesStay
<1> QED BY <1>1, PagesInit, PTL DEF Spec

\* Each page's variables have their types (PagesTypeOK): no page makes more clients, loads,
\* checks or windows than its bounds allow, and no list holds what the server never had.
THEOREM AdminTyped == Spec => []PagesTypeOK
<1> SUFFICES ASSUME PagesIInv PROVE PagesTypeOK
  BY AdminInductive, PTL
<1>1. onScreen = "bootstrap" => ClusterBootstrap!BootstrapTypeOK
  BY BootstrapGives DEF PagesIInv
<1>2. onScreen = "playbooks" => PlaybookManager!TypeOK
  BY DEF PagesIInv, PlaybooksIInv
<1>3. onScreen = "install" => AnsibleInstall!InstallTypeOK
  BY InstallGives DEF PagesIInv
<1>4. onScreen = "editors" => AnsibleEditors!EditorsTypeOK
  BY EditorsGives DEF PagesIInv
<1>5. onScreen = "terminal" => Terminal!TerminalTypeOK
  BY TerminalGives DEF PagesIInv
<1>6. onScreen = "servers" => ServersPage!ServersTypeOK
  BY ServersGives DEF PagesIInv
<1>7. onScreen = "assign" => AssignServers!AssignTypeOK
  BY AssignGives DEF PagesIInv
<1>8. onScreen = "cluster" => ClusterPage!ClusterPageTypeOK
  BY ClusterGives DEF PagesIInv
<1>9. onScreen = "projects" => ProjectsPage!ProjectsTypeOK
  BY ProjectsGives DEF PagesIInv
<1>10. onScreen = "windows" => Windows!WindowsTypeOK
  BY WindowsGives DEF PagesIInv
<1> QED BY <1>1, <1>2, <1>3, <1>4, <1>5, <1>6, <1>7, <1>8, <1>9, <1>10 DEF PagesTypeOK

\* The playbooks do what they are for (DeploysWork): whatever earlier runs, broken off anywhere,
\* left on the machines, a deployment in which nothing failed by accident but the cleaning makes
\* one healthy cluster and does not break off where it finds containerd, and workers join that can
\* (the templates of playbook-manager.js).
THEOREM PlaybooksWork == Spec => []DeploysWork
<1>1. PagesIInv => DeploysWork
  BY BootstrapGives DEF PagesIInv, DeploysWork
<1> QED BY <1>1, AdminInductive, PTL

\* What one does is done to what the page shows (ActsOnWhatIsShown): the playbook's text, the run
\* of Ansible, the field of the form and the shell behind the terminal are the ones named on the
\* screen (playbook-manager.js, ansibleWebSocket.js, user.js, servers.js, wsClient.js).
THEOREM ShownIsActedOn == Spec => []ActsOnWhatIsShown
<1> SUFFICES ASSUME PagesIInv PROVE ActsOnWhatIsShown
  BY AdminInductive, PTL
<1>1. onScreen = "playbooks" => PlaybookManager!TextUnderItsName
  BY DEF PagesIInv, PlaybooksIInv
<1>2. onScreen = "install" => AnsibleInstall!RunIsPressed
  BY InstallGives DEF PagesIInv
<1>3. onScreen = "projects" => ProjectsPage!FieldsAreEnv
  BY ProjectsGives DEF PagesIInv
<1>4. onScreen = "terminal" => Terminal!ShellOfTitle /\ Terminal!OnlyCurrentHasShell
      /\ Terminal!LoginFirst
  BY TerminalGives DEF PagesIInv
<1> QED BY <1>1, <1>2, <1>3, <1>4 DEF ActsOnWhatIsShown

\* A button is at work exactly while its own operation is (BusyIsAsked): the check of Ansible, the
\* saving of its files, of servers and of the upload, and the card that looks for Kubernetes; but
\* for the save button of a server's window, which the end of an earlier save's load enables
\* during a later one (ansibleConfig.js, servers.js, user.js, k8sClusters.js).
THEOREM BusyAsked == Spec => []BusyIsAsked
<1> SUFFICES ASSUME PagesIInv PROVE BusyIsAsked
  BY AdminInductive, PTL
<1>1. onScreen = "install" => AnsibleInstall!NewestIsShown
  BY InstallGives DEF PagesIInv
<1>2. onScreen = "editors" => AnsibleEditors!SettledEditors
  BY EditorsGives DEF PagesIInv
<1>3. onScreen = "servers" => ServersPage!OneSave /\ ServersPage!BusyIsAsked
  BY ServersGives DEF PagesIInv
<1>4. onScreen = "projects" => ProjectsPage!OneUpload
  BY ProjectsGives DEF PagesIInv
<1>5. onScreen = "cluster" => ClusterPage!CheckingIsAsked
  BY ClusterGives DEF PagesIInv
<1> QED BY <1>1, <1>2, <1>3, <1>4, <1>5 DEF BusyIsAsked

\* Once a page waits for nothing it shows what is so (SettledIsTrue), unless a request failed or an
\* answer came late; and once no window opens or closes nothing covers the page when none is up
\* (ansibleWebSocket.js, servers.js, k8sClusters.js, user.js, modal.js, admin.js).
THEOREM SettledTrue == Spec => []SettledIsTrue
<1> SUFFICES ASSUME PagesIInv PROVE SettledIsTrue
  BY AdminInductive, PTL
<1>1. onScreen = "install" => AnsibleInstall!SettledStatus
  BY InstallGives DEF PagesIInv
<1>2. onScreen = "servers" => ServersPage!SettledCards
  BY ServersGives DEF PagesIInv
<1>3. onScreen = "assign" => AssignServers!SettledTables
  BY AssignGives DEF PagesIInv
<1>4. onScreen = "projects" => ProjectsPage!SettledProjects /\ ProjectsPage!PageHasProjects
  BY ProjectsGives DEF PagesIInv
<1>5. onScreen = "cluster" => ClusterPage!SettledCluster
  BY ClusterGives DEF PagesIInv
<1>6. onScreen = "windows" => Windows!NothingLeft /\ Windows!OpenIsCovered
  BY WindowsGives DEF PagesIInv
<1> QED BY <1>1, <1>2, <1>3, <1>4, <1>5, <1>6 DEF SettledIsTrue

\* No second master, one operation after another and with no failure (OneMaster), as long as none
\* is assigned as MASTER and none are made MASTER together (k8sClusters.js).
THEOREM OnlyMaster == Spec => []OneMaster
<1>1. PagesIInv => OneMaster
  BY AssignGives DEF PagesIInv, OneMaster
<1> QED BY <1>1, AdminInductive, PTL

\* No operation destroys what it was not asked to (NothingUndone): a repair leaves Ready workers
\* alone (playbook-manager.js), no file of Ansible is emptied (ansibleConfig.js), and a server that
\* leaves the cluster keeps its role (k8sClusters.js).
THEOREM UndoesNothing == Spec => NothingUndone
<1>1. PagesIInv /\ [Next]_vars =>
        [/\ onScreen = "bootstrap" => ClusterBootstrap!RepairLeavesReadyAlone
         /\ onScreen = "editors" => AnsibleEditors!NothingEmptied
         /\ onScreen = "assign" => AssignServers!RoleKept]_vars
  BY PagesStep DEF PagesMayNot
<1> QED BY <1>1, AdminInductive, PTL DEF Spec, NothingUndone

================================================================================
