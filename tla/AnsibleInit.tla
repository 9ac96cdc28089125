------------------------------ MODULE AnsibleInit ------------------------------
(***************************************************************************)
(* The window that prepares Ansible on the controller (ansibleConfig.js    *)
(* 718 and the following lines; runInitActionWS of ansibleWebSocket.js):   *)
(* a button for each of four steps and one that runs them all. A step is   *)
(* asked for over a WebSocket of its own, the newest; the run of all goes  *)
(* on half a second after a line that seems to tell a success, or after 30 *)
(* seconds. Such a line may well be the echo of a command not yet carried  *)
(* out; the server goes on with a step nobody listens to any more.         *)
(***************************************************************************)
EXTENDS Naturals, Sequences

CONSTANTS
  MaxClicks,    \* bound: presses of a button
  MaxFailures   \* bound: sockets that are lost or never open

\* Assumed where the constants are given values.
InitAssumption == MaxClicks \in Nat /\ MaxFailures \in Nat

VARIABLES
  inits,     \* the WebSockets in the order of their creation
  loops,     \* the runs of all steps
  alone,     \* steps asked for by their own button
  lost

initVars == <<inits, loops, alone, lost>>

Steps == <<"structure", "config", "sshkey", "ping">>
NoLoop == 0

Init == inits = <<>> /\ loops = <<>> /\ alone = 0 /\ lost = 0

Clicks == Len(loops) + alone
Ended(l) == l \in DOMAIN loops /\ loops[l].step > Len(Steps)
Waits(l) == l \in DOMAIN loops /\ loops[l].step <= Len(Steps)

(* (variant) the newest socket is closed if it is open, as the installation does *)
RunInitActionOpen(step, loop) ==
  inits' = Append([i \in DOMAIN inits |-> IF i = Len(inits) /\ inits[i].state = "open"
                                            THEN [inits[i] EXCEPT !.state = "closed"]
                                            ELSE inits[i]],
                  [step |-> step, loop |-> loop, state |-> "connecting"])

\* The newest socket is closed, whatever its state, and another created.
RunInitAction(step, loop) ==
  inits' = Append([i \in DOMAIN inits |-> IF i = Len(inits) THEN [inits[i] EXCEPT !.state = "closed"]
                                          ELSE inits[i]],
                  [step |-> step, loop |-> loop, state |-> "connecting"])

ClickStep(step) ==
  /\ Clicks < MaxClicks
  /\ alone' = alone + 1
  /\ RunInitAction(step, NoLoop)
  /\ UNCHANGED <<loops, lost>>

ClickAll ==
  /\ Clicks < MaxClicks
  /\ loops' = Append(loops, [step |-> 1, completed |-> FALSE])
  /\ RunInitAction(Steps[1], Len(loops) + 1)
  /\ UNCHANGED <<alone, lost>>

\* The step is asked for when its socket opens.
SocketOpens(i) ==
  /\ inits[i].state = "connecting"
  /\ inits' = [inits EXCEPT ![i].state = "open"]
  /\ UNCHANGED <<loops, alone, lost>>

\* What onerror and onclose write ends no step.
SocketLost(i) ==
  /\ inits[i].state # "closed" /\ lost < MaxFailures
  /\ lost' = lost + 1
  /\ inits' = [inits EXCEPT ![i].state = "closed"]
  /\ UNCHANGED <<loops, alone>>

\* A line with a mark of success comes over an open socket; for the run of all the first
\* one counts.
Marked(i) ==
  /\ inits[i].state = "open" /\ inits[i].loop # NoLoop
  /\ Waits(inits[i].loop) /\ Steps[loops[inits[i].loop].step] = inits[i].step
  /\ ~loops[inits[i].loop].completed
  /\ loops' = [loops EXCEPT ![inits[i].loop].completed = TRUE]
  /\ UNCHANGED <<inits, alone, lost>>

\* The next step; after the last one the preparation is told to be complete.
Resolve(l) ==
  LET next == loops[l].step + 1
  IN  /\ loops' = [loops EXCEPT ![l] = [step |-> next, completed |-> FALSE]]
      /\ IF next \in DOMAIN Steps THEN RunInitAction(Steps[next], l) ELSE UNCHANGED inits
      /\ UNCHANGED <<alone, lost>>

\* Half a second after the mark.
Soon(l) == Waits(l) /\ loops[l].completed /\ Resolve(l)

(* (variant) the 30 seconds are counted from the opening of the step's socket *)
TimeoutOpened(l) ==
  /\ Waits(l) /\ ~loops[l].completed
  /\ \E i \in DOMAIN inits :
       inits[i].loop = l /\ inits[i].step = Steps[loops[l].step] /\ inits[i].state = "open"
  /\ Resolve(l)

\* 30 seconds after the step was begun, heard of or not.
Timeout(l) == Waits(l) /\ ~loops[l].completed /\ Resolve(l)

Next ==
  \/ \E step \in {Steps[k] : k \in DOMAIN Steps} : ClickStep(step)
  \/ ClickAll
  \/ \E i \in DOMAIN inits : SocketOpens(i) \/ SocketLost(i) \/ Marked(i)
  \/ \E l \in DOMAIN loops : Soon(l) \/ Timeout(l)

Spec == Init /\ [][Next]_initVars

-------------------------------------------------------------------------------
(* Properties                                                              *)

InitTypeOK ==
  /\ \A i \in DOMAIN inits : /\ inits[i].loop \in 0..Len(loops)
                             /\ inits[i].state \in {"connecting", "open", "closed"}
  /\ \A l \in DOMAIN loops : loops[l].step \in 1..(Len(Steps) + 1)
  /\ Clicks <= MaxClicks /\ lost <= MaxFailures

\* A step is asked for only while nothing has been begun after it: one whose socket opened
\* late is never carried out after the step that overtook it (runInitActionWS).
AskedInOrder ==
  \A i \in DOMAIN inits :
    inits[i].state = "connecting" /\ inits'[i].state = "open" => i = Len(inits)
================================================================================
