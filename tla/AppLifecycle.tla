---------------------------- MODULE AppLifecycle ------------------------------
(***************************************************************************)
(* What the status of a deployment request promises to the people who read *)
(* it: which status may follow which.  "none" is an id not handed out yet, *)
(* "gone" a request whose record has been removed.                         *)
(***************************************************************************)
CONSTANT Apps
VARIABLE life

Stages == {"none", "PENDING", "RUNNING", "ERROR", "PAUSED", "REJECTED",
           "DELETED", "gone"}

\* One edge per promise of the request handlers.
Edges ==
  { <<"none", "PENDING">>,                                    \* upload
    <<"PENDING", "RUNNING">>, <<"PENDING", "ERROR">>,         \* process
    <<"ERROR", "RUNNING">>,                                   \* retry
    <<"RUNNING", "PAUSED">>, <<"PAUSED", "RUNNING">>,         \* scale
    <<"PENDING", "REJECTED">> }                               \* reject
  \cup ({"PENDING", "RUNNING", "ERROR", "PAUSED", "REJECTED"} \X {"DELETED"})
  \cup ((Stages \ {"none", "gone"}) \X {"gone"})

Init == life = [a \in Apps |-> "none"]

Move(a, to) ==
  /\ <<life[a], to>> \in Edges
  /\ life' = [life EXCEPT ![a] = to]

Next == \E a \in Apps, to \in Stages : Move(a, to)

Spec == Init /\ [][Next]_life

===============================================================================
