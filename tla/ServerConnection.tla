--------------------------- MODULE ServerConnection ---------------------------
(***************************************************************************)
(* What an admin is shown of a server: registered and idle ("off"),        *)
(* connected, disabled, removed.  The promise is in the missing edge: a    *)
(* disabled server is never connected before it has been enabled again.    *)
(***************************************************************************)
CONSTANT Servers
VARIABLE stage

Stages == {"none", "off", "connected", "disabled", "gone"}

Edges ==
  { <<"none", "off">>,                                       \* create
    <<"off", "connected">>,                                  \* reconnect, check
    <<"connected", "off">>,                                  \* shutdown, edit, check
    <<"disabled", "off">> }                                  \* reconnect, edit
  \cup ({"off", "connected"} \X {"disabled"})                \* disconnect, edit
  \cup ({"off", "connected", "disabled"} \X {"gone"})        \* delete

Init == stage = [s \in Servers |-> "none"]

\* One check of the whole registry may move several servers at once.
Next ==
  /\ stage' \in [Servers -> Stages]
  /\ \A s \in Servers : stage'[s] = stage[s] \/ <<stage[s], stage'[s]>> \in Edges

Spec == Init /\ [][Next]_stage

===============================================================================
