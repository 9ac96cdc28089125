--------------------------- MODULE MCServerRegistry ---------------------------
(***************************************************************************)
(* Instances of ServerRegistry for TLC.                                    *)
(***************************************************************************)
EXTENDS ServerRegistry, TLC

\* Handlers that take the session's lock, an edit apart, which takes it as they do,
\* and the refresh of the metrics, which leaves the set alone.
Locking == {"create", "reconnect", "shutdown", "disconnect", "metrics"}

AllHandlers == Ops

ThreadSymmetry == Permutations(Requests)

===============================================================================
