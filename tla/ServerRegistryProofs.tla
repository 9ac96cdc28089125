------------------------- MODULE ServerRegistryProofs -------------------------
(***************************************************************************)
(* For any number of servers, sessions and threads: the types, that a      *)
(* removed server stays removed, and, where the status check is not        *)
(* served, that handlers of one session do not undo each other's updates;  *)
(* and, in the second half, for one session that waits for each answer,    *)
(* that the set and the table agree.                                       *)
(*                                                                         *)
(* IInv is inductive.  TypeOK needs InProgress (a row that is written is   *)
(* one that was loaded); the updates of the set need LockHeld, which says  *)
(* whose lock it is for every thread between its read and its write.       *)
(***************************************************************************)
EXTENDS ServerRegistry, TLAPS

RequestsPart ==
  /\ req \in [Requests -> Request \cup {Idle}]
  /\ \A r \in Requests : req[r] # Idle => InProgress(req[r])

RowsPart == rows \in Table /\ issued \in SUBSET Servers

SessionsPart ==
  /\ connected \in [Sessions -> SUBSET Servers]
  /\ lock \in [Sessions -> Requests \cup {None}]

\* The invariant, sorted by the variables an action changes.
LEMMA Parts == IInv <=> RowsPart /\ SessionsPart /\ RequestsPart /\ LockHeld
BY DEF IInv, TypeOK, RowsPart, SessionsPart, RequestsPart

LEMMA PartsNext == RowsPart' /\ SessionsPart' /\ RequestsPart' /\ LockHeld' => IInv'
BY DEF IInv, TypeOK, RowsPart, SessionsPart, RequestsPart

\* The request of a busy thread, and its parts.
LEMMA BusyThread ==
  ASSUME RequestsPart, NEW r \in Requests, req[r] # Idle
  PROVE  /\ req[r] \in Request
         /\ req[r].ses \in Sessions
         /\ req[r].loaded \in Table
         /\ req[r].seen \in SUBSET Servers
         /\ InProgress(req[r])
BY DEF RequestsPart, Request

\* A handler on one server works on a row it has loaded.
LEMMA BusyCopy ==
  ASSUME RequestsPart, NEW r \in Requests, req[r] # Idle, req[r].op # "check"
  PROVE  req[r].id \in Servers /\ Copy(r) \in Row
BY BusyThread DEF Copy, InProgress, Table

LEMMA OneRowTyped ==
  ASSUME NEW i \in Servers, NEW row \in Row
  PROVE  OneRow(i, row) \in Table /\ OneRow(i, row)[i] # Absent
BY ConstantsAssumption DEF OneRow, Table

\* A thread takes on a new state; the others keep theirs.
LEMMA RequestMoves ==
  ASSUME RequestsPart, NEW r \in Requests, NEW q \in Request \cup {Idle},
         q # Idle => InProgress(q), req' = [req EXCEPT ![r] = q]
  PROVE  RequestsPart'
BY DEF RequestsPart

\* A thread moves outside the lock.
LEMMA LockUntouched ==
  ASSUME RequestsPart, LockHeld, NEW r \in Requests, NEW q,
         q # Idle => q.step # "leave", req' = [req EXCEPT ![r] = q],
         UNCHANGED <<connected, lock>>
  PROVE  LockHeld'
<1> SUFFICES ASSUME NEW t \in Requests, At(t, "leave")'
             PROVE  /\ lock'[req'[t].ses] = t
                    /\ "check" \notin Handlers => req'[t].seen = connected'[req'[t].ses]
  BY DEF LockHeld
<1>1. t # r /\ req'[t] = req[t]
  BY DEF At, RequestsPart
<1> QED BY <1>1 DEF LockHeld, At

\* A row is replaced by a well-formed one, or not written at all.
LEMMA FlushKeepsRows ==
  ASSUME RowsPart, NEW old, NEW new \in Row, NEW i \in Servers,
         Flush(old, new, i), UNCHANGED issued
  PROVE  RowsPart'
BY DEF Flush, RowsPart, Table

\* The step from writing the row to updating the session's set.
LEMMA SaveKeeps ==
  ASSUME IInv, NEW r \in Requests, req[r] # Idle, req[r].op # "check",
         NEW new \in Row, Save(r, new) \/ SaveDirty(r, new)
  PROVE  IInv'
<1> DEFINE q == [req[r] EXCEPT !.step = "enter", !.loaded = OneRow(req[r].id, new)]
<1>1. RowsPart /\ SessionsPart /\ RequestsPart /\ LockHeld
  BY Parts
<1>2. req[r].id \in Servers
  BY <1>1, BusyCopy
<1>3. req' = [req EXCEPT ![r] = q] /\ UNCHANGED <<issued, connected, lock>>
  BY DEF Save, SaveDirty
<1>4. OneRow(req[r].id, new) \in Table /\ OneRow(req[r].id, new)[req[r].id] # Absent
  BY <1>2, OneRowTyped
<1>5. q \in Request /\ q.step = "enter" /\ q.op = req[r].op /\ q.id = req[r].id
      /\ q.form = req[r].form /\ q.loaded = OneRow(req[r].id, new)
  BY <1>1, <1>4, BusyThread DEF Request
<1>6. InProgress(q)
  <2> HIDE DEF q
  <2> QED BY <1>1, <1>2, <1>4, <1>5, BusyThread DEF InProgress
<1>7. RequestsPart'
  <2> HIDE DEF q
  <2> QED BY <1>1, <1>3, <1>5, <1>6, RequestMoves
<1>8. LockHeld'
  <2> HIDE DEF q
  <2> QED BY <1>1, <1>3, <1>5, LockUntouched
<1>9. RowsPart'
  <2>1. CASE Save(r, new)
    BY <1>1, <1>2, <2>1, FlushKeepsRows DEF Save
  <2>2. CASE SaveDirty(r, new)
    BY <1>1, <1>2, <2>2 DEF SaveDirty, RowsPart, Table
  <2> QED BY <2>1, <2>2
<1>10. SessionsPart'
  BY <1>1, <1>3 DEF SessionsPart
<1> QED BY <1>7, <1>8, <1>9, <1>10, PartsNext

\* A handler starts, or an operation ends, without touching rows and sets.
LEMMA MoveKeeps ==
  ASSUME IInv, NEW r \in Requests, NEW q \in Request \cup {Idle},
         q # Idle => InProgress(q) /\ q.step # "leave",
         req' = [req EXCEPT ![r] = q], RowsPart', UNCHANGED <<connected, lock>>
  PROVE  IInv'
<1>1. RowsPart /\ SessionsPart /\ RequestsPart /\ LockHeld
  BY Parts
<1>2. RequestsPart'
  BY <1>1, RequestMoves
<1>3. LockHeld'
  BY <1>1, LockUntouched
<1>4. SessionsPart'
  BY <1>1 DEF SessionsPart
<1> QED BY <1>2, <1>3, <1>4, PartsNext

-------------------------------------------------------------------------------
(* One lemma per kind of step                                                *)

LEMMA ServeKeeps ==
  ASSUME IInv, NEW r \in Requests, NEW op \in Ops, NEW step \in {"save", "enter"},
         NEW s \in Sessions, NEW i \in Servers \cup {None}, NEW form \in Form \cup {None},
         NEW ctx \in Table,
         op = "check" => step = "save",
         op # "check" => i \in Servers /\ ctx[i] # Absent,
         op = "edit" => form # None,
         Serve(r, op, step, s, i, form, ctx),
         RowsPart', UNCHANGED <<connected, lock>>
  PROVE  IInv'
<1> DEFINE q == [op |-> op, step |-> step, ses |-> s, id |-> i,
                 loaded |-> ctx, seen |-> {}, form |-> form]
<1>1. q \in Request
  BY DEF Request
<1>2. InProgress(q) /\ q.step # "leave"
  BY DEF InProgress, Serve
<1>3. req' = [req EXCEPT ![r] = q]
  BY DEF Serve
<1> HIDE DEF q
<1> QED BY <1>1, <1>2, <1>3, MoveKeeps

LEMMA BeginKeeps ==
  ASSUME IInv, NEW r \in Requests, NEW op \in Ops \ {"check"}, NEW s \in Sessions,
         NEW i \in Servers, NEW form \in Form \cup {None},
         op = "edit" => form # None, Begin(r, op, s, i, form)
  PROVE  IInv'
<1>1. RowsPart /\ rows[i] \in Row
  BY Parts DEF Begin, Exists, RowsPart, Table
<1>2. OneRow(i, rows[i]) \in Table /\ OneRow(i, rows[i])[i] # Absent
  BY <1>1, OneRowTyped
<1>3. RowsPart' /\ UNCHANGED <<connected, lock>>
  BY <1>1 DEF Begin, RowsPart
<1> QED BY <1>2, <1>3, ServeKeeps DEF Begin

LEMMA ArrivalKeeps ==
  ASSUME IInv, NEW r \in Requests, Arrival(r)
  PROVE  IInv'
<1>1. PICK s \in Sessions :
        \/ StartCheck(r, s)
        \/ \E i \in Servers :
             \/ \E row \in NewRows : CreateServer(r, s, i, row)
             \/ \E form \in Form : StartEdit(r, s, i, form)
             \/ StartReconnect(r, s, i)
             \/ StartDisconnect(r, s, i)
             \/ StartShutdown(r, s, i)
             \/ StartMetrics(r, s, i)
  BY DEF Arrival
<1>2. RowsPart
  BY Parts
<1>3. CASE StartCheck(r, s)
  <2>1. RowsPart' /\ rows \in Table
    BY <1>2, <1>3 DEF StartCheck, RowsPart
  <2> QED BY <1>3, <2>1, ServeKeeps DEF StartCheck, Ops
<1>4. ASSUME NEW i \in Servers, NEW row \in NewRows, CreateServer(r, s, i, row)
      PROVE  IInv'
  <2>1. row \in Row
    BY DEF NewRows, Row, Statuses
  <2>2. RowsPart'
    BY <1>2, <1>4, <2>1 DEF CreateServer, RowsPart, Table
  <2>3. OneRow(i, row) \in Table /\ OneRow(i, row)[i] # Absent
    BY <2>1, OneRowTyped
  <2> QED BY <1>4, <2>2, <2>3, ServeKeeps DEF CreateServer, Ops
<1>5. ASSUME NEW i \in Servers, NEW form \in Form, StartEdit(r, s, i, form)
      PROVE  IInv'
  BY <1>5, BeginKeeps, ConstantsAssumption DEF StartEdit, Ops
<1>6. ASSUME NEW i \in Servers, StartReconnect(r, s, i) PROVE IInv'
  BY <1>6, BeginKeeps DEF StartReconnect, Ops
<1>7. ASSUME NEW i \in Servers, StartDisconnect(r, s, i) PROVE IInv'
  BY <1>7, BeginKeeps DEF StartDisconnect, Ops
<1>8. ASSUME NEW i \in Servers, StartShutdown(r, s, i) PROVE IInv'
  BY <1>8, BeginKeeps DEF StartShutdown, Ops
<1>9. ASSUME NEW i \in Servers, StartMetrics(r, s, i) PROVE IInv'
  BY <1>9, BeginKeeps DEF StartMetrics, Ops
<1> QED BY <1>1, <1>3, <1>4, <1>5, <1>6, <1>7, <1>8, <1>9

\* The handlers that write one row and then update the set.
LEMMA SavesKeep ==
  ASSUME IInv, NEW r \in Requests,
         SaveEdit(r) \/ SaveReconnect(r) \/ SaveDisconnect(r) \/ SaveShutdown(r)
  PROVE  IInv'
<1>1. RequestsPart
  BY Parts
<1>2. req[r] # Idle /\ req[r].op # "check"
  BY DEF SaveEdit, SaveReconnect, SaveDisconnect, SaveShutdown, Saves, At
<1>3. Copy(r) \in Row
  BY <1>1, <1>2, BusyCopy
<1>4. CASE SaveEdit(r)
  <2>1. req[r].form \in Form
    BY <1>1, <1>2, <1>4, BusyThread DEF SaveEdit, Saves, InProgress, Request
  <2>2. \A verified \in BOOLEAN : Edited(Copy(r), req[r].form, verified) \in Row
    BY <1>3, <2>1 DEF Edited, KeyAfter, Form, Row, Statuses
  <2>3. PICK with \in {"nothing", "key", "password"} :
          \/ Save(r, Edited(Copy(r), req[r].form, with # "nothing"))
          \/ SaveDirty(r, Edited(Copy(r), req[r].form, with # "nothing"))
    BY <1>4 DEF SaveEdit
  <2>4. Edited(Copy(r), req[r].form, with # "nothing") \in Row
    BY <2>2
  <2> QED BY <1>2, <2>3, <2>4, SaveKeeps
<1>5. CASE SaveReconnect(r)
  <2>1. /\ [Copy(r) EXCEPT !.status = "ONLINE"] \in Row
        /\ \A installed \in BOOLEAN :
             [Copy(r) EXCEPT !.status = "ONLINE", !.key = @ \/ installed] \in Row
    BY <1>3 DEF Row, Statuses
  <2> QED BY <1>2, <1>5, <2>1, SaveKeeps DEF SaveReconnect
<1>6. CASE SaveDisconnect(r)
  <2>1. [Copy(r) EXCEPT !.status = "DISABLED"] \in Row
    BY <1>3 DEF Row, Statuses
  <2> QED BY <1>2, <1>6, <2>1, SaveKeeps DEF SaveDisconnect
<1>7. CASE SaveShutdown(r)
  <2>1. [Copy(r) EXCEPT !.status = "OFFLINE"] \in Row
    BY <1>3 DEF Row, Statuses
  <2> QED BY <1>2, <1>7, <2>1, SaveKeeps DEF SaveShutdown
<1> QED BY <1>4, <1>5, <1>6, <1>7

LEMMA EndsKeep ==
  ASSUME IInv, NEW r \in Requests, SaveMetrics(r) \/ Fails(r)
  PROVE  IInv'
<1>1. RowsPart /\ RequestsPart
  BY Parts
<1>2. req' = [req EXCEPT ![r] = Idle] /\ UNCHANGED <<connected, lock, issued>>
  BY DEF SaveMetrics, Fails, End
<1>3. CASE SaveMetrics(r)
  <2>1. req[r].id \in Servers /\ Copy(r) \in Row
    BY <1>1, <1>3, BusyCopy DEF SaveMetrics, Saves, At
  <2>2. RowsPart'
    BY <1>1, <1>2, <1>3, <2>1 DEF SaveMetrics, RowsPart, Table
  <2> QED BY <1>2, <2>2, MoveKeeps
<1>4. CASE Fails(r)
  <2>1. RowsPart'
    BY <1>1, <1>4 DEF Fails, RowsPart
  <2> QED BY <1>2, <2>1, MoveKeeps
<1> QED BY <1>3, <1>4

\* A thread enters the session's lock and reads the set.
LEMMA EnterKeeps ==
  ASSUME IInv, NEW r \in Requests, Enter(r)
  PROVE  IInv'
<1> DEFINE q == [req[r] EXCEPT !.step = "leave", !.seen = connected[req[r].ses]]
           s == req[r].ses
<1>1. RowsPart /\ SessionsPart /\ RequestsPart /\ LockHeld
  BY Parts
<1>2. req[r] # Idle /\ req[r].step = "enter" /\ lock[s] = None /\ s \in Sessions
  BY <1>1, BusyThread DEF Enter, At
<1>3. req' = [req EXCEPT ![r] = q] /\ lock' = [lock EXCEPT ![s] = r]
      /\ UNCHANGED <<rows, issued, connected>>
  BY DEF Enter
<1>4. q \in Request /\ q.step = "leave" /\ q.op = req[r].op /\ q.id = req[r].id
      /\ q.form = req[r].form /\ q.loaded = req[r].loaded /\ q.ses = s
      /\ q.seen = connected[s]
  BY <1>1, <1>2, BusyThread DEF Request, SessionsPart
<1>5. InProgress(q)
  <2> HIDE DEF q, s
  <2> QED BY <1>1, <1>2, <1>4, BusyThread DEF InProgress
<1> HIDE DEF q, s
<1>6. RequestsPart'
  BY <1>1, <1>3, <1>4, <1>5, RequestMoves
<1>7. LockHeld'
  <2> SUFFICES ASSUME NEW t \in Requests, At(t, "leave")'
               PROVE  /\ lock'[req'[t].ses] = t
                      /\ "check" \notin Handlers => req'[t].seen = connected'[req'[t].ses]
    BY DEF LockHeld
  <2>1. CASE t = r
    BY <1>1, <1>2, <1>3, <1>4, <2>1 DEF RequestsPart, SessionsPart
  <2>2. CASE t # r
    <3>1. req'[t] = req[t] /\ At(t, "leave")
      BY <1>3, <2>2 DEF At
    <3>2. lock[req[t].ses] = t
      BY <1>1, <3>1 DEF LockHeld
    <3>3. req[t].ses # s
      BY <1>2, <3>2, ConstantsAssumption
    <3> QED BY <1>1, <1>3, <3>1, <3>2, <3>3 DEF LockHeld
  <2> QED BY <2>1, <2>2
<1>8. RowsPart' /\ SessionsPart'
  BY <1>1, <1>2, <1>3 DEF RowsPart, SessionsPart
<1> QED BY <1>6, <1>7, <1>8, PartsNext

\* What a handler makes of the set it read: only its own server differs.
LEMMA SetsAfterDiffer ==
  ASSUME RequestsPart, NEW r \in Requests, At(r, "leave"), NEW set \in SetsAfter(r)
  PROVE  /\ set \in SUBSET Servers
         /\ \A i \in Servers \ {req[r].id} : i \in set <=> i \in req[r].seen
<1>1. req[r] # Idle /\ req[r].seen \in SUBSET Servers /\ req[r].id \in Servers
  BY BusyThread DEF At, InProgress
<1>2. \/ set = req[r].seen
      \/ set = req[r].seen \cup {req[r].id}
      \/ set = req[r].seen \ {req[r].id}
  BY DEF SetsAfter
<1> QED BY <1>1, <1>2

\* Two threads are never between their read and their write of one set.
LEMMA LeaveKeeps ==
  ASSUME IInv, NEW r \in Requests, Leave(r)
  PROVE  IInv'
<1> DEFINE s == req[r].ses
<1>1. RowsPart /\ SessionsPart /\ RequestsPart /\ LockHeld
  BY Parts
<1>2. At(r, "leave") /\ req[r] # Idle /\ s \in Sessions
  BY <1>1, BusyThread DEF Leave, At
<1>3. PICK set \in SetsAfter(r) : connected' = [connected EXCEPT ![s] = set]
  BY DEF Leave
<1>4. req' = [req EXCEPT ![r] = Idle] /\ lock' = [lock EXCEPT ![s] = None]
      /\ UNCHANGED <<rows, issued>>
  BY DEF Leave, End
<1> HIDE DEF s
<1>5. RequestsPart'
  BY <1>1, <1>4, RequestMoves
<1>6. RowsPart' /\ SessionsPart'
  BY <1>1, <1>2, <1>3, <1>4, SetsAfterDiffer DEF RowsPart, SessionsPart
<1>7. LockHeld'
  <2> SUFFICES ASSUME NEW t \in Requests, At(t, "leave")'
               PROVE  /\ lock'[req'[t].ses] = t
                      /\ "check" \notin Handlers => req'[t].seen = connected'[req'[t].ses]
    BY DEF LockHeld
  <2>1. t # r /\ req'[t] = req[t] /\ At(t, "leave")
    BY <1>1, <1>4 DEF At, RequestsPart
  <2>2. lock[req[t].ses] = t /\ lock[s] = r
    BY <1>1, <1>2, <2>1 DEF LockHeld, s
  <2>3. req[t].ses # s
    BY <2>1, <2>2
  <2> QED BY <1>1, <1>3, <1>4, <2>1, <2>2, <2>3 DEF LockHeld
<1> QED BY <1>5, <1>6, <1>7, PartsNext

\* check-status, all of whose steps but the last leave the sets alone.
LEMMA CheckKeeps ==
  ASSUME IInv, NEW r \in Requests, SaveCheck(r) \/ ListServers(r) \/ Publish(r)
  PROVE  IInv'
<1>1. RowsPart /\ SessionsPart /\ RequestsPart /\ LockHeld
  BY Parts
<1>2. req[r] # Idle
  BY DEF SaveCheck, ListServers, Publish, Saves, At
<1>3. /\ req[r] \in Request /\ req[r].ses \in Sessions
      /\ req[r].loaded \in Table /\ req[r].seen \in SUBSET Servers /\ InProgress(req[r])
  BY <1>1, <1>2, BusyThread
<1>4. "check" \in Handlers /\ req[r].op = "check"
  BY <1>3 DEF SaveCheck, ListServers, Publish, Saves, At, InProgress
<1>5. CASE SaveCheck(r)
  <2>1. PICK up \in SUBSET {i \in Servers : req[r].loaded[i] # Absent} :
          LET old   == req[r].loaded
              new   == Pinged(old, up)
              dirty == {i \in Servers : old[i] # new[i]}
          IN /\ rows' = [i \in Servers |-> IF i \in dirty THEN new[i] ELSE rows[i]]
             /\ req' = [req EXCEPT ![r] = [@ EXCEPT !.step = "list", !.loaded = new]]
    BY <1>5 DEF SaveCheck
  <2> DEFINE new == Pinged(req[r].loaded, up)
             q == [req[r] EXCEPT !.step = "list", !.loaded = new]
  <2>2. new \in Table
    <3>1. ASSUME NEW i \in Servers PROVE new[i] \in Row \cup {Absent}
      <4>1. req[r].loaded[i] \in Row \cup {Absent}
        BY <1>3 DEF Table
      <4>2. new[i] \in {req[r].loaded[i],
                        [req[r].loaded[i] EXCEPT !.status = "ONLINE"],
                        [req[r].loaded[i] EXCEPT !.status = "OFFLINE"]}
            /\ (req[r].loaded[i] = Absent => new[i] = Absent)
        BY DEF Pinged
      <4>3. req[r].loaded[i] \in Row =>
              /\ [req[r].loaded[i] EXCEPT !.status = "ONLINE"] \in Row
              /\ [req[r].loaded[i] EXCEPT !.status = "OFFLINE"] \in Row
        BY DEF Row, Statuses
      <4> HIDE DEF new
      <4> QED BY <4>1, <4>2, <4>3
    <3>2. new = [i \in Servers |-> new[i]]
      BY DEF Pinged
    <3> HIDE DEF new
    <3> QED BY <3>1, <3>2 DEF Table
  <2> HIDE DEF new
  <2>3. RowsPart'
    BY <1>1, <1>5, <2>1, <2>2 DEF RowsPart, Table, SaveCheck, new
  <2>4. q \in Request /\ q.step = "list" /\ q.op = "check"
    BY <1>3, <1>4, <2>2 DEF Request
  <2>5. InProgress(q)
    <3> HIDE DEF q
    <3> QED BY <1>4, <2>4 DEF InProgress
  <2>6. req' = [req EXCEPT ![r] = q]
    BY <2>1 DEF new
  <2>7. UNCHANGED <<connected, lock>>
    BY <1>5 DEF SaveCheck
  <2> HIDE DEF q
  <2> QED BY <2>3, <2>4, <2>5, <2>6, <2>7, MoveKeeps
<1>6. CASE ListServers(r)
  <2> DEFINE ctx == [i \in Servers |->
                       IF Exists(i) /\ req[r].loaded[i] # Absent THEN req[r].loaded[i]
                       ELSE rows[i]]
             q == [req[r] EXCEPT !.step = "publish", !.loaded = ctx,
                                 !.seen = connected[req[r].ses]]
  <2>1. ctx \in Table
    BY <1>1, <1>3 DEF RowsPart, Table
  <2>2. connected[req[r].ses] \in SUBSET Servers
    BY <1>1, <1>3 DEF SessionsPart
  <2>3. req' = [req EXCEPT ![r] = q] /\ UNCHANGED <<rows, issued, connected, lock>>
    BY <1>6 DEF ListServers
  <2> HIDE DEF ctx
  <2>4. q \in Request /\ q.step = "publish" /\ q.op = "check"
    BY <1>3, <1>4, <2>1, <2>2 DEF Request
  <2> HIDE DEF q
  <2>5. InProgress(q)
    BY <1>4, <2>4 DEF InProgress
  <2>6. RowsPart'
    BY <1>1, <2>3 DEF RowsPart
  <2> QED BY <2>3, <2>4, <2>5, <2>6, MoveKeeps
<1>7. CASE Publish(r)
  <2>1. PICK set \in SUBSET Servers : connected' = [connected EXCEPT ![req[r].ses] = set]
    BY <1>3, <1>7 DEF Publish, Tried
  <2>2. req' = [req EXCEPT ![r] = Idle] /\ UNCHANGED <<rows, issued, lock>>
    BY <1>7 DEF Publish, End
  <2>3. RequestsPart'
    BY <1>1, <2>2, RequestMoves
  <2>4. RowsPart' /\ SessionsPart'
    BY <1>1, <1>3, <2>1, <2>2 DEF RowsPart, SessionsPart
  <2>5. LockHeld'
    <3> SUFFICES ASSUME NEW t \in Requests, At(t, "leave")'
                 PROVE  lock'[req'[t].ses] = t
      BY <1>4 DEF LockHeld
    <3> QED BY <1>1, <2>2 DEF LockHeld, At, RequestsPart
  <2> QED BY <2>3, <2>4, <2>5, PartsNext
<1> QED BY <1>5, <1>6, <1>7

LEMMA DeleteKeeps ==
  ASSUME IInv, NEW i \in Servers, DeleteServer(i)
  PROVE  IInv'
<1>1. RowsPart /\ SessionsPart /\ RequestsPart /\ LockHeld
  BY Parts
<1>2. RowsPart' /\ SessionsPart' /\ RequestsPart' /\ LockHeld'
  BY <1>1 DEF DeleteServer, RowsPart, SessionsPart, RequestsPart, LockHeld, At, Table
<1> QED BY <1>2, PartsNext

-------------------------------------------------------------------------------
(* The theorems                                                              *)

LEMMA InitOK == Init => IInv
<1> SUFFICES ASSUME Init PROVE IInv
  OBVIOUS
<1>1. RowsPart /\ SessionsPart /\ RequestsPart /\ LockHeld
  BY DEF Init, RowsPart, SessionsPart, RequestsPart, LockHeld, At, Table
<1> QED BY <1>1, Parts

LEMMA StepKeeps == IInv /\ [Next]_vars => IInv'
<1> SUFFICES ASSUME IInv, [Next]_vars PROVE IInv'
  OBVIOUS
<1>1. ASSUME NEW r \in Requests, Arrival(r) PROVE IInv'
  BY <1>1, ArrivalKeeps
<1>2. ASSUME NEW r \in Requests, HandlerStep(r) PROVE IInv'
  BY <1>2, SavesKeep, EndsKeep, EnterKeeps, LeaveKeeps, CheckKeeps DEF HandlerStep
<1>3. ASSUME NEW i \in Servers, DeleteServer(i) PROVE IInv'
  BY <1>3, DeleteKeeps
<1>4. CASE UNCHANGED vars
  <2>1. RowsPart /\ SessionsPart /\ RequestsPart /\ LockHeld
    BY Parts
  <2>2. RowsPart' /\ SessionsPart' /\ RequestsPart' /\ LockHeld'
    BY <1>4, <2>1 DEF vars, RowsPart, SessionsPart, RequestsPart, LockHeld, At
  <2> QED BY <2>2, PartsNext
<1> QED BY <1>1, <1>2, <1>3, <1>4 DEF Next

\* Each thread of the server pages works on a row it has loaded, and is alone in
\* the session's lock between reading and writing the session's set.
THEOREM RegistryInvariance == Spec => []IInv
BY InitOK, StepKeeps, PTL DEF Spec

\* Rows, sets, locks and requests keep their types in every interleaving.
THEOREM RegistryTypeCorrect == Spec => []TypeOK
<1>1. IInv => TypeOK
  BY DEF IInv
<1> QED BY <1>1, RegistryInvariance, PTL

\* Every action writes rows that exist, or a row with an id not issued before.
LEMMA StepKeepsRemoved == IInv /\ [Next]_vars => StaysRemoved
<1> SUFFICES ASSUME IInv, [Next]_vars, NEW i \in issued, ~Exists(i)
             PROVE  rows'[i] = Absent
  BY DEF StaysRemoved
<1>1. rows \in Table /\ i \in Servers /\ rows[i] = Absent /\ RequestsPart
  BY Parts DEF RowsPart, Exists
<1>2. CASE rows' = rows
  BY <1>1, <1>2
<1>3. ASSUME NEW j \in Servers, NEW row, rows' = [rows EXCEPT ![j] = row], j # i
      PROVE  rows'[i] = Absent
  BY <1>1, <1>3 DEF Table
<1>4. ASSUME NEW j \in Servers, NEW old, NEW new, Flush(old, new, j)
      PROVE  rows'[i] = Absent
  BY <1>2, <1>3, <1>4 DEF Flush
<1>5. ASSUME NEW r \in Requests, Arrival(r) PROVE rows'[i] = Absent
  <2>1. rows' = rows \/ \E j \in Servers \ issued, row \in NewRows :
                         rows' = [rows EXCEPT ![j] = row]
    BY <1>5 DEF Arrival, StartCheck, CreateServer, StartEdit, StartReconnect,
                StartDisconnect, StartShutdown, StartMetrics, Begin
  <2> QED BY <1>2, <1>3, <2>1
<1>6. ASSUME NEW r \in Requests, HandlerStep(r) PROVE rows'[i] = Absent
  <2>1. ASSUME NEW new, Save(r, new) \/ SaveDirty(r, new), req[r] # Idle,
               req[r].op # "check"
        PROVE  rows'[i] = Absent
    <3>1. req[r].id \in Servers
      BY <1>1, <2>1, BusyCopy
    <3> QED BY <1>3, <1>4, <2>1, <3>1 DEF Save, SaveDirty
  <2>2. CASE SaveEdit(r) \/ SaveReconnect(r) \/ SaveDisconnect(r) \/ SaveShutdown(r)
    <3>1. req[r] # Idle /\ req[r].op # "check"
      BY <2>2 DEF SaveEdit, SaveReconnect, SaveDisconnect, SaveShutdown, Saves, At
    <3>2. \E new : Save(r, new) \/ SaveDirty(r, new)
      BY <2>2 DEF SaveEdit, SaveReconnect, SaveDisconnect, SaveShutdown
    <3> QED BY <2>1, <3>1, <3>2
  <2>3. CASE SaveMetrics(r)
    <3>1. req[r].id \in Servers
      BY <1>1, <2>3, BusyCopy DEF SaveMetrics, Saves, At
    <3> QED BY <1>2, <1>3, <2>3, <3>1 DEF SaveMetrics
  <2>4. CASE SaveCheck(r)
    BY <1>1, <2>4 DEF SaveCheck, Exists
  <2>5. CASE Enter(r) \/ Leave(r) \/ ListServers(r) \/ Publish(r) \/ Fails(r)
    BY <1>2, <2>5 DEF Enter, Leave, ListServers, Publish, Fails
  <2> QED BY <1>6, <2>2, <2>3, <2>4, <2>5 DEF HandlerStep
<1>7. ASSUME NEW j \in Servers, DeleteServer(j) PROVE rows'[i] = Absent
  BY <1>1, <1>7 DEF DeleteServer, Table
<1>8. CASE UNCHANGED vars
  BY <1>2, <1>8 DEF vars
<1> QED BY <1>5, <1>6, <1>7, <1>8 DEF Next

\* A removed server never returns, whatever handlers hold a copy of its row,
\* the status check and the edit included.
THEOREM RemovedServersStayRemoved == Spec => NoResurrection
<1>1. IInv /\ [Next]_vars => [StaysRemoved]_vars
  BY StepKeepsRemoved
<1> QED BY <1>1, RegistryInvariance, PTL DEF Spec, NoResurrection

\* The only way out of the lock is Leave, which writes what it read, changed
\* for its own server.
LEMMA StepKeepsOthers ==
  ASSUME "check" \notin Handlers
  PROVE  IInv /\ [Next]_vars => OthersKept
<1> SUFFICES ASSUME IInv, [Next]_vars, NEW r \in Requests, At(r, "leave"), req'[r] = Idle,
                    NEW i \in Servers \ {req[r].id}
             PROVE  i \in connected[req[r].ses] <=> i \in connected'[req[r].ses]
  BY DEF OthersKept
<1>1. SessionsPart /\ RequestsPart /\ LockHeld
  BY Parts
<1>2. req[r] # Idle /\ req[r].step = "leave" /\ req[r].ses \in Sessions
  BY <1>1, BusyThread DEF At
<1>3. ASSUME NEW t \in Requests, NEW q, req' = [req EXCEPT ![t] = q] PROVE t = r
  BY <1>1, <1>2, <1>3 DEF RequestsPart
<1>4. Leave(r)
  <2>1. ASSUME NEW t \in Requests, Arrival(t) PROVE FALSE
    <3>1. req[t] = Idle /\ \E q : req' = [req EXCEPT ![t] = q]
      BY <2>1 DEF Arrival, StartCheck, CreateServer, StartEdit, StartReconnect,
                  StartDisconnect, StartShutdown, StartMetrics, Begin, Serve
    <3> QED BY <1>2, <1>3, <3>1
  <2>2. ASSUME NEW t \in Requests, HandlerStep(t) PROVE Leave(r)
    <3>1. \E q : req' = [req EXCEPT ![t] = q]
      BY <2>2 DEF HandlerStep, SaveEdit, SaveReconnect, SaveDisconnect, SaveShutdown,
                  SaveMetrics, Enter, Leave, SaveCheck, ListServers, Publish, Fails,
                  Save, SaveDirty, End
    <3>2. t = r
      BY <1>3, <3>1
    <3> QED BY <1>2, <2>2, <3>2
            DEF HandlerStep, SaveEdit, SaveReconnect, SaveDisconnect, SaveShutdown,
                SaveMetrics, Enter, SaveCheck, ListServers, Publish, Fails, Saves, At
  <2>3. ASSUME NEW j \in Servers, DeleteServer(j) PROVE FALSE
    BY <1>2, <2>3 DEF DeleteServer
  <2>4. ~UNCHANGED vars
    BY <1>2 DEF vars
  <2> QED BY <2>1, <2>2, <2>3, <2>4 DEF Next
<1>5. PICK set \in SetsAfter(r) : connected' = [connected EXCEPT ![req[r].ses] = set]
  BY <1>4 DEF Leave
<1>6. connected'[req[r].ses] = set
  BY <1>1, <1>2, <1>5 DEF SessionsPart
<1>7. i \in set <=> i \in req[r].seen
  BY <1>1, <1>5, SetsAfterDiffer
<1>8. req[r].seen = connected[req[r].ses]
  BY <1>1 DEF LockHeld
<1> QED BY <1>6, <1>7, <1>8

\* Where the status check is not served, the lock does its work: a handler
\* changes only its own server's place in the set, however many run at once.
THEOREM LockKeepsUpdates ==
  ASSUME "check" \notin Handlers
  PROVE  Spec => LockedUpdatesKept
<1>1. IInv /\ [Next]_vars => [OthersKept]_vars
  BY StepKeepsOthers
<1> QED BY <1>1, RegistryInvariance, PTL DEF Spec, LockedUpdatesKept

-------------------------------------------------------------------------------
(***************************************************************************)
(* One admin with one session who waits for each answer: whoever is in the *)
(* session's set is not disabled, and what is shown of a server moves      *)
(* along the edges of ServerConnection.                                    *)
(*                                                                         *)
(* The inductive invariant is AdminIInv.  It says that what the request    *)
(* has loaded is still what the table holds (Known), and that a disabled   *)
(* server is in the set only while the request that disabled it has yet to *)
(* take it out (Leaving).  Servers may be removed at any time.             *)
(***************************************************************************)

\* The assumptions: with two sessions, or two requests at once, neither holds.
OneSession == \A s, t \in Sessions : s = t
OneRequest == \A r, t \in Requests : req[r] # Idle /\ req[t] # Idle => r = t

\* A request that will take a server out of the set unless its row says ONLINE.
Leaving(q, i) ==
  i = q.id /\ q.op \in {"disconnect", "edit"} /\ q.step \in {"enter", "leave"}

\* What a request knows of the table, the session's set and the ids.
Known(q, tab, set, ids) ==
  /\ \A i \in Servers : q.loaded[i] # Absent => i \in ids
  /\ \A i \in Servers : q.loaded[i] # Absent /\ tab[i] # Absent => q.loaded[i] = tab[i]
  /\ q.step = "publish" => \A i \in Servers : tab[i] # Absent => q.loaded[i] # Absent
  /\ q.step \in {"leave", "publish"} => q.seen = set
  /\ q.op = "create" => q.step # "save"
  /\ q.op \in {"create", "reconnect"} /\ q.step \in {"enter", "leave"} =>
       q.loaded[q.id].status # "DISABLED"

AdminIInv ==
  /\ IInv
  /\ \A i \in Servers : rows[i] # Absent => i \in issued
  /\ \A s \in Sessions : connected[s] \subseteq issued
  /\ \A r \in Requests : req[r] # Idle => Known(req[r], rows, connected[req[r].ses], issued)
  /\ \A s \in Sessions, i \in Servers :
       i \in connected[s] /\ rows[i] # Absent /\ rows[i].status = "DISABLED" =>
         \E r \in Requests : req[r] # Idle /\ Leaving(req[r], i)

\* What a step other than an upload of a server does: it brings no row into the
\* table and no disabled server into the set.
OnlyGoes == issued' = issued /\ \A i \in Servers : rows'[i] # Absent => rows[i] # Absent

NoneBack ==
  \A s \in Sessions, i \in Servers :
    i \in connected'[s] /\ rows[i] # Absent /\ rows[i].status = "DISABLED" => i \in connected[s]

StepOK == AdminIInv' /\ OnlyGoes /\ NoneBack

-------------------------------------------------------------------------------
(* The one request there is                                                  *)

LEMMA Working ==
  ASSUME AdminIInv, NEW r \in Requests, req[r] # Idle
  PROVE  /\ req[r] \in Request /\ req[r].ses \in Sessions /\ req[r].loaded \in Table
         /\ InProgress(req[r]) /\ Known(req[r], rows, connected[req[r].ses], issued)
         /\ rows \in Table /\ connected \in [Sessions -> SUBSET Servers]
         /\ connected[req[r].ses] \subseteq issued
BY Parts, BusyThread DEF AdminIInv, RowsPart, SessionsPart

LEMMA NewState ==
  ASSUME AdminIInv, NEW r \in Requests, NEW q1, req' = [req EXCEPT ![r] = q1]
  PROVE  \A t \in Requests : req'[t] = IF t = r THEN q1 ELSE req[t]
BY DEF AdminIInv, IInv, TypeOK

\* A disabled server in the set is the one that the request takes out.
LEMMA StillLeaving ==
  ASSUME AdminIInv, OneRequest, NEW r \in Requests, req[r] # Idle,
         NEW s \in Sessions, NEW i \in connected[s],
         rows[i] # Absent, rows[i].status = "DISABLED"
  PROVE  i \in Servers /\ Leaving(req[r], i)
<1>1. i \in Servers
  BY Working
<1>2. PICK t \in Requests : req[t] # Idle /\ Leaving(req[t], i)
  BY <1>1 DEF AdminIInv
<1>3. t = r
  BY <1>2 DEF OneRequest
<1> QED
  BY <1>1, <1>2, <1>3

\* What has to be shown of a step of the one request.
LEMMA AloneKeeps ==
  ASSUME AdminIInv, OneRequest, IInv', NEW r \in Requests, req[r] # Idle,
         NEW q1, req' = [req EXCEPT ![r] = q1], UNCHANGED issued,
         \A i \in Servers : rows'[i] # Absent => rows[i] # Absent,
         \A s \in Sessions : connected'[s] \subseteq issued,
         NoneBack,
         q1 # Idle => Known(q1, rows', connected'[q1.ses], issued),
         \A s \in Sessions, i \in Servers :
           i \in connected'[s] /\ rows'[i] # Absent /\ rows'[i].status = "DISABLED" =>
             q1 # Idle /\ Leaving(q1, i)
  PROVE  StepOK
<1>1. \A t \in Requests : req'[t] = IF t = r THEN q1 ELSE req[t]
  BY NewState
<1>2. \A t \in Requests : t # r => req[t] = Idle
  BY DEF OneRequest
<1>3. /\ \A i \in Servers : rows'[i] # Absent => i \in issued'
      /\ \A s \in Sessions : connected'[s] \subseteq issued'
  BY DEF AdminIInv
<1>4. \A t \in Requests : req'[t] # Idle => Known(req'[t], rows', connected'[req'[t].ses], issued')
  BY <1>1, <1>2
<1>5. \A s \in Sessions, i \in Servers :
        i \in connected'[s] /\ rows'[i] # Absent /\ rows'[i].status = "DISABLED" =>
          \E t \in Requests : req'[t] # Idle /\ Leaving(req'[t], i)
  BY <1>1
<1> QED
  BY <1>3, <1>4, <1>5 DEF AdminIInv, StepOK, OnlyGoes

-------------------------------------------------------------------------------
(* One lemma per kind of step                                                *)

\* The row is saved; the set comes next.
LEMMA SavedKeeps ==
  ASSUME AdminIInv, OneRequest, IInv', NEW r \in Requests, req[r] # Idle,
         req[r].step = "save", req[r].op \in {"edit", "reconnect", "shutdown", "disconnect"},
         NEW new \in Row, Save(r, new) \/ SaveDirty(r, new),
         req[r].op \in {"reconnect", "shutdown"} => new.status # "DISABLED"
  PROVE  StepOK
<1> DEFINE q == req[r]
           q1 == [q EXCEPT !.step = "enter", !.loaded = OneRow(q.id, new)]
<1>1. /\ q \in Request /\ q.ses \in Sessions /\ q.loaded \in Table /\ InProgress(q)
      /\ Known(q, rows, connected[q.ses], issued) /\ rows \in Table
  BY Working
<1>2. q.id \in Servers /\ q.loaded[q.id] # Absent /\ q.id \in issued
  BY <1>1 DEF InProgress, Known
<1>3. req' = [req EXCEPT ![r] = q1] /\ UNCHANGED <<issued, connected>>
  BY DEF Save, SaveDirty
<1>4. OneRow(q.id, new) \in Table
  BY <1>2, OneRowTyped
<1>5. /\ q1 \in Request /\ q1.op = q.op /\ q1.ses = q.ses /\ q1.id = q.id
      /\ q1.step = "enter" /\ q1.loaded = OneRow(q.id, new)
  BY <1>1, <1>4 DEF Request
<1> HIDE DEF q1
<1>6. q1 # Idle
  BY <1>5, ConstantsAssumption
<1>7. \A i \in Servers : rows'[i] = IF i = q.id /\ rows[i] # Absent THEN new ELSE rows[i]
  BY <1>1, <1>2 DEF Save, SaveDirty, Flush, Copy, Exists, Known, Table
<1>8. \A i \in Servers : q1.loaded[i] = IF i = q.id THEN new ELSE Absent
  BY <1>5 DEF OneRow
<1>9. Known(q1, rows', connected'[q1.ses], issued)
  BY <1>2, <1>5, <1>7, <1>8, <1>1 DEF Known
<1>10. ASSUME NEW s \in Sessions, NEW i \in Servers, i \in connected'[s],
              rows'[i] # Absent, rows'[i].status = "DISABLED"
       PROVE  Leaving(q1, i)
  <2>1. CASE i = q.id
    BY <1>5, <1>7, <1>10, <2>1 DEF Leaving
  <2>2. CASE i # q.id
    <3>1. Leaving(q, i)
      BY <1>3, <1>7, <1>10, <2>2, StillLeaving
    <3> QED
      BY <2>2, <3>1 DEF Leaving
  <2> QED
    BY <2>1, <2>2
<1>11. \A i \in Servers : rows'[i] # Absent => rows[i] # Absent
  BY <1>7
<1>12. NoneBack /\ \A s \in Sessions : connected'[s] \subseteq issued
  BY <1>3 DEF NoneBack, AdminIInv
<1> QED
  BY <1>3, <1>6, <1>9, <1>10, <1>11, <1>12, AloneKeeps

LEMMA SavesKeepSerial ==
  ASSUME AdminIInv, OneRequest, IInv', NEW r \in Requests,
         SaveEdit(r) \/ SaveReconnect(r) \/ SaveDisconnect(r) \/ SaveShutdown(r)
  PROVE  StepOK
<1>1. /\ req[r] # Idle /\ req[r].step = "save"
      /\ req[r].op \in {"edit", "reconnect", "shutdown", "disconnect"}
  BY DEF SaveEdit, SaveReconnect, SaveDisconnect, SaveShutdown, Saves, At
<1>2. Copy(r) \in Row
  BY <1>1, Parts, BusyCopy DEF AdminIInv
<1>3. CASE SaveEdit(r)
  <2>1. req[r].op = "edit" /\ req[r].form \in Form
    BY <1>1, <1>3, Working DEF SaveEdit, Saves, InProgress, Request
  <2>2. \A verified \in BOOLEAN : Edited(Copy(r), req[r].form, verified) \in Row
    BY <1>2, <2>1 DEF Edited, KeyAfter, Form, Row, Statuses
  <2>3. PICK with \in {"nothing", "key", "password"} :
          \/ Save(r, Edited(Copy(r), req[r].form, with # "nothing"))
          \/ SaveDirty(r, Edited(Copy(r), req[r].form, with # "nothing"))
    BY <1>3 DEF SaveEdit
  <2>4. Edited(Copy(r), req[r].form, with # "nothing") \in Row
    BY <2>2
  <2> QED
    BY <1>1, <2>1, <2>3, <2>4, SavedKeeps
<1>4. CASE SaveReconnect(r)
  <2>1. PICK key \in BOOLEAN :
          \/ Save(r, [Copy(r) EXCEPT !.status = "ONLINE"])
          \/ SaveDirty(r, [Copy(r) EXCEPT !.status = "ONLINE", !.key = @ \/ key])
    BY <1>4 DEF SaveReconnect
  <2>2. /\ [Copy(r) EXCEPT !.status = "ONLINE"] \in Row
        /\ [Copy(r) EXCEPT !.status = "ONLINE", !.key = @ \/ key] \in Row
    BY <1>2 DEF Row, Statuses
  <2>3. /\ [Copy(r) EXCEPT !.status = "ONLINE"].status # "DISABLED"
        /\ [Copy(r) EXCEPT !.status = "ONLINE", !.key = @ \/ key].status # "DISABLED"
    BY <1>2 DEF Row
  <2> QED
    BY <1>1, <2>1, <2>2, <2>3, SavedKeeps
<1>5. CASE SaveDisconnect(r)
  <2>1. [Copy(r) EXCEPT !.status = "DISABLED"] \in Row /\ req[r].op = "disconnect"
    BY <1>2, <1>5 DEF Row, Statuses, SaveDisconnect, Saves
  <2> QED
    BY <1>1, <1>5, <2>1, SavedKeeps DEF SaveDisconnect
<1>6. CASE SaveShutdown(r)
  <2>1. /\ [Copy(r) EXCEPT !.status = "OFFLINE"] \in Row
        /\ [Copy(r) EXCEPT !.status = "OFFLINE"].status # "DISABLED"
    BY <1>2 DEF Row, Statuses
  <2> QED
    BY <1>1, <1>6, <2>1, SavedKeeps DEF SaveShutdown
<1> QED
  BY <1>3, <1>4, <1>5, <1>6

\* A handler ends without having anything to tell the session's set.
LEMMA EndsKeepSerial ==
  ASSUME AdminIInv, OneRequest, IInv', NEW r \in Requests, SaveMetrics(r) \/ Fails(r)
  PROVE  StepOK
<1> DEFINE q == req[r]
<1>1. /\ q # Idle /\ q.step = "save" /\ req' = [req EXCEPT ![r] = Idle]
      /\ UNCHANGED <<issued, connected>>
  BY DEF SaveMetrics, Fails, Saves, At, End
<1>2. /\ InProgress(q) /\ Known(q, rows, connected[q.ses], issued) /\ rows \in Table
  BY <1>1, Working
<1>3. \A i \in Servers : rows'[i] = rows[i]
  BY <1>2 DEF SaveMetrics, Fails, Saves, InProgress, Known, Exists, Copy, Table
<1>4. \A s \in Sessions, i \in Servers :
        i \in connected'[s] /\ rows'[i] # Absent => rows'[i].status # "DISABLED"
  BY <1>1, <1>3, StillLeaving DEF Leaving
<1>5. NoneBack /\ \A s \in Sessions : connected'[s] \subseteq issued
  BY <1>1 DEF NoneBack, AdminIInv
<1> QED
  BY <1>1, <1>3, <1>4, <1>5, AloneKeeps

\* The lock is taken and the set is read.
LEMMA EnterKeepsSerial ==
  ASSUME AdminIInv, OneRequest, IInv', NEW r \in Requests, Enter(r)
  PROVE  StepOK
<1> DEFINE q == req[r]
           q1 == [q EXCEPT !.step = "leave", !.seen = connected[q.ses]]
<1>1. /\ q # Idle /\ q.step = "enter" /\ req' = [req EXCEPT ![r] = q1]
      /\ UNCHANGED <<rows, issued, connected>>
  BY DEF Enter, At
<1>2. /\ q \in Request /\ q.ses \in Sessions /\ Known(q, rows, connected[q.ses], issued)
      /\ connected \in [Sessions -> SUBSET Servers]
  BY <1>1, Working
<1>3. /\ q1 \in Request /\ q1.op = q.op /\ q1.ses = q.ses /\ q1.id = q.id
      /\ q1.step = "leave" /\ q1.loaded = q.loaded /\ q1.seen = connected[q.ses]
  BY <1>2 DEF Request
<1> HIDE DEF q1
<1>4. q1 # Idle
  BY <1>3, ConstantsAssumption
<1>5. Known(q1, rows', connected'[q1.ses], issued)
  BY <1>1, <1>2, <1>3 DEF Known
<1>6. \A s \in Sessions, i \in Servers :
        i \in connected'[s] /\ rows'[i] # Absent /\ rows'[i].status = "DISABLED" => Leaving(q1, i)
  BY <1>1, <1>3, StillLeaving DEF Leaving
<1>7. NoneBack /\ \A s \in Sessions : connected'[s] \subseteq issued
  BY <1>1 DEF NoneBack, AdminIInv
<1> QED
  BY <1>1, <1>4, <1>5, <1>6, <1>7, AloneKeeps

\* The set is written, changed for the request's own server.
LEMMA LeaveKeepsSerial ==
  ASSUME AdminIInv, OneRequest, OneSession, IInv', NEW r \in Requests, Leave(r)
  PROVE  StepOK
<1> DEFINE q == req[r]
<1>1. /\ q # Idle /\ q.step = "leave" /\ req' = [req EXCEPT ![r] = Idle]
      /\ UNCHANGED <<rows, issued>>
  BY DEF Leave, At, End
<1>2. /\ q \in Request /\ q.ses \in Sessions /\ Known(q, rows, connected[q.ses], issued)
      /\ InProgress(q) /\ connected \in [Sessions -> SUBSET Servers]
      /\ connected[q.ses] \subseteq issued
  BY <1>1, Working
<1>3. q.op # "check" /\ q.id \in Servers /\ q.loaded[q.id] # Absent /\ q.id \in issued
      /\ q.seen = connected[q.ses]
  BY <1>1, <1>2 DEF InProgress, Known
<1>4. PICK set \in SetsAfter(r) : connected' = [connected EXCEPT ![q.ses] = set]
  BY DEF Leave
<1>5. \A s \in Sessions : s = q.ses /\ connected'[s] = set
  BY <1>2, <1>4 DEF OneSession
<1>6. /\ \A i \in set : i \in q.seen \/ (i = q.id /\ q.op \in {"create", "reconnect"})
      /\ q.op \in {"edit", "disconnect"} /\ q.id \in set =>
           q.op = "edit" /\ Copy(r).status = "ONLINE"
  BY <1>3, <1>4 DEF SetsAfter
<1>7. rows[q.id] # Absent => Copy(r) = rows[q.id]
  BY <1>2, <1>3 DEF Known, Copy
<1>8. ASSUME NEW i \in set, rows[i] # Absent, rows[i].status = "DISABLED"
      PROVE  i \in q.seen /\ i # q.id
  <2>1. CASE q.op \in {"create", "reconnect"}
    <3>1. i # q.id
      BY <1>1, <1>2, <1>7, <1>8, <2>1 DEF Known, Copy
    <3> QED
      BY <1>6, <3>1
  <2>2. CASE q.op \notin {"create", "reconnect"}
    <3>1. i \in connected[q.ses]
      BY <1>3, <1>6, <2>2
    <3>2. Leaving(q, i)
      BY <1>1, <1>2, <1>8, <3>1, StillLeaving
    <3>3. q.op = "edit" /\ Copy(r).status = "ONLINE" /\ i = q.id
      BY <1>6, <3>2 DEF Leaving
    <3> QED
      BY <1>7, <1>8, <3>3
  <2> QED
    BY <2>1, <2>2
<1>9. \A i \in set : rows[i] # Absent => rows[i].status # "DISABLED"
  <2> SUFFICES ASSUME NEW i \in set, rows[i] # Absent, rows[i].status = "DISABLED" PROVE FALSE
    OBVIOUS
  <2>1. i \in connected[q.ses] /\ i # q.id
    BY <1>3, <1>8
  <2> QED
    BY <1>1, <1>2, <2>1, StillLeaving DEF Leaving
<1>10. NoneBack
  BY <1>5, <1>9 DEF NoneBack
<1>11. \A s \in Sessions : connected'[s] \subseteq issued
  BY <1>2, <1>3, <1>5, <1>6
<1> QED
  BY <1>1, <1>5, <1>9, <1>10, <1>11, AloneKeeps

\* The rows are pinged and saved; a disabled one stays as it is.
LEMMA SaveCheckKeeps ==
  ASSUME AdminIInv, OneRequest, IInv', NEW r \in Requests, SaveCheck(r)
  PROVE  StepOK
<1> DEFINE q == req[r]
<1>1. q # Idle /\ q.step = "save" /\ q.op = "check" /\ UNCHANGED <<issued, connected>>
  BY DEF SaveCheck, Saves, At
<1>2. /\ q \in Request /\ q.ses \in Sessions /\ Known(q, rows, connected[q.ses], issued)
      /\ q.loaded \in Table /\ rows \in Table
  BY <1>1, Working
<1>3. PICK up \in SUBSET {i \in Servers : q.loaded[i] # Absent} :
        LET new   == Pinged(q.loaded, up)
            dirty == {i \in Servers : q.loaded[i] # new[i]}
        IN /\ \A i \in dirty : Exists(i)
           /\ rows' = [i \in Servers |-> IF i \in dirty THEN new[i] ELSE rows[i]]
           /\ req' = [req EXCEPT ![r] = [@ EXCEPT !.step = "list", !.loaded = new]]
  BY DEF SaveCheck
<1> DEFINE new == Pinged(q.loaded, up)
           q1 == [q EXCEPT !.step = "list", !.loaded = new]
<1>4. req' = [req EXCEPT ![r] = q1]
  BY <1>3
<1>5. ASSUME NEW i \in Servers
      PROVE  /\ new[i] \in Row \cup {Absent}
             /\ new[i] = Absent <=> q.loaded[i] = Absent
             /\ new[i] # Absent /\ new[i].status = "DISABLED" => new[i] = q.loaded[i]
  <2>1. q.loaded[i] \in Row \cup {Absent}
    BY <1>2 DEF Table
  <2>2. new[i] = IF q.loaded[i] = Absent \/ q.loaded[i].status = "DISABLED" THEN q.loaded[i]
                 ELSE [q.loaded[i] EXCEPT !.status = IF i \in up THEN "ONLINE" ELSE "OFFLINE"]
    BY DEF Pinged
  <2>3. q.loaded[i] \in Row =>
          \A st \in {"ONLINE", "OFFLINE"} : /\ [q.loaded[i] EXCEPT !.status = st] \in Row
                                            /\ [q.loaded[i] EXCEPT !.status = st].status = st
    BY DEF Row, Statuses
  <2> HIDE DEF new
  <2> QED
    BY <2>1, <2>2, <2>3, ConstantsAssumption
<1>6. new \in Table
  <2>1. new = [i \in Servers |-> new[i]]
    BY DEF Pinged
  <2> HIDE DEF new
  <2> QED
    BY <1>5, <2>1 DEF Table
<1>7. \A i \in Servers : /\ q.loaded[i] # new[i] => rows[i] # Absent
                         /\ rows'[i] = IF q.loaded[i] # new[i] THEN new[i] ELSE rows[i]
  BY <1>3 DEF Exists
<1> HIDE DEF new
<1>8. /\ q1 \in Request /\ q1.op = "check" /\ q1.ses = q.ses /\ q1.step = "list"
      /\ q1.loaded = new
  BY <1>1, <1>2, <1>6 DEF Request
<1> HIDE DEF q1
<1>9. q1 # Idle
  BY <1>8, ConstantsAssumption
<1>10. Known(q1, rows', connected'[q1.ses], issued)
  BY <1>1, <1>2, <1>5, <1>7, <1>8 DEF Known
<1>11. ASSUME NEW s \in Sessions, NEW i \in Servers, i \in connected'[s],
              rows'[i] # Absent, rows'[i].status = "DISABLED"
       PROVE  FALSE
  <2>1. rows[i] # Absent /\ rows[i].status = "DISABLED"
    BY <1>5, <1>7, <1>11, <1>2 DEF Known
  <2> QED
    BY <1>1, <1>11, <2>1, StillLeaving DEF Leaving
<1>12. \A i \in Servers : rows'[i] # Absent => rows[i] # Absent
  BY <1>7
<1>13. NoneBack /\ \A s \in Sessions : connected'[s] \subseteq issued
  BY <1>1 DEF NoneBack, AdminIInv
<1> QED
  BY <1>1, <1>4, <1>9, <1>10, <1>11, <1>12, <1>13, AloneKeeps

LEMMA ListKeeps ==
  ASSUME AdminIInv, OneRequest, IInv', NEW r \in Requests, ListServers(r)
  PROVE  StepOK
<1> DEFINE q == req[r]
           ctx == [i \in Servers |-> IF Exists(i) /\ q.loaded[i] # Absent THEN q.loaded[i]
                                    ELSE rows[i]]
           q1 == [q EXCEPT !.step = "publish", !.loaded = ctx, !.seen = connected[q.ses]]
<1>1. /\ q # Idle /\ q.step = "list" /\ req' = [req EXCEPT ![r] = q1]
      /\ UNCHANGED <<rows, issued, connected>>
  BY DEF ListServers, At
<1>2. /\ q \in Request /\ q.ses \in Sessions /\ Known(q, rows, connected[q.ses], issued)
      /\ InProgress(q) /\ q.loaded \in Table /\ rows \in Table
      /\ connected \in [Sessions -> SUBSET Servers]
  BY <1>1, Working
<1>3. q.op = "check"
  BY <1>1, <1>2 DEF InProgress
<1>4. \A i \in Servers : ctx[i] = rows[i]
  BY <1>2 DEF Exists, Known
<1>5. ctx \in Table
  BY <1>2 DEF Table
<1> HIDE DEF ctx
<1>6. /\ q1 \in Request /\ q1.op = "check" /\ q1.ses = q.ses /\ q1.step = "publish"
      /\ q1.loaded = ctx /\ q1.seen = connected[q.ses]
  BY <1>2, <1>3, <1>5 DEF Request
<1> HIDE DEF q1
<1>7. q1 # Idle
  BY <1>6, ConstantsAssumption
<1>8. Known(q1, rows', connected'[q1.ses], issued)
  BY <1>1, <1>4, <1>6 DEF Known, AdminIInv
<1>9. \A s \in Sessions, i \in Servers :
        i \in connected'[s] /\ rows'[i] # Absent => rows'[i].status # "DISABLED"
  BY <1>1, StillLeaving DEF Leaving
<1>10. NoneBack /\ \A s \in Sessions : connected'[s] \subseteq issued
  BY <1>1 DEF NoneBack, AdminIInv
<1> QED
  BY <1>1, <1>7, <1>8, <1>9, <1>10, AloneKeeps

\* The set becomes what was kept and what answered: nothing disabled is in either.
LEMMA PublishKeeps ==
  ASSUME AdminIInv, OneRequest, OneSession, IInv', NEW r \in Requests, Publish(r)
  PROVE  StepOK
<1> DEFINE q == req[r]
           kept == {i \in q.seen : q.loaded[i] # Absent /\ q.loaded[i].status = "ONLINE"}
<1>1. /\ q # Idle /\ q.step = "publish" /\ req' = [req EXCEPT ![r] = Idle]
      /\ UNCHANGED <<rows, issued>>
  BY DEF Publish, At, End
<1>2. /\ q \in Request /\ q.ses \in Sessions /\ Known(q, rows, connected[q.ses], issued)
      /\ connected \in [Sessions -> SUBSET Servers] /\ q.seen = connected[q.ses]
  BY <1>1, Working DEF Known
<1>3. PICK answered \in SUBSET (Tried(r) \ kept) :
        connected' = [connected EXCEPT ![q.ses] = kept \cup answered]
  BY DEF Publish
<1>4. \A s \in Sessions : connected'[s] = kept \cup answered
  BY <1>2, <1>3 DEF OneSession
<1>5. ASSUME NEW i \in kept \cup answered
      PROVE  /\ i \in Servers /\ i \in issued
             /\ rows[i] # Absent => rows[i].status # "DISABLED"
  <2>1. i \in Servers /\ q.loaded[i] # Absent /\ q.loaded[i].status # "DISABLED"
    BY <1>2, <1>3, <1>5 DEF Tried
  <2> QED
    BY <1>2, <2>1 DEF Known
<1>6. NoneBack /\ \A s \in Sessions : connected'[s] \subseteq issued
  BY <1>4, <1>5 DEF NoneBack
<1>7. \A s \in Sessions, i \in Servers :
        i \in connected'[s] /\ rows'[i] # Absent => rows'[i].status # "DISABLED"
  BY <1>1, <1>4, <1>5
<1> QED
  BY <1>1, <1>6, <1>7, AloneKeeps

\* A server is removed, whatever the request knows of it.
LEMMA RemovalKeeps ==
  ASSUME AdminIInv, IInv', NEW j \in Servers, DeleteServer(j)
  PROVE  StepOK
<1>1. /\ UNCHANGED <<issued, connected, req>>
      /\ \A i \in Servers : rows'[i] = IF i = j THEN Absent ELSE rows[i]
  BY DEF DeleteServer, AdminIInv, IInv, TypeOK, Table
<1>2. \A r \in Requests : req'[r] # Idle => Known(req'[r], rows', connected'[req'[r].ses], issued')
  BY <1>1 DEF AdminIInv, Known
<1>3. \A s \in Sessions, i \in Servers :
        i \in connected'[s] /\ rows'[i] # Absent /\ rows'[i].status = "DISABLED" =>
          \E r \in Requests : req'[r] # Idle /\ Leaving(req'[r], i)
  BY <1>1 DEF AdminIInv
<1>4. /\ \A i \in Servers : rows'[i] # Absent => i \in issued'
      /\ \A s \in Sessions : connected'[s] \subseteq issued'
  BY <1>1 DEF AdminIInv
<1> QED
  BY <1>1, <1>2, <1>3, <1>4 DEF AdminIInv, StepOK, OnlyGoes, NoneBack

\* A request is served: nothing else was under way.
LEMMA StartKeeps ==
  ASSUME AdminIInv, OneRequest', IInv', NEW r \in Requests, req[r] = Idle,
         NEW q1, q1 \in Request, req' = [req EXCEPT ![r] = q1], q1.step \in {"save", "enter"},
         UNCHANGED connected, issued \subseteq issued',
         \A i \in Servers : rows'[i] # Absent => i \in issued',
         Known(q1, rows', connected'[q1.ses], issued'),
         \A s \in Sessions : \A i \in connected[s] : rows'[i] = rows[i]
  PROVE  AdminIInv'
<1>1. \A t \in Requests : req'[t] = IF t = r THEN q1 ELSE req[t]
  <2>1. DOMAIN req = Requests
    BY DEF AdminIInv, IInv, TypeOK
  <2> QED
    BY <2>1
<1>2. q1 # Idle
  BY ConstantsAssumption
<1>3. \A t \in Requests : t # r => req'[t] = Idle
  <2>1. req'[r] = q1
    BY <1>1
  <2> QED
    BY <1>2, <2>1 DEF OneRequest
<1>4. \A t \in Requests : req[t] = Idle
  BY <1>1, <1>3
<1>5. \A s \in Sessions, i \in Servers :
        i \in connected'[s] /\ rows'[i] # Absent => rows'[i].status # "DISABLED"
  BY <1>4 DEF AdminIInv
<1>6. \A s \in Sessions : connected'[s] \subseteq issued'
  BY DEF AdminIInv
<1>7. \A t \in Requests : req'[t] # Idle => Known(req'[t], rows', connected'[req'[t].ses], issued')
  BY <1>1, <1>3
<1> QED
  BY <1>5, <1>6, <1>7 DEF AdminIInv

\* A request starts on a server there is, or on all of them.
LEMMA BeginKeepsSerial ==
  ASSUME AdminIInv, OneRequest', IInv', NEW r \in Requests, NEW s \in Sessions,
         NEW op \in Ops \ {"create"}, NEW i \in Servers \cup {None},
         NEW form \in Form \cup {None}, NEW ctx \in Table,
         \A j \in Servers : ctx[j] \in {rows[j], Absent},
         Serve(r, op, "save", s, i, form, ctx), UNCHANGED <<rows, issued, connected>>
  PROVE  StepOK
<1> DEFINE q1 == [op |-> op, step |-> "save", ses |-> s, id |-> i,
                  loaded |-> ctx, seen |-> {}, form |-> form]
<1>1. req[r] = Idle /\ req' = [req EXCEPT ![r] = q1]
  BY DEF Serve
<1>2. /\ q1 \in Request /\ q1.op = op /\ q1.step = "save" /\ q1.loaded = ctx
  BY DEF Request
<1> HIDE DEF q1
<1>3. Known(q1, rows', connected'[q1.ses], issued')
  BY <1>2 DEF Known, AdminIInv
<1>4. AdminIInv'
  BY <1>1, <1>2, <1>3, StartKeeps DEF AdminIInv
<1> QED
  BY <1>4 DEF StepOK, OnlyGoes, NoneBack

LEMMA StartsKeepSerial ==
  ASSUME AdminIInv, OneRequest', IInv', NEW r \in Requests, NEW s \in Sessions,
         \/ StartCheck(r, s)
         \/ \E i \in Servers :
              \/ \E form \in Form : StartEdit(r, s, i, form)
              \/ StartReconnect(r, s, i) \/ StartDisconnect(r, s, i)
              \/ StartShutdown(r, s, i) \/ StartMetrics(r, s, i)
  PROVE  StepOK
<1>1. rows \in Table
  BY DEF AdminIInv, IInv, TypeOK
<1>2. CASE StartCheck(r, s)
  BY <1>1, <1>2, BeginKeepsSerial DEF StartCheck, Ops
<1>3. ASSUME NEW i \in Servers, NEW op \in Ops \ {"create"}, NEW form \in Form \cup {None},
             Begin(r, op, s, i, form)
      PROVE  StepOK
  <2>1. rows[i] \in Row
    BY <1>1, <1>3 DEF Begin, Exists, Table
  <2>2. OneRow(i, rows[i]) \in Table /\ \A j \in Servers : OneRow(i, rows[i])[j] \in {rows[j], Absent}
    BY <2>1, OneRowTyped DEF OneRow
  <2> QED
    BY <1>3, <2>2, BeginKeepsSerial DEF Begin
<1>4. ASSUME NEW i \in Servers, NEW form \in Form, StartEdit(r, s, i, form) PROVE StepOK
  BY <1>3, <1>4 DEF StartEdit, Ops
<1>5. ASSUME NEW i \in Servers,
             \/ StartReconnect(r, s, i) \/ StartDisconnect(r, s, i)
             \/ StartShutdown(r, s, i) \/ StartMetrics(r, s, i)
      PROVE  StepOK
  BY <1>3, <1>5 DEF StartReconnect, StartDisconnect, StartShutdown, StartMetrics, Ops
<1> QED
  BY <1>2, <1>4, <1>5

\* A new server has an id that is in no set.
LEMMA UploadKeeps ==
  ASSUME AdminIInv, OneRequest', IInv', NEW r \in Requests, NEW s \in Sessions,
         NEW i \in Servers, NEW row \in NewRows, CreateServer(r, s, i, row)
  PROVE  AdminIInv'
<1> DEFINE q1 == [op |-> "create", step |-> "enter", ses |-> s, id |-> i,
                  loaded |-> OneRow(i, row), seen |-> {}, form |-> None]
<1>1. /\ req[r] = Idle /\ req' = [req EXCEPT ![r] = q1] /\ i \notin issued
      /\ issued' = issued \cup {i} /\ UNCHANGED connected
      /\ \A j \in Servers : rows'[j] = IF j = i THEN row ELSE rows[j]
  BY DEF CreateServer, Serve, AdminIInv, IInv, TypeOK, Table
<1>2. row \in Row /\ row.status # "DISABLED"
  BY DEF NewRows, Row, Statuses
<1>3. OneRow(i, row) \in Table /\ \A j \in Servers : OneRow(i, row)[j] = IF j = i THEN row ELSE Absent
  BY <1>2, OneRowTyped DEF OneRow
<1>4. /\ q1 \in Request /\ q1.op = "create" /\ q1.step = "enter" /\ q1.id = i
      /\ q1.loaded = OneRow(i, row)
  BY <1>3 DEF Request, Ops
<1> HIDE DEF q1
<1>5. Known(q1, rows', connected'[q1.ses], issued')
  BY <1>1, <1>2, <1>3, <1>4 DEF Known
<1>6. \A t \in Sessions : \A j \in connected[t] : rows'[j] = rows[j]
  BY <1>1 DEF AdminIInv, IInv, TypeOK
<1>7. \A j \in Servers : rows'[j] # Absent => j \in issued'
  BY <1>1 DEF AdminIInv
<1> QED
  BY <1>1, <1>4, <1>5, <1>6, <1>7, StartKeeps

-------------------------------------------------------------------------------
(* What is shown of the servers                                              *)

stageNow == [i \in Servers |-> Stage(i)]

\* The stages of one step follow the edges if each server's does.
LEMMA StagesMove ==
  ASSUME \A i \in Servers : \/ Stage(i)' = Stage(i)
                            \/ <<Stage(i), Stage(i)'>> \in Abstract!Edges,
         \A i \in Servers : Stage(i)' \in Abstract!Stages
  PROVE  Abstract!Next
BY DEF Abstract!Next, stageNow

\* Between the stages of a server there is, only one edge is missing.
LEMMA ShownAsPromised ==
  ASSUME AdminIInv, StepOK, NEW i \in Servers
  PROVE  Stage(i)' = Stage(i) \/ <<Stage(i), Stage(i)'>> \in Abstract!Edges
<1>1. issued' = issued /\ (rows'[i] # Absent => rows[i] # Absent) /\ (rows[i] # Absent => i \in issued)
  BY DEF StepOK, OnlyGoes, AdminIInv
<1>2. CASE rows[i] = Absent
  BY <1>1, <1>2 DEF Stage, Exists
<1>3. CASE rows[i] # Absent /\ rows'[i] = Absent
  <2>1. Stage(i)' = "gone" /\ Stage(i) \in {"connected", "disabled", "off"}
    BY <1>1, <1>3 DEF Stage, Exists
  <2> QED
    BY <2>1 DEF Abstract!Edges
<1>4. CASE rows[i] # Absent /\ rows'[i] # Absent
  <2>1. /\ Stage(i) \in {"connected", "disabled", "off"}
        /\ Stage(i)' \in {"connected", "disabled", "off"}
    BY <1>4 DEF Stage, Exists
  <2>2. ~(Stage(i) = "disabled" /\ Stage(i)' = "connected")
    <3> SUFFICES ASSUME Stage(i) = "disabled", Stage(i)' = "connected" PROVE FALSE
      OBVIOUS
    <3>1. rows[i].status = "DISABLED" /\ ~\E s \in Sessions : i \in connected[s]
      BY <1>4 DEF Stage, Exists
    <3>2. \E s \in Sessions : i \in connected'[s]
      BY <1>4 DEF Stage, Exists
    <3> QED
      BY <1>4, <3>1, <3>2 DEF StepOK, NoneBack
  <2> QED
    BY <2>1, <2>2 DEF Abstract!Edges
<1> QED
  BY <1>2, <1>3, <1>4

\* A new server is shown as registered and idle.
LEMMA UploadShown ==
  ASSUME AdminIInv, NEW r \in Requests, NEW s \in Sessions, NEW j \in Servers,
         NEW row \in NewRows, CreateServer(r, s, j, row), NEW i \in Servers
  PROVE  Stage(i)' = Stage(i) \/ <<Stage(i), Stage(i)'>> \in Abstract!Edges
<1>1. /\ j \notin issued /\ issued' = issued \cup {j} /\ UNCHANGED connected
      /\ rows'[i] = IF i = j THEN row ELSE rows[i]
  BY DEF CreateServer, AdminIInv, IInv, TypeOK, Table
<1>2. row # Absent /\ row.status # "DISABLED"
  BY ConstantsAssumption DEF NewRows, Row, Statuses
<1>3. CASE i = j
  <2>1. rows[i] = Absent /\ \A t \in Sessions : i \notin connected[t]
    BY <1>1, <1>3 DEF AdminIInv
  <2>2. Stage(i) = "none" /\ Stage(i)' = "off"
    BY <1>1, <1>2, <1>3, <2>1 DEF Stage, Exists
  <2> QED
    BY <2>2 DEF Abstract!Edges
<1>4. CASE i # j
  BY <1>1, <1>4 DEF Stage, Exists
<1> QED
  BY <1>3, <1>4

-------------------------------------------------------------------------------
(* The theorems                                                              *)

LEMMA NextSerial ==
  ASSUME OneSession
  PROVE  AdminIInv /\ OneRequest /\ OneRequest' /\ [Next]_vars =>
           AdminIInv' /\ [Abstract!Next]_stageNow
<1> SUFFICES ASSUME AdminIInv, OneRequest, OneRequest', [Next]_vars
             PROVE  AdminIInv' /\ [Abstract!Next]_stageNow
  OBVIOUS
<1>1. IInv'
  BY StepKeeps DEF AdminIInv
<1>2. \A i \in Servers : Stage(i)' \in Abstract!Stages
  BY DEF Stage, Abstract!Stages
<1>3. ASSUME StepOK PROVE AdminIInv' /\ [Abstract!Next]_stageNow
  BY <1>2, <1>3, ShownAsPromised, StagesMove DEF StepOK
<1>4. ASSUME NEW r \in Requests, Arrival(r) PROVE AdminIInv' /\ [Abstract!Next]_stageNow
  <2>1. PICK s \in Sessions :
          \/ StartCheck(r, s)
          \/ \E i \in Servers :
               \/ \E row \in NewRows : CreateServer(r, s, i, row)
               \/ \E form \in Form : StartEdit(r, s, i, form)
               \/ StartReconnect(r, s, i)
               \/ StartDisconnect(r, s, i)
               \/ StartShutdown(r, s, i)
               \/ StartMetrics(r, s, i)
    BY <1>4 DEF Arrival
  <2>2. ASSUME NEW i \in Servers, NEW row \in NewRows, CreateServer(r, s, i, row)
        PROVE  AdminIInv' /\ [Abstract!Next]_stageNow
    BY <1>1, <1>2, <2>2, UploadKeeps, UploadShown, StagesMove
  <2> QED
    BY <1>1, <1>3, <2>1, <2>2, StartsKeepSerial
<1>5. ASSUME NEW r \in Requests, HandlerStep(r) PROVE StepOK
  <2>1. CASE SaveEdit(r) \/ SaveReconnect(r) \/ SaveDisconnect(r) \/ SaveShutdown(r)
    BY <1>1, <2>1, SavesKeepSerial
  <2>2. CASE SaveMetrics(r) \/ Fails(r)
    BY <1>1, <2>2, EndsKeepSerial
  <2>3. CASE Enter(r) \/ Leave(r)
    BY <1>1, <2>3, EnterKeepsSerial, LeaveKeepsSerial
  <2>4. CASE SaveCheck(r) \/ ListServers(r) \/ Publish(r)
    BY <1>1, <2>4, SaveCheckKeeps, ListKeeps, PublishKeeps
  <2> QED
    BY <1>5, <2>1, <2>2, <2>3, <2>4 DEF HandlerStep
<1>6. ASSUME NEW i \in Servers, DeleteServer(i) PROVE StepOK
  BY <1>1, <1>6, RemovalKeeps
<1>7. CASE UNCHANGED vars
  <2>1. UNCHANGED <<rows, issued, connected, req>>
    BY <1>7 DEF vars
  <2> QED
    BY <1>1, <2>1 DEF AdminIInv, stageNow, Stage, Exists
<1> QED
  BY <1>3, <1>4, <1>5, <1>6, <1>7 DEF Next

AdminSpec == Spec /\ []OneRequest

\* With one session and one request at a time, what the request has loaded stays
\* what the table holds, and only it can have left a disabled server in the set.
THEOREM AdminInvariance ==
  ASSUME OneSession
  PROVE  AdminSpec => []AdminIInv
<1>1. Init => AdminIInv
  BY InitOK DEF Init, AdminIInv
<1>2. AdminIInv /\ OneRequest /\ OneRequest' /\ [Next]_vars => AdminIInv'
  BY NextSerial
<1> QED
  BY <1>1, <1>2, PTL DEF AdminSpec, Spec

\* Under the same conditions nobody in the session's set is disabled once the
\* request is over, the status check included.
THEOREM ConnectedStaysEnabled ==
  ASSUME OneSession
  PROVE  AdminSpec => []ConnectedIsEnabled
<1>1. AdminIInv => ConnectedIsEnabled
  BY DEF AdminIInv, ConnectedIsEnabled, Quiet, Exists, IInv, TypeOK
<1> QED
  BY <1>1, AdminInvariance, PTL

\* Under the same conditions the handlers implement ServerConnection: a disabled
\* server is enabled before it is connected.
THEOREM ConnectionIsKept ==
  ASSUME OneSession
  PROVE  AdminSpec => ImplementsConnection
<1>1. Init => Abstract!Init
  BY DEF Init, Abstract!Init, Stage, Exists
<1>2. AdminIInv /\ OneRequest /\ OneRequest' /\ [Next]_vars => [Abstract!Next]_stageNow
  BY NextSerial
<1> QED
  BY <1>1, <1>2, AdminInvariance, PTL
  DEF AdminSpec, Spec, ImplementsConnection, Abstract!Spec, stageNow

===============================================================================
