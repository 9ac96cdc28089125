---------------------------- MODULE ServerRegistry ----------------------------
(***************************************************************************)
(* The table of servers and the set of connected servers that each admin's *)
(* HTTP session keeps.  A handler loads a row, talks SSH for seconds, and  *)
(* writes the whole row back when a column of its copy has changed; then   *)
(* it updates the session's set, under the session's lock.  Checking the   *)
(* status of all servers does both for the whole table and takes no lock.  *)
(***************************************************************************)
EXTENDS Naturals

CONSTANTS
  Servers,       \* ids the database can issue, each at most once
  Sessions,      \* HTTP sessions of admins
  Requests,      \* threads serving HTTP requests
  Hosts,         \* host and user name
  Ports,
  Handlers,      \* the operations that are called
  None,
  Absent,
  Idle

Statuses == {"ONLINE", "OFFLINE", "DISABLED"}

Addresses == Hosts \X Ports

\* key: the row refers to an SSH key (ssh_key_id).
Row == [status : Statuses, key : BOOLEAN, addr : Addresses]

Ops == {"create", "edit", "reconnect", "shutdown", "disconnect", "metrics", "check"}

\* The columns an edit sets; a missing one is left alone.  keyId: no key id is
\* sent, null is, or the id of a key is, which may not exist.
Form == [addr : Addresses \cup {None}, status : Statuses \cup {None},
         keyId : {"same", "null", "known", "unknown"}]

Table == [Servers -> Row \cup {Absent}]

\* loaded: the rows in the request's persistence context; seen: what it has read
\* of the session's set.
Request == [op     : Ops,
            step   : {"save", "enter", "leave", "list", "publish"},
            ses    : Sessions,
            id     : Servers \cup {None},
            loaded : Table,
            seen   : SUBSET Servers,
            form   : Form \cup {None}]

ASSUME ConstantsAssumption ==
  /\ Handlers \subseteq Ops
  /\ None \notin Servers \cup Requests \cup Addresses \cup Statuses \cup Form
  /\ Absent \notin Row
  /\ Idle \notin Request

VARIABLES
  rows,          \* table servers
  issued,        \* ids handed out so far
  connected,     \* session attribute CONNECTED_SERVERS
  lock,          \* who is in synchronized (session)
  req            \* what each thread is doing

vars == <<rows, issued, connected, lock, req>>

TypeOK ==
  /\ rows \in Table
  /\ issued \in SUBSET Servers
  /\ connected \in [Sessions -> SUBSET Servers]
  /\ lock \in [Sessions -> Requests \cup {None}]
  /\ req \in [Requests -> Request \cup {Idle}]

Init ==
  /\ rows = [i \in Servers |-> Absent]
  /\ issued = {}
  /\ connected = [s \in Sessions |-> {}]
  /\ lock = [s \in Sessions |-> None]
  /\ req = [r \in Requests |-> Idle]

-------------------------------------------------------------------------------
Exists(i) == rows[i] # Absent

At(r, step) == req[r] # Idle /\ req[r].step = step

Saves(r, op) == At(r, "save") /\ req[r].op = op

End(r) == req' = [req EXCEPT ![r] = Idle]

\* The row a request works on, as it has loaded and changed it.
Copy(r) == req[r].loaded[req[r].id]

Serve(r, op, step, s, i, form, ctx) ==
  /\ op \in Handlers
  /\ req[r] = Idle
  /\ req' = [req EXCEPT ![r] = [op |-> op, step |-> step, ses |-> s, id |-> i,
                                loaded |-> ctx, seen |-> {}, form |-> form]]

\* Only the one row is loaded.
OneRow(i, row) == [j \in Servers |-> IF j = i THEN row ELSE Absent]

Begin(r, op, s, i, form) ==
  /\ Exists(i)
  /\ Serve(r, op, "save", s, i, form, OneRow(i, rows[i]))
  /\ UNCHANGED <<rows, issued, connected, lock>>

\* Faulty variant: a row that is gone is inserted again.
FlushMerges(old, new, i) ==
  rows' = IF old = new THEN rows ELSE [rows EXCEPT ![i] = new]

\* saveAndFlush: nothing if the copy is clean, else an UPDATE of all columns.
Flush(old, new, i) ==
  IF old = new THEN rows' = rows
  ELSE /\ Exists(i)
       /\ rows' = [rows EXCEPT ![i] = new]

\* The row is saved and the session's set comes next.
Save(r, new) ==
  /\ Flush(Copy(r), new, req[r].id)
  /\ req' = [req EXCEPT ![r] = [@ EXCEPT !.step = "enter",
                                         !.loaded = OneRow(req[r].id, new)]]
  /\ UNCHANGED <<issued, connected, lock>>

\* The same when a column the model leaves out (password, metrics) has changed.
SaveDirty(r, new) ==
  /\ Exists(req[r].id)
  /\ rows' = [rows EXCEPT ![req[r].id] = new]
  /\ req' = [req EXCEPT ![r] = [@ EXCEPT !.step = "enter",
                                         !.loaded = OneRow(req[r].id, new)]]
  /\ UNCHANGED <<issued, connected, lock>>

-------------------------------------------------------------------------------
(* create: by password the server is tested first, is ONLINE, and gets a key   *)
(* if one can be installed; by the id of a key it is OFFLINE and not tested.   *)

NewRows == [status : {"ONLINE", "OFFLINE"}, key : BOOLEAN, addr : Addresses]

CreateServer(r, s, i, row) ==
  /\ i \notin issued
  /\ \A j \in Servers : Exists(j) => rows[j].addr # row.addr
  /\ rows' = [rows EXCEPT ![i] = row]
  /\ issued' = issued \cup {i}
  /\ Serve(r, "create", "enter", s, i, None, OneRow(i, row))
  /\ UNCHANGED <<connected, lock>>

-------------------------------------------------------------------------------
(* update, from the edit form                                                 *)

\* Some row has the address, and the look-up by host and user name alone does
\* not return just the row that is edited.
Refused(i, addr) ==
  /\ \E j \in Servers : Exists(j) /\ rows[j].addr = addr
  /\ \E j \in Servers \ {i} : Exists(j) /\ rows[j].addr[1] = addr[1]

StartEdit(r, s, i, form) ==
  /\ form.addr # None => ~Refused(i, form.addr)
  /\ Begin(r, "edit", s, i, form)

KeyAfter(row, form) == IF form.keyId = "same" THEN row.key ELSE form.keyId = "known"

\* Faulty variant: a status the form does not carry is set all the same.
EditedUnchecked(row, form, verified) ==
  [status |-> IF verified THEN "ONLINE" ELSE form.status,
   key    |-> KeyAfter(row, form),
   addr   |-> IF form.addr # None THEN form.addr ELSE row.addr]

\* An address or a password in the form is verified over SSH, and then the status
\* is ONLINE whatever the form says.
Edited(row, form, verified) ==
  [status |-> IF verified THEN "ONLINE"
              ELSE IF form.status # None THEN form.status ELSE row.status,
   key    |-> KeyAfter(row, form),
   addr   |-> IF form.addr # None THEN form.addr ELSE row.addr]

\* What it was verified with: the stored key is tried first.
SaveEdit(r) ==
  /\ Saves(r, "edit")
  /\ \E with \in {"nothing", "key", "password"} :
       LET q   == req[r]
           new == Edited(Copy(r), q.form, with # "nothing")
       IN /\ with = "nothing" => q.form.addr = None
          /\ with = "key" => Copy(r).key
          /\ \A j \in Servers \ {q.id} : Exists(j) => rows[j].addr # new.addr
          /\ IF with = "password" THEN SaveDirty(r, new) ELSE Save(r, new)

-------------------------------------------------------------------------------
(* reconnect: by the stored key, else by a password, which also installs a key *)
(* where there is none.                                                        *)

StartReconnect(r, s, i) == Begin(r, "reconnect", s, i, None)

SaveReconnect(r) ==
  /\ Saves(r, "reconnect")
  /\ \/ Copy(r).key /\ Save(r, [Copy(r) EXCEPT !.status = "ONLINE"])
     \/ \E installed \in BOOLEAN :
          SaveDirty(r, [Copy(r) EXCEPT !.status = "ONLINE", !.key = @ \/ installed])

-------------------------------------------------------------------------------
(* disconnect, shutdown, refresh of the metrics, delete                        *)

StartDisconnect(r, s, i) == Begin(r, "disconnect", s, i, None)

SaveDisconnect(r) ==
  /\ Saves(r, "disconnect")
  /\ Save(r, [Copy(r) EXCEPT !.status = "DISABLED"])

StartShutdown(r, s, i) ==
  /\ i \in connected[s]
  /\ Exists(i) /\ rows[i].key
  /\ Begin(r, "shutdown", s, i, None)

SaveShutdown(r) ==
  /\ Saves(r, "shutdown")
  /\ Save(r, [Copy(r) EXCEPT !.status = "OFFLINE"])

StartMetrics(r, s, i) == Begin(r, "metrics", s, i, None)

\* Up to 20 s after the row was loaded; nothing is written if nothing changed.
SaveMetrics(r) ==
  /\ Saves(r, "metrics")
  /\ \/ Exists(req[r].id) /\ rows' = [rows EXCEPT ![req[r].id] = Copy(r)]
     \/ UNCHANGED rows
  /\ End(r)
  /\ UNCHANGED <<issued, connected, lock>>

\* The keys go with the row.  No session's set is told.
DeleteServer(i) ==
  /\ Exists(i)
  /\ rows' = [rows EXCEPT ![i] = Absent]
  /\ UNCHANGED <<issued, connected, lock, req>>

-------------------------------------------------------------------------------
(* The session's set, read and written under the session's lock                *)

\* Faulty variant: the set is read and written without the lock.
EnterUnlocked(r) ==
  /\ At(r, "enter")
  /\ req' = [req EXCEPT ![r] = [@ EXCEPT !.step = "leave",
                                         !.seen = connected[req[r].ses]]]
  /\ UNCHANGED <<rows, issued, connected, lock>>

Enter(r) ==
  /\ At(r, "enter")
  /\ lock[req[r].ses] = None
  /\ lock' = [lock EXCEPT ![req[r].ses] = r]
  /\ req' = [req EXCEPT ![r] = [@ EXCEPT !.step = "leave",
                                         !.seen = connected[req[r].ses]]]
  /\ UNCHANGED <<rows, issued, connected>>

\* Faulty variant: an edit leaves the set as it is.
SetsAfterEditKept(r) ==
  LET q == req[r] IN
  CASE q.op = "create"    -> {q.seen, q.seen \cup {q.id}}
    [] q.op = "reconnect" -> {q.seen \cup {q.id}}
    [] q.op = "edit"      -> {q.seen}
    [] OTHER              -> {q.seen \ {q.id}}

\* What the set may be afterwards: a new server is added if it answers by key or
\* password, both tried while the lock is held.
SetsAfter(r) ==
  LET q == req[r] IN
  CASE q.op = "create"    -> {q.seen, q.seen \cup {q.id}}
    [] q.op = "reconnect" -> {q.seen \cup {q.id}}
    [] q.op = "edit" /\ Copy(r).status = "ONLINE" -> {q.seen}
    [] OTHER              -> {q.seen \ {q.id}}

Leave(r) ==
  /\ At(r, "leave")
  /\ \E set \in SetsAfter(r) : connected' = [connected EXCEPT ![req[r].ses] = set]
  /\ lock' = [lock EXCEPT ![req[r].ses] = None]
  /\ End(r)
  /\ UNCHANGED <<rows, issued>>

-------------------------------------------------------------------------------
(* check-status: with an empty table the thread pool cannot be made            *)

StartCheck(r, s) ==
  /\ \E i \in Servers : Exists(i)
  /\ Serve(r, "check", "save", s, None, None, rows)
  /\ UNCHANGED <<rows, issued, connected, lock>>

\* One ping of the servers; DISABLED ones keep their status.
Pinged(ctx, up) ==
  [i \in Servers |->
     IF ctx[i] = Absent \/ ctx[i].status = "DISABLED" THEN ctx[i]
     ELSE [ctx[i] EXCEPT !.status = IF i \in up THEN "ONLINE" ELSE "OFFLINE"]]

\* One transaction for all rows.
SaveCheck(r) ==
  /\ Saves(r, "check")
  /\ \E up \in SUBSET {i \in Servers : req[r].loaded[i] # Absent} :
       LET old   == req[r].loaded
           new   == Pinged(old, up)
           dirty == {i \in Servers : old[i] # new[i]}
       IN /\ \A i \in dirty : Exists(i)
          /\ rows' = [i \in Servers |-> IF i \in dirty THEN new[i] ELSE rows[i]]
          /\ req' = [req EXCEPT ![r] = [@ EXCEPT !.step = "list", !.loaded = new]]
  /\ UNCHANGED <<issued, connected, lock>>

\* The list is queried again: a row that is still there is the copy in the
\* persistence context, not what the table holds.
ListServers(r) ==
  /\ At(r, "list")
  /\ LET ctx == [i \in Servers |->
                   IF Exists(i) /\ req[r].loaded[i] # Absent THEN req[r].loaded[i]
                   ELSE rows[i]]
     IN req' = [req EXCEPT ![r] = [@ EXCEPT !.step = "publish", !.loaded = ctx,
                                            !.seen = connected[req[r].ses]]]
  /\ UNCHANGED <<rows, issued, connected, lock>>

\* Faulty variant: DISABLED servers are tried like the others.
TriedAll(r) == {i \in Servers : req[r].loaded[i] # Absent /\ req[r].loaded[i].key}

\* The servers that an SSH connection is tried to.
Tried(r) ==
  {i \in Servers : /\ req[r].loaded[i] # Absent
                   /\ req[r].loaded[i].key
                   /\ req[r].loaded[i].status # "DISABLED"}

\* Servers that were connected and are online are not tried again.
Publish(r) ==
  LET kept == {i \in req[r].seen : /\ req[r].loaded[i] # Absent
                                   /\ req[r].loaded[i].status = "ONLINE"}
  IN /\ At(r, "publish")
     /\ \E answered \in SUBSET (Tried(r) \ kept) :
          connected' = [connected EXCEPT ![req[r].ses] = kept \cup answered]
     /\ End(r)
     /\ UNCHANGED <<rows, issued, lock>>

-------------------------------------------------------------------------------
(* What goes wrong: SSH refuses, or an UPDATE violates the uniqueness of the   *)
(* address or finds no row, which rolls the transaction back.                  *)

Fails(r) ==
  /\ At(r, "save")
  /\ \/ req[r].op \in {"edit", "reconnect", "metrics"}
     \/ \E i \in Servers : req[r].loaded[i] # Absent /\ ~Exists(i)
  /\ End(r)
  /\ UNCHANGED <<rows, issued, connected, lock>>

-------------------------------------------------------------------------------
Arrival(r) ==
  \E s \in Sessions :
    \/ StartCheck(r, s)
    \/ \E i \in Servers :
         \/ \E row \in NewRows : CreateServer(r, s, i, row)
         \/ \E form \in Form : StartEdit(r, s, i, form)
         \/ StartReconnect(r, s, i)
         \/ StartDisconnect(r, s, i)
         \/ StartShutdown(r, s, i)
         \/ StartMetrics(r, s, i)

HandlerStep(r) ==
  \/ SaveEdit(r) \/ SaveReconnect(r) \/ SaveDisconnect(r) \/ SaveShutdown(r)
  \/ SaveMetrics(r) \/ Enter(r) \/ Leave(r)
  \/ SaveCheck(r) \/ ListServers(r) \/ Publish(r)
  \/ Fails(r)

Next ==
  \/ \E r \in Requests : Arrival(r) \/ HandlerStep(r)
  \/ \E i \in Servers : DeleteServer(i)

Spec == Init /\ [][Next]_vars

-------------------------------------------------------------------------------
(* One request at a time                                                       *)

Quiet == \A r \in Requests : req[r] = Idle

\* A disabled server is not in the session's set.
ConnectedIsEnabled ==
  Quiet => \A s \in Sessions : \A i \in connected[s] :
             Exists(i) => rows[i].status # "DISABLED"

\* Nobody is connected to a disabled server before it is enabled again.
Stage(i) ==
  IF ~Exists(i) THEN IF i \in issued THEN "gone" ELSE "none"
  ELSE IF \E s \in Sessions : i \in connected[s] THEN "connected"
  ELSE IF rows[i].status = "DISABLED" THEN "disabled" ELSE "off"

Abstract == INSTANCE ServerConnection WITH stage <- [i \in Servers |-> Stage(i)]
ImplementsConnection == Abstract!Spec

-------------------------------------------------------------------------------
(* Requests in parallel                                                        *)

\* What a handler relies on from one step to the next without reading it again.
InProgress(q) ==
  /\ q.op \in Handlers
  /\ q.op = "check" => q.step \in {"save", "list", "publish"}
  /\ q.op # "check" => /\ q.step \in {"save", "enter", "leave"}
                       /\ q.id \in Servers /\ q.loaded[q.id] # Absent
  /\ q.op = "edit" => q.form # None

\* A thread that is about to write the session's set is in the session's lock,
\* and what it read of the set is what the set still is, unless a check-status,
\* which does not lock, is served too.
LockHeld ==
  \A r \in Requests : At(r, "leave") =>
    /\ lock[req[r].ses] = r
    /\ "check" \notin Handlers => req[r].seen = connected[req[r].ses]

\* Each thread works on a row it has loaded, and writes a set it alone may write.
IInv ==
  /\ TypeOK
  /\ \A r \in Requests : req[r] # Idle => InProgress(req[r])
  /\ LockHeld

\* A removed server does not come back through a request that had loaded it.
StaysRemoved == \A i \in issued : ~Exists(i) => rows'[i] = Absent
NoResurrection == [][StaysRemoved]_vars

\* Handlers that take the session's lock never undo each other's changes to the
\* set: each adds or removes its own server only.
OthersKept ==
  \A r \in Requests : At(r, "leave") /\ req'[r] = Idle =>
    \A i \in Servers \ {req[r].id} :
      i \in connected[req[r].ses] <=> i \in connected'[req[r].ses]
LockedUpdatesKept == [][OthersKept]_vars

===============================================================================
