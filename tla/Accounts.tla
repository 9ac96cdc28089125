------------------------------- MODULE Accounts -------------------------------
(***************************************************************************)
(* User accounts, the sessions of those who have logged in, and the table  *)
(* of what they did.  A request is a thread: what it checks or loads it    *)
(* acts on later, and a save writes every column of the row it has loaded. *)
(* What deleting an account does to applications and namespaces is in      *)
(* UserRemoval; here it is the row that goes.                              *)
(***************************************************************************)
EXTENDS Integers

CONSTANTS
  Ids, Usernames, Passwords,
  Browsers, Sessions, Threads,
  Overlap,        \* whether a request may begin while another is under way
  FirstAdmin,     \* the id of the account the database begins with
  FirstName, FirstPassword,
  MaxEntries,     \* bound on the entries of user_activity
  None, Absent

VARIABLES
  users,          \* table users: [Ids -> [name, password, role, status] or Absent]
  issued,         \* ids the database has handed out
  session,        \* attributes [id, name, role] of each HTTP session, or Absent
  cookie,         \* the session each browser names, or None
  activity,       \* table user_activity: how many entries, and what the newest is of
  req             \* what each thread is doing

accountVars == <<users, issued, session, cookie, activity, req>>

\* A new account may be given any word for a role or a status: of roles only ADMIN counts,
\* of statuses only ACTIVE, and the others are alike.
Roles    == {"USER", "ADMIN"}
Statuses == {"ACTIVE", "INACTIVE"}
Rows     == [name : Usernames, password : Passwords, role : Roles, status : Statuses]
Attributes == [id : Ids \cup {None}, name : Usernames \cup {None}, role : Roles \cup {None}]

ASSUME AccountsAssumption ==
  /\ Overlap \in BOOLEAN /\ MaxEntries \in Nat
  /\ FirstAdmin \in Ids /\ FirstName \in Usernames /\ FirstPassword \in Passwords
  /\ None \notin Ids \cup Usernames \cup Passwords \cup Roles \cup Statuses \cup Sessions
  /\ Absent \notin Rows \cup Attributes

\* A thread without a request, and what a request holds: the row it works on and its id,
\* what is asked for, and the session and browser it came from.
Idle == [op |-> "idle", id |-> None, row |-> Absent, role |-> None, status |-> None,
         password |-> None, session |-> None, browser |-> None]

NoAttributes == [id |-> None, name |-> None, role |-> None]

-------------------------------------------------------------------------------
AccountInit ==
  /\ users = [i \in Ids |-> IF i = FirstAdmin
                              THEN [name |-> FirstName, password |-> FirstPassword,
                                    role |-> "ADMIN", status |-> "ACTIVE"]
                              ELSE Absent]
  /\ issued = {FirstAdmin}
  /\ session = [s \in Sessions |-> Absent]
  /\ cookie = [b \in Browsers |-> None]
  /\ activity = [entries |-> 0, action |-> "LOGOUT", id |-> None]
  /\ req = [t \in Threads |-> Idle]

Begins(t) == req[t] = Idle /\ (Overlap \/ \A u \in Threads : req[u] = Idle)

Ends(t) == req' = [req EXCEPT ![t] = Idle]

Named(name) == {i \in Ids : users[i] # Absent /\ users[i].name = name}

HasSession(b) == cookie[b] # None /\ session[cookie[b]] # Absent

\* The interceptor goes by the role the session had at its login.
AdminRequest == \E b \in Browsers : HasSession(b) /\ session[cookie[b]].role = "ADMIN"

-------------------------------------------------------------------------------
\* Both look whether the name is free, then insert.
CheckName(t, row) ==
  /\ Begins(t)
  /\ Named(row.name) = {}
  /\ req' = [req EXCEPT ![t] = [Idle EXCEPT !.op = "insert", !.row = row]]
  /\ UNCHANGED <<users, issued, session, cookie, activity>>

Register(t) ==
  \E name \in Usernames, password \in Passwords :
    CheckName(t, [name |-> name, password |-> password, role |-> "USER", status |-> "ACTIVE"])

CreateUser(t) == AdminRequest /\ \E row \in Rows : CheckName(t, row)

\* Faulty variant: without the unique column the check alone would have to do.
InsertUserUnchecked(t) ==
  /\ req[t].op = "insert"
  /\ \E i \in Ids \ issued :
       /\ users' = [users EXCEPT ![i] = req[t].row]
       /\ issued' = issued \cup {i}
  /\ Ends(t)
  /\ UNCHANGED <<session, cookie, activity>>

\* The column is unique.
InsertUser(t) ==
  /\ req[t].op = "insert"
  /\ Named(req[t].row.name) = {}
  /\ \E i \in Ids \ issued :
       /\ users' = [users EXCEPT ![i] = req[t].row]
       /\ issued' = issued \cup {i}
  /\ Ends(t)
  /\ UNCHANGED <<session, cookie, activity>>

InsertRefused(t) ==
  /\ req[t].op = "insert"
  /\ Named(req[t].row.name) # {}
  /\ Ends(t)
  /\ UNCHANGED <<users, issued, session, cookie, activity>>

-------------------------------------------------------------------------------
Load(t, i, asked) ==
  /\ Begins(t) /\ AdminRequest
  /\ users[i] # Absent
  /\ req' = [req EXCEPT ![t] = [asked EXCEPT !.id = i, !.row = users[i]]]
  /\ UNCHANGED <<users, issued, session, cookie, activity>>

\* What is left out of the form stays.
UpdateUser(t) ==
  \E i \in Ids, role \in Roles \cup {None}, status \in Statuses \cup {None} :
    Load(t, i, [Idle EXCEPT !.op = "update", !.role = role, !.status = status])

ResetPassword(t) ==
  \E i \in Ids, password \in Passwords :
    Load(t, i, [Idle EXCEPT !.op = "reset", !.password = password])

DeleteUser(t) == \E i \in Ids : Load(t, i, [Idle EXCEPT !.op = "delete"])

\* Faulty variant: a role is not looked at before it is taken.
EditedBlank(r) ==
  [r.row EXCEPT !.role     = IF r.op = "update" THEN r.role ELSE @,
                !.status   = IF r.status = None THEN @ ELSE r.status,
                !.password = IF r.password = None THEN @ ELSE r.password]

\* The row as the request saves it.
Edited(r) ==
  [r.row EXCEPT !.role     = IF r.role = None THEN @ ELSE r.role,
                !.status   = IF r.status = None THEN @ ELSE r.status,
                !.password = IF r.password = None THEN @ ELSE r.password]

\* Faulty variant: a row that is not there is inserted again.
SaveUserUpsert(t) ==
  /\ req[t].op \in {"update", "reset"}
  /\ users' = [users EXCEPT ![req[t].id] = Edited(req[t])]
  /\ Ends(t)
  /\ UNCHANGED <<issued, session, cookie, activity>>

\* Every column is written; of a row that is no longer there, none is, and it raises.
SaveUser(t) ==
  /\ req[t].op \in {"update", "reset"}
  /\ users' = IF users[req[t].id] = Absent \/ Edited(req[t]) = req[t].row
                THEN users ELSE [users EXCEPT ![req[t].id] = Edited(req[t])]
  /\ Ends(t)
  /\ UNCHANGED <<issued, session, cookie, activity>>

RemoveUser(t) ==
  /\ req[t].op = "delete"
  /\ users' = [users EXCEPT ![req[t].id] = Absent]
  /\ Ends(t)
  /\ UNCHANGED <<issued, session, cookie, activity>>

-------------------------------------------------------------------------------
Authenticate(t, b, i, password) ==
  /\ Begins(t)
  /\ users[i] # Absent /\ users[i].password = password /\ users[i].status = "ACTIVE"
  /\ req' = [req EXCEPT ![t] = [Idle EXCEPT !.op = "login", !.id = i, !.row = users[i],
                                            !.session = cookie[b], !.browser = b]]
  /\ UNCHANGED <<users, issued, session, cookie, activity>>

\* Found by its name, which is one row's.
Login(t) ==
  \E b \in Browsers, name \in Usernames, password \in Passwords :
    \E i \in Named(name) : Authenticate(t, b, i, password)

LogActivity(action, i) ==
  /\ activity.entries < MaxEntries
  /\ activity' = [entries |-> activity.entries + 1, action |-> action, id |-> i]

LogLogin(t) ==
  /\ req[t].op = "login"
  /\ LogActivity("LOGIN", req[t].id)
  /\ req' = [req EXCEPT ![t].op = "set id"]
  /\ UNCHANGED <<users, issued, session, cookie>>

\* getSession(true): the one the request came with, if it is still valid, or a new one.
SetId(t) ==
  /\ req[t].op = "set id"
  /\ \/ /\ req[t].session # None /\ session[req[t].session] # Absent
        /\ session' = [session EXCEPT ![req[t].session].id = req[t].id]
        /\ req' = [req EXCEPT ![t].op = "set name"]
        /\ UNCHANGED cookie
     \/ /\ req[t].session # None => session[req[t].session] = Absent
        /\ \E s \in Sessions :
             /\ session[s] = Absent
             /\ \A b \in Browsers : cookie[b] # s
             /\ \A u \in Threads : req[u].session # s
             /\ session' = [session EXCEPT ![s] = [NoAttributes EXCEPT !.id = req[t].id]]
             /\ cookie' = [cookie EXCEPT ![req[t].browser] = s]
             /\ req' = [req EXCEPT ![t].op = "set name", ![t].session = s]
  /\ UNCHANGED <<users, issued, activity>>

\* Faulty variant: a session that has a name keeps it.
SetNameOnce(t) ==
  /\ req[t].op = "set name" /\ session[req[t].session] # Absent
  /\ session' = [session EXCEPT ![req[t].session].name =
                   IF @ = None THEN req[t].row.name ELSE @]
  /\ req' = [req EXCEPT ![t].op = "set role"]
  /\ UNCHANGED <<users, issued, cookie, activity>>

SetName(t) ==
  /\ req[t].op = "set name" /\ session[req[t].session] # Absent
  /\ session' = [session EXCEPT ![req[t].session].name = req[t].row.name]
  /\ req' = [req EXCEPT ![t].op = "set role"]
  /\ UNCHANGED <<users, issued, cookie, activity>>

SetRole(t) ==
  /\ req[t].op = "set role" /\ session[req[t].session] # Absent
  /\ session' = [session EXCEPT ![req[t].session].role = req[t].row.role]
  /\ Ends(t)
  /\ UNCHANGED <<users, issued, cookie, activity>>

\* An attribute of a session that is no longer valid cannot be set.
LoginRaises(t) ==
  /\ req[t].op \in {"set name", "set role"} /\ session[req[t].session] = Absent
  /\ Ends(t)
  /\ UNCHANGED <<users, issued, session, cookie, activity>>

-------------------------------------------------------------------------------
Logout(t) ==
  \E b \in Browsers :
    /\ Begins(t)
    /\ HasSession(b)
    /\ req' = [req EXCEPT ![t] = [Idle EXCEPT !.op = "logout", !.session = cookie[b]]]
    /\ UNCHANGED <<users, issued, session, cookie, activity>>

\* The account is looked for by the name, not by the id.
LogLogout(t) ==
  /\ req[t].op = "logout" /\ session[req[t].session] # Absent
  /\ \/ \E i \in Named(session[req[t].session].name) : LogActivity("LOGOUT", i)
     \/ Named(session[req[t].session].name) = {} /\ UNCHANGED activity
  /\ req' = [req EXCEPT ![t].op = "invalidate"]
  /\ UNCHANGED <<users, issued, session, cookie>>

Invalidate(t) ==
  /\ req[t].op = "invalidate"
  /\ session' = [session EXCEPT ![req[t].session] = Absent]
  /\ Ends(t)
  /\ UNCHANGED <<users, issued, cookie, activity>>

LogoutRaises(t) ==
  /\ req[t].op = "logout" /\ session[req[t].session] = Absent
  /\ Ends(t)
  /\ UNCHANGED <<users, issued, session, cookie, activity>>

\* Not used for half an hour.
SessionExpires ==
  /\ \E s \in Sessions :
       session[s] # Absent /\ session' = [session EXCEPT ![s] = Absent]
  /\ UNCHANGED <<users, issued, cookie, activity, req>>

\* Sessions are kept in memory.
Restart ==
  /\ session' = [s \in Sessions |-> Absent]
  /\ req' = [t \in Threads |-> Idle]
  /\ UNCHANGED <<users, issued, cookie, activity>>

-------------------------------------------------------------------------------
ThreadStep(t) ==
  \/ Register(t) \/ CreateUser(t) \/ InsertUser(t) \/ InsertRefused(t)
  \/ UpdateUser(t) \/ ResetPassword(t) \/ DeleteUser(t) \/ SaveUser(t) \/ RemoveUser(t)
  \/ Login(t) \/ LogLogin(t) \/ SetId(t) \/ SetName(t) \/ SetRole(t) \/ LoginRaises(t)
  \/ Logout(t) \/ LogLogout(t) \/ Invalidate(t) \/ LogoutRaises(t)

AccountNext == (\E t \in Threads : ThreadStep(t)) \/ SessionExpires \/ Restart

AccountSpec == AccountInit /\ [][AccountNext]_accountVars

-------------------------------------------------------------------------------
Requests == [op : {"idle", "insert", "update", "reset", "delete", "login", "set id",
                   "set name", "set role", "logout", "invalidate"},
             id : Ids \cup {None}, row : Rows \cup {Absent}, role : Roles \cup {None},
             status : Statuses \cup {None}, password : Passwords \cup {None},
             session : Sessions \cup {None}, browser : Browsers \cup {None}]

AccountTypeOK ==
  /\ users \in [Ids -> Rows \cup {Absent}]
  /\ issued \subseteq Ids
  /\ session \in [Sessions -> Attributes \cup {Absent}]
  /\ cookie \in [Browsers -> Sessions \cup {None}]
  /\ activity \in [entries : Nat, action : {"LOGIN", "LOGOUT"}, id : Ids \cup {None}]
  /\ req \in [Threads -> Requests]

\* Two requests may both find a name free (UserService.register, createUser): no two
\* accounts have one name all the same, by which logging in and out find them.
NamesAreUnique ==
  \A i, j \in Ids :
    users[i] # Absent /\ users[j] # Absent /\ users[i].name = users[j].name => i = j

\* A deleted account does not come back, and its id is no other's, whatever edits and
\* resets still hold its row (UserService.updateUser, resetPassword).
GoneForGood ==
  [][\A i \in issued : users[i] = Absent => users'[i] = Absent]_accountVars

\* One request at a time: an account changes in nothing but what one asked for, though
\* every column is written (UserService.updateUser, resetPassword).
OnlyTheAsked ==
  \A i \in Ids : users[i] # Absent /\ users'[i] # Absent /\ users'[i] # users[i] =>
    \E t \in Threads :
      /\ req[t].id = i
      /\ \A column \in {"name", "role", "status", "password"} :
           users'[i][column] # users[i][column] =>
             column \in DOMAIN req[t] /\ req[t][column] = users'[i][column]

OnlyAskedChanges == [][OnlyTheAsked]_accountVars

\* One request at a time: the end of a session is entered for the account it is of, for
\* as long as there is that account (AuthController.logout finds it by its name; another
\* may have taken the name of one that is gone).
OwnLogout ==
  activity' # activity /\ activity'.action = "LOGOUT" =>
    \E t \in Threads :
      /\ req[t].op = "logout"
      /\ LET ended == session[req[t].session].id
         IN ended = activity'.id \/ users[ended] = Absent

LogoutsAreOwn == [][OwnLogout]_accountVars

===============================================================================
