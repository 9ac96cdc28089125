--------------------------- MODULE ServerPartsProofs ---------------------------
(***************************************************************************)
(* Theorems about the three parts of MCServerParts, for any accounts,      *)
(* names, nodes and servers, and any number of them: accounts and their    *)
(* sessions, however requests overlap and where one waits for another; the *)
(* names that are made for Kubernetes, of whatever is typed; and the usage *)
(* of the cluster.  The order is: accounts; folds and sums; names; usage;  *)
(* the parts together.                                                     *)
(***************************************************************************)
EXTENDS MCServerParts, FiniteSetTheorems, SequenceTheorems, WellFoundedInduction, TLAPS

-------------------------------------------------------------------------------
\* Accounts.

\* A step takes no id back, brings no account back and renames none.
NamesKept ==
  /\ issued \subseteq issued'
  /\ \A i \in issued : users'[i] # Absent => users[i] # Absent /\ users'[i].name = users[i].name

\* What a request relies on from its earlier steps: a row it has loaded is still found
\* under the same name, if it is found.
Carries(r) ==
  /\ r.op = "insert" => r.row \in Rows
  /\ r.op \in {"update", "reset", "delete", "login", "set id", "set name", "set role"} =>
       /\ r.id \in issued /\ r.row \in Rows
       /\ users[r.id] # Absent => users[r.id].name = r.row.name
  /\ r.op \in {"login", "set id", "set name", "set role"} => r.browser \in Browsers
  /\ r.op \in {"set name", "set role", "logout", "invalidate"} => r.session \in Sessions

AccountIInv ==
  /\ AccountTypeOK
  /\ \A i \in Ids : users[i] # Absent => i \in issued
  /\ NamesAreUnique
  /\ \A t \in Threads : Carries(req[t])

-------------------------------------------------------------------------------
LEMMA IdleCarries == Idle \in Requests /\ Carries(Idle) /\ Idle.op = "idle"
BY DEF Idle, Requests, Carries

LEMMA NotARow == Absent \notin Rows
BY AccountsAssumption

\* The shape of a row, for steps that change one column of it.
LEMMA EditedIsRow ==
  ASSUME NEW r \in Requests, r.row \in Rows
  PROVE  Edited(r) \in Rows /\ Edited(r).name = r.row.name
BY DEF Requests, Rows, Edited

LEMMA InitHolds == AccountInit => AccountIInv
<1> SUFFICES ASSUME AccountInit PROVE AccountIInv
  OBVIOUS
<1> USE AccountsAssumption, IdleCarries
<1>1. AccountTypeOK
  BY DEF AccountInit, AccountTypeOK, Rows, Roles, Statuses
<1>2. NamesAreUnique
  BY DEF AccountInit, NamesAreUnique
<1> QED BY <1>1, <1>2 DEF AccountInit, AccountIInv

-------------------------------------------------------------------------------
\* A thread goes on with another request, or ends; the others carry what they carried,
\* no id being taken back.
LEMMA ThreadGoesOn ==
  ASSUME AccountIInv, NamesKept, NEW t \in Threads, NEW r \in Requests,
         req' = [req EXCEPT ![t] = r], Carries(r)'
  PROVE  req' \in [Threads -> Requests] /\ \A u \in Threads : Carries(req[u])'
<1>1. req \in [Threads -> Requests] /\ \A u \in Threads : Carries(req[u])
  BY DEF AccountIInv, AccountTypeOK
<1>2. req' \in [Threads -> Requests]
  BY <1>1
<1>3. ASSUME NEW u \in Threads PROVE Carries(req[u])'
  <2>1. CASE u = t
    <3>1. req'[u] = r
      BY <1>1, <2>1
    <3> QED BY <3>1 DEF Carries
  <2>2. CASE u # t
    <3>1. req'[u] = req[u] /\ Carries(req[u])
      BY <1>1, <2>2
    <3> QED BY <3>1 DEF Carries, NamesKept
  <2> QED BY <2>1, <2>2
<1> QED BY <1>2, <1>3

\* The same, where the request ends.
LEMMA ThreadEnds ==
  ASSUME AccountIInv, NamesKept, NEW t \in Threads, Ends(t)
  PROVE  req' \in [Threads -> Requests] /\ \A u \in Threads : Carries(req[u])'
<1>1. Carries(Idle)'
  BY DEF Carries, Idle
<1> QED BY <1>1, IdleCarries, ThreadGoesOn DEF Ends

\* Where accounts stay as they are, their part of the invariant does.
LEMMA AccountsStay ==
  ASSUME AccountIInv, UNCHANGED <<users, issued>>,
         session' \in [Sessions -> Attributes \cup {Absent}],
         cookie' \in [Browsers -> Sessions \cup {None}],
         activity' \in [entries : Nat, action : {"LOGIN", "LOGOUT"}, id : Ids \cup {None}],
         req' \in [Threads -> Requests], \A u \in Threads : Carries(req[u])'
  PROVE  AccountIInv'
BY DEF AccountIInv, AccountTypeOK, NamesAreUnique

LEMMA InsertKeeps ==
  ASSUME AccountIInv, NEW t \in Threads, InsertUser(t)
  PROVE  AccountIInv' /\ NamesKept
<1>1. PICK i \in Ids \ issued : /\ users' = [users EXCEPT ![i] = req[t].row]
                              /\ issued' = issued \cup {i}
  BY DEF InsertUser
<1>2. /\ Ends(t) /\ Named(req[t].row.name) = {}
      /\ UNCHANGED <<session, cookie, activity>>
  BY DEF InsertUser
<1>3. /\ users \in [Ids -> Rows \cup {Absent}] /\ issued \subseteq Ids
      /\ req[t].row \in Rows
      /\ \A j \in Ids : users[j] # Absent => j \in issued
      /\ NamesAreUnique
  BY DEF AccountIInv, AccountTypeOK, Carries, InsertUser
<1>4. users' \in [Ids -> Rows \cup {Absent}] /\ issued' \subseteq Ids
  BY <1>1, <1>3
<1>5. (\A j \in Ids : users[j] # Absent => j \in issued)'
  BY <1>1, <1>3
<1>6. NamesAreUnique'
  <2>1. \A j \in Ids : users[j] # Absent => users[j].name # req[t].row.name
    BY <1>2 DEF Named
  <2>2. ASSUME NEW j \in Ids, NEW k \in Ids, users'[j] # Absent, users'[k] # Absent,
               users'[j].name = users'[k].name
        PROVE  j = k
    <3>1. \A l \in Ids : users'[l] = IF l = i THEN req[t].row ELSE users[l]
      BY <1>1, <1>3
    <3> QED BY <2>1, <2>2, <3>1, <1>3 DEF NamesAreUnique
  <2> QED BY <2>2 DEF NamesAreUnique
<1>7. NamesKept
  BY <1>1, <1>3 DEF NamesKept
<1>8. req' \in [Threads -> Requests] /\ \A u \in Threads : Carries(req[u])'
  BY <1>2, <1>7, ThreadEnds
<1> QED BY <1>2, <1>4, <1>5, <1>6, <1>7, <1>8 DEF AccountIInv, AccountTypeOK

\* A row that is still there is replaced by one of its name, or removed.
LEMMA ReplaceKeeps ==
  ASSUME AccountIInv, NEW t \in Threads, Ends(t), NEW i \in Ids,
         NEW row \in Rows \cup {Absent},
         row # Absent => users[i] # Absent /\ users[i].name = row.name,
         users' = [users EXCEPT ![i] = row],
         UNCHANGED <<issued, session, cookie, activity>>
  PROVE  AccountIInv' /\ NamesKept
<1>1. /\ users \in [Ids -> Rows \cup {Absent}] /\ issued \subseteq Ids
      /\ \A j \in Ids : users[j] # Absent => j \in issued
      /\ NamesAreUnique
  BY DEF AccountIInv, AccountTypeOK
<1>2. \A j \in Ids : users'[j] = IF j = i THEN row ELSE users[j]
  BY <1>1
<1>3. users' \in [Ids -> Rows \cup {Absent}]
  BY <1>1
<1>4. (\A j \in Ids : users[j] # Absent => j \in issued)'
  BY <1>1, <1>2
<1>5. NamesAreUnique'
  BY <1>1, <1>2 DEF NamesAreUnique
<1>6. NamesKept
  BY <1>1, <1>2 DEF NamesKept
<1>7. req' \in [Threads -> Requests] /\ \A u \in Threads : Carries(req[u])'
  BY <1>6, ThreadEnds
<1> QED BY <1>3, <1>4, <1>5, <1>6, <1>7 DEF AccountIInv, AccountTypeOK

LEMMA SaveKeeps ==
  ASSUME AccountIInv, NEW t \in Threads, SaveUser(t)
  PROVE  AccountIInv' /\ NamesKept
<1>1. /\ req[t] \in Requests /\ req[t].id \in Ids /\ req[t].row \in Rows
      /\ users[req[t].id] # Absent => users[req[t].id].name = req[t].row.name
  BY DEF AccountIInv, AccountTypeOK, Carries, SaveUser
<1>2. Edited(req[t]) \in Rows /\ Edited(req[t]).name = req[t].row.name
  BY <1>1, EditedIsRow
<1>3. CASE users' = users
  <2>1. /\ UNCHANGED <<users, issued, session, cookie, activity>>
        /\ Ends(t)
    BY <1>3 DEF SaveUser
  <2>2. NamesKept
    BY <2>1 DEF NamesKept
  <2> QED BY <2>1, <2>2, ThreadEnds, AccountsStay DEF AccountIInv, AccountTypeOK
<1>4. CASE users[req[t].id] # Absent /\ users' = [users EXCEPT ![req[t].id] = Edited(req[t])]
  BY <1>1, <1>2, <1>4, ReplaceKeeps DEF SaveUser
<1> QED BY <1>3, <1>4 DEF SaveUser

LEMMA RemoveKeeps ==
  ASSUME AccountIInv, NEW t \in Threads, RemoveUser(t)
  PROVE  AccountIInv' /\ NamesKept
<1>1. req[t].id \in Ids
  BY DEF AccountIInv, AccountTypeOK, Carries, RemoveUser
<1> QED BY <1>1, ReplaceKeeps DEF RemoveUser

\* Steps of a thread that leave the accounts alone.
LEMMA OtherStepKeeps ==
  ASSUME AccountIInv, NEW t \in Threads, UNCHANGED <<users, issued>>,
         session' \in [Sessions -> Attributes \cup {Absent}],
         cookie' \in [Browsers -> Sessions \cup {None}],
         activity' \in [entries : Nat, action : {"LOGIN", "LOGOUT"}, id : Ids \cup {None}],
         NEW r \in Requests, req' = [req EXCEPT ![t] = r], Carries(r)
  PROVE  AccountIInv' /\ NamesKept
<1>1. NamesKept
  BY DEF NamesKept
<1>2. Carries(r)'
  BY DEF Carries
<1> QED BY <1>1, <1>2, ThreadGoesOn, AccountsStay

LEMMA CheckKeeps ==
  ASSUME AccountIInv, NEW t \in Threads, NEW row \in Rows, CheckName(t, row)
  PROVE  AccountIInv' /\ NamesKept
<1> DEFINE r == [Idle EXCEPT !.op = "insert", !.row = row]
<1>1. r \in Requests /\ Carries(r)
  BY DEF Idle, Requests, Carries
<1>2. req' = [req EXCEPT ![t] = r] /\ UNCHANGED <<users, issued, session, cookie, activity>>
  BY DEF CheckName
<1> HIDE DEF r
<1> QED BY <1>1, <1>2, OtherStepKeeps DEF AccountIInv, AccountTypeOK

LEMMA LoadKeeps ==
  ASSUME AccountIInv, NEW t \in Threads, NEW i \in Ids, NEW asked \in Requests,
         asked.op \in {"update", "reset", "delete"}, Load(t, i, asked)
  PROVE  AccountIInv' /\ NamesKept
<1> DEFINE r == [asked EXCEPT !.id = i, !.row = users[i]]
<1>1. users[i] \in Rows /\ i \in issued
  BY DEF Load, AccountIInv, AccountTypeOK
<1>2. r \in Requests /\ r.op = asked.op /\ r.id = i /\ r.row = users[i]
  BY <1>1 DEF Requests
<1>3. Carries(r)
  BY <1>1, <1>2 DEF Carries
<1>4. req' = [req EXCEPT ![t] = r] /\ UNCHANGED <<users, issued, session, cookie, activity>>
  BY DEF Load
<1> HIDE DEF r
<1> QED BY <1>2, <1>3, <1>4, OtherStepKeeps DEF AccountIInv, AccountTypeOK

LEMMA AuthenticateKeeps ==
  ASSUME AccountIInv, NEW t \in Threads, NEW b \in Browsers, NEW i \in Ids,
         NEW password, Authenticate(t, b, i, password)
  PROVE  AccountIInv' /\ NamesKept
<1> DEFINE r == [Idle EXCEPT !.op = "login", !.id = i, !.row = users[i],
                             !.session = cookie[b], !.browser = b]
<1>1. users[i] \in Rows /\ i \in issued /\ cookie[b] \in Sessions \cup {None}
  BY DEF Authenticate, AccountIInv, AccountTypeOK
<1>2. r \in Requests /\ Carries(r)
  BY <1>1 DEF Idle, Requests, Carries
<1>3. req' = [req EXCEPT ![t] = r] /\ UNCHANGED <<users, issued, session, cookie, activity>>
  BY DEF Authenticate
<1> HIDE DEF r
<1> QED BY <1>2, <1>3, OtherStepKeeps DEF AccountIInv, AccountTypeOK

LEMMA EntryIsActivity ==
  ASSUME AccountIInv, NEW action \in {"LOGIN", "LOGOUT"}, NEW i \in Ids,
         LogActivity(action, i)
  PROVE  activity' \in [entries : Nat, action : {"LOGIN", "LOGOUT"}, id : Ids \cup {None}]
<1>1. activity.entries + 1 \in Nat
  <2>1. activity \in [entries : Nat, action : {"LOGIN", "LOGOUT"}, id : Ids \cup {None}]
    BY DEF AccountIInv, AccountTypeOK
  <2>2. activity.entries \in Nat
    BY <2>1
  <2> QED BY <2>2
<1> QED BY <1>1 DEF LogActivity

LEMMA LogLoginKeeps ==
  ASSUME AccountIInv, NEW t \in Threads, LogLogin(t)
  PROVE  AccountIInv' /\ NamesKept
<1> DEFINE r == [req[t] EXCEPT !.op = "set id"]
<1>1. req[t] \in Requests /\ Carries(req[t]) /\ req[t].op = "login" /\ req[t].id \in Ids
  BY DEF AccountIInv, AccountTypeOK, Carries, LogLogin
<1>2. r \in Requests /\ Carries(r)
  BY <1>1 DEF Requests, Carries
<1>3. req' = [req EXCEPT ![t] = r] /\ UNCHANGED <<users, issued, session, cookie>>
  BY DEF LogLogin
<1>4. activity' \in [entries : Nat, action : {"LOGIN", "LOGOUT"}, id : Ids \cup {None}]
  BY <1>1, EntryIsActivity DEF LogLogin
<1> HIDE DEF r
<1> QED BY <1>2, <1>3, <1>4, OtherStepKeeps DEF AccountIInv, AccountTypeOK

LEMMA SetIdKeeps ==
  ASSUME AccountIInv, NEW t \in Threads, SetId(t)
  PROVE  AccountIInv' /\ NamesKept
<1>1. /\ req[t] \in Requests /\ Carries(req[t]) /\ req[t].op = "set id"
      /\ req[t].id \in Ids /\ req[t].browser \in Browsers
      /\ session \in [Sessions -> Attributes \cup {Absent}]
      /\ cookie \in [Browsers -> Sessions \cup {None}]
  BY DEF AccountIInv, AccountTypeOK, Carries, SetId
<1>2. UNCHANGED <<users, issued, activity>>
  BY DEF SetId
<1>3. CASE /\ req[t].session # None /\ session[req[t].session] # Absent
           /\ session' = [session EXCEPT ![req[t].session].id = req[t].id]
           /\ req' = [req EXCEPT ![t].op = "set name"]
           /\ UNCHANGED cookie
  <2> DEFINE r == [req[t] EXCEPT !.op = "set name"]
  <2>1. req[t].session \in Sessions
    BY <1>1, <1>3 DEF Requests
  <2>2. r \in Requests /\ Carries(r)
    BY <1>1, <2>1 DEF Requests, Carries
  <2>3. session' \in [Sessions -> Attributes \cup {Absent}]
    BY <1>1, <1>3, <2>1 DEF Attributes
  <2>4. req' = [req EXCEPT ![t] = r]
    BY <1>3
  <2> HIDE DEF r
  <2> QED BY <1>2, <1>3, <2>2, <2>3, <2>4, OtherStepKeeps DEF AccountIInv, AccountTypeOK
<1>4. ASSUME NEW s \in Sessions,
             session' = [session EXCEPT ![s] = [NoAttributes EXCEPT !.id = req[t].id]],
             cookie' = [cookie EXCEPT ![req[t].browser] = s],
             req' = [req EXCEPT ![t].op = "set name", ![t].session = s]
      PROVE  AccountIInv' /\ NamesKept
  <2> DEFINE r == [req[t] EXCEPT !.op = "set name", !.session = s]
  <2>1. r \in Requests /\ Carries(r)
    BY <1>1 DEF Requests, Carries
  <2>2. session' \in [Sessions -> Attributes \cup {Absent}]
    BY <1>1, <1>4 DEF Attributes, NoAttributes
  <2>3. cookie' \in [Browsers -> Sessions \cup {None}]
    BY <1>1, <1>4
  <2>4. req' = [req EXCEPT ![t] = r]
    BY <1>1, <1>4 DEF AccountIInv, AccountTypeOK
  <2> HIDE DEF r
  <2> QED BY <1>2, <2>1, <2>2, <2>3, <2>4, OtherStepKeeps DEF AccountIInv, AccountTypeOK
<1> QED BY <1>3, <1>4 DEF SetId

LEMMA SetNameKeeps ==
  ASSUME AccountIInv, NEW t \in Threads, SetName(t)
  PROVE  AccountIInv' /\ NamesKept
<1> DEFINE r == [req[t] EXCEPT !.op = "set role"]
<1>1. /\ req[t] \in Requests /\ Carries(req[t]) /\ req[t].op = "set name"
      /\ req[t].row \in Rows /\ req[t].session \in Sessions
      /\ session \in [Sessions -> Attributes \cup {Absent}]
  BY DEF AccountIInv, AccountTypeOK, Carries, SetName
<1>2. r \in Requests /\ Carries(r)
  BY <1>1 DEF Requests, Carries
<1>3. session' \in [Sessions -> Attributes \cup {Absent}]
  BY <1>1 DEF SetName, Attributes, Rows
<1>4. req' = [req EXCEPT ![t] = r] /\ UNCHANGED <<users, issued, cookie, activity>>
  BY DEF SetName
<1> HIDE DEF r
<1> QED BY <1>2, <1>3, <1>4, OtherStepKeeps DEF AccountIInv, AccountTypeOK

\* Steps that end a request and leave the accounts alone.
LEMMA EndKeeps ==
  ASSUME AccountIInv, NEW t \in Threads, Ends(t), UNCHANGED <<users, issued, cookie, activity>>,
         session' \in [Sessions -> Attributes \cup {Absent}]
  PROVE  AccountIInv' /\ NamesKept
BY IdleCarries, OtherStepKeeps DEF Ends, AccountIInv, AccountTypeOK

LEMMA SetRoleKeeps ==
  ASSUME AccountIInv, NEW t \in Threads, SetRole(t)
  PROVE  AccountIInv' /\ NamesKept
<1>1. /\ req[t].row \in Rows /\ req[t].session \in Sessions
      /\ session \in [Sessions -> Attributes \cup {Absent}]
  BY DEF AccountIInv, AccountTypeOK, Carries, SetRole
<1>2. session' \in [Sessions -> Attributes \cup {Absent}]
  BY <1>1 DEF SetRole, Attributes, Rows
<1> QED BY <1>2, EndKeeps DEF SetRole

LEMMA LogoutKeeps ==
  ASSUME AccountIInv, NEW t \in Threads, NEW b \in Browsers, Begins(t), HasSession(b),
         req' = [req EXCEPT ![t] = [Idle EXCEPT !.op = "logout", !.session = cookie[b]]],
         UNCHANGED <<users, issued, session, cookie, activity>>
  PROVE  AccountIInv' /\ NamesKept
<1> DEFINE r == [Idle EXCEPT !.op = "logout", !.session = cookie[b]]
<1>1. cookie[b] \in Sessions
  BY DEF AccountIInv, AccountTypeOK, HasSession
<1>2. r \in Requests /\ Carries(r)
  BY <1>1 DEF Idle, Requests, Carries
<1>3. req' = [req EXCEPT ![t] = r]
  OBVIOUS
<1> HIDE DEF r
<1> QED BY <1>2, <1>3, OtherStepKeeps DEF AccountIInv, AccountTypeOK

LEMMA LogLogoutKeeps ==
  ASSUME AccountIInv, NEW t \in Threads, LogLogout(t)
  PROVE  AccountIInv' /\ NamesKept
<1> DEFINE r == [req[t] EXCEPT !.op = "invalidate"]
<1>1. req[t] \in Requests /\ Carries(req[t]) /\ req[t].op = "logout"
  BY DEF AccountIInv, AccountTypeOK, LogLogout
<1>2. r \in Requests /\ Carries(r)
  BY <1>1 DEF Requests, Carries
<1>3. activity' \in [entries : Nat, action : {"LOGIN", "LOGOUT"}, id : Ids \cup {None}]
  BY EntryIsActivity DEF LogLogout, Named, AccountIInv, AccountTypeOK
<1>4. req' = [req EXCEPT ![t] = r] /\ UNCHANGED <<users, issued, session, cookie>>
  BY DEF LogLogout
<1> HIDE DEF r
<1> QED BY <1>2, <1>3, <1>4, OtherStepKeeps DEF AccountIInv, AccountTypeOK

LEMMA InvalidateKeeps ==
  ASSUME AccountIInv, NEW t \in Threads, Invalidate(t)
  PROVE  AccountIInv' /\ NamesKept
<1>1. session' \in [Sessions -> Attributes \cup {Absent}]
  BY DEF Invalidate, AccountIInv, AccountTypeOK
<1> QED BY <1>1, EndKeeps DEF Invalidate

\* Sessions go, and perhaps every request.
LEMMA SessionsGo ==
  ASSUME AccountIInv, SessionExpires \/ Restart
  PROVE  AccountIInv' /\ NamesKept
<1>1. /\ session' \in [Sessions -> Attributes \cup {Absent}]
      /\ UNCHANGED <<users, issued, cookie, activity>>
  BY DEF SessionExpires, Restart, AccountIInv, AccountTypeOK
<1>2. NamesKept
  BY <1>1 DEF NamesKept
<1>3. req' \in [Threads -> Requests] /\ \A u \in Threads : Carries(req[u])'
  <2>1. CASE SessionExpires
    BY <2>1, <1>1 DEF SessionExpires, AccountIInv, AccountTypeOK, Carries
  <2>2. CASE Restart
    <3>1. Carries(Idle)'
      BY DEF Carries, Idle
    <3> QED BY <2>2, <3>1, IdleCarries DEF Restart
  <2> QED BY <2>1, <2>2
<1> QED BY <1>1, <1>2, <1>3, AccountsStay DEF AccountIInv, AccountTypeOK

-------------------------------------------------------------------------------
LEMMA StepKeeps ==
  ASSUME AccountIInv, [AccountNext]_accountVars
  PROVE  AccountIInv' /\ NamesKept
<1>1. ASSUME NEW t \in Threads, ThreadStep(t) PROVE AccountIInv' /\ NamesKept
  <2>1. CASE Register(t)
    <3>1. PICK name \in Usernames, password \in Passwords :
            CheckName(t, [name |-> name, password |-> password, role |-> "USER",
                          status |-> "ACTIVE"])
      BY <2>1 DEF Register
    <3>2. [name |-> name, password |-> password, role |-> "USER", status |-> "ACTIVE"] \in Rows
      BY DEF Rows, Roles, Statuses
    <3> QED BY <3>1, <3>2, CheckKeeps
  <2>2. CASE CreateUser(t)
    BY <2>2, CheckKeeps DEF CreateUser
  <2>3. CASE InsertUser(t)
    BY <2>3, InsertKeeps
  <2>4. CASE InsertRefused(t) \/ LoginRaises(t) \/ LogoutRaises(t)
    BY <2>4, EndKeeps DEF InsertRefused, LoginRaises, LogoutRaises, AccountIInv, AccountTypeOK
  <2>5. CASE UpdateUser(t)
    <3>1. PICK i \in Ids, role \in Roles \cup {None}, status \in Statuses \cup {None} :
            Load(t, i, [Idle EXCEPT !.op = "update", !.role = role, !.status = status])
      BY <2>5 DEF UpdateUser
    <3>2. [Idle EXCEPT !.op = "update", !.role = role, !.status = status] \in Requests
      BY DEF Idle, Requests
    <3>3. [Idle EXCEPT !.op = "update", !.role = role, !.status = status].op = "update"
      BY DEF Idle
    <3> QED BY <3>1, <3>2, <3>3, LoadKeeps
  <2>6. CASE ResetPassword(t)
    <3>1. PICK i \in Ids, password \in Passwords :
            Load(t, i, [Idle EXCEPT !.op = "reset", !.password = password])
      BY <2>6 DEF ResetPassword
    <3>2. [Idle EXCEPT !.op = "reset", !.password = password] \in Requests
      BY DEF Idle, Requests
    <3>3. [Idle EXCEPT !.op = "reset", !.password = password].op = "reset"
      BY DEF Idle
    <3> QED BY <3>1, <3>2, <3>3, LoadKeeps
  <2>7. CASE DeleteUser(t)
    <3>1. PICK i \in Ids : Load(t, i, [Idle EXCEPT !.op = "delete"])
      BY <2>7 DEF DeleteUser
    <3>2. [Idle EXCEPT !.op = "delete"] \in Requests
      BY DEF Idle, Requests
    <3>3. [Idle EXCEPT !.op = "delete"].op = "delete"
      BY DEF Idle
    <3> QED BY <3>1, <3>2, <3>3, LoadKeeps
  <2>8. CASE SaveUser(t) \/ RemoveUser(t)
    BY <2>8, SaveKeeps, RemoveKeeps
  <2>9. CASE Login(t)
    BY <2>9, AuthenticateKeeps DEF Login, Named
  <2>10. CASE LogLogin(t) \/ SetId(t) \/ SetName(t) \/ SetRole(t)
    BY <2>10, LogLoginKeeps, SetIdKeeps, SetNameKeeps, SetRoleKeeps
  <2>11. CASE Logout(t)
    BY <2>11, LogoutKeeps DEF Logout
  <2>12. CASE LogLogout(t) \/ Invalidate(t)
    BY <2>12, LogLogoutKeeps, InvalidateKeeps
  <2> QED BY <1>1, <2>1, <2>2, <2>3, <2>4, <2>5, <2>6, <2>7, <2>8, <2>9, <2>10, <2>11, <2>12
          DEF ThreadStep
<1>2. CASE UNCHANGED accountVars
  BY <1>2, AccountsStay DEF accountVars, AccountIInv, AccountTypeOK, Carries, NamesKept
<1> QED BY <1>1, <1>2, SessionsGo DEF AccountNext

-------------------------------------------------------------------------------
\* The inductive invariant of accounts, however requests overlap.
THEOREM AccountInvariance == AccountSpec => []AccountIInv
<1>1. AccountIInv /\ [AccountNext]_accountVars => AccountIInv'
  BY StepKeeps
<1> QED BY <1>1, InitHolds, PTL DEF AccountSpec

\* Every variable keeps its type: edits that leave columns out, log-ins half way and
\* sessions that end included (UserService, AuthController).
THEOREM AccountsTypeCorrect == AccountSpec => []AccountTypeOK
<1>1. AccountIInv => AccountTypeOK
  BY DEF AccountIInv
<1> QED BY <1>1, AccountInvariance, PTL

\* No two accounts have one name, however many requests found it free
\* (UserService.register, createUser).
THEOREM NamesStayUnique == AccountSpec => []NamesAreUnique
<1>1. AccountIInv => NamesAreUnique
  BY DEF AccountIInv
<1> QED BY <1>1, AccountInvariance, PTL

\* A deleted account does not come back, whatever saves still hold its row
\* (UserService.updateUser, resetPassword).
THEOREM DeletedAccountsStayGone == AccountSpec => GoneForGood
<1>1. AccountIInv /\ [AccountNext]_accountVars =>
        [\A i \in issued : users[i] = Absent => users'[i] = Absent]_accountVars
  BY StepKeeps DEF NamesKept
<1> QED BY <1>1, AccountInvariance, PTL DEF AccountSpec, GoneForGood

-------------------------------------------------------------------------------
\* Where requests do not overlap: a session is of one account, by id and by name, unless
\* its login is half way.
OneAccount(s) ==
  \/ \E t \in Threads : req[t].op = "set name" /\ req[t].session = s
  \/ /\ session[s].id \in issued
     /\ users[session[s].id] # Absent => users[session[s].id].name = session[s].name

SerialAccountIInv ==
  /\ \A t, u \in Threads : req[t].op # "idle" /\ req[u].op # "idle" => t = u
  /\ \A t \in Threads :
       /\ req[t].op \in {"update", "reset"} => users[req[t].id] = req[t].row
       /\ req[t].op = "set name" /\ session[req[t].session] # Absent =>
            session[req[t].session].id = req[t].id
  /\ \A s \in Sessions : session[s] # Absent => OneAccount(s)

LEMMA SerialInit == AccountInit => SerialAccountIInv
BY IdleCarries DEF AccountInit, SerialAccountIInv, OneAccount

\* No other thread has a request.
Alone(t) == \A u \in Threads \ {t} : req[u].op = "idle"

\* The thread that takes a step alone is the only one with a request, before and after it.
LEMMA OneThread ==
  ASSUME AccountIInv, NEW t \in Threads, Alone(t), ThreadStep(t)
  PROVE  /\ \A u \in Threads \ {t} : req[u].op = "idle" /\ req'[u].op = "idle"
         /\ \A u \in Threads \ {t} : req'[u] = req[u]
<1>1. \A u \in Threads \ {t} : req'[u] = req[u]
  BY DEF ThreadStep, Register, CreateUser, CheckName, InsertUser, InsertRefused, UpdateUser,
         ResetPassword, DeleteUser, Load, SaveUser, RemoveUser, Login, Authenticate, LogLogin,
         SetId, SetName, SetRole, LoginRaises, Logout, LogLogout, Invalidate, LogoutRaises,
         Ends, AccountIInv, AccountTypeOK
<1> QED BY <1>1 DEF Alone

\* Where a request begins only when no other is under way, every step is taken alone.
LEMMA StepsAlone ==
  ASSUME SerialAccountIInv, ~Overlap, NEW t \in Threads, ThreadStep(t)
  PROVE  Alone(t)
<1>1. \/ req[t].op # "idle"
      \/ \A u \in Threads : req[u] = Idle
  BY DEF ThreadStep, Register, CreateUser, CheckName, InsertUser, InsertRefused, UpdateUser,
         ResetPassword, DeleteUser, Load, SaveUser, RemoveUser, Login, Authenticate, LogLogin,
         SetId, SetName, SetRole, LoginRaises, Logout, LogLogout, Invalidate, LogoutRaises,
         Begins
<1> QED BY <1>1, IdleCarries DEF SerialAccountIInv, Alone

\* A thread other than in the middle of a login takes a step that changes no session, but
\* for ending some.
LEMMA SessionsStay ==
  ASSUME AccountIInv, SerialAccountIInv, NEW t \in Threads, Alone(t), ThreadStep(t),
         req[t].op # "set name", req'[t].op # "set name",
         \A s \in Sessions : session'[s] # Absent => session'[s] = session[s],
         req'[t].op \in {"update", "reset"} => users'[req'[t].id] = req'[t].row
  PROVE  SerialAccountIInv'
<1>1. NamesKept
  BY StepKeeps DEF AccountNext
<1>2. \A u \in Threads \ {t} : req[u].op = "idle" /\ req'[u].op = "idle"
  BY OneThread
<1>3. ASSUME NEW s \in Sessions, session'[s] # Absent PROVE OneAccount(s)'
  <2>1. session'[s] = session[s] /\ OneAccount(s)
    BY <1>3 DEF SerialAccountIInv
  <2>2. ~ \E u \in Threads : req[u].op = "set name" /\ req[u].session = s
    BY <1>2
  <2>3. /\ session[s].id \in issued
        /\ users[session[s].id] # Absent => users[session[s].id].name = session[s].name
    BY <2>1, <2>2, Zenon DEF OneAccount
  <2> QED BY <1>1, <2>1, <2>3 DEF NamesKept, OneAccount
<1>4. \A u, v \in Threads : req'[u].op # "idle" /\ req'[v].op # "idle" => u = v
  BY <1>2
<1>5. ASSUME NEW u \in Threads
      PROVE  /\ req'[u].op \in {"update", "reset"} => users'[req'[u].id] = req'[u].row
             /\ req'[u].op # "set name"
  BY <1>2
<1> QED BY <1>3, <1>4, <1>5 DEF SerialAccountIInv

LEMMA SetIdSerial ==
  ASSUME AccountIInv, SerialAccountIInv, NEW t \in Threads, Alone(t), SetId(t)
  PROVE  SerialAccountIInv'
<1> USE DEF ThreadStep
<1>1. \A u \in Threads \ {t} : req[u].op = "idle" /\ req'[u].op = "idle"
  BY OneThread
<1>2. PICK s \in Sessions :
        /\ req'[t].op = "set name" /\ req'[t].session = s /\ req'[t].id = req[t].id
        /\ session'[s] # Absent => session'[s].id = req[t].id
        /\ \A r \in Sessions \ {s} : session'[r] = session[r]
  <2>1. /\ req \in [Threads -> Requests] /\ req[t] \in Requests
        /\ session \in [Sessions -> Attributes \cup {Absent}]
    BY DEF AccountIInv, AccountTypeOK
  <2>2. CASE /\ req[t].session # None /\ session[req[t].session] # Absent
             /\ session' = [session EXCEPT ![req[t].session].id = req[t].id]
             /\ req' = [req EXCEPT ![t].op = "set name"]
    <3>1. req[t].session \in Sessions
      BY <2>1, <2>2 DEF Requests
    <3>2. session[req[t].session] \in Attributes
      BY <2>1, <2>2, <3>1
    <3>3. session'[req[t].session].id = req[t].id
      BY <2>1, <2>2, <3>1, <3>2 DEF Attributes
    <3> QED BY <2>1, <2>2, <3>1, <3>3 DEF Requests
  <2>3. ASSUME NEW s \in Sessions,
               session' = [session EXCEPT ![s] = [NoAttributes EXCEPT !.id = req[t].id]],
               req' = [req EXCEPT ![t].op = "set name", ![t].session = s]
        PROVE  /\ req'[t].op = "set name" /\ req'[t].session = s /\ req'[t].id = req[t].id
               /\ session'[s] # Absent => session'[s].id = req[t].id
               /\ \A r \in Sessions \ {s} : session'[r] = session[r]
    BY <2>1, <2>3 DEF Requests, NoAttributes
  <2> QED BY <2>2, <2>3 DEF SetId
<1>3. req[t].op = "set id" /\ UNCHANGED <<users, issued>>
  BY DEF SetId
<1>4. ASSUME NEW r \in Sessions, session'[r] # Absent PROVE OneAccount(r)'
  <2>1. CASE r = s
    BY <1>2, <2>1 DEF OneAccount
  <2>2. CASE r # s
    <3>1. session'[r] = session[r] /\ OneAccount(r)
      BY <1>2, <1>4, <2>2 DEF SerialAccountIInv
    <3>2. ~ \E u \in Threads : req[u].op = "set name" /\ req[u].session = r
      BY <1>1, <1>3
    <3>3. /\ session[r].id \in issued
          /\ users[session[r].id] # Absent => users[session[r].id].name = session[r].name
      BY <3>1, <3>2, Zenon DEF OneAccount
    <3> QED BY <1>3, <3>1, <3>3 DEF OneAccount
  <2> QED BY <2>1, <2>2
<1>5. \A u, v \in Threads : req'[u].op # "idle" /\ req'[v].op # "idle" => u = v
  BY <1>1
<1>6. ASSUME NEW u \in Threads
      PROVE  /\ req'[u].op \notin {"update", "reset"}
             /\ req'[u].op = "set name" /\ session'[req'[u].session] # Absent =>
                  session'[req'[u].session].id = req'[u].id
  BY <1>1, <1>2
<1> QED BY <1>4, <1>5, <1>6 DEF SerialAccountIInv

\* The name that completes a session is that of the account of its id.
LEMMA SetNameSerial ==
  ASSUME AccountIInv, SerialAccountIInv, NEW t \in Threads, Alone(t), SetName(t)
  PROVE  SerialAccountIInv'
<1> USE DEF ThreadStep
<1>1. \A u \in Threads \ {t} : req[u].op = "idle" /\ req'[u].op = "idle"
  BY OneThread
<1> DEFINE s == req[t].session
<1>2. /\ req \in [Threads -> Requests] /\ req[t] \in Requests /\ s \in Sessions
      /\ session \in [Sessions -> Attributes \cup {Absent}] /\ session[s] # Absent
      /\ session[s].id = req[t].id /\ req[t].id \in issued
      /\ users[req[t].id] # Absent => users[req[t].id].name = req[t].row.name
  BY DEF AccountIInv, AccountTypeOK, Carries, SetName, SerialAccountIInv
<1>3. session'[s].id = req[t].id /\ session'[s].name = req[t].row.name
  BY <1>2 DEF SetName, Attributes
<1>4. /\ \A r \in Sessions \ {s} : session'[r] = session[r]
      /\ req'[t].op = "set role" /\ UNCHANGED <<users, issued>>
  BY <1>2 DEF SetName, Requests
<1> HIDE DEF s
<1>5. ASSUME NEW r \in Sessions, session'[r] # Absent PROVE OneAccount(r)'
  <2>1. CASE r = s
    BY <1>2, <1>3, <1>4, <2>1 DEF OneAccount
  <2>2. CASE r # s
    <3>1. session'[r] = session[r] /\ OneAccount(r)
      BY <1>4, <1>5, <2>2 DEF SerialAccountIInv
    <3>2. ~ \E u \in Threads : req[u].op = "set name" /\ req[u].session = r
      BY <1>1, <2>2 DEF s
    <3>3. /\ session[r].id \in issued
          /\ users[session[r].id] # Absent => users[session[r].id].name = session[r].name
      BY <3>1, <3>2, Zenon DEF OneAccount
    <3> QED BY <1>4, <3>1, <3>3 DEF OneAccount
  <2> QED BY <2>1, <2>2
<1>6. \A u, v \in Threads : req'[u].op # "idle" /\ req'[v].op # "idle" => u = v
  BY <1>1
<1>7. \A u \in Threads : req'[u].op \notin {"update", "reset", "set name"}
  BY <1>1, <1>4
<1> QED BY <1>5, <1>6, <1>7 DEF SerialAccountIInv

LEMMA SetRoleSerial ==
  ASSUME AccountIInv, SerialAccountIInv, NEW t \in Threads, Alone(t), SetRole(t)
  PROVE  SerialAccountIInv'
<1> USE DEF ThreadStep
<1>1. \A u \in Threads \ {t} : req[u].op = "idle" /\ req'[u].op = "idle"
  BY OneThread
<1>2. /\ req[t].op = "set role" /\ req'[t].op = "idle" /\ UNCHANGED <<users, issued>>
  BY IdleCarries DEF SetRole, Ends, AccountIInv, AccountTypeOK
<1>3. ASSUME NEW s \in Sessions, session'[s] # Absent
      PROVE  session[s] # Absent /\ session'[s].id = session[s].id
                                /\ session'[s].name = session[s].name
  <2>1. /\ session \in [Sessions -> Attributes \cup {Absent}]
        /\ session' = [session EXCEPT ![req[t].session].role = req[t].row.role]
        /\ session[req[t].session] # Absent
    BY DEF SetRole, AccountIInv, AccountTypeOK
  <2>2. CASE s = req[t].session
    <3>1. session[s] \in Attributes
      BY <2>1, <2>2
    <3> QED BY <2>1, <2>2, <3>1 DEF Attributes
  <2>3. CASE s # req[t].session
    BY <1>3, <2>1, <2>3
  <2> QED BY <2>2, <2>3
<1>4. ASSUME NEW s \in Sessions, session'[s] # Absent PROVE OneAccount(s)'
  <2>1. OneAccount(s)
    BY <1>3, <1>4 DEF SerialAccountIInv
  <2>2. ~ \E u \in Threads : req[u].op = "set name" /\ req[u].session = s
    BY <1>1, <1>2
  <2>3. /\ session[s].id \in issued
        /\ users[session[s].id] # Absent => users[session[s].id].name = session[s].name
    BY <2>1, <2>2, Zenon DEF OneAccount
  <2> QED BY <1>2, <1>3, <1>4, <2>3 DEF OneAccount
<1>5. \A u \in Threads : req'[u].op = "idle"
  BY <1>1, <1>2
<1> QED BY <1>4, <1>5 DEF SerialAccountIInv

\* A request begins by checking or loading, and changes nothing yet.
LEMMA BeginSerial ==
  ASSUME AccountIInv, SerialAccountIInv, NEW t \in Threads, Alone(t), ThreadStep(t),
         Register(t) \/ CreateUser(t) \/ UpdateUser(t) \/ ResetPassword(t) \/ DeleteUser(t)
           \/ Login(t) \/ Logout(t)
  PROVE  SerialAccountIInv'
<1>1. /\ req \in [Threads -> Requests] /\ UNCHANGED <<users, session>>
      /\ req[t].op = "idle"
  BY IdleCarries DEF AccountIInv, AccountTypeOK, Register, CreateUser, CheckName, UpdateUser,
       ResetPassword, DeleteUser, Load, Login, Authenticate, Logout, Begins
<1>2. CASE Register(t) \/ CreateUser(t)
  <2>1. req'[t].op = "insert"
    BY <1>1, <1>2 DEF Register, CreateUser, CheckName, Idle
  <2> QED BY <1>1, <2>1, SessionsStay
<1>3. CASE UpdateUser(t) \/ ResetPassword(t) \/ DeleteUser(t)
  <2>1. PICK i \in Ids, asked \in Requests :
          asked.op \in {"update", "reset", "delete"} /\ Load(t, i, asked)
    <3>1. CASE UpdateUser(t)
      <4>1. PICK i \in Ids, role \in Roles \cup {None}, status \in Statuses \cup {None} :
              Load(t, i, [Idle EXCEPT !.op = "update", !.role = role, !.status = status])
        BY <3>1 DEF UpdateUser
      <4>2. [Idle EXCEPT !.op = "update", !.role = role, !.status = status] \in Requests
        BY DEF Idle, Requests
      <4>3. [Idle EXCEPT !.op = "update", !.role = role, !.status = status].op = "update"
        BY DEF Idle
      <4> QED BY <4>1, <4>2, <4>3
    <3>2. CASE ResetPassword(t)
      <4>1. PICK i \in Ids, password \in Passwords :
              Load(t, i, [Idle EXCEPT !.op = "reset", !.password = password])
        BY <3>2 DEF ResetPassword
      <4>2. [Idle EXCEPT !.op = "reset", !.password = password] \in Requests
        BY DEF Idle, Requests
      <4>3. [Idle EXCEPT !.op = "reset", !.password = password].op = "reset"
        BY DEF Idle
      <4> QED BY <4>1, <4>2, <4>3
    <3>3. CASE DeleteUser(t)
      <4>1. [Idle EXCEPT !.op = "delete"] \in Requests
        BY DEF Idle, Requests
      <4>2. [Idle EXCEPT !.op = "delete"].op = "delete"
        BY DEF Idle
      <4> QED BY <3>3, <4>1, <4>2 DEF DeleteUser
    <3> QED BY <1>3, <3>1, <3>2, <3>3
  <2>2. req'[t] = [asked EXCEPT !.id = i, !.row = users[i]]
    BY <1>1, <2>1 DEF Load
  <2>3. req'[t].op = asked.op /\ users[req'[t].id] = req'[t].row
    BY <2>2 DEF Requests
  <2> QED BY <1>1, <2>1, <2>3, SessionsStay
<1>4. CASE Login(t)
  <2>1. req'[t].op = "login"
    BY <1>1, <1>4 DEF Login, Authenticate, Idle
  <2> QED BY <1>1, <2>1, SessionsStay
<1>5. CASE Logout(t)
  <2>1. req'[t].op = "logout"
    BY <1>1, <1>5 DEF Logout, Idle
  <2> QED BY <1>1, <2>1, SessionsStay
<1> QED BY <1>2, <1>3, <1>4, <1>5

\* The other steps leave the middle of no login, and end sessions at most.
LEMMA RestSerial ==
  ASSUME AccountIInv, SerialAccountIInv, NEW t \in Threads, Alone(t), ThreadStep(t),
         InsertUser(t) \/ InsertRefused(t) \/ SaveUser(t) \/ RemoveUser(t) \/ LogLogin(t)
           \/ LogLogout(t) \/ Invalidate(t) \/ LogoutRaises(t)
  PROVE  SerialAccountIInv'
<1>1. /\ req \in [Threads -> Requests] /\ session \in [Sessions -> Attributes \cup {Absent}]
      /\ req[t].op # "set name"
  BY DEF AccountIInv, AccountTypeOK, InsertUser, InsertRefused, SaveUser, RemoveUser, LogLogin,
         LogLogout, Invalidate, LogoutRaises
<1>2. req'[t].op \in {"idle", "set id", "invalidate"}
  <2>1. CASE LogLogin(t)
    BY <1>1, <2>1 DEF LogLogin, Requests
  <2>2. CASE LogLogout(t)
    BY <1>1, <2>2 DEF LogLogout, Requests
  <2>3. CASE ~LogLogin(t) /\ ~LogLogout(t)
    <3>1. Ends(t)
      BY <2>3 DEF InsertUser, InsertRefused, SaveUser, RemoveUser, Invalidate, LogoutRaises
    <3>2. req'[t] = Idle
      BY <1>1, <3>1 DEF Ends
    <3> QED BY <3>2, IdleCarries
  <2> QED BY <2>1, <2>2, <2>3
<1>3. \A s \in Sessions : session'[s] # Absent => session'[s] = session[s]
  BY <1>1 DEF InsertUser, InsertRefused, SaveUser, RemoveUser, LogLogin,
         LogLogout, Invalidate, LogoutRaises
<1> QED BY <1>1, <1>2, <1>3, SessionsStay

\* The login that can no longer go on was the middle of a session that is gone.
LEMMA RaisesSerial ==
  ASSUME AccountIInv, SerialAccountIInv, NEW t \in Threads, Alone(t), LoginRaises(t)
  PROVE  SerialAccountIInv'
<1> USE DEF ThreadStep
<1>1. \A u \in Threads \ {t} : req[u].op = "idle" /\ req'[u].op = "idle"
  BY OneThread
<1>2. /\ req'[t].op = "idle" /\ session[req[t].session] = Absent
      /\ UNCHANGED <<users, issued, session>>
  BY IdleCarries DEF LoginRaises, Ends, AccountIInv, AccountTypeOK
<1>3. ASSUME NEW s \in Sessions, session'[s] # Absent PROVE OneAccount(s)'
  <2>1. session[s] # Absent /\ OneAccount(s)
    BY <1>2, <1>3 DEF SerialAccountIInv
  <2>2. ~ \E u \in Threads : req[u].op = "set name" /\ req[u].session = s
    BY <1>1, <1>2, <2>1
  <2>3. /\ session[s].id \in issued
        /\ users[session[s].id] # Absent => users[session[s].id].name = session[s].name
    BY <2>1, <2>2, Zenon DEF OneAccount
  <2> QED BY <1>2, <2>3 DEF OneAccount
<1>4. \A u \in Threads : req'[u].op = "idle"
  BY <1>1, <1>2
<1> QED BY <1>3, <1>4 DEF SerialAccountIInv

LEMMA SessionsGoSerial ==
  ASSUME AccountIInv, SerialAccountIInv, SessionExpires \/ Restart
  PROVE  SerialAccountIInv'
<1>1. CASE SessionExpires
  <2>1. /\ \A s \in Sessions : session'[s] # Absent => session'[s] = session[s]
        /\ UNCHANGED <<users, issued, req>>
    BY <1>1 DEF SessionExpires, AccountIInv, AccountTypeOK
  <2>2. ASSUME NEW s \in Sessions, session'[s] # Absent PROVE OneAccount(s)'
    BY <2>1, <2>2 DEF SerialAccountIInv, OneAccount
  <2>3. ASSUME NEW t \in Threads, req'[t].op = "set name", session'[req'[t].session] # Absent
        PROVE  session'[req'[t].session].id = req'[t].id
    <3>1. req[t].session \in Sessions
      BY <2>1, <2>3 DEF AccountIInv, Carries
    <3> QED BY <2>1, <2>3, <3>1 DEF SerialAccountIInv
  <2> QED BY <2>1, <2>2, <2>3 DEF SerialAccountIInv
<1>2. CASE Restart
  <2>1. /\ \A t \in Threads : req'[t].op = "idle"
        /\ \A s \in Sessions : session'[s] = Absent
    BY <1>2, IdleCarries DEF Restart
  <2> QED BY <2>1 DEF SerialAccountIInv
<1> QED BY <1>1, <1>2

\* A step while at most one thread has a request.
SerialNext ==
  \/ \E t \in Threads : Alone(t) /\ ThreadStep(t)
  \/ SessionExpires \/ Restart \/ UNCHANGED accountVars

\* Where requests wait for each other every step is of that kind.
LEMMA StepsSerial ==
  ASSUME SerialAccountIInv, ~Overlap, [AccountNext]_accountVars
  PROVE  SerialNext
BY StepsAlone DEF AccountNext, SerialNext

\* And it is a step of the accounts.
LEMMA SerialSteps == SerialNext => [AccountNext]_accountVars
BY DEF SerialNext, AccountNext

LEMMA SerialStep ==
  ASSUME AccountIInv, SerialAccountIInv, SerialNext
  PROVE  SerialAccountIInv'
<1>1. ASSUME NEW t \in Threads, Alone(t), ThreadStep(t) PROVE SerialAccountIInv'
  BY <1>1, BeginSerial, RestSerial, RaisesSerial, SetIdSerial, SetNameSerial, SetRoleSerial
     DEF ThreadStep
<1>2. CASE UNCHANGED accountVars
  BY <1>2 DEF accountVars, SerialAccountIInv, OneAccount
<1> QED BY <1>1, <1>2, SessionsGoSerial DEF SerialNext

-------------------------------------------------------------------------------
\* The table and the log are each written by few of the steps.
LEMMA WhoWrites ==
  ASSUME NEW t \in Threads, ThreadStep(t)
  PROVE  /\ UNCHANGED users \/ InsertUser(t) \/ SaveUser(t) \/ RemoveUser(t)
         /\ UNCHANGED activity \/ LogLogin(t) \/ LogLogout(t)
<1>1. CASE Register(t) \/ CreateUser(t)
  BY <1>1 DEF Register, CreateUser, CheckName
<1>2. CASE UpdateUser(t) \/ ResetPassword(t) \/ DeleteUser(t)
  BY <1>2 DEF UpdateUser, ResetPassword, DeleteUser, Load
<1>3. CASE InsertUser(t) \/ InsertRefused(t) \/ SaveUser(t) \/ RemoveUser(t)
  BY <1>3 DEF InsertUser, InsertRefused, SaveUser, RemoveUser
<1>4. CASE Login(t) \/ LogLogin(t)
  BY <1>4 DEF Login, Authenticate, LogLogin
<1>5. CASE SetId(t)
  BY <1>5 DEF SetId
<1>6. CASE SetName(t) \/ SetRole(t) \/ LoginRaises(t)
  BY <1>6 DEF SetName, SetRole, LoginRaises
<1>7. CASE Logout(t) \/ LogLogout(t)
  BY <1>7 DEF Logout, LogLogout
<1>8. CASE Invalidate(t) \/ LogoutRaises(t)
  BY <1>8 DEF Invalidate, LogoutRaises
<1> QED BY <1>1, <1>2, <1>3, <1>4, <1>5, <1>6, <1>7, <1>8 DEF ThreadStep

\* Of the thread's steps one replaces a row by another: the saving of an edit.
LEMMA AskedStep ==
  ASSUME AccountIInv, SerialAccountIInv, SerialNext
  PROVE  OnlyTheAsked
<1> SUFFICES ASSUME NEW i \in Ids, users[i] # Absent, users'[i] # Absent, users'[i] # users[i]
             PROVE  \E t \in Threads :
                      /\ req[t].id = i
                      /\ \A column \in {"name", "role", "status", "password"} :
                           users'[i][column] # users[i][column] =>
                             column \in DOMAIN req[t] /\ req[t][column] = users'[i][column]
  BY DEF OnlyTheAsked
<1>1. PICK t \in Threads : InsertUser(t) \/ SaveUser(t) \/ RemoveUser(t)
  <2>1. users' # users
    OBVIOUS
  <2>2. PICK t \in Threads : ThreadStep(t)
    BY <2>1 DEF SerialNext, SessionExpires, Restart, accountVars
  <2> QED BY <2>1, <2>2, WhoWrites
<1>2. users \in [Ids -> Rows \cup {Absent}]
  BY DEF AccountIInv, AccountTypeOK
<1>3. ~ InsertUser(t) /\ ~ RemoveUser(t)
  BY <1>2 DEF InsertUser, RemoveUser, AccountIInv
<1>4. /\ req[t].id = i /\ users'[i] = Edited(req[t]) /\ users[i] = req[t].row
      /\ req[t] \in Requests /\ req[t].row \in Rows
  BY <1>1, <1>2, <1>3 DEF SaveUser, SerialAccountIInv, AccountIInv, AccountTypeOK, Carries
<1>5. /\ DOMAIN req[t] = {"op", "id", "row", "role", "status", "password", "session", "browser"}
      /\ Edited(req[t]).name = req[t].row.name
      /\ Edited(req[t]).role \in {req[t].row.role, req[t].role}
      /\ Edited(req[t]).status \in {req[t].row.status, req[t].status}
      /\ Edited(req[t]).password \in {req[t].row.password, req[t].password}
  BY <1>4 DEF Requests, Rows, Edited
<1> QED BY <1>4, <1>5

LEMMA OwnStep ==
  ASSUME AccountIInv, SerialAccountIInv, SerialNext
  PROVE  OwnLogout
<1> SUFFICES ASSUME activity' # activity, activity'.action = "LOGOUT"
             PROVE  \E t \in Threads :
                      /\ req[t].op = "logout"
                      /\ \/ session[req[t].session].id = activity'.id
                         \/ users[session[req[t].session].id] = Absent
  BY DEF OwnLogout
<1>1. PICK t \in Threads : Alone(t) /\ (LogLogin(t) \/ LogLogout(t))
  <2>1. PICK t \in Threads : Alone(t) /\ ThreadStep(t)
    BY DEF SerialNext, SessionExpires, Restart, accountVars
  <2> QED BY <2>1, WhoWrites
<1>2. LogLogout(t)
  <2>1. ASSUME LogLogin(t) PROVE activity'.action = "LOGIN"
    BY <2>1 DEF LogLogin, LogActivity
  <2> QED BY <1>1, <2>1
<1> DEFINE s == req[t].session
<1>3. PICK i \in Named(session[s].name) : activity'.id = i
  BY <1>2 DEF LogLogout, LogActivity
<1>4. s \in Sessions /\ session[s] # Absent /\ req[t].op = "logout"
  BY <1>2 DEF LogLogout, AccountIInv, Carries
<1>5. ~ \E u \in Threads : req[u].op = "set name"
  <2>1. Alone(t)
    BY <1>1
  <2> QED BY <2>1, <1>4 DEF Alone
<1>6. /\ session[s].id \in issued
      /\ users[session[s].id] # Absent => users[session[s].id].name = session[s].name
  BY <1>4, <1>5 DEF SerialAccountIInv, OneAccount
<1>7. session[s].id \in Ids
  BY <1>6 DEF AccountIInv, AccountTypeOK
<1>8. users[session[s].id] # Absent => session[s].id = i
  BY <1>3, <1>6, <1>7 DEF Named, NamesAreUnique, AccountIInv
<1> QED BY <1>3, <1>4, <1>8

-------------------------------------------------------------------------------
\* The inductive invariant of accounts whose requests wait for each other.
THEOREM SerialAccountInvariance ==
  ASSUME ~Overlap PROVE AccountSpec => [](AccountIInv /\ SerialAccountIInv)
<1>1. AccountIInv /\ SerialAccountIInv /\ [AccountNext]_accountVars =>
        (AccountIInv /\ SerialAccountIInv)'
  BY StepKeeps, StepsSerial, SerialStep
<1>2. AccountInit => AccountIInv /\ SerialAccountIInv
  BY InitHolds, SerialInit
<1> QED BY <1>1, <1>2, PTL DEF AccountSpec

\* One request at a time: an account changes in nothing but what one asked for
\* (UserService.updateUser, resetPassword).
THEOREM AskedChangesOnly == ASSUME ~Overlap PROVE AccountSpec => OnlyAskedChanges
<1>1. AccountIInv /\ SerialAccountIInv /\ [AccountNext]_accountVars =>
        [OnlyTheAsked]_accountVars
  BY StepsSerial, AskedStep
<1> QED BY <1>1, SerialAccountInvariance, PTL DEF AccountSpec, OnlyAskedChanges

\* One request at a time: the end of a session is entered for its own account, for as long
\* as there is that account (AuthController.logout).
THEOREM LogoutsStayOwn == ASSUME ~Overlap PROVE AccountSpec => LogoutsAreOwn
<1>1. AccountIInv /\ SerialAccountIInv /\ [AccountNext]_accountVars =>
        [OwnLogout]_accountVars
  BY StepsSerial, OwnStep
<1> QED BY <1>1, SerialAccountInvariance, PTL DEF AccountSpec, LogoutsAreOwn

-------------------------------------------------------------------------------
\* Smallest numbers, folds and sums.  A fact about every number, every sequence or
\* every finite set needs an induction: each is proved from a smallest counterexample
\* (NatLessThanWellFounded and WFMin), once, and cited below as a fact about sets.

\* A set of numbers has a smallest one.
LEMMA Smallest == ASSUME NEW T, T \subseteq Nat, T # {} PROVE \E x \in T : \A y \in T : x <= y
<1>1. IsWellFoundedOn(OpToRel(<,Nat), Nat)
  BY NatLessThanWellFounded
<1>2. PICK x \in T : \A y \in T : ~(<<y, x>> \in OpToRel(<,Nat))
  BY <1>1, WFMin, Zenon
<1>3. \A y \in T : ~(y < x)
  BY <1>2 DEF OpToRel
<1>4. \A y \in T : x \in Nat /\ y \in Nat
  OBVIOUS
<1> QED BY <1>3, <1>4

\* A set of numbers with 0, and with each number's successor, has all of them.
LEMMA AllNumbers ==
  ASSUME NEW P, 0 \in P, \A n \in Nat : n \in P => n + 1 \in P
  PROVE  Nat \subseteq P
<1> DEFINE T == {n \in Nat : n \notin P}
<1> SUFFICES ASSUME T # {} PROVE FALSE
  OBVIOUS
<1>1. PICK x \in T : \A y \in T : x <= y
  BY Smallest
<1>2. x \in Nat /\ x # 0
  OBVIOUS
<1>3. x - 1 \in Nat /\ x - 1 \notin T
  BY <1>1, <1>2
<1> QED BY <1>2, <1>3

\* The function that a fold goes by, for any choice of an element and any step.
Closed(op, S, R) == \A x \in S, r \in R : op[<<x, r>>] \in R
Chooses(ch, S) == \A s \in SUBSET S : s # {} => ch[s] \in s
FoldsBy(g, base, op, ch, S, R) ==
  /\ g \in [SUBSET S -> R]
  /\ \A s \in SUBSET S : g[s] = IF s = {} THEN base ELSE op[<<ch[s], g[s \ {ch[s]}]>>]

\* A fold over a finite set is well defined: there is such a function.
LEMMA FoldExists ==
  ASSUME NEW S, IsFiniteSet(S), NEW R, NEW base \in R, NEW op, NEW ch,
         Closed(op, S, R), Chooses(ch, S)
  PROVE  \E g : FoldsBy(g, base, op, ch, S, R)
<1> USE DEF Closed, Chooses
<1> DEFINE Small(n) == {s \in SUBSET S : Cardinality(s) <= n}
           Fits(g, n) == \A s \in Small(n) :
             g[s] = IF s = {} THEN base ELSE op[<<ch[s], g[s \ {ch[s]}]>>]
           P == {n \in Nat : \E g \in [Small(n) -> R] : Fits(g, n)}
<1>1. \A s \in SUBSET S : IsFiniteSet(s) /\ Cardinality(s) \in Nat /\ Cardinality(s) <= Cardinality(S)
  BY FS_Subset, FS_CardinalityType
<1>2. \A s \in SUBSET S : Cardinality(s) = 0 <=> s = {}
  BY <1>1, FS_EmptySet
<1>3. \A s \in SUBSET S : \A x \in s : Cardinality(s \ {x}) = Cardinality(s) - 1
  BY <1>1, FS_RemoveElement
<1>4. 0 \in P
  <2>1. \A s \in Small(0) : s = {}
    BY <1>1, <1>2
  <2>2. [s \in Small(0) |-> base] \in [Small(0) -> R] /\ Fits([s \in Small(0) |-> base], 0)
    BY <2>1
  <2> QED BY <2>2
<1>5. ASSUME NEW n \in Nat, n \in P PROVE n + 1 \in P
  <2>1. PICK g \in [Small(n) -> R] : Fits(g, n)
    BY <1>5
  <2> DEFINE h == [s \in Small(n + 1) |-> IF s = {} THEN base ELSE op[<<ch[s], g[s \ {ch[s]}]>>]]
  <2>2. ASSUME NEW s \in Small(n + 1), s # {}
        PROVE  ch[s] \in S /\ s \ {ch[s]} \in Small(n)
    <3>1. ch[s] \in s /\ s \in SUBSET S /\ Cardinality(s) <= n + 1
      BY <2>2
    <3>2. Cardinality(s \ {ch[s]}) = Cardinality(s) - 1 /\ Cardinality(s) \in Nat
      BY <1>1, <1>3, <3>1
    <3> QED BY <3>1, <3>2
  <2>3. h \in [Small(n + 1) -> R]
    <3>1. ASSUME NEW s \in Small(n + 1) PROVE h[s] \in R
      <4>1. CASE s = {}
        BY <4>1
      <4>2. CASE s # {}
        <5>1. g[s \ {ch[s]}] \in R
          BY <2>1, <2>2, <4>2
        <5> QED BY <2>2, <4>2, <5>1
      <4> QED BY <4>1, <4>2
    <3> QED BY <3>1
  <2>4. \A s \in Small(n) : s \in Small(n + 1) /\ h[s] = g[s]
    <3>1. \A s \in Small(n) : s \in Small(n + 1)
      BY <1>1
    <3> QED BY <2>1, <3>1
  <2>5. Fits(h, n + 1)
    <3> SUFFICES ASSUME NEW s \in Small(n + 1)
                 PROVE  h[s] = IF s = {} THEN base ELSE op[<<ch[s], h[s \ {ch[s]}]>>]
      OBVIOUS
    <3>1. CASE s = {}
      BY <3>1
    <3>2. CASE s # {}
      <4>1. h[s \ {ch[s]}] = g[s \ {ch[s]}]
        BY <2>2, <2>4, <3>2
      <4> QED BY <3>2, <4>1
    <3> QED BY <3>1, <3>2
  <2>6. \E f \in [Small(n + 1) -> R] : Fits(f, n + 1)
    <3> HIDE DEF h, Fits, Small
    <3> QED BY <2>3, <2>5
  <2>7. n + 1 \in Nat
    OBVIOUS
  <2> HIDE DEF h, Fits, Small
  <2> QED BY <2>6, <2>7
<1>6. Cardinality(S) \in P
  <2>1. Nat \subseteq P
    <3> HIDE DEF P
    <3> QED BY <1>4, <1>5, AllNumbers
  <2> QED BY <1>1, <2>1
<1>7. Small(Cardinality(S)) = SUBSET S
  BY <1>1
<1>8. PICK g \in [SUBSET S -> R] : Fits(g, Cardinality(S))
  BY <1>6, <1>7
<1>9. \A s \in SUBSET S : g[s] = IF s = {} THEN base ELSE op[<<ch[s], g[s \ {ch[s]}]>>]
  BY <1>7, <1>8
<1>10. FoldsBy(g, base, op, ch, S, R)
  BY <1>8, <1>9 DEF FoldsBy
<1> QED BY <1>10

\* What Min chooses is in the set, and the least of it.
LEMMA LeastOf ==
  ASSUME NEW t, t \subseteq Nat, t # {}, NEW m, m = CHOOSE x \in t : \A y \in t : x =< y
  PROVE  m \in t /\ \A y \in t : m <= y
<1>1. \E x \in t : \A y \in t : x <= y
  BY Smallest
<1> QED BY <1>1

\* What Max chooses is in the set, and the greatest of it.
LEMMA GreatestOf ==
  ASSUME NEW n \in Nat, NEW t, t \subseteq 0..n, t # {},
         NEW m, m = CHOOSE x \in t : \A y \in t : x >= y
  PROVE  m \in t /\ \A y \in t : y <= m
<1> DEFINE T == {k \in 0..n : n - k \in t}
<1>1. T \subseteq Nat /\ T # {}
  <2>1. PICK x \in t : TRUE
    OBVIOUS
  <2>2. x \in 0..n /\ n - x \in 0..n /\ n - (n - x) = x
    BY <2>1
  <2>3. n - x \in T
    BY <2>2
  <2>4. T \subseteq Nat
    OBVIOUS
  <2> QED BY <2>3, <2>4
<1>2. PICK k \in T : \A y \in T : k <= y
  BY <1>1, Smallest
<1>3. \A y \in t : n - k >= y
  <2> SUFFICES ASSUME NEW y \in t PROVE n - k >= y
    OBVIOUS
  <2>1. y \in 0..n /\ n - y \in 0..n /\ n - (n - y) = y
    OBVIOUS
  <2>2. n - y \in T
    BY <2>1
  <2>3. k <= n - y /\ k \in 0..n
    BY <1>2, <2>2
  <2> QED BY <2>1, <2>3
<1>4. n - k \in t
  BY <1>2
<1>5. \E x \in t : \A y \in t : x >= y
  BY <1>3, <1>4
<1>6. m \in t /\ \A y \in t : m >= y
  BY <1>5
<1> QED BY <1>6

\* A sum, as SumFunction has it, by the function that takes the elements one by one.
Pick(s) == CHOOSE x \in s : TRUE
Sums(g, v, S) ==
  /\ g \in [SUBSET S -> Nat]
  /\ g[{}] = 0
  /\ \A s \in SUBSET S : s # {} => g[s] = v[Pick(s)] + g[s \ {Pick(s)}]

\* What is picked of a set is in it.
LEMMA PickIn == ASSUME NEW s, s # {} PROVE Pick(s) \in s
BY DEF Pick

\* The function SumFunction takes, and what it is where it is defined.
SumBy(g, v, S) == g = [s \in SUBSET S |-> IF s = {} THEN 0 ELSE v[Pick(s)] + g[s \ {Pick(s)}]]

\* SumFunction is well defined on a finite set, and takes the elements one by one.
LEMMA SumsOf ==
  ASSUME NEW S, IsFiniteSet(S), NEW v \in [S -> Nat]
  PROVE  (\E g : SumBy(g, v, S)) /\ (\A g : SumBy(g, v, S) => Sums(g, v, S))
<1>1. ASSUME NEW g, g = [s \in SUBSET S |-> IF s = {} THEN 0 ELSE v[Pick(s)] + g[s \ {Pick(s)}]]
      PROVE  Sums(g, v, S)
  <2> DEFINE P == {n \in Nat : \A s \in SUBSET S : Cardinality(s) = n => g[s] \in Nat}
  <2>1. \A s \in SUBSET S : IsFiniteSet(s) /\ Cardinality(s) \in Nat
    BY FS_Subset, FS_CardinalityType
  <2>2. g[{}] = 0
    BY <1>1
  <2>3. \A s \in SUBSET S : s # {} => g[s] = v[Pick(s)] + g[s \ {Pick(s)}]
    BY <1>1
  <2>4. 0 \in P
    BY <2>1, <2>2, FS_EmptySet
  <2>5. ASSUME NEW n \in Nat, n \in P PROVE n + 1 \in P
    <3> SUFFICES ASSUME NEW s \in SUBSET S, Cardinality(s) = n + 1 PROVE g[s] \in Nat
      OBVIOUS
    <3>1. s # {}
      BY FS_EmptySet
    <3>2. Pick(s) \in s /\ s \ {Pick(s)} \in SUBSET S
      BY <3>1, PickIn
    <3>3. Cardinality(s \ {Pick(s)}) = Cardinality(s) - 1
      BY <2>1, <3>2, FS_RemoveElement
    <3>4. Cardinality(s \ {Pick(s)}) = n
      BY <3>3
    <3>5. g[s \ {Pick(s)}] \in Nat
      BY <2>5, <3>2, <3>4
    <3>6. v[Pick(s)] \in Nat
      BY <3>2
    <3>7. g[s] = v[Pick(s)] + g[s \ {Pick(s)}]
      BY <2>3, <3>1
    <3> HIDE DEF P
    <3> QED BY <3>5, <3>6, <3>7
  <2>6. Nat \subseteq P
    <3> HIDE DEF P
    <3> QED BY <2>4, <2>5, AllNumbers
  <2>7. \A s \in SUBSET S : g[s] \in Nat
    BY <2>1, <2>6
  <2>8. g \in [SUBSET S -> Nat]
    BY <1>1, <2>7
  <2> QED BY <2>2, <2>3, <2>8 DEF Sums
<1>2. \E g : g = [s \in SUBSET S |-> IF s = {} THEN 0 ELSE v[Pick(s)] + g[s \ {Pick(s)}]]
  <2> DEFINE op == [p \in S \X Nat |-> v[p[1]] + p[2]]
             ch == [s \in SUBSET S |-> Pick(s)]
  <2>1. \A x \in S, r \in Nat : op[<<x, r>>] = v[x] + r /\ op[<<x, r>>] \in Nat
    OBVIOUS
  <2>2. \A s \in SUBSET S : ch[s] = Pick(s)
    OBVIOUS
  <2>3. \A s \in SUBSET S : s # {} => Pick(s) \in s
    BY PickIn
  <2>4. \A s \in SUBSET S : s # {} => ch[s] \in s
    BY <2>2, <2>3
  <2>0. \A x \in S, r \in Nat : op[<<x, r>>] \in Nat
    BY <2>1
  <2> HIDE DEF op, ch
  <2>5. PICK g : FoldsBy(g, 0, op, ch, S, Nat)
    <3>1. Closed(op, S, Nat) /\ Chooses(ch, S)
      BY <2>0, <2>4 DEF Closed, Chooses
    <3> QED BY <3>1, FoldExists, 0 \in Nat
  <2>6. ASSUME NEW s \in SUBSET S
        PROVE  g[s] = IF s = {} THEN 0 ELSE v[Pick(s)] + g[s \ {Pick(s)}]
    <3>1. CASE s = {}
      BY <2>5, <3>1 DEF FoldsBy
    <3>2. CASE s # {}
      <4>1. g[s] = op[<<Pick(s), g[s \ {Pick(s)}]>>]
        BY <2>2, <2>5, <3>2 DEF FoldsBy
      <4>2. Pick(s) \in S /\ g[s \ {Pick(s)}] \in Nat
        BY <2>3, <3>2, <2>5 DEF FoldsBy
      <4> QED BY <2>1, <3>2, <4>1, <4>2
    <3> QED BY <3>1, <3>2
  <2>7. g = [s \in SUBSET S |-> IF s = {} THEN 0 ELSE v[Pick(s)] + g[s \ {Pick(s)}]]
    BY <2>5, <2>6 DEF FoldsBy
  <2> QED BY <2>7
<1>3. \E g : SumBy(g, v, S)
  BY <1>2 DEF SumBy
<1>4. \A g : SumBy(g, v, S) => Sums(g, v, S)
  BY <1>1 DEF SumBy
<1> QED BY <1>3, <1>4

-------------------------------------------------------------------------------
\* Names: the characters, and the dashes that are made single.

\* The choice that FoldLeft makes: the last index.
LEMMA LastIndex ==
  ASSUME NEW n \in Nat
  PROVE  /\ Chooses([t \in SUBSET (1..n) |-> Max(t)], 1..n)
         /\ \A k \in 1..n : Max(1..k) = k /\ (1..k) \ {k} = 1..(k - 1) /\ 1..k \in SUBSET (1..n) /\ 1..k # {}
<1>1. ASSUME NEW t \in SUBSET (1..n), t # {} PROVE Max(t) \in t
  <2>1. t \subseteq 0..n
    OBVIOUS
  <2> QED BY <1>1, <2>1, GreatestOf DEF Max
<1>2. ASSUME NEW k \in 1..n PROVE Max(1..k) = k /\ (1..k) \ {k} = 1..(k - 1) /\ 1..k # {}
  <2>1. k \in 1..k /\ 1..k \subseteq 0..k /\ k \in Nat
    OBVIOUS
  <2>2. Max(1..k) \in 1..k /\ \A y \in 1..k : y <= Max(1..k)
    BY <2>1, GreatestOf DEF Max
  <2> QED BY <2>1, <2>2
<1>3. \A k \in 1..n : 1..k \in SUBSET (1..n)
  OBVIOUS
<1> QED BY <1>1, <1>2, <1>3 DEF Chooses

\* What a name is made of, before a conversion and after.
Chars == STRING \cup Names!Alnum \cup {"-"}

\* SingleDashes, character by character.
DashStep(sofar, c) ==
  IF c = "-" /\ sofar # <<>> /\ sofar[Len(sofar)] = "-" THEN sofar ELSE Append(sofar, c)
Dashing(g, s) ==
  /\ g \in [0..Len(s) -> Seq(Chars)] /\ g[0] = <<>>
  /\ \A k \in 1..Len(s) : g[k] = DashStep(g[k - 1], s[k])

\* SingleDashes goes through the text from its first character to its last.
LEMMA SingleDashesIs ==
  ASSUME NEW s \in Seq(Chars) PROVE \E g : Dashing(g, s) /\ Names!SingleDashes(s) = g[Len(s)]
<1> DEFINE n == Len(s)
           S == 1..n
           R == Seq(Chars)
           op == [p \in S \X R |-> DashStep(p[2], s[p[1]])]
           ch == [t \in SUBSET S |-> Max(t)]
<1>1. n \in Nat /\ IsFiniteSet(S) /\ DOMAIN s = S /\ <<>> \in R /\ \A k \in S : s[k] \in Chars
  BY FS_Interval
<1>2. \A x \in S, r \in R : op[<<x, r>>] = DashStep(r, s[x])
  OBVIOUS
<1>3. ASSUME NEW c \in Chars, NEW r \in R PROVE DashStep(r, c) \in R
  <2>1. r \in Seq(Chars) /\ c \in Chars
    BY <1>3
  <2>2. Append(r, c) \in Seq(Chars)
    BY <2>1, AppendProperties
  <2> QED BY <2>1, <2>2 DEF DashStep
<1>4. Closed(op, S, R)
  BY <1>1, <1>2, <1>3 DEF Closed
<1>5. Chooses(ch, S)
  BY <1>1, LastIndex
<1>6. \A t \in SUBSET S : ch[t] = Max(t)
  OBVIOUS
<1>7. \A k \in S : Max(1..k) = k /\ (1..k) \ {k} = 1..(k - 1) /\ 1..k \in SUBSET S /\ 1..k # {}
  BY <1>1, LastIndex
<1> HIDE DEF op, ch, R
<1>8. PICK f : FoldsBy(f, <<>>, op, ch, S, R)
  BY <1>1, <1>4, <1>5, FoldExists
<1>9. ASSUME NEW t \in SUBSET S
      PROVE  f[t] = IF t = {} THEN <<>> ELSE DashStep(f[t \ {Max(t)}], s[Max(t)])
  <2>1. CASE t = {}
    BY <1>8, <2>1 DEF FoldsBy
  <2>2. CASE t # {}
    <3>1. f[t] = op[<<Max(t), f[t \ {Max(t)}]>>]
      BY <1>6, <1>8, <2>2 DEF FoldsBy
    <3>2. Max(t) \in S /\ f[t \ {Max(t)}] \in R
      BY <1>5, <1>6, <1>8, <2>2 DEF FoldsBy, Chooses
    <3> QED BY <1>2, <2>2, <3>1, <3>2
  <2> QED BY <2>1, <2>2
<1>10. \E h : h = [t \in SUBSET DOMAIN s |->
                     IF t = {} THEN <<>> ELSE DashStep(h[t \ {Max(t)}], s[Max(t)])]
  <2>1. f = [t \in SUBSET S |-> IF t = {} THEN <<>> ELSE DashStep(f[t \ {Max(t)}], s[Max(t)])]
    BY <1>8, <1>9 DEF FoldsBy
  <2> QED BY <1>1, <2>1
<1>11. PICK h : /\ h = [t \in SUBSET DOMAIN s |->
                          IF t = {} THEN <<>> ELSE DashStep(h[t \ {Max(t)}], s[Max(t)])]
                /\ Names!SingleDashes(s) = h[DOMAIN s]
  BY <1>10 DEF Names!SingleDashes, Names!FoldLeft, Names!MapThenFoldSet, Names!Max, Max, DashStep,
               Names!Last
<1>12. h[{}] = <<>> /\ \A t \in SUBSET S : t # {} => h[t] = DashStep(h[t \ {Max(t)}], s[Max(t)])
  BY <1>1, <1>11
<1>13. \A k \in S : h[1..k] = DashStep(h[1..(k - 1)], s[k])
  BY <1>7, <1>12
<1> DEFINE g == [k \in 0..n |-> h[1..k]]
<1>14. g[0] = <<>> /\ g[n] = h[S] /\ \A k \in S : g[k] = DashStep(g[k - 1], s[k])
  <2>1. 1..0 = {} /\ 0 \in 0..n /\ n \in 0..n
    BY <1>1
  <2>2. \A k \in S : k \in 0..n /\ k - 1 \in 0..n
    BY <1>1
  <2> QED BY <1>12, <1>13, <2>1, <2>2
<1>15. \A k \in 0..n : g[k] \in R
  <2> DEFINE P == {k \in Nat : k <= n => g[k] \in R}
  <2>1. 0 \in P
    BY <1>1, <1>14
  <2>2. ASSUME NEW k \in Nat, k \in P PROVE k + 1 \in P
    <3> SUFFICES ASSUME k + 1 <= n PROVE g[k + 1] \in R
      OBVIOUS
    <3>1. k + 1 \in S /\ (k + 1) - 1 = k /\ k <= n
      BY <1>1
    <3>2. g[k] \in R /\ s[k + 1] \in Chars
      BY <1>1, <2>2, <3>1
    <3>3. g[k + 1] = DashStep(g[k], s[k + 1])
      BY <1>14, <3>1
    <3> QED BY <1>3, <3>2, <3>3
  <2>3. Nat \subseteq P
    <3> HIDE DEF P
    <3> QED BY <2>1, <2>2, AllNumbers
  <2>4. \A k \in 0..n : k \in Nat /\ k <= n
    BY <1>1
  <2> HIDE DEF g
  <2> QED BY <2>3, <2>4
<1>16. Dashing(g, s)
  BY <1>14, <1>15 DEF Dashing, R
<1> QED BY <1>1, <1>11, <1>14, <1>16

-------------------------------------------------------------------------------
\* The words of a name, by the places where they begin.

\* A set of sequences with the empty one, and with whatever one of them is appended to
\* in one element, has all of them.
LEMMA AllSequences ==
  ASSUME NEW S, NEW P, <<>> \in P, \A s \in Seq(S), e \in S : s \in P => Append(s, e) \in P
  PROVE  Seq(S) \subseteq P
<1> DEFINE N == {n \in Nat : \A s \in Seq(S) : Len(s) = n => s \in P}
<1>1. 0 \in N
  BY EmptySeq
<1>2. ASSUME NEW n \in Nat, n \in N PROVE n + 1 \in N
  <2> SUFFICES ASSUME NEW s \in Seq(S), Len(s) = n + 1 PROVE s \in P
    OBVIOUS
  <2>1. s # <<>>
    BY EmptySeq
  <2>2. PICK t \in Seq(S), e \in S : s = Append(t, e)
    BY <2>1, SequenceEmptyOrAppend
  <2>3. Len(t) \in Nat /\ Len(s) = Len(t) + 1
    BY <2>2, AppendProperties, LenProperties
  <2>4. Len(t) = n
    BY <2>3
  <2>5. t \in P
    BY <1>2, <2>2, <2>4
  <2> QED BY <2>2, <2>5
<1>3. Nat \subseteq N
  <2> HIDE DEF N
  <2> QED BY <1>1, <1>2, AllNumbers
<1>4. \A s \in Seq(S) : Len(s) \in Nat
  BY LenProperties
<1> QED BY <1>3, <1>4

\* How many of a set are before a number, and the one before which there are so many.
Before(S, i) == {j \in S : j < i}
Rank(S, i) == Cardinality(Before(S, i))
At(S, w) == CHOOSE i \in S : Rank(S, i) = w - 1

\* Ranks are numbers below the size of the set.
LEMMA BeforeType ==
  ASSUME NEW n \in Nat, NEW S, S \subseteq 1..n
  PROVE  /\ IsFiniteSet(S) /\ Cardinality(S) \in Nat
         /\ \A i : IsFiniteSet(Before(S, i)) /\ Rank(S, i) \in Nat
         /\ \A i \in S : Rank(S, i) < Cardinality(S)
<1>0. 1 \in Int /\ n \in Int /\ S \in SUBSET (1..n)
  OBVIOUS
<1>a. IsFiniteSet(1..n)
  BY <1>0, FS_Interval
<1>1. IsFiniteSet(S)
  BY <1>0, <1>a, FS_Subset
<1>2. \A i : Before(S, i) \in SUBSET S
  BY DEF Before
<1>3. \A i : IsFiniteSet(Before(S, i))
  BY <1>1, <1>2, FS_Subset
<1>4. Cardinality(S) \in Nat /\ \A i : Rank(S, i) \in Nat
  BY <1>1, <1>3, FS_CardinalityType DEF Rank
<1>5. ASSUME NEW i \in S PROVE Rank(S, i) < Cardinality(S)
  <2>1. i \notin Before(S, i)
    BY DEF Before
  <2>2. Before(S, i) # S
    BY <2>1
  <2>3. Rank(S, i) <= Cardinality(S) /\ Rank(S, i) # Cardinality(S)
    BY <1>1, <1>2, <2>2, FS_Subset DEF Rank
  <2> QED BY <1>4, <2>3
<1> QED BY <1>1, <1>3, <1>4, <1>5

\* Of two elements the larger has the higher rank.
LEMMA RankGrows ==
  ASSUME NEW n \in Nat, NEW S, S \subseteq 1..n, NEW i \in S, NEW j \in S, i < j
  PROVE  Rank(S, i) < Rank(S, j)
<1>1. IsFiniteSet(Before(S, j)) /\ Rank(S, i) \in Nat /\ Rank(S, j) \in Nat
  BY BeforeType
<1>a. (\A k \in S : k < i => k < j) /\ ~(i < i)
  OBVIOUS
<1>2. Before(S, i) \in SUBSET Before(S, j) /\ i \in Before(S, j) /\ i \notin Before(S, i)
  BY <1>a DEF Before
<1>3. Before(S, i) # Before(S, j)
  BY <1>2
<1>4. Rank(S, i) <= Rank(S, j) /\ Rank(S, i) # Rank(S, j)
  BY <1>1, <1>2, <1>3, FS_Subset DEF Rank
<1> QED BY <1>1, <1>4

\* Every number below the size of the set is a rank.
LEMMA RanksFound ==
  ASSUME NEW n \in Nat, NEW S, S \subseteq 1..n, NEW w \in 1..Cardinality(S)
  PROVE  \E i \in S : Rank(S, i) = w - 1
<1> DEFINE P == {m \in Nat : \A T \in SUBSET (1..m) :
                   \A k \in 1..Cardinality(T) : \E i \in T : Rank(T, i) = k - 1}
<1>1. 0 \in P
  <2>1. 1..0 = {}
    OBVIOUS
  <2>2. \A T \in SUBSET (1..0) : T = {}
    BY <2>1
  <2>3. \A T \in SUBSET (1..0) : Cardinality(T) = 0
    BY <2>2, FS_EmptySet
  <2> QED BY <2>1, <2>3
<1>2. ASSUME NEW m \in Nat, m \in P PROVE m + 1 \in P
  <2> SUFFICES ASSUME NEW T \in SUBSET (1..(m + 1)), NEW k \in 1..Cardinality(T)
               PROVE  \E i \in T : Rank(T, i) = k - 1
    OBVIOUS
  <2>1. CASE m + 1 \notin T
    <3>1. T \in SUBSET (1..m)
      BY <2>1
    <3> QED BY <1>2, <3>1
  <2>2. CASE m + 1 \in T
    <3> DEFINE U == T \ {m + 1}
    <3>a. m + 1 \in Nat /\ T \subseteq 1..(m + 1)
      OBVIOUS
    <3>1. IsFiniteSet(T) /\ Cardinality(T) \in Nat
      BY <3>a, BeforeType
    <3>2. Cardinality(U) = Cardinality(T) - 1
      BY <2>2, <3>1, FS_RemoveElement
    <3>3. U \in SUBSET (1..m) /\ \A i \in U : i \in T /\ i < m + 1
      OBVIOUS
    <3>4. \A i \in U : Before(U, i) = Before(T, i)
      BY <3>3 DEF Before
    <3>5. \A i \in U : Rank(U, i) = Rank(T, i)
      BY <3>4 DEF Rank
    <3>b. \A i \in T : i < m + 1 <=> i # m + 1
      BY <3>a
    <3>6. Before(T, m + 1) = U
      BY <3>b DEF Before
    <3>7. Rank(T, m + 1) = Cardinality(T) - 1
      BY <3>2, <3>6 DEF Rank
    <3> HIDE DEF U
    <3>8. CASE k = Cardinality(T)
      BY <2>2, <3>7, <3>8
    <3>9. CASE k # Cardinality(T)
      <4>1. k \in 1..Cardinality(U)
        BY <3>1, <3>2, <3>9
      <4>2. PICK i \in U : Rank(U, i) = k - 1
        BY <1>2, <3>3, <4>1
      <4> QED BY <3>3, <3>5, <4>2
    <3> QED BY <3>8, <3>9
  <2> QED BY <2>1, <2>2
<1>3. Nat \subseteq P
  <2> HIDE DEF P
  <2> QED BY <1>1, <1>2, AllNumbers
<1> QED BY <1>3

\* There is one of each rank.
LEMMA AtIs ==
  ASSUME NEW n \in Nat, NEW S, S \subseteq 1..n, NEW w \in 1..Cardinality(S)
  PROVE  /\ At(S, w) \in S /\ Rank(S, At(S, w)) = w - 1
         /\ \A i \in S : Rank(S, i) = w - 1 => i = At(S, w)
<1>1. At(S, w) \in S /\ Rank(S, At(S, w)) = w - 1
  BY RanksFound DEF At
<1>2. ASSUME NEW i \in S, Rank(S, i) = w - 1 PROVE i = At(S, w)
  <2> DEFINE a == At(S, w)
  <2>a. a \in S /\ Rank(S, a) = w - 1
    BY <1>1
  <2>b. \A k \in S : k \in Nat
    OBVIOUS
  <2>0. a \in S /\ a \in Nat /\ i \in Nat /\ Rank(S, a) = w - 1
    BY <2>a, <2>b
  <2> HIDE DEF a
  <2>1. ~(i < a)
    <3> SUFFICES ASSUME i < a PROVE FALSE
      OBVIOUS
    <3>1. Rank(S, i) < Rank(S, a)
      BY <2>0, RankGrows
    <3> QED BY <1>2, <2>0, <3>1, BeforeType
  <2>2. ~(a < i)
    <3> SUFFICES ASSUME a < i PROVE FALSE
      OBVIOUS
    <3>1. Rank(S, a) < Rank(S, i)
      BY <2>0, RankGrows
    <3> QED BY <1>2, <2>0, <3>1, BeforeType
  <2>3. i = a
    BY <2>0, <2>1, <2>2
  <2> QED BY <2>3 DEF a
<1> QED BY <1>1, <1>2

\* One more, after all of them, takes the last place, and the others keep theirs.
LEMMA AtKept ==
  ASSUME NEW n \in Nat, NEW S, S \subseteq 1..n
  PROVE  /\ Cardinality(S \cup {n + 1}) = Cardinality(S) + 1
         /\ \A w \in 1..Cardinality(S) : At(S \cup {n + 1}, w) = At(S, w)
         /\ At(S \cup {n + 1}, Cardinality(S) + 1) = n + 1
<1> DEFINE T == S \cup {n + 1}
<1>1. n + 1 \in Nat /\ T \subseteq 1..(n + 1) /\ n + 1 \notin S /\ \A i \in S : i < n + 1
  OBVIOUS
<1>2. IsFiniteSet(S) /\ Cardinality(S) \in Nat
  BY BeforeType
<1>3. Cardinality(T) = Cardinality(S) + 1
  BY <1>1, <1>2, FS_AddElement
<1>4. \A i \in S : Before(T, i) = Before(S, i)
  BY <1>1 DEF Before
<1>5. \A i \in S : Rank(T, i) = Rank(S, i)
  BY <1>4 DEF Rank
<1>b. \A i \in T : i < n + 1 <=> i \in S
  BY <1>1
<1>6. Before(T, n + 1) = S
  BY <1>1, <1>b DEF Before
<1>7. Rank(T, n + 1) = Cardinality(S)
  BY <1>6 DEF Rank
<1>8. n + 1 \in T /\ S \subseteq T
  OBVIOUS
<1> HIDE DEF T
<1>9. ASSUME NEW w \in 1..Cardinality(S) PROVE At(T, w) = At(S, w)
  <2>1. At(S, w) \in S /\ Rank(S, At(S, w)) = w - 1
    BY AtIs
  <2>2. w \in 1..Cardinality(T)
    BY <1>2, <1>3
  <2>3. At(S, w) \in T /\ Rank(T, At(S, w)) = w - 1
    BY <1>5, <1>8, <2>1
  <2> QED BY <1>1, <2>2, <2>3, AtIs
<1>10. At(T, Cardinality(S) + 1) = n + 1
  <2>1. Cardinality(S) + 1 \in 1..Cardinality(T) /\ Rank(T, n + 1) = (Cardinality(S) + 1) - 1
    BY <1>2, <1>3, <1>7
  <2> QED BY <1>1, <1>8, <2>1, AtIs
<1> QED BY <1>3, <1>9, <1>10 DEF T

-------------------------------------------------------------------------------
\* A function on the numbers up to one is a sequence.
LEMMA StringSeq ==
  ASSUME NEW S, NEW n \in Nat, NEW f \in [1..n -> S]
  PROVE  f \in Seq(S) /\ Len(f) = n
<1>1. f \in Seq(S)
  BY SeqDef
<1>2. DOMAIN f = 1..Len(f) /\ Len(f) \in Nat /\ DOMAIN f = 1..n
  BY <1>1, LenProperties
<1> QED BY <1>1, <1>2

\* Each capital has its small letter.
LEMMA LettersAre ==
  /\ DOMAIN Names!Capitals = DOMAIN Names!LowerLetters
  /\ \A i \in DOMAIN Names!LowerLetters : Names!LowerLetters[i] \in Names!Alnum
<1>1. DOMAIN Names!Capitals = 1..26 /\ DOMAIN Names!LowerLetters = 1..26
  BY DEF Names!Capitals, Names!LowerLetters
<1>2. \A i \in DOMAIN Names!LowerLetters : Names!LowerLetters[i] \in Names!Alnum
  BY DEF Names!ToSet, Names!Alnum
<1> QED BY <1>1, <1>2

\* Letters, digits and dashes are themselves in lower case.
LEMMA LowerKept ==
  /\ \A c \in Chars : Names!LowerOf(c) \in Chars
  /\ \A c \in Names!Alnum \cup {"-"} : c \in Chars /\ Names!LowerOf(c) = c
<1>1. Names!ToSet(Names!LowerLetters) =
        {"a", "b", "c", "d", "e", "f", "g", "h", "i", "j", "k", "l", "m",
         "n", "o", "p", "q", "r", "s", "t", "u", "v", "w", "x", "y", "z"}
  BY DEF Names!ToSet, Names!LowerLetters
<1>2. \A i \in DOMAIN Names!Capitals : Names!Capitals[i] \notin Names!Alnum \cup {"-"}
  BY <1>1 DEF Names!Capitals, Names!Alnum, Names!Digits
<1>3. \A c \in Names!Alnum \cup {"-"} : c \in Chars /\ Names!LowerOf(c) = c
  BY <1>2 DEF Names!LowerOf, Chars
<1>4. ASSUME NEW c \in Chars PROVE Names!LowerOf(c) \in Chars
  <2>1. CASE \E i \in DOMAIN Names!Capitals : Names!Capitals[i] = c
    <3>1. PICK i \in DOMAIN Names!Capitals : Names!LowerOf(c) = Names!LowerLetters[i]
      BY <2>1 DEF Names!LowerOf
    <3> QED BY <3>1, LettersAre DEF Chars
  <2>2. CASE ~\E i \in DOMAIN Names!Capitals : Names!Capitals[i] = c
    <3>1. Names!LowerOf(c) = c
      BY <2>2 DEF Names!LowerOf
    <3> QED BY <3>1
  <2> QED BY <2>1, <2>2
<1> QED BY <1>3, <1>4

\* A letter or a digit.
IsAlnum(c) == c \in Names!Alnum
Lower(s) == Names!ToLower(s)

\* A text is put into lower case one character after the other.
LEMMA LowerIs ==
  ASSUME NEW s \in Seq(Chars)
  PROVE  /\ Lower(s) \in Seq(Chars) /\ Len(Lower(s)) = Len(s)
         /\ \A i \in 1..Len(s) : Lower(s)[i] = Names!LowerOf(s[i])
<1>1. Len(s) \in Nat /\ DOMAIN s = 1..Len(s) /\ \A i \in 1..Len(s) : s[i] \in Chars
  BY LenProperties
<1>2. \A c \in Chars : Names!LowerOf(c) \in Chars
  BY LowerKept
<1>3. Lower(s) = [i \in 1..Len(s) |-> Names!LowerOf(s[i])]
  BY <1>1 DEF Lower, Names!ToLower
<1>4. Lower(s) \in [1..Len(s) -> Chars]
  BY <1>1, <1>2, <1>3
<1> QED BY <1>1, <1>3, <1>4, StringSeq

\* Where words begin and end.
Starts(s) ==
  {i \in DOMAIN Lower(s) : IsAlnum(Lower(s)[i]) /\ (i > 1 => ~IsAlnum(Lower(s)[i - 1]))}
EndOf(s, i) == Names!Max({j \in i..Len(Lower(s)) : \A k \in i..j : IsAlnum(Lower(s)[k])})
WordAt(s, i) == SubSeq(Lower(s), i, EndOf(s, i))
Number(s) == Cardinality(Starts(s))

\* The words are those at the starts, in their order.
LEMMA WordsAre ==
  ASSUME NEW s \in Seq(Chars)
  PROVE  Names!WordsOf(s) = [w \in 1..Number(s) |-> WordAt(s, At(Starts(s), w))]
<1>1. \A S : Names!Cardinality(S) = Cardinality(S)
  BY DEF Names!Cardinality, Cardinality
<1>2. Names!WordsOf(s) = [w \in 1..Names!Cardinality(Starts(s)) |->
                            WordAt(s, CHOOSE i \in Starts(s) : Names!Cardinality(Before(Starts(s), i)) = w - 1)]
  BY DEF Names!WordsOf, Starts, EndOf, WordAt, Before, IsAlnum, Lower
<1> QED BY <1>1, <1>2 DEF Number, At, Rank

\* Nothing but letters and digits between two places.
IsRun(s, i, j) == \A k \in i..j : IsAlnum(Lower(s)[k])

\* Starts and ends, by the places of the text.
LEMMA StartsAre ==
  ASSUME NEW s \in Seq(Chars)
  PROVE  /\ Starts(s) = {i \in 1..Len(s) : IsAlnum(Lower(s)[i]) /\ (i > 1 => ~IsAlnum(Lower(s)[i - 1]))}
         /\ \A i : EndOf(s, i) = Max({j \in i..Len(s) : IsRun(s, i, j)})
<1>1. Len(s) \in Nat /\ Len(Lower(s)) = Len(s) /\ DOMAIN Lower(s) = 1..Len(s)
  BY LowerIs, LenProperties
<1>2. \A i : EndOf(s, i) = Names!Max({j \in i..Len(s) : IsRun(s, i, j)})
  BY <1>1 DEF EndOf, IsRun
<1> QED BY <1>1, <1>2 DEF Starts, Max, Names!Max

\* The end of a word is where it stops being one.
LEMMA EndIs ==
  ASSUME NEW s \in Seq(Chars), NEW i \in 1..Len(s), IsAlnum(Lower(s)[i])
  PROVE  /\ EndOf(s, i) \in i..Len(s) /\ IsRun(s, i, EndOf(s, i))
         /\ EndOf(s, i) < Len(s) => ~IsAlnum(Lower(s)[EndOf(s, i) + 1])
         /\ \A e \in i..Len(s) :
              IsRun(s, i, e) /\ (e < Len(s) => ~IsAlnum(Lower(s)[e + 1])) => e = EndOf(s, i)
<1> DEFINE J == {j \in i..Len(s) : IsRun(s, i, j)}
           m == EndOf(s, i)
<1>1. Len(s) \in Nat /\ i \in Nat
  BY LenProperties
<1>2. i \in J /\ J \subseteq 0..Len(s) /\ m = Max(J)
  BY <1>1, StartsAre DEF IsRun
<1>3. m \in J /\ \A j \in J : j <= m
  <2> HIDE DEF J, m
  <2> QED BY <1>1, <1>2, GreatestOf DEF Max
<1>a. m \in i..Len(s) /\ IsRun(s, i, m)
  BY <1>3
<1> HIDE DEF m
<1>4. ASSUME m < Len(s), IsAlnum(Lower(s)[m + 1]) PROVE FALSE
  <2>1. m + 1 \in i..Len(s) /\ ~(m + 1 <= m) /\ \A k \in i..(m + 1) : k \in i..m \/ k = m + 1
    BY <1>1, <1>a, <1>4
  <2>2. IsRun(s, i, m + 1)
    BY <1>4, <1>a, <2>1 DEF IsRun
  <2> QED BY <1>3, <2>1, <2>2
<1>5. ASSUME NEW e \in i..Len(s), IsRun(s, i, e), e < Len(s) => ~IsAlnum(Lower(s)[e + 1])
      PROVE  e = m
  <2>1. e <= m /\ e \in Int /\ m \in Int
    BY <1>1, <1>3, <1>5, <1>a
  <2>2. ~(e < m)
    <3> SUFFICES ASSUME e < m PROVE FALSE
      OBVIOUS
    <3>1. e + 1 \in i..m /\ e < Len(s)
      BY <1>1, <1>a, <2>1
    <3> QED BY <1>5, <1>a, <3>1 DEF IsRun
  <2> QED BY <2>1, <2>2
<1> QED BY <1>4, <1>5, <1>a DEF m

\* Nothing but the text up to a place decides where words up to it begin.
LEMMA AppendLower ==
  ASSUME NEW t \in Seq(Chars), NEW c \in Chars
  PROVE  /\ Append(t, c) \in Seq(Chars) /\ Len(Append(t, c)) = Len(t) + 1 /\ Len(t) \in Nat
         /\ \A i \in 1..Len(t) : Lower(Append(t, c))[i] = Lower(t)[i]
         /\ Lower(Append(t, c))[Len(t) + 1] = Names!LowerOf(c)
<1> DEFINE a == Append(t, c)
<1>1. /\ a \in Seq(Chars) /\ Len(a) = Len(t) + 1 /\ Len(t) \in Nat
      /\ (\A i \in 1..Len(t) : a[i] = t[i]) /\ a[Len(t) + 1] = c
  <2>1. a \in Seq(Chars) /\ Len(a) = Len(t) + 1 /\ Len(t) \in Nat
    BY AppendProperties, LenProperties
  <2>2. (\A i \in 1..Len(t) : a[i] = t[i]) /\ a[Len(t) + 1] = c
    BY AppendProperties
  <2> QED BY <2>1, <2>2
<1>2. (\A i \in 1..Len(t) : i \in 1..Len(a)) /\ Len(t) + 1 \in 1..Len(a)
  BY <1>1
<1> HIDE DEF a
<1>3. \A i \in 1..Len(a) : Lower(a)[i] = Names!LowerOf(a[i])
  BY <1>1, LowerIs
<1>4. \A i \in 1..Len(t) : Lower(t)[i] = Names!LowerOf(t[i])
  BY LowerIs
<1> QED BY <1>1, <1>2, <1>3, <1>4 DEF a

\* The text ends with a letter or digit.
EndsInWord(s) == s # <<>> /\ IsAlnum(Lower(s)[Len(s)])

\* A letter or digit after a text begins a word unless the text ends in one.
LEMMA AppendStarts ==
  ASSUME NEW t \in Seq(Chars), NEW c \in Chars
  PROVE  Starts(Append(t, c)) = IF IsAlnum(Names!LowerOf(c)) /\ ~EndsInWord(t)
                                  THEN Starts(t) \cup {Len(t) + 1} ELSE Starts(t)
<1> DEFINE a == Append(t, c)
           n == Len(t)
<1>1. /\ a \in Seq(Chars) /\ n \in Nat /\ Len(a) = n + 1
      /\ \A i \in 1..n : Lower(a)[i] = Lower(t)[i]
      /\ Lower(a)[n + 1] = Names!LowerOf(c)
  BY AppendLower
<1>2. t = <<>> <=> n = 0
  BY EmptySeq, LenProperties
<1> HIDE DEF a
<1>3. \A i \in 1..n : i \in 1..(n + 1) /\ (i > 1 => i - 1 \in 1..n)
  BY <1>1
<1>4. \A i \in 1..n : i \in Starts(a) <=> i \in Starts(t)
  <2>1. Starts(a) = {i \in 1..(n + 1) : IsAlnum(Lower(a)[i]) /\ (i > 1 => ~IsAlnum(Lower(a)[i - 1]))}
    BY <1>1, StartsAre
  <2>2. Starts(t) = {i \in 1..n : IsAlnum(Lower(t)[i]) /\ (i > 1 => ~IsAlnum(Lower(t)[i - 1]))}
    BY StartsAre
  <2> HIDE DEF n
  <2> QED BY <1>1, <1>3, <2>1, <2>2
<1>5. n + 1 \in Starts(a) <=> IsAlnum(Names!LowerOf(c)) /\ ~EndsInWord(t)
  <2>1. n + 1 \in 1..(n + 1) /\ (n + 1) - 1 = n /\ (n + 1 > 1 <=> n # 0) /\ (n # 0 => n \in 1..n)
    BY <1>1
  <2>2. n + 1 \in Starts(a) <=>
          IsAlnum(Lower(a)[n + 1]) /\ (n + 1 > 1 => ~IsAlnum(Lower(a)[(n + 1) - 1]))
    BY <1>1, <2>1, StartsAre
  <2>3. EndsInWord(t) <=> n # 0 /\ IsAlnum(Lower(t)[n])
    BY <1>2 DEF EndsInWord
  <2> HIDE DEF n
  <2> QED BY <1>1, <2>1, <2>2, <2>3
<1>6. (\A i \in Starts(a) : i \in 1..n \/ i = n + 1) /\ (\A i \in Starts(t) : i \in 1..n) /\ n + 1 \notin Starts(t)
  BY <1>1, StartsAre
<1> HIDE DEF n
<1>7. CASE IsAlnum(Names!LowerOf(c)) /\ ~EndsInWord(t)
  <2>1. Starts(a) = Starts(t) \cup {n + 1}
    BY <1>4, <1>5, <1>6, <1>7
  <2> QED BY <1>7, <2>1 DEF a, n
<1>8. CASE ~(IsAlnum(Names!LowerOf(c)) /\ ~EndsInWord(t))
  <2>1. Starts(a) = Starts(t)
    BY <1>4, <1>5, <1>6, <1>8
  <2> QED BY <1>8, <2>1 DEF a
<1> QED BY <1>7, <1>8

-------------------------------------------------------------------------------
\* A start is a place in the text, of a letter or a digit.
LEMMA StartIn ==
  ASSUME NEW t \in Seq(Chars)
  PROVE  /\ Len(t) \in Nat /\ Starts(t) \subseteq 1..Len(t) /\ Number(t) \in Nat
         /\ \A i \in Starts(t) : i \in Nat /\ IsAlnum(Lower(t)[i])
<1>1. Len(t) \in Nat /\ Starts(t) \subseteq 1..Len(t) /\ \A i \in Starts(t) : IsAlnum(Lower(t)[i])
  BY StartsAre, LenProperties
<1>2. Number(t) \in Nat
  BY <1>1, BeforeType DEF Number
<1>3. \A i \in 1..Len(t) : i \in Nat
  BY <1>1
<1> QED BY <1>1, <1>2, <1>3

\* A word, character by character.
LEMMA WordIs ==
  ASSUME NEW t \in Seq(Chars), NEW i \in Starts(t)
  PROVE  /\ WordAt(t, i) \in Seq(Chars) /\ Len(WordAt(t, i)) = EndOf(t, i) - i + 1
         /\ EndOf(t, i) \in i..Len(t)
         /\ \A k \in 1..(EndOf(t, i) - i + 1) : WordAt(t, i)[k] = Lower(t)[i + k - 1]
<1> DEFINE e == EndOf(t, i)
<1>1. i \in 1..Len(t) /\ Len(t) \in Nat /\ IsAlnum(Lower(t)[i]) /\ i \in Int
  BY StartIn
<1>2. e \in i..Len(t)
  BY <1>1, EndIs
<1> HIDE DEF e
<1>3. e \in Int /\ i <= e /\ \A k \in i..e : k \in 1..Len(t)
  BY <1>1, <1>2
<1>4. \A k \in i..e : Lower(t)[k] \in Chars
  BY <1>3, LowerIs, LenProperties
<1>5. /\ SubSeq(Lower(t), i, e) \in Seq(Chars)
      /\ Len(SubSeq(Lower(t), i, e)) = e - i + 1
      /\ \A k \in 1..(e - i + 1) : SubSeq(Lower(t), i, e)[k] = Lower(t)[i + k - 1]
  BY <1>1, <1>3, <1>4, SubSeqProperties
<1> QED BY <1>2, <1>5 DEF WordAt, e

\* A text has as many words as starts.
LEMMA WordsType ==
  ASSUME NEW t \in Seq(Chars)
  PROVE  /\ Names!WordsOf(t) \in Seq(Seq(Chars)) /\ Len(Names!WordsOf(t)) = Number(t)
         /\ \A w \in 1..Number(t) : Names!WordsOf(t)[w] = WordAt(t, At(Starts(t), w))
<1>1. Number(t) \in Nat /\ Starts(t) \subseteq 1..Len(t) /\ Len(t) \in Nat
  BY StartIn
<1>2. \A w \in 1..Number(t) : At(Starts(t), w) \in Starts(t)
  BY <1>1, AtIs DEF Number
<1>3. \A w \in 1..Number(t) : WordAt(t, At(Starts(t), w)) \in Seq(Chars)
  BY <1>2, WordIs
<1>4. Names!WordsOf(t) = [w \in 1..Number(t) |-> WordAt(t, At(Starts(t), w))]
  BY WordsAre
<1>5. Names!WordsOf(t) \in [1..Number(t) -> Seq(Chars)]
  BY <1>3, <1>4
<1> QED BY <1>1, <1>4, <1>5, StringSeq

\* What is appended changes no run of letters and digits before it.
LEMMA RunKept ==
  ASSUME NEW t \in Seq(Chars), NEW c \in Chars, NEW i \in 1..Len(t), NEW j \in i..Len(t)
  PROVE  IsRun(Append(t, c), i, j) <=> IsRun(t, i, j)
<1>1. \A k \in i..j : k \in 1..Len(t)
  BY LenProperties
<1> QED BY <1>1, AppendLower DEF IsRun

\* What is appended makes the last word longer, and no other.
LEMMA EndKept ==
  ASSUME NEW t \in Seq(Chars), NEW c \in Chars, NEW i \in 1..Len(t), IsAlnum(Lower(t)[i])
  PROVE  EndOf(Append(t, c), i) =
           IF IsAlnum(Names!LowerOf(c)) /\ EndOf(t, i) = Len(t) THEN Len(t) + 1 ELSE EndOf(t, i)
<1> DEFINE a == Append(t, c)
           n == Len(t)
           e == EndOf(t, i)
<1>1. /\ a \in Seq(Chars) /\ n \in Nat /\ Len(a) = n + 1
      /\ \A k \in 1..n : Lower(a)[k] = Lower(t)[k]
      /\ Lower(a)[n + 1] = Names!LowerOf(c)
  BY AppendLower
<1>2. e \in i..n /\ IsRun(t, i, e) /\ (e < n => ~IsAlnum(Lower(t)[e + 1]))
  BY EndIs
<1>3. IsRun(a, i, e)
  BY <1>2, RunKept
<1> HIDE DEF a, e
<1>4. i \in 1..Len(a) /\ IsAlnum(Lower(a)[i])
  BY <1>1
<1>5. \A f \in i..Len(a) :
         IsRun(a, i, f) /\ (f < Len(a) => ~IsAlnum(Lower(a)[f + 1])) => f = EndOf(a, i)
  BY <1>1, <1>4, EndIs
<1>6. CASE IsAlnum(Names!LowerOf(c)) /\ e = n
  <2>1. n + 1 \in i..Len(a) /\ ~(n + 1 < Len(a)) /\ \A k \in i..(n + 1) : k \in i..n \/ k = n + 1
    BY <1>1
  <2>2. IsRun(a, i, n + 1)
    BY <1>1, <1>3, <1>6, <2>1 DEF IsRun
  <2>3. EndOf(a, i) = n + 1
    BY <1>5, <2>1, <2>2
  <2> QED BY <1>6, <2>3 DEF a, e
<1>7. CASE ~(IsAlnum(Names!LowerOf(c)) /\ e = n)
  <2>1. e \in i..Len(a) /\ e + 1 \in 1..(n + 1) /\ (e + 1 \in 1..n <=> e < n) /\ (~(e < n) => e = n)
    BY <1>1, <1>2
  <2>2. ~IsAlnum(Lower(a)[e + 1])
    <3>1. CASE e < n
      BY <1>1, <1>2, <2>1, <3>1
    <3>2. CASE e = n
      BY <1>1, <1>7, <3>2
    <3> QED BY <2>1, <3>1, <3>2
  <2>3. EndOf(a, i) = e
    BY <1>3, <1>5, <2>1, <2>2
  <2> QED BY <1>7, <2>3 DEF a, e
<1> QED BY <1>6, <1>7

\* A word whose end stays is the same word.
LEMMA WordKept ==
  ASSUME NEW t \in Seq(Chars), NEW c \in Chars, NEW i \in Starts(t),
         EndOf(Append(t, c), i) = EndOf(t, i)
  PROVE  WordAt(Append(t, c), i) = WordAt(t, i)
<1> DEFINE a == Append(t, c)
           e == EndOf(t, i)
<1>1. /\ a \in Seq(Chars) /\ Len(t) \in Nat /\ Len(a) = Len(t) + 1
      /\ \A k \in 1..Len(t) : Lower(a)[k] = Lower(t)[k]
  BY AppendLower
<1>2. i \in 1..Len(t)
  BY StartIn
<1>3. i \in Starts(a)
  BY AppendStarts
<1>4. /\ WordAt(t, i) \in Seq(Chars) /\ Len(WordAt(t, i)) = e - i + 1 /\ e \in i..Len(t)
      /\ \A k \in 1..(e - i + 1) : WordAt(t, i)[k] = Lower(t)[i + k - 1]
  BY WordIs
<1>5. /\ WordAt(a, i) \in Seq(Chars) /\ Len(WordAt(a, i)) = e - i + 1
      /\ \A k \in 1..(e - i + 1) : WordAt(a, i)[k] = Lower(a)[i + k - 1]
  BY <1>1, <1>3, WordIs
<1> HIDE DEF a, e
<1>6. \A k \in 1..(e - i + 1) : i + k - 1 \in 1..Len(t)
  BY <1>1, <1>2, <1>4
<1>7. \A k \in 1..Len(WordAt(a, i)) : WordAt(a, i)[k] = WordAt(t, i)[k]
  BY <1>1, <1>4, <1>5, <1>6
<1> QED BY <1>4, <1>5, <1>7, SeqEqual DEF a

\* The last word goes to the end of the text, where that is in a word; the others do not.
LEMMA LastWord ==
  ASSUME NEW t \in Seq(Chars), EndsInWord(t)
  PROVE  /\ Number(t) \in 1..Number(t) /\ EndOf(t, At(Starts(t), Number(t))) = Len(t)
         /\ \A i \in Starts(t) : i # At(Starts(t), Number(t)) => EndOf(t, i) # Len(t)
<1> DEFINE n == Len(t)
           R == {i \in 1..n : IsRun(t, i, n)}
<1>1. n \in Nat /\ n \in 1..n /\ IsAlnum(Lower(t)[n])
  BY LenProperties, EmptySeq DEF EndsInWord
<1>2. n \in R /\ R \subseteq Nat
  BY <1>1 DEF IsRun
<1>3. PICK m \in R : \A i \in R : m <= i
  <2> HIDE DEF R
  <2> QED BY <1>2, Smallest
<1>4. m \in 1..n /\ IsRun(t, m, n) /\ m \in Nat
  BY <1>3
<1>5. \A i \in 1..n : IsRun(t, i, n) => m <= i
  BY <1>3
<1> HIDE DEF R
<1>6. m \in Starts(t)
  <2>1. IsAlnum(Lower(t)[m])
    BY <1>1, <1>4 DEF IsRun
  <2>2. ASSUME m > 1, IsAlnum(Lower(t)[m - 1]) PROVE FALSE
    <3>1. m - 1 \in 1..n /\ ~(m <= m - 1) /\ \A k \in (m - 1)..n : k = m - 1 \/ k \in m..n
      BY <1>1, <1>4, <2>2
    <3>2. IsRun(t, m - 1, n)
      BY <1>4, <2>2, <3>1 DEF IsRun
    <3> QED BY <1>5, <3>1, <3>2
  <2> QED BY <1>4, <2>1, <2>2, StartsAre
<1>7. ASSUME NEW i \in Starts(t), m < i PROVE FALSE
  <2>1. i \in 1..n /\ (i > 1 => ~IsAlnum(Lower(t)[i - 1]))
    BY StartsAre
  <2>2. i > 1 /\ i - 1 \in m..n
    BY <1>1, <1>4, <1>7, <2>1
  <2> QED BY <1>4, <2>1, <2>2 DEF IsRun
<1>8. Starts(t) \subseteq 1..n /\ Number(t) \in Nat
  BY StartIn
<1>9. Before(Starts(t), m) = Starts(t) \ {m}
  <2>1. \A i \in Starts(t) : i < m <=> i # m
    <3>1. \A i \in Starts(t) : i \in Nat /\ ~(m < i)
      BY <1>7, <1>8
    <3> QED BY <1>4, <3>1
  <2> QED BY <2>1 DEF Before
<1>10. Rank(Starts(t), m) = Number(t) - 1
  BY <1>1, <1>6, <1>8, <1>9, FS_RemoveElement, BeforeType DEF Rank, Number
<1>11. Number(t) \in 1..Number(t)
  <2>1. Rank(Starts(t), m) \in Nat
    BY <1>1, <1>8, BeforeType
  <2> QED BY <1>8, <1>10, <2>1
<1>12. m = At(Starts(t), Number(t))
  BY <1>1, <1>6, <1>8, <1>10, <1>11, AtIs DEF Number
<1>13. EndOf(t, m) = n
  <2>1. n \in m..n /\ IsAlnum(Lower(t)[m]) /\ ~(n < n)
    BY <1>1, <1>4, <1>6, StartIn
  <2> QED BY <1>4, <2>1, EndIs
<1>14. ASSUME NEW i \in Starts(t), i # m PROVE EndOf(t, i) # n
  <2> SUFFICES ASSUME EndOf(t, i) = n PROVE FALSE
    OBVIOUS
  <2>1. i \in 1..n /\ IsAlnum(Lower(t)[i])
    BY <1>8, StartIn
  <2>2. IsRun(t, i, n)
    BY <2>1, EndIs
  <2>3. m <= i
    BY <1>5, <2>1, <2>2
  <2>4. m < i
    BY <1>4, <1>14, <2>1, <2>3
  <2> QED BY <1>7, <2>4
<1> QED BY <1>11, <1>12, <1>13, <1>14

-------------------------------------------------------------------------------
\* The words of a text that grows by a character.

\* The words of a text by its characters: one that is not a letter or digit adds nothing,
\* another begins a word or makes the last one longer.
Longer(ws, l) == [ws EXCEPT ![Len(ws)] = Append(@, l)]
WordStep(ws, inWord, l) ==
  IF ~IsAlnum(l) THEN ws ELSE IF inWord THEN Longer(ws, l) ELSE Append(ws, <<l>>)

\* One character more makes the last word longer and leaves the others.
LEMMA LongerType ==
  ASSUME NEW ws \in Seq(Seq(Chars)), NEW l \in Chars, ws # <<>>
  PROVE  /\ Longer(ws, l) \in Seq(Seq(Chars)) /\ Len(Longer(ws, l)) = Len(ws)
         /\ Len(ws) \in 1..Len(ws) /\ Len(ws) \in Nat
         /\ \A w \in 1..Len(ws) :
              Longer(ws, l)[w] = IF w = Len(ws) THEN Append(ws[w], l) ELSE ws[w]
<1>1. Len(ws) \in Nat /\ Len(ws) \in 1..Len(ws)
  BY EmptySeq
<1>2. ws[Len(ws)] \in Seq(Chars)
  BY <1>1, ElementOfSeq
<1>3. Append(ws[Len(ws)], l) \in Seq(Chars)
  BY <1>2, AppendProperties
<1>4. Longer(ws, l) = [ws EXCEPT ![Len(ws)] = Append(ws[Len(ws)], l)]
  BY DEF Longer
<1> DEFINE e == Append(ws[Len(ws)], l)
           i == Len(ws)
<1>5. i \in 1..Len(ws) /\ e \in Seq(Chars) /\ e = Append(ws[Len(ws)], l) /\ i = Len(ws)
  BY <1>1, <1>3
<1> HIDE DEF e, i
<1>6. /\ [ws EXCEPT ![i] = e] \in Seq(Seq(Chars))
      /\ Len([ws EXCEPT ![i] = e]) = Len(ws)
      /\ \A j \in 1..Len(ws) : [ws EXCEPT ![i] = e][j] = IF j = i THEN e ELSE ws[j]
  BY <1>5, ExceptSeq
<1>7. Longer(ws, l) = [ws EXCEPT ![i] = e]
  BY <1>4, <1>5
<1> QED BY <1>1, <1>5, <1>6, <1>7

\* The words of a text that is one character longer.
LEMMA WordsAppend ==
  ASSUME NEW t \in Seq(Chars), NEW c \in Chars
  PROVE  /\ Names!WordsOf(Append(t, c)) = WordStep(Names!WordsOf(t), EndsInWord(t), Names!LowerOf(c))
         /\ EndsInWord(t) => Names!WordsOf(t) # <<>>
         /\ EndsInWord(Append(t, c)) <=> IsAlnum(Names!LowerOf(c))
<1> DEFINE a == Append(t, c)
           n == Len(t)
           l == Names!LowerOf(c)
           S == Starts(t)
           W == Names!WordsOf(t)
           V == Names!WordsOf(a)
<1>1. /\ a \in Seq(Chars) /\ n \in Nat /\ Len(a) = n + 1 /\ l \in Chars
      /\ \A k \in 1..n : Lower(a)[k] = Lower(t)[k]
      /\ Lower(a)[n + 1] = l
  BY AppendLower, LowerKept
<1>2. Starts(a) = IF IsAlnum(l) /\ ~EndsInWord(t) THEN S \cup {n + 1} ELSE S
  BY AppendStarts
<1>3. S \subseteq 1..n /\ Number(t) = Cardinality(S) /\ Number(t) \in Nat
      /\ \A i \in S : IsAlnum(Lower(t)[i])
  BY StartIn DEF Number
<1>4. \A i \in S : EndOf(a, i) = IF IsAlnum(l) /\ EndOf(t, i) = n THEN n + 1 ELSE EndOf(t, i)
  BY <1>3, EndKept
<1>5. /\ W \in Seq(Seq(Chars)) /\ Len(W) = Number(t)
      /\ \A w \in 1..Number(t) : W[w] = WordAt(t, At(S, w))
  BY WordsType
<1>6. /\ V \in Seq(Seq(Chars)) /\ Len(V) = Number(a)
      /\ \A w \in 1..Number(a) : V[w] = WordAt(a, At(Starts(a), w))
  BY <1>1, WordsType
<1>7. \A i \in S : EndOf(a, i) = EndOf(t, i) => WordAt(a, i) = WordAt(t, i)
  BY WordKept
<1>8. \A w \in 1..Number(t) : At(S, w) \in S
  BY <1>1, <1>3, AtIs
<1>9. EndsInWord(t) => W # <<>>
  BY <1>5, LastWord, EmptySeq
<1>10. EndsInWord(a) <=> IsAlnum(l)
  BY <1>1, AppendProperties DEF EndsInWord
<1> HIDE DEF a, l, S, W, V
<1>11. CASE ~IsAlnum(l)
  <2>1. Starts(a) = S
    BY <1>2, <1>11
  <2>2. Number(a) = Number(t)
    BY <2>1 DEF Number, S
  <2>3. \A i \in S : WordAt(a, i) = WordAt(t, i)
    BY <1>4, <1>7, <1>11
  <2>4. \A w \in 1..Len(V) : V[w] = W[w]
    BY <1>5, <1>6, <1>8, <2>1, <2>2, <2>3
  <2>5. V = W
    BY <1>5, <1>6, <2>2, <2>4, SeqEqual
  <2> QED BY <1>9, <1>10, <1>11, <2>5 DEF WordStep, a, l, W, V
<1>12. CASE IsAlnum(l) /\ ~EndsInWord(t)
  <2>1. Starts(a) = S \cup {n + 1}
    BY <1>2, <1>12
  <2>2. /\ Number(a) = Number(t) + 1
        /\ \A w \in 1..Number(t) : At(Starts(a), w) = At(S, w)
        /\ At(Starts(a), Number(t) + 1) = n + 1
    <3>1. /\ Cardinality(S \cup {n + 1}) = Cardinality(S) + 1
          /\ \A w \in 1..Cardinality(S) : At(S \cup {n + 1}, w) = At(S, w)
          /\ At(S \cup {n + 1}, Cardinality(S) + 1) = n + 1
      BY <1>1, <1>3, AtKept
    <3>2. Number(a) = Cardinality(S \cup {n + 1})
      BY <2>1 DEF Number
    <3> QED BY <1>3, <2>1, <3>1, <3>2
  <2>3. \A i \in S : EndOf(t, i) # n
    <3>1. ASSUME NEW i \in S, EndOf(t, i) = n PROVE FALSE
      <4>1. i \in 1..n /\ IsAlnum(Lower(t)[i])
        BY <1>3
      <4>2. IsRun(t, i, n) /\ n \in i..n /\ n # 0
        BY <1>1, <3>1, <4>1, EndIs
      <4>3. t # <<>> /\ IsAlnum(Lower(t)[n])
        BY <4>2, EmptySeq DEF IsRun
      <4> QED BY <1>12, <4>3 DEF EndsInWord
    <3> QED BY <3>1
  <2>4. \A i \in S : WordAt(a, i) = WordAt(t, i)
    BY <1>4, <1>7, <2>3
  <2>5. WordAt(a, n + 1) = <<l>>
    <3>1. n + 1 \in 1..Len(a) /\ n + 1 \in (n + 1)..Len(a) /\ ~(n + 1 < Len(a)) /\ \A k \in (n + 1)..(n + 1) : k = n + 1
      BY <1>1
    <3>2. IsRun(a, n + 1, n + 1)
      BY <1>1, <1>12, <3>1 DEF IsRun
    <3>3. EndOf(a, n + 1) = n + 1
      BY <1>1, <1>12, <3>1, <3>2, EndIs
    <3>4. n + 1 \in Starts(a)
      BY <2>1
    <3>5. /\ WordAt(a, n + 1) \in Seq(Chars) /\ Len(WordAt(a, n + 1)) = (n + 1) - (n + 1) + 1
          /\ \A k \in 1..((n + 1) - (n + 1) + 1) : WordAt(a, n + 1)[k] = Lower(a)[(n + 1) + k - 1]
      BY <1>1, <3>3, <3>4, WordIs
    <3>6. Len(WordAt(a, n + 1)) = 1 /\ WordAt(a, n + 1)[1] = l
      BY <1>1, <3>5
    <3>7. <<l>> \in Seq(Chars) /\ Len(<<l>>) = 1 /\ <<l>>[1] = l
      BY <1>1
    <3>8. \A k \in 1..1 : k = 1
      OBVIOUS
    <3> QED BY <3>5, <3>6, <3>7, <3>8, SeqEqual
  <2>6. Append(W, <<l>>) \in Seq(Seq(Chars)) /\ Len(Append(W, <<l>>)) = Number(t) + 1
        /\ (\A w \in 1..Number(t) : Append(W, <<l>>)[w] = W[w]) /\ Append(W, <<l>>)[Number(t) + 1] = <<l>>
    <3>1. <<l>> \in Seq(Chars)
      BY <1>1
    <3> QED BY <1>5, <3>1, AppendProperties
  <2>7. \A w \in 1..Len(V) : V[w] = Append(W, <<l>>)[w]
    <3>1. \A w \in 1..(Number(t) + 1) : w \in 1..Number(t) \/ w = Number(t) + 1
      BY <1>3
    <3>2. \A w \in 1..Number(t) : w \in 1..Number(a) /\ Number(t) + 1 \in 1..Number(a)
      BY <1>3, <2>2
    <3>3. \A w \in 1..Number(t) : V[w] = Append(W, <<l>>)[w]
      BY <1>5, <1>6, <1>8, <2>2, <2>4, <2>6, <3>2
    <3>4. Number(t) + 1 \in 1..Number(a)
      BY <1>3, <2>2
    <3>5. V[Number(t) + 1] = Append(W, <<l>>)[Number(t) + 1]
      BY <1>6, <2>2, <2>5, <2>6, <3>4
    <3> QED BY <1>6, <2>2, <3>1, <3>3, <3>5
  <2>8. V = Append(W, <<l>>)
    BY <1>6, <2>2, <2>6, <2>7, SeqEqual
  <2> QED BY <1>9, <1>10, <1>12, <2>8 DEF WordStep, a, l, W, V
<1>13. CASE IsAlnum(l) /\ EndsInWord(t)
  <2> DEFINE z == Number(t)
             m == At(S, z)
  <2>1. Starts(a) = S
    BY <1>2, <1>13
  <2>2. Number(a) = z
    BY <2>1 DEF Number, S
  <2>3. z \in 1..z /\ EndOf(t, m) = n /\ \A i \in S : i # m => EndOf(t, i) # n
    BY <1>13, LastWord DEF S
  <2>4. m \in S
    BY <1>8, <2>3
  <2>5. W # <<>>
    BY <1>9, <1>13
  <2>6. /\ Longer(W, l) \in Seq(Seq(Chars)) /\ Len(Longer(W, l)) = z
        /\ \A w \in 1..z : Longer(W, l)[w] = IF w = z THEN Append(W[w], l) ELSE W[w]
    <3>1. /\ Longer(W, l) \in Seq(Seq(Chars)) /\ Len(Longer(W, l)) = Len(W)
          /\ \A w \in 1..Len(W) :
               Longer(W, l)[w] = IF w = Len(W) THEN Append(W[w], l) ELSE W[w]
      BY <1>1, <1>5, <2>5, LongerType
    <3>2. Len(W) = z
      BY <1>5
    <3> HIDE DEF z
    <3> QED BY <3>1, <3>2
  <2>7. ASSUME NEW w \in 1..z, w # z PROVE V[w] = Longer(W, l)[w]
    <3>1. At(S, w) # m
      <4>1. Rank(S, At(S, w)) = w - 1 /\ Rank(S, m) = z - 1
        BY <1>1, <1>3, <2>3, AtIs
      <4>2. w - 1 # z - 1
        BY <1>3, <2>7
      <4> QED BY <4>1, <4>2
    <3>2. At(S, w) \in S
      BY <1>8
    <3>3. WordAt(a, At(S, w)) = WordAt(t, At(S, w))
      BY <1>4, <1>7, <2>3, <3>1, <3>2
    <3> QED BY <1>5, <1>6, <2>1, <2>2, <2>6, <2>7, <3>3
  <2>8. V[z] = Longer(W, l)[z]
    <3>1. EndOf(a, m) = n + 1
      BY <1>4, <1>13, <2>3, <2>4
    <3>2. m \in Starts(a) /\ m \in Starts(t) /\ m \in 1..n
      BY <1>3, <2>1, <2>4 DEF S
    <3> HIDE DEF m
    <3>3. /\ WordAt(a, m) \in Seq(Chars) /\ Len(WordAt(a, m)) = (n + 1) - m + 1
          /\ \A k \in 1..((n + 1) - m + 1) : WordAt(a, m)[k] = Lower(a)[m + k - 1]
      BY <1>1, <3>1, <3>2, WordIs
    <3>4. /\ WordAt(t, m) \in Seq(Chars) /\ Len(WordAt(t, m)) = n - m + 1
          /\ \A k \in 1..(n - m + 1) : WordAt(t, m)[k] = Lower(t)[m + k - 1]
      BY <2>3, <3>2, WordIs
    <3> DEFINE x == n - m + 1
               u == WordAt(t, m)
               v == Append(u, l)
    <3>5. x \in Nat /\ (n + 1) - m + 1 = x + 1 /\ m + (x + 1) - 1 = n + 1
          /\ \A k \in 1..x : m + k - 1 \in 1..n
      BY <1>1, <3>2
    <3>6. v \in Seq(Chars) /\ Len(v) = x + 1 /\ (\A k \in 1..x : v[k] = u[k]) /\ v[x + 1] = l
      BY <1>1, <3>4, AppendProperties
    <3>7. Len(WordAt(a, m)) = x + 1 /\ \A k \in 1..(x + 1) : WordAt(a, m)[k] = Lower(a)[m + k - 1]
      BY <3>3, <3>5
    <3>8. \A k \in 1..x : u[k] = Lower(t)[m + k - 1]
      BY <3>4
    <3> HIDE DEF x, u, v
    <3>9. ASSUME NEW k \in 1..(x + 1) PROVE WordAt(a, m)[k] = v[k]
      <4>1. CASE k \in 1..x
        BY <1>1, <3>5, <3>6, <3>7, <3>8, <4>1
      <4>2. CASE k = x + 1
        <5>1. WordAt(a, m)[k] = Lower(a)[m + (x + 1) - 1]
          BY <3>7, <4>2
        <5> QED BY <1>1, <3>5, <3>6, <4>2, <5>1
      <4> QED BY <3>5, <4>1, <4>2
    <3>10. WordAt(a, m) = v
      BY <3>3, <3>6, <3>7, <3>9, SeqEqual
    <3>11. W[z] = u
      BY <1>5, <2>3 DEF u, m
    <3>12. V[z] = WordAt(a, m)
      BY <1>6, <2>1, <2>2, <2>3 DEF m
    <3> QED BY <2>3, <2>6, <3>10, <3>11, <3>12 DEF v
  <2>9. V = Longer(W, l)
    <3>1. \A w \in 1..z : V[w] = Longer(W, l)[w]
      BY <2>7, <2>8
    <3> QED BY <1>6, <2>2, <2>6, <3>1, SeqEqual
  <2> QED BY <1>9, <1>10, <1>13, <2>9 DEF WordStep, a, l, W, V
<1> QED BY <1>11, <1>12, <1>13

\* The empty text has no words.
LEMMA NoWords == Names!WordsOf(<<>>) = <<>> /\ ~EndsInWord(<<>>)
<1>1. <<>> \in Seq(Chars) /\ Len(<<>>) = 0
  BY EmptySeq
<1>a. Starts(<<>>) \subseteq 1..Len(<<>>)
  BY <1>1, StartIn
<1>2. Starts(<<>>) \subseteq 1..0 /\ 1..0 = {}
  BY <1>1, <1>a
<1>3. Number(<<>>) = 0
  BY <1>2, FS_EmptySet DEF Number
<1>4. Names!WordsOf(<<>>) \in Seq(Seq(Chars)) /\ Len(Names!WordsOf(<<>>)) = 0
  BY <1>1, <1>3, WordsType
<1> QED BY <1>4, EmptySeq DEF EndsInWord

-------------------------------------------------------------------------------
\* How long words are together.

\* The length of words, each with a dash after it.
AddWord(sum, w) == sum + Len(w) + 1
Totals(g, ws) ==
  /\ g \in [0..Len(ws) -> Nat] /\ g[0] = 0
  /\ \A k \in 1..Len(ws) : g[k] = AddWord(g[k - 1], ws[k])
TotalOf(ws) == CHOOSE x \in Nat : \E g : Totals(g, ws) /\ x = g[Len(ws)]

\* JoinedLength adds the lengths of the words one after the other.
LEMMA TotalsExist ==
  ASSUME NEW ws \in Seq(Seq(Chars))
  PROVE  \E g : /\ Totals(g, ws)
                /\ Names!JoinedLength(ws) = g[Len(ws)] - 1
                     + (IF ws # <<>> /\ Head(ws[1]) \in Names!Digits THEN 1 ELSE 0)
<1> DEFINE n == Len(ws)
           S == 1..n
           op == [p \in S \X Nat |-> AddWord(p[2], ws[p[1]])]
           ch == [t \in SUBSET S |-> Max(t)]
<1>1. n \in Nat /\ IsFiniteSet(S) /\ DOMAIN ws = S /\ \A k \in S : Len(ws[k]) \in Nat
  BY FS_Interval, ElementOfSeq, LenProperties
<1>2. \A x \in S, r \in Nat : op[<<x, r>>] = AddWord(r, ws[x])
  OBVIOUS
<1>a. \A x \in S, r \in Nat : AddWord(r, ws[x]) \in Nat
  BY <1>1 DEF AddWord
<1>3. Closed(op, S, Nat)
  <2> HIDE DEF op, S
  <2> QED BY <1>2, <1>a DEF Closed
<1>4. Chooses(ch, S)
  BY <1>1, LastIndex
<1>5. \A t \in SUBSET S : ch[t] = Max(t)
  OBVIOUS
<1>6. \A k \in S : Max(1..k) = k /\ (1..k) \ {k} = 1..(k - 1) /\ 1..k \in SUBSET S /\ 1..k # {}
  BY <1>1, LastIndex
<1> HIDE DEF op, ch
<1>7. PICK f : FoldsBy(f, 0, op, ch, S, Nat)
  <2>1. 0 \in Nat
    OBVIOUS
  <2> QED BY <1>1, <1>3, <1>4, <2>1, FoldExists
<1>8. ASSUME NEW t \in SUBSET S
      PROVE  f[t] = IF t = {} THEN 0 ELSE AddWord(f[t \ {Max(t)}], ws[Max(t)])
  <2>1. CASE t = {}
    BY <1>7, <2>1 DEF FoldsBy
  <2>2. CASE t # {}
    <3>1. f[t] = op[<<Max(t), f[t \ {Max(t)}]>>]
      BY <1>5, <1>7, <2>2 DEF FoldsBy
    <3>2. Max(t) \in S /\ f[t \ {Max(t)}] \in Nat
      BY <1>4, <1>5, <1>7, <2>2 DEF FoldsBy, Chooses
    <3> QED BY <1>2, <2>2, <3>1, <3>2
  <2> QED BY <2>1, <2>2
<1>9. \E h : h = [t \in SUBSET DOMAIN ws |->
                    IF t = {} THEN 0 ELSE AddWord(h[t \ {Max(t)}], ws[Max(t)])]
  <2>1. f = [t \in SUBSET S |-> IF t = {} THEN 0 ELSE AddWord(f[t \ {Max(t)}], ws[Max(t)])]
    BY <1>7, <1>8 DEF FoldsBy
  <2> QED BY <1>1, <2>1
<1>10. PICK h : /\ h = [t \in SUBSET DOMAIN ws |->
                          IF t = {} THEN 0 ELSE AddWord(h[t \ {Max(t)}], ws[Max(t)])]
                /\ Names!JoinedLength(ws) = h[DOMAIN ws] - 1
                     + (IF ws # <<>> /\ Head(ws[1]) \in Names!Digits THEN 1 ELSE 0)
  BY <1>9 DEF Names!JoinedLength, Names!FoldLeft, Names!MapThenFoldSet, Names!Max, Max, AddWord
<1>11. h[{}] = 0 /\ \A t \in SUBSET S : t # {} => h[t] = AddWord(h[t \ {Max(t)}], ws[Max(t)])
  BY <1>1, <1>10
<1>12. \A k \in S : h[1..k] = AddWord(h[1..(k - 1)], ws[k])
  <2> SUFFICES ASSUME NEW k \in S PROVE h[1..k] = AddWord(h[1..(k - 1)], ws[k])
    OBVIOUS
  <2>1. Max(1..k) = k /\ (1..k) \ {k} = 1..(k - 1) /\ 1..k \in SUBSET S /\ 1..k # {}
    BY <1>6
  <2>2. h[1..k] = AddWord(h[(1..k) \ {Max(1..k)}], ws[Max(1..k)])
    BY <1>11, <2>1
  <2> QED BY <2>1, <2>2
<1> DEFINE g == [k \in 0..n |-> h[1..k]]
<1>13. g[0] = 0 /\ g[n] = h[S] /\ \A k \in S : g[k] = AddWord(g[k - 1], ws[k])
  <2>1. 1..0 = {} /\ 0 \in 0..n /\ n \in 0..n
    BY <1>1
  <2>2. \A k \in S : k \in 0..n /\ k - 1 \in 0..n
    BY <1>1
  <2> QED BY <1>11, <1>12, <2>1, <2>2
<1>14. \A k \in 0..n : g[k] \in Nat
  <2> DEFINE P == {k \in Nat : k <= n => g[k] \in Nat}
  <2>1. 0 \in P
    BY <1>1, <1>13
  <2>2. ASSUME NEW k \in Nat, k \in P PROVE k + 1 \in P
    <3> SUFFICES ASSUME k + 1 <= n PROVE g[k + 1] \in Nat
      OBVIOUS
    <3>1. k + 1 \in S /\ (k + 1) - 1 = k /\ k <= n
      BY <1>1
    <3>2. g[k] \in Nat /\ Len(ws[k + 1]) \in Nat
      BY <1>1, <2>2, <3>1
    <3>3. g[k + 1] = AddWord(g[k], ws[k + 1])
      BY <1>13, <3>1
    <3> HIDE DEF g
    <3> QED BY <3>2, <3>3 DEF AddWord
  <2>3. Nat \subseteq P
    <3> HIDE DEF P
    <3> QED BY <2>1, <2>2, AllNumbers
  <2>4. \A k \in 0..n : k \in Nat /\ k <= n
    BY <1>1
  <2> HIDE DEF g
  <2> QED BY <2>3, <2>4
<1>15. Totals(g, ws)
  BY <1>13, <1>14 DEF Totals
<1> QED BY <1>1, <1>10, <1>13, <1>15

\* It depends on the words alone.
LEMMA TotalsAgree ==
  ASSUME NEW a \in Seq(Seq(Chars)), NEW b \in Seq(Seq(Chars)), NEW g, NEW h,
         Totals(g, a), Totals(h, b), NEW n \in Nat, n <= Len(a), n <= Len(b),
         \A i \in 1..n : a[i] = b[i]
  PROVE  g[n] = h[n]
<1> DEFINE P == {k \in Nat : k <= n => g[k] = h[k]}
<1>0. Len(a) \in Nat /\ Len(b) \in Nat
  BY LenProperties
<1>1. 0 \in P
  BY DEF Totals
<1>2. ASSUME NEW k \in Nat, k \in P PROVE k + 1 \in P
  <2> SUFFICES ASSUME k + 1 <= n PROVE g[k + 1] = h[k + 1]
    OBVIOUS
  <2>1. k + 1 \in 1..n /\ k + 1 \in 1..Len(a) /\ k + 1 \in 1..Len(b) /\ (k + 1) - 1 = k /\ k <= n
    BY <1>0
  <2>2. g[k + 1] = g[k] + Len(a[k + 1]) + 1 /\ h[k + 1] = h[k] + Len(b[k + 1]) + 1
    BY <2>1 DEF Totals, AddWord
  <2> QED BY <1>2, <2>1, <2>2
<1>3. Nat \subseteq P
  <2> HIDE DEF P
  <2> QED BY <1>1, <1>2, AllNumbers
<1> QED BY <1>3

\* It is the same by whichever function it is counted.
LEMMA TotalIs ==
  ASSUME NEW ws \in Seq(Seq(Chars)), NEW g, Totals(g, ws)
  PROVE  TotalOf(ws) = g[Len(ws)] /\ TotalOf(ws) \in Nat
<1>1. Len(ws) \in Nat /\ Len(ws) <= Len(ws) /\ Len(ws) \in 0..Len(ws)
  BY LenProperties
<1>2. g[Len(ws)] \in Nat
  BY <1>1 DEF Totals
<1>3. \E x \in Nat : \E h : Totals(h, ws) /\ x = h[Len(ws)]
  BY <1>2
<1>4. \E h : Totals(h, ws) /\ TotalOf(ws) = h[Len(ws)]
  BY <1>3 DEF TotalOf
<1>5. PICK h : Totals(h, ws) /\ TotalOf(ws) = h[Len(ws)]
  BY <1>4
<1>6. g[Len(ws)] = h[Len(ws)]
  BY <1>1, <1>5, TotalsAgree
<1> QED BY <1>2, <1>5, <1>6

\* JoinedLength, by that count.
LEMMA JoinedIs ==
  ASSUME NEW ws \in Seq(Seq(Chars))
  PROVE  /\ TotalOf(ws) \in Nat
         /\ Names!JoinedLength(ws) = TotalOf(ws) - 1
              + (IF ws # <<>> /\ Head(ws[1]) \in Names!Digits THEN 1 ELSE 0)
<1>1. PICK g : /\ Totals(g, ws)
               /\ Names!JoinedLength(ws) = g[Len(ws)] - 1
                    + (IF ws # <<>> /\ Head(ws[1]) \in Names!Digits THEN 1 ELSE 0)
  BY TotalsExist
<1>2. TotalOf(ws) = g[Len(ws)] /\ TotalOf(ws) \in Nat
  BY <1>1, TotalIs
<1> QED BY <1>1, <1>2

\* One more word, and one character more of the last.
LEMMA TotalSteps ==
  /\ TotalOf(<<>>) = 0
  /\ \A ws \in Seq(Seq(Chars)), w \in Seq(Chars) : TotalOf(Append(ws, w)) = TotalOf(ws) + Len(w) + 1
  /\ \A ws \in Seq(Seq(Chars)), l \in Chars : ws # <<>> => TotalOf(Longer(ws, l)) = TotalOf(ws) + 1
<1>1. TotalOf(<<>>) = 0
  <2>1. <<>> \in Seq(Seq(Chars)) /\ Len(<<>>) = 0
    BY EmptySeq
  <2>2. PICK g : Totals(g, <<>>)
    BY <2>1, TotalsExist
  <2>3. g[0] = 0
    BY <2>2 DEF Totals
  <2>4. TotalOf(<<>>) = g[Len(<<>>)]
    BY <2>1, <2>2, TotalIs
  <2> QED BY <2>1, <2>3, <2>4
<1>2. ASSUME NEW ws \in Seq(Seq(Chars)), NEW w \in Seq(Chars)
      PROVE  TotalOf(Append(ws, w)) = TotalOf(ws) + Len(w) + 1
  <2> DEFINE a == Append(ws, w)
             n == Len(ws)
  <2>1. a \in Seq(Seq(Chars)) /\ Len(a) = n + 1 /\ (\A i \in 1..n : a[i] = ws[i]) /\ a[n + 1] = w
    BY AppendProperties
  <2>2. n \in Nat
    BY LenProperties
  <2> HIDE DEF a
  <2>3. PICK g : Totals(g, ws)
    BY TotalsExist
  <2>4. PICK h : Totals(h, a)
    BY <2>1, TotalsExist
  <2>a. n <= Len(a) /\ n <= Len(ws)
    BY <2>1, <2>2
  <2>5. h[n] = g[n]
    <3>1. \A i \in 1..n : a[i] = ws[i]
      BY <2>1
    <3> HIDE DEF n
    <3> QED BY <2>a, <2>1, <2>2, <2>3, <2>4, <3>1, TotalsAgree
  <2>6. h[n + 1] = h[n] + Len(w) + 1
    <3>1. n + 1 \in 1..Len(a) /\ (n + 1) - 1 = n
      BY <2>1, <2>2
    <3> QED BY <2>1, <2>4, <3>1 DEF Totals, AddWord
  <2>7. TotalOf(ws) = g[n] /\ TotalOf(a) = h[n + 1]
    BY <2>1, <2>3, <2>4, TotalIs
  <2> QED BY <2>5, <2>6, <2>7 DEF a
<1>3. ASSUME NEW ws \in Seq(Seq(Chars)), NEW l \in Chars, ws # <<>>
      PROVE  TotalOf(Longer(ws, l)) = TotalOf(ws) + 1
  <2> DEFINE a == Longer(ws, l)
             n == Len(ws)
  <2>1. /\ a \in Seq(Seq(Chars)) /\ Len(a) = n /\ n \in 1..n /\ n \in Nat
        /\ \A w \in 1..n : a[w] = IF w = n THEN Append(ws[w], l) ELSE ws[w]
    BY <1>3, LongerType
  <2>2. ws[n] \in Seq(Chars)
    BY <2>1, ElementOfSeq
  <2>3. Len(Append(ws[n], l)) = Len(ws[n]) + 1 /\ Len(ws[n]) \in Nat
    BY <2>2, AppendProperties, LenProperties
  <2> HIDE DEF a
  <2>4. PICK g : Totals(g, ws)
    BY TotalsExist
  <2>5. PICK h : Totals(h, a)
    BY <2>1, TotalsExist
  <2>6. n - 1 \in Nat /\ n - 1 <= n /\ (\A i \in 1..(n - 1) : i \in 1..n /\ i # n) /\ n - 1 \in 0..n
    BY <2>1
  <2>7. \A i \in 1..(n - 1) : a[i] = ws[i]
    BY <2>1, <2>6
  <2>8. h[n - 1] = g[n - 1]
    <3> DEFINE m == n - 1
    <3>1. m \in Nat /\ m <= Len(a) /\ m <= Len(ws) /\ \A i \in 1..m : a[i] = ws[i]
      BY <2>1, <2>6, <2>7
    <3> HIDE DEF m
    <3>2. h[m] = g[m]
      BY <2>1, <2>4, <2>5, <3>1, TotalsAgree
    <3> QED BY <3>2 DEF m
  <2>9. g[n - 1] \in Nat
    BY <2>4, <2>6 DEF Totals
  <2>10. h[n] = h[n - 1] + Len(a[n]) + 1 /\ g[n] = g[n - 1] + Len(ws[n]) + 1
    BY <2>1, <2>4, <2>5 DEF Totals, AddWord
  <2>11. a[n] = Append(ws[n], l)
    BY <2>1
  <2>12. TotalOf(ws) = g[n] /\ TotalOf(a) = h[n]
    BY <2>1, <2>4, <2>5, TotalIs
  <2>13. h[n] = g[n] + 1
    <3>1. h[n] = h[n - 1] + Len(Append(ws[n], l)) + 1
      BY <2>10, <2>11
    <3> HIDE DEF n
    <3> QED BY <2>3, <2>8, <2>9, <2>10, <3>1
  <2> QED BY <2>12, <2>13 DEF a
<1> QED BY <1>1, <1>2, <1>3

-------------------------------------------------------------------------------
\* Texts of letters, digits and single dashes.

\* A text of letters, digits and single dashes, none of them in front.
Pure == Names!Alnum \cup {"-"}
IsTidy(r) ==
  /\ r \in Seq(Chars)
  /\ \A i \in 1..Len(r) : r[i] \in Pure
  /\ r # <<>> => r[1] # "-"
  /\ \A i \in 1..(Len(r) - 1) : r[i] = "-" => r[i + 1] # "-"

\* What the conversions leave is its own lower case, and in a word unless a dash.
LEMMA PureIs ==
  /\ \A c \in Pure : c \in Chars /\ Names!LowerOf(c) = c /\ (IsAlnum(c) <=> c # "-")
  /\ \A c \in Chars : IsAlnum(c) => c \in Pure
  /\ "-" \in Pure /\ "-" \in Chars /\ ~IsAlnum("-")
<1>1. ~IsAlnum("-")
  <2>1. Names!ToSet(Names!LowerLetters) =
          {"a", "b", "c", "d", "e", "f", "g", "h", "i", "j", "k", "l", "m",
           "n", "o", "p", "q", "r", "s", "t", "u", "v", "w", "x", "y", "z"}
    BY DEF Names!ToSet, Names!LowerLetters
  <2> QED BY <2>1 DEF IsAlnum, Names!Alnum, Names!Digits
<1> QED BY <1>1, LowerKept DEF Pure, IsAlnum

\* A tidy text ends in a word or in a dash.
LEMMA TidyEnds ==
  ASSUME NEW r, IsTidy(r), r # <<>>
  PROVE  /\ Len(r) \in Nat /\ Len(r) \in 1..Len(r) /\ r[Len(r)] \in Pure
         /\ EndsInWord(r) <=> r[Len(r)] # "-"
         /\ \A i \in 1..Len(r) : Lower(r)[i] = r[i]
<1>1. r \in Seq(Chars) /\ \A i \in 1..Len(r) : r[i] \in Pure
  BY DEF IsTidy
<1>2. Len(r) \in Nat /\ Len(r) \in 1..Len(r)
  BY <1>1, EmptySeq
<1>3. \A i \in 1..Len(r) : Lower(r)[i] = r[i]
  BY <1>1, LowerIs, PureIs
<1>4. EndsInWord(r) <=> r[Len(r)] # "-"
  BY <1>1, <1>2, <1>3, PureIs DEF EndsInWord
<1> QED BY <1>1, <1>2, <1>3, <1>4

\* What SingleDashes does to a text without a dash in front.
QStep(q, c) == IF c = "-" /\ (q = <<>> \/ q[Len(q)] = "-") THEN q ELSE Append(q, c)

\* A tidy text stays so with a character more, if that is no second dash.
LEMMA TidyAppend ==
  ASSUME NEW r, IsTidy(r), NEW c \in Pure, c = "-" => r # <<>> /\ r[Len(r)] # "-"
  PROVE  IsTidy(Append(r, c))
<1> DEFINE a == Append(r, c)
           n == Len(r)
<1>1. /\ r \in Seq(Chars) /\ (\A i \in 1..n : r[i] \in Pure) /\ (r # <<>> => r[1] # "-")
      /\ \A i \in 1..(n - 1) : r[i] = "-" => r[i + 1] # "-"
  BY DEF IsTidy
<1>2. n \in Nat /\ (r # <<>> <=> n # 0) /\ c \in Chars
  BY <1>1, EmptySeq, PureIs
<1>3. /\ a \in Seq(Chars) /\ a # <<>> /\ Len(a) = n + 1
      /\ (\A i \in 1..n : a[i] = r[i]) /\ a[n + 1] = c
  BY <1>1, <1>2, AppendProperties
<1> HIDE DEF a, n
<1>4. \A i \in 1..Len(a) : a[i] \in Pure
  <2>1. \A i \in 1..Len(a) : i \in 1..n \/ i = n + 1
    BY <1>2, <1>3
  <2> QED BY <1>1, <1>3, <2>1
<1>5. a[1] # "-"
  <2>1. CASE r = <<>>
    BY <1>2, <1>3, <2>1
  <2>2. CASE r # <<>>
    BY <1>1, <1>2, <1>3, <2>2
  <2> QED BY <2>1, <2>2
<1>6. ASSUME NEW i \in 1..(Len(a) - 1), a[i] = "-" PROVE a[i + 1] # "-"
  <2>1. i \in 1..n
    BY <1>2, <1>3
  <2>2. CASE i = n
    BY <1>3, <1>6, <2>1, <2>2 DEF n
  <2>3. CASE i # n
    <3>1. i \in 1..(n - 1) /\ i + 1 \in 1..n
      BY <1>2, <2>1, <2>3
    <3> QED BY <1>1, <1>3, <1>6, <2>1, <3>1
  <2> QED BY <2>2, <2>3
<1> QED BY <1>3, <1>4, <1>5, <1>6 DEF IsTidy, a

\* A step of SingleDashes keeps a text tidy, and adds to its words what the character adds.
LEMMA TidyStep ==
  ASSUME NEW r, IsTidy(r), NEW c \in Pure
  PROVE  /\ IsTidy(QStep(r, c))
         /\ EndsInWord(QStep(r, c)) <=> c # "-"
         /\ Names!WordsOf(QStep(r, c)) = WordStep(Names!WordsOf(r), EndsInWord(r), c)
<1>1. r \in Seq(Chars) /\ c \in Chars /\ Names!LowerOf(c) = c /\ (IsAlnum(c) <=> c # "-")
  BY PureIs DEF IsTidy
<1>2. CASE c = "-" /\ (r = <<>> \/ r[Len(r)] = "-")
  <2>1. QStep(r, c) = r
    BY <1>2 DEF QStep
  <2>2. ~EndsInWord(r)
    <3>1. CASE r = <<>>
      BY <3>1, NoWords
    <3>2. CASE r # <<>>
      BY <1>2, <3>2, TidyEnds
    <3> QED BY <3>1, <3>2
  <2>3. WordStep(Names!WordsOf(r), EndsInWord(r), c) = Names!WordsOf(r)
    BY <1>1, <1>2 DEF WordStep
  <2> QED BY <1>2, <2>1, <2>2, <2>3
<1>3. CASE ~(c = "-" /\ (r = <<>> \/ r[Len(r)] = "-"))
  <2>1. QStep(r, c) = Append(r, c)
    BY <1>3 DEF QStep
  <2>2. IsTidy(Append(r, c))
    BY <1>3, TidyAppend
  <2>3. /\ Names!WordsOf(Append(r, c)) = WordStep(Names!WordsOf(r), EndsInWord(r), c)
        /\ EndsInWord(Append(r, c)) <=> IsAlnum(c)
    BY <1>1, WordsAppend
  <2> QED BY <1>1, <2>1, <2>2, <2>3
<1> QED BY <1>2, <1>3

\* The beginning of a tidy text is tidy.
LEMMA TidyPrefix ==
  ASSUME NEW r, IsTidy(r), NEW k \in 0..Len(r)
  PROVE  /\ IsTidy(SubSeq(r, 1, k)) /\ Len(SubSeq(r, 1, k)) = k
         /\ \A i \in 1..k : SubSeq(r, 1, k)[i] = r[i]
<1> DEFINE p == SubSeq(r, 1, k)
<1>1. /\ r \in Seq(Chars) /\ (\A i \in 1..Len(r) : r[i] \in Pure) /\ (r # <<>> => r[1] # "-")
      /\ \A i \in 1..(Len(r) - 1) : r[i] = "-" => r[i + 1] # "-"
  BY DEF IsTidy
<1>2. Len(r) \in Nat /\ k \in Nat /\ k <= Len(r) /\ \A i \in 1..k : i \in 1..Len(r) /\ 1 + i - 1 = i
  BY <1>1, LenProperties
<1>3. \A i \in 1..k : r[i] \in Chars
  BY <1>1, <1>2, ElementOfSeq
<1>4. p \in Seq(Chars) /\ Len(p) = k /\ \A i \in 1..k : p[i] = r[i]
  <2>1. p \in Seq(Chars) /\ Len(p) = (IF 1 <= k THEN k - 1 + 1 ELSE 0)
        /\ \A i \in 1..(k - 1 + 1) : p[i] = r[1 + i - 1]
    BY <1>2, <1>3, SubSeqProperties
  <2> HIDE DEF p
  <2> QED BY <1>2, <2>1
<1>5. (r # <<>> <=> Len(r) # 0) /\ (p # <<>> <=> k # 0)
  BY <1>1, <1>4, EmptySeq
<1> HIDE DEF p
<1>6. \A i \in 1..(k - 1) : i \in 1..k /\ i + 1 \in 1..k /\ i \in 1..(Len(r) - 1)
  BY <1>2
<1>7. IsTidy(p)
  <2>1. p # <<>> => p[1] # "-"
    BY <1>1, <1>2, <1>4, <1>5
  <2>2. \A i \in 1..(k - 1) : p[i] = "-" => p[i + 1] # "-"
    BY <1>1, <1>4, <1>6
  <2>3. \A i \in 1..k : p[i] \in Pure
    BY <1>1, <1>2, <1>4
  <2> QED BY <1>4, <2>1, <2>2, <2>3 DEF IsTidy
<1> QED BY <1>4, <1>7 DEF p

\* A tidy text is as long as its words with a dash after each, and begins with the first.
LongAsWords(r) ==
  /\ TotalOf(Names!WordsOf(r)) = Len(r) + (IF EndsInWord(r) THEN 1 ELSE 0)
  /\ r # <<>> => /\ Names!WordsOf(r) # <<>> /\ Names!WordsOf(r)[1] # <<>>
                 /\ Names!WordsOf(r)[1][1] = r[1]

\* Every tidy text is as long as that.
LEMMA TidyLength == \A r \in Seq(Chars) : IsTidy(r) => LongAsWords(r)
<1> DEFINE P == {r \in Seq(Chars) : IsTidy(r) => LongAsWords(r)}
<1>1. <<>> \in P
  BY NoWords, TotalSteps, EmptySeq DEF LongAsWords
<1>2. ASSUME NEW s \in Seq(Chars), NEW c \in Chars, s \in P PROVE Append(s, c) \in P
  <2> DEFINE a == Append(s, c)
             W == Names!WordsOf(s)
             V == Names!WordsOf(a)
  <2>1. /\ a \in Seq(Chars) /\ a # <<>> /\ Len(a) = Len(s) + 1 /\ Len(s) \in Nat
        /\ (\A i \in 1..Len(s) : a[i] = s[i]) /\ a[Len(s) + 1] = c
    <3>1. a \in Seq(Chars) /\ a # <<>> /\ Len(a) = Len(s) + 1 /\ Len(s) \in Nat
      BY AppendProperties, LenProperties
    <3>2. (\A i \in 1..Len(s) : a[i] = s[i]) /\ a[Len(s) + 1] = c
      BY AppendProperties
    <3> QED BY <3>1, <3>2
  <2> SUFFICES ASSUME IsTidy(a) PROVE LongAsWords(a)
    BY <2>1
  <2>2. IsTidy(s)
    <3>1. Len(s) \in 0..Len(a)
      BY <2>1
    <3>2. IsTidy(SubSeq(a, 1, Len(s)))
      BY <3>1, TidyPrefix
    <3>3. SubSeq(a, 1, Len(s)) = s
      <4>1. \A i \in 1..Len(s) : SubSeq(a, 1, Len(s))[i] = a[i]
        BY <3>1, TidyPrefix
      <4>2. Len(SubSeq(a, 1, Len(s))) = Len(s)
        BY <3>1, TidyPrefix
      <4>3. SubSeq(a, 1, Len(s)) \in Seq(Chars)
        BY <3>2 DEF IsTidy
      <4> HIDE DEF a
      <4> QED BY <2>1, <4>1, <4>2, <4>3, SeqEqual
    <3> QED BY <3>2, <3>3
  <2>3. LongAsWords(s)
    BY <1>2, <2>2
  <2>4. c \in Pure /\ (c = "-" => s # <<>> /\ s[Len(s)] # "-")
    <3>1. Len(s) + 1 \in 1..Len(a)
      BY <2>1
    <3>2. c \in Pure
      BY <2>1, <3>1 DEF IsTidy
    <3>3. s # <<>> <=> Len(s) # 0
      BY EmptySeq
    <3>4. CASE s = <<>>
      BY <2>1, <3>3, <3>4 DEF IsTidy
    <3>5. CASE s # <<>>
      <4>1. Len(s) \in 1..(Len(a) - 1) /\ Len(s) \in 1..Len(s)
        BY <2>1, <3>3, <3>5
      <4>2. a[Len(s)] = "-" => a[Len(s) + 1] # "-"
        BY <4>1 DEF IsTidy
      <4> QED BY <2>1, <3>2, <3>5, <4>1, <4>2
    <3> QED BY <3>2, <3>4, <3>5
  <2>5. /\ V = WordStep(W, EndsInWord(s), c) /\ (EndsInWord(a) <=> c # "-")
        /\ (IsAlnum(c) <=> c # "-")
    BY <2>4, WordsAppend, PureIs
  <2>6. W \in Seq(Seq(Chars)) /\ TotalOf(W) \in Nat
    BY WordsType, JoinedIs
  <2>7. EndsInWord(s) => W # <<>>
    BY WordsAppend
  <2>8. (s # <<>> => Len(s) # 0) /\ (s = <<>> => Len(s) = 0 /\ W = <<>> /\ ~EndsInWord(s))
    BY EmptySeq, NoWords
  <2> HIDE DEF a, W, V
  <2>9. CASE c = "-"
    <3>1. V = W /\ EndsInWord(s) /\ ~EndsInWord(a)
      <4>1. EndsInWord(s)
        BY <2>2, <2>4, <2>9, TidyEnds
      <4> QED BY <2>5, <2>9, <4>1 DEF WordStep
    <3>2. TotalOf(V) = Len(a)
      BY <2>1, <2>3, <3>1 DEF LongAsWords, W
    <3>3. a[1] = s[1]
      BY <2>1, <2>4, <2>8, <2>9
    <3>4. W # <<>> /\ W[1] # <<>> /\ W[1][1] = s[1]
      BY <2>3, <2>4, <2>9 DEF LongAsWords, W
    <3>5. TotalOf(V) = Len(a) + (IF EndsInWord(a) THEN 1 ELSE 0)
      BY <2>1, <3>1, <3>2
    <3> QED BY <3>1, <3>3, <3>4, <3>5 DEF LongAsWords, V
  <2>10. CASE c # "-" /\ EndsInWord(s)
    <3>1. V = Longer(W, c) /\ EndsInWord(a) /\ W # <<>> /\ s # <<>>
      BY <2>5, <2>7, <2>8, <2>10 DEF WordStep
    <3>2. TotalOf(V) = TotalOf(W) + 1
      BY <2>6, <3>1, TotalSteps
    <3>3. TotalOf(W) = Len(s) + 1
      BY <2>3, <2>10 DEF LongAsWords, W
    <3>4. a[1] = s[1]
      BY <2>1, <2>8, <3>1
    <3>5. W # <<>> /\ W[1] # <<>> /\ W[1][1] = s[1]
      BY <2>3, <3>1 DEF LongAsWords, W
    <3>6. V \in Seq(Seq(Chars)) /\ Len(V) = Len(W) /\ Len(W) \in 1..Len(W) /\ Len(W) \in Nat
          /\ \A w \in 1..Len(W) : V[w] = IF w = Len(W) THEN Append(W[w], c) ELSE W[w]
      BY <2>6, <3>1, LongerType
    <3>7. 1 \in 1..Len(W) /\ V # <<>>
      BY <3>6, EmptySeq
    <3>8. W[1] \in Seq(Chars)
      BY <2>6, <3>7, ElementOfSeq
    <3>9. Append(W[1], c) # <<>> /\ Append(W[1], c)[1] = W[1][1]
      <4>1. Len(W[1]) \in Nat /\ Len(W[1]) # 0
        BY <3>5, <3>8, EmptySeq
      <4>2. 1 \in 1..Len(W[1])
        BY <4>1
      <4> QED BY <3>8, <4>2, AppendProperties
    <3>10. V[1] # <<>> /\ V[1][1] = a[1]
      BY <3>4, <3>5, <3>6, <3>7, <3>9
    <3>11. TotalOf(V) = Len(a) + (IF EndsInWord(a) THEN 1 ELSE 0)
      BY <2>1, <3>1, <3>2, <3>3
    <3> QED BY <3>7, <3>10, <3>11 DEF LongAsWords, V
  <2>11. CASE c # "-" /\ ~EndsInWord(s)
    <3>1. V = Append(W, <<c>>) /\ EndsInWord(a)
      BY <2>5, <2>11 DEF WordStep
    <3>2. <<c>> \in Seq(Chars) /\ Len(<<c>>) = 1 /\ <<c>> # <<>> /\ <<c>>[1] = c
      OBVIOUS
    <3>3. TotalOf(V) = TotalOf(W) + 1 + 1
      BY <2>6, <3>1, <3>2, TotalSteps
    <3>4. TotalOf(W) = Len(s)
      BY <2>3, <2>11 DEF LongAsWords, W
    <3>5. V # <<>> /\ (\A w \in 1..Len(W) : V[w] = W[w]) /\ V[Len(W) + 1] = <<c>> /\ Len(W) \in Nat
      BY <2>6, <3>1, <3>2, AppendProperties, LenProperties
    <3>6. V[1] # <<>> /\ V[1][1] = a[1]
      <4>1. CASE s = <<>>
        <5>1. Len(W) = 0 /\ Len(s) = 0
          BY <2>8, <4>1, EmptySeq
        <5>2. V[1] = <<c>> /\ a[1] = c
          BY <2>1, <3>5, <5>1
        <5> QED BY <3>2, <5>2
      <4>2. CASE s # <<>>
        <5>1. W # <<>> /\ W[1] # <<>> /\ W[1][1] = s[1]
          BY <2>3, <4>2 DEF LongAsWords, W
        <5>2. 1 \in 1..Len(W) /\ 1 \in 1..Len(s)
          BY <2>1, <2>6, <2>8, <3>5, <4>2, <5>1, EmptySeq
        <5> QED BY <2>1, <3>5, <5>1, <5>2
      <4> QED BY <4>1, <4>2
    <3>7. TotalOf(V) = Len(a) + (IF EndsInWord(a) THEN 1 ELSE 0)
      BY <2>1, <3>1, <3>3, <3>4
    <3> QED BY <3>5, <3>6, <3>7 DEF LongAsWords, V
  <2>12. LongAsWords(a)
    BY <2>9, <2>10, <2>11
  <2> QED BY <2>12 DEF a
<1>3. Seq(Chars) \subseteq P
  <2> HIDE DEF P
  <2> QED BY <1>1, <1>2, AllSequences
<1> QED BY <1>3

-------------------------------------------------------------------------------
\* Dashes can be taken from the front first, or from the end result.
LEMMA WithoutFirstStep ==
  ASSUME NEW r \in Seq(Chars), NEW c \in Chars
  PROVE  Names!WithoutFirst("-", DashStep(r, c)) = QStep(Names!WithoutFirst("-", r), c)
<1> DEFINE F(x) == Names!WithoutFirst("-", x)
           a == Append(r, c)
<1>1. /\ a \in Seq(Chars) /\ a # <<>> /\ Head(a) = (IF r = <<>> THEN c ELSE Head(r))
      /\ Tail(a) = IF r = <<>> THEN <<>> ELSE Append(Tail(r), c)
  BY AppendProperties, HeadTailAppend
<1>2. r # <<>> => /\ Head(r) = r[1] /\ Tail(r) \in Seq(Chars) /\ Len(Tail(r)) = Len(r) - 1
                  /\ \A i \in 1..Len(Tail(r)) : Tail(r)[i] = r[i + 1]
  BY HeadTailProperties
<1>3. Len(r) \in Nat /\ (r # <<>> <=> Len(r) # 0)
  BY EmptySeq, LenProperties
<1> HIDE DEF a
<1>4. CASE r = <<>>
  <2>1. DashStep(r, c) = a /\ F(r) = <<>>
    BY <1>4 DEF DashStep, Names!WithoutFirst, a
  <2>2. F(a) = IF c = "-" THEN <<>> ELSE a
    BY <1>1, <1>4 DEF Names!WithoutFirst
  <2> QED BY <1>4, <2>1, <2>2 DEF QStep, a
<1>5. CASE r # <<>> /\ Head(r) # "-"
  <2>1. F(r) = r /\ F(a) = a
    BY <1>1, <1>5 DEF Names!WithoutFirst
  <2> QED BY <1>5, <2>1 DEF QStep, DashStep, a
<1>6. CASE r # <<>> /\ Head(r) = "-"
  <2>1. F(r) = Tail(r) /\ F(a) = Append(Tail(r), c)
    BY <1>1, <1>6 DEF Names!WithoutFirst
  <2>2. Tail(r) = <<>> <=> Len(r) = 1
    <3>1. Len(Tail(r)) = Len(r) - 1 /\ Tail(r) \in Seq(Chars)
      BY <1>2, <1>6
    <3>2. (Tail(r) = <<>> => Len(Tail(r)) = 0) /\ (Tail(r) # <<>> => Len(Tail(r)) # 0)
      BY <3>1, EmptySeq
    <3> HIDE DEF F
    <3> QED BY <1>3, <3>1, <3>2
  <2>3. Tail(r) # <<>> => Tail(r)[Len(Tail(r))] = r[Len(r)]
    <3> SUFFICES ASSUME Tail(r) # <<>> PROVE Tail(r)[Len(Tail(r))] = r[Len(r)]
      OBVIOUS
    <3>1. Len(r) - 1 \in 1..Len(Tail(r)) /\ (Len(r) - 1) + 1 = Len(r)
      BY <1>2, <1>3, <1>6, <2>2
    <3> QED BY <1>2, <1>6, <3>1
  <2>4. Tail(r) = <<>> => r[Len(r)] = "-"
    BY <1>2, <1>6, <2>2
  <2> QED BY <1>6, <2>1, <2>3, <2>4 DEF QStep, DashStep, a
<1> QED BY <1>4, <1>5, <1>6

\* SingleDashes without a dash in front, step by step.
Tidying(q, s) ==
  /\ q[0] = <<>>
  /\ \A k \in 1..Len(s) : q[k] = QStep(q[k - 1], s[k])

\* SingleDashes without a dash in front, character by character.
LEMMA TidyingIs ==
  ASSUME NEW s \in Seq(Chars)
  PROVE  \E q : Tidying(q, s) /\ q[Len(s)] = Names!WithoutFirst("-", Names!SingleDashes(s))
<1>1. PICK g : Dashing(g, s) /\ Names!SingleDashes(s) = g[Len(s)]
  BY SingleDashesIs
<1> DEFINE q == [k \in 0..Len(s) |-> Names!WithoutFirst("-", g[k])]
<1>2. Len(s) \in Nat /\ Len(s) \in 0..Len(s) /\ 0 \in 0..Len(s)
      /\ \A k \in 1..Len(s) : k \in 0..Len(s) /\ k - 1 \in 0..Len(s)
  BY LenProperties
<1>3. \A k \in 1..Len(s) : s[k] \in Chars
  BY ElementOfSeq
<1>4. /\ g[0] = <<>> /\ \A k \in 0..Len(s) : g[k] \in Seq(Chars)
      /\ \A k \in 1..Len(s) : g[k] = DashStep(g[k - 1], s[k])
  BY <1>1 DEF Dashing
<1>5. \A k \in 0..Len(s) : q[k] = Names!WithoutFirst("-", g[k])
  OBVIOUS
<1> HIDE DEF q
<1>6. q[0] = <<>>
  BY <1>2, <1>4, <1>5 DEF Names!WithoutFirst
<1>7. ASSUME NEW k \in 1..Len(s) PROVE q[k] = QStep(q[k - 1], s[k])
  <2>1. g[k - 1] \in Seq(Chars) /\ s[k] \in Chars /\ g[k] = DashStep(g[k - 1], s[k])
    BY <1>2, <1>3, <1>4
  <2>2. Names!WithoutFirst("-", DashStep(g[k - 1], s[k])) = QStep(Names!WithoutFirst("-", g[k - 1]), s[k])
    BY <2>1, WithoutFirstStep
  <2> QED BY <1>2, <1>5, <2>1, <2>2
<1> QED BY <1>1, <1>2, <1>5, <1>6, <1>7 DEF Tidying

\* The beginnings of a text, one character after the other.
LEMMA Beginning ==
  ASSUME NEW u \in Seq(Chars), NEW k \in 0..Len(u)
  PROVE  /\ SubSeq(u, 1, k) \in Seq(Chars) /\ Len(SubSeq(u, 1, k)) = k
         /\ \A i \in 1..k : SubSeq(u, 1, k)[i] = u[i]
         /\ k # 0 => SubSeq(u, 1, k) = Append(SubSeq(u, 1, k - 1), u[k])
<1>1. Len(u) \in Nat /\ k \in Nat /\ k <= Len(u) /\ \A i \in 1..k : i \in 1..Len(u) /\ 1 + i - 1 = i
  BY LenProperties
<1>2. \A i \in 1..k : u[i] \in Chars
  BY <1>1, ElementOfSeq
<1>3. /\ SubSeq(u, 1, k) \in Seq(Chars) /\ Len(SubSeq(u, 1, k)) = (IF 1 <= k THEN k - 1 + 1 ELSE 0)
      /\ \A i \in 1..(k - 1 + 1) : SubSeq(u, 1, k)[i] = u[1 + i - 1]
  BY <1>1, <1>2, SubSeqProperties
<1>4. ASSUME k # 0 PROVE SubSeq(u, 1, k) = Append(SubSeq(u, 1, k - 1), u[k])
  <2>1. 1 \in 1..Len(u) /\ k \in 1..Len(u) /\ u[k] \in Chars /\ \A i \in 1..(k - 1) : i \in 1..k
    BY <1>1, <1>2, <1>4
  <2>2. SubSeq(u, 1, k) = SubSeq(u, 1, k - 1) \o <<u[k]>>
    BY <2>1, SubSeqRecursiveSecond
  <2>3. SubSeq(u, 1, k - 1) \in Seq(Chars)
    BY <1>1, <1>2, <2>1, SubSeqProperties
  <2>4. Append(SubSeq(u, 1, k - 1), u[k]) = SubSeq(u, 1, k - 1) \o <<u[k]>>
    BY <2>1, <2>3, AppendIsConcat
  <2> QED BY <2>2, <2>4
<1>5. Len(SubSeq(u, 1, k)) = k /\ \A i \in 1..k : SubSeq(u, 1, k)[i] = u[i]
  BY <1>1, <1>3
<1> QED BY <1>3, <1>4, <1>5

\* What the conversions make of a text before they take the dashes from its ends.
Letters(u) == Names!Dashed(Names!ToLower(u))

\* They are letters, digits and dashes, where the text has something else.
LEMMA DashedIs ==
  ASSUME NEW u \in Seq(Chars)
  PROVE  /\ Letters(u) \in Seq(Chars) /\ Len(Letters(u)) = Len(u)
         /\ \A i \in 1..Len(u) :
              /\ Letters(u)[i] \in Pure
              /\ Letters(u)[i] = IF IsAlnum(Names!LowerOf(u[i])) THEN Names!LowerOf(u[i]) ELSE "-"
<1>1. /\ Lower(u) \in Seq(Chars) /\ Len(Lower(u)) = Len(u) /\ Len(u) \in Nat
      /\ \A i \in 1..Len(u) : Lower(u)[i] = Names!LowerOf(u[i])
  BY LowerIs, LenProperties
<1>2. DOMAIN Lower(u) = 1..Len(u)
  BY <1>1, LenProperties
<1>3. Letters(u) = [i \in 1..Len(u) |-> IF IsAlnum(Lower(u)[i]) THEN Lower(u)[i] ELSE "-"]
  BY <1>2 DEF Letters, Names!Dashed, Lower, IsAlnum
<1>4. \A i \in 1..Len(u) : u[i] \in Chars /\ Names!LowerOf(u[i]) \in Chars
  BY ElementOfSeq, LowerKept
<1>5. \A i \in 1..Len(u) :
        /\ Letters(u)[i] \in Pure
        /\ Letters(u)[i] = IF IsAlnum(Names!LowerOf(u[i])) THEN Names!LowerOf(u[i]) ELSE "-"
  BY <1>1, <1>3, <1>4, PureIs
<1>6. Letters(u) \in [1..Len(u) -> Chars]
  BY <1>3, <1>5, PureIs
<1> QED BY <1>1, <1>5, <1>6, StringSeq

\* Their words are those of the text.
LEMMA SameWords ==
  ASSUME NEW u \in Seq(Chars), NEW q, Tidying(q, Letters(u))
  PROVE  IsTidy(q[Len(u)]) /\ Names!WordsOf(q[Len(u)]) = Names!WordsOf(u)
<1> DEFINE n == Len(u)
           p(k) == SubSeq(u, 1, k)
           P == {k \in Nat : k <= n => /\ IsTidy(q[k])
                                       /\ Names!WordsOf(q[k]) = Names!WordsOf(p(k))
                                       /\ EndsInWord(q[k]) <=> EndsInWord(p(k))}
<1>1. n \in Nat
  BY LenProperties
<1>2. 0 \in P
  <2>1. p(0) = <<>>
    BY SubSeqEmpty
  <2>2. q[0] = <<>> /\ IsTidy(<<>>)
    BY EmptySeq DEF Tidying, IsTidy
  <2> QED BY <2>1, <2>2
<1>3. ASSUME NEW k \in Nat, k \in P PROVE k + 1 \in P
  <2> SUFFICES ASSUME k + 1 <= n
               PROVE  /\ IsTidy(q[k + 1])
                      /\ Names!WordsOf(q[k + 1]) = Names!WordsOf(p(k + 1))
                      /\ EndsInWord(q[k + 1]) <=> EndsInWord(p(k + 1))
    OBVIOUS
  <2>1. k + 1 \in 1..n /\ (k + 1) - 1 = k /\ k <= n /\ k \in 0..n /\ k + 1 \in 0..n /\ k + 1 # 0
    BY <1>1
  <2>2. /\ IsTidy(q[k]) /\ Names!WordsOf(q[k]) = Names!WordsOf(p(k))
        /\ EndsInWord(q[k]) <=> EndsInWord(p(k))
    BY <1>3, <2>1
  <2> DEFINE d == Letters(u)[k + 1]
             l == Names!LowerOf(u[k + 1])
  <2>3. d \in Pure /\ d = (IF IsAlnum(l) THEN l ELSE "-") /\ u[k + 1] \in Chars
    BY <2>1, DashedIs, ElementOfSeq
  <2>4. q[k + 1] = QStep(q[k], d)
    BY <2>1, DashedIs DEF Tidying
  <2>5. p(k + 1) = Append(p(k), u[k + 1]) /\ p(k) \in Seq(Chars)
    BY <2>1, Beginning
  <2> HIDE DEF p, d, l
  <2>6. /\ IsTidy(q[k + 1])
        /\ EndsInWord(q[k + 1]) <=> d # "-"
        /\ Names!WordsOf(q[k + 1]) = WordStep(Names!WordsOf(q[k]), EndsInWord(q[k]), d)
    BY <2>2, <2>3, <2>4, TidyStep
  <2>7. /\ Names!WordsOf(p(k + 1)) = WordStep(Names!WordsOf(p(k)), EndsInWord(p(k)), l)
        /\ EndsInWord(p(k + 1)) <=> IsAlnum(l)
    BY <2>3, <2>5, WordsAppend DEF l
  <2>8. IsAlnum(l) <=> d # "-"
    BY <2>3, PureIs
  <2>9. WordStep(Names!WordsOf(p(k)), EndsInWord(p(k)), l) = WordStep(Names!WordsOf(q[k]), EndsInWord(q[k]), d)
    <3>1. CASE IsAlnum(l)
      <4>1. d = l
        BY <2>3, <3>1
      <4>2. EndsInWord(p(k)) = EndsInWord(q[k])
        BY <2>2 DEF EndsInWord
      <4> QED BY <2>2, <4>1, <4>2
    <3>2. CASE ~IsAlnum(l)
      <4>1. ~IsAlnum(d)
        BY <2>3, <3>2, PureIs
      <4> QED BY <2>2, <3>2, <4>1 DEF WordStep
    <3> QED BY <3>1, <3>2
  <2> QED BY <2>6, <2>7, <2>8, <2>9
<1>4. Nat \subseteq P
  <2> HIDE DEF P
  <2> QED BY <1>2, <1>3, AllNumbers
<1>5. p(n) = u
  BY SubSeqFull
<1>6. n <= n
  BY <1>1
<1> QED BY <1>1, <1>4, <1>5, <1>6

-------------------------------------------------------------------------------
\* A text of letters, digits and single dashes, with no dash at either end.
IsNeat(e) == IsTidy(e) /\ (e # <<>> => EndsInWord(e))

\* A tidy text cut somewhere, without a dash at its end, is neat.
LEMMA NeatCut ==
  ASSUME NEW r, IsTidy(r)
  PROVE  /\ IsNeat(Names!WithoutLast("-", r)) /\ Len(Names!WithoutLast("-", r)) <= Len(r)
         /\ r # <<>> => Names!WithoutLast("-", r) # <<>> /\ Names!WithoutLast("-", r)[1] = r[1]
         /\ Names!WordsOf(Names!WithoutLast("-", r)) = Names!WordsOf(r)
<1> DEFINE e == Names!WithoutLast("-", r)
<1>1. r \in Seq(Chars) /\ Len(r) \in Nat
  BY LenProperties DEF IsTidy
<1>2. CASE r = <<>>
  <2>1. e = r
    BY <1>2 DEF Names!WithoutLast
  <2> QED BY <1>1, <1>2, <2>1 DEF IsNeat
<1>3. CASE r # <<>> /\ r[Len(r)] # "-"
  <2>1. e = r
    BY <1>3 DEF Names!WithoutLast, Names!Last
  <2> QED BY <1>1, <1>3, <2>1, TidyEnds DEF IsNeat
<1>4. CASE r # <<>> /\ r[Len(r)] = "-"
  <2> DEFINE n == Len(r)
  <2>1. e = SubSeq(r, 1, n - 1)
    BY <1>4 DEF Names!WithoutLast, Names!Last, Names!Front
  <2>2. n \in 1..n /\ r[1] # "-"
    BY <1>4, TidyEnds DEF IsTidy
  <2>3. n # 1 /\ n - 1 \in 0..n /\ n - 1 # 0 /\ n - 1 \in 1..(n - 1) /\ 1 \in 1..(n - 1) /\ n # 0
        /\ (n - 1) + 1 = n /\ n - 1 <= n /\ n \in 0..n
    BY <1>1, <1>4, <2>2
  <2>4. IsTidy(e) /\ Len(e) = n - 1 /\ \A i \in 1..(n - 1) : e[i] = r[i]
    <3> DEFINE m == n - 1
    <3>1. m \in 0..Len(r)
      BY <2>3
    <3> HIDE DEF m
    <3>2. IsTidy(SubSeq(r, 1, m)) /\ Len(SubSeq(r, 1, m)) = m /\ \A i \in 1..m : SubSeq(r, 1, m)[i] = r[i]
      BY <3>1, TidyPrefix
    <3> QED BY <2>1, <3>2 DEF m
  <2>5. r[n - 1] # "-"
    BY <1>4, <2>3 DEF IsTidy
  <2>6. e # <<>>
    <3>1. Len(<<>>) = 0
      BY EmptySeq
    <3> QED BY <2>3, <2>4, <3>1
  <2>7. EndsInWord(e)
    <3>1. e[Len(e)] # "-"
      BY <2>3, <2>4, <2>5
    <3> QED BY <2>4, <2>6, <3>1, TidyEnds
  <2>8. r = Append(e, "-")
    <3>1. SubSeq(r, 1, n) = Append(SubSeq(r, 1, n - 1), r[n])
      BY <1>1, <2>3, Beginning
    <3>2. SubSeq(r, 1, n) = r
      BY <1>1, SubSeqFull
    <3> QED BY <1>4, <2>1, <3>1, <3>2
  <2>9. Names!WordsOf(r) = Names!WordsOf(e)
    <3>1. e \in Seq(Chars)
      BY <2>4 DEF IsTidy
    <3>2. Names!LowerOf("-") = "-" /\ ~IsAlnum("-") /\ "-" \in Chars
      BY PureIs
    <3>3. Names!WordsOf(Append(e, "-")) = WordStep(Names!WordsOf(e), EndsInWord(e), "-")
      BY <3>1, <3>2, WordsAppend
    <3> QED BY <2>8, <3>2, <3>3 DEF WordStep
  <2>10. Len(e) <= n /\ e[1] = r[1]
    BY <2>3, <2>4
  <2> HIDE DEF e
  <2> QED BY <2>4, <2>6, <2>7, <2>9, <2>10 DEF IsNeat, e
<1> QED BY <1>2, <1>3, <1>4

\* A text as letters, digits and single dashes, with none at its ends.
Cleaned(u) == Names!WithoutEnds(Names!SingleDashes(Letters(u)))

\* What is left is neat, and has the words of the text.
LEMMA CleanedIs ==
  ASSUME NEW u \in Seq(Chars)
  PROVE  IsNeat(Cleaned(u)) /\ Names!WordsOf(Cleaned(u)) = Names!WordsOf(u)
<1>1. Letters(u) \in Seq(Chars) /\ Len(Letters(u)) = Len(u)
  BY DashedIs
<1>2. PICK q : /\ Tidying(q, Letters(u))
               /\ q[Len(u)] = Names!WithoutFirst("-", Names!SingleDashes(Letters(u)))
  BY <1>1, TidyingIs
<1>3. IsTidy(q[Len(u)]) /\ Names!WordsOf(q[Len(u)]) = Names!WordsOf(u)
  BY <1>2, SameWords
<1>4. Cleaned(u) = Names!WithoutLast("-", q[Len(u)])
  BY <1>2 DEF Cleaned, Names!WithoutEnds
<1> QED BY <1>3, <1>4, NeatCut

\* A neat text without words is empty; otherwise it is as long as they are joined.
LEMMA NeatLength ==
  ASSUME NEW e, IsNeat(e)
  PROVE  /\ Names!WordsOf(e) = <<>> <=> e = <<>>
         /\ e # <<>> => /\ TotalOf(Names!WordsOf(e)) = Len(e) + 1
                        /\ Names!WordsOf(e)[1] # <<>> /\ Names!WordsOf(e)[1][1] = e[1]
<1>1. LongAsWords(e)
  BY TidyLength DEF IsNeat, IsTidy
<1> QED BY <1>1, NoWords DEF IsNeat, LongAsWords

\* Blanks at the ends are in no word, and Trim leaves none.
LEMMA BlankIs == ~IsAlnum(Names!LowerOf(" "))
<1>1. Names!ToSet(Names!LowerLetters) =
        {"a", "b", "c", "d", "e", "f", "g", "h", "i", "j", "k", "l", "m",
         "n", "o", "p", "q", "r", "s", "t", "u", "v", "w", "x", "y", "z"}
  BY DEF Names!ToSet, Names!LowerLetters
<1>2. ~IsAlnum(" ")
  BY <1>1 DEF IsAlnum, Names!Alnum, Names!Digits
<1>3. \A i \in DOMAIN Names!Capitals : Names!Capitals[i] # " "
  <2>1. DOMAIN Names!Capitals = 1..26
    BY DEF Names!Capitals
  <2>2. \A i \in 1..26 : Names!Capitals[i] \in {"A", "B", "C", "D", "E", "F", "G", "H", "I", "J", "K", "L",
                                        "M", "N", "O", "P", "Q", "R", "S", "T", "U", "V", "W", "X", "Y", "Z"}
    BY DEF Names!Capitals
  <2> QED BY <2>1, <2>2
<1> QED BY <1>2, <1>3 DEF Names!LowerOf

Text(u) == {i \in 1..Len(u) : u[i] # " "}

\* Trim leaves what lies between the first character that is no blank and the last.
LEMMA TrimIs ==
  ASSUME NEW u \in Seq(Chars)
  PROVE  \/ Text(u) = {} /\ Names!Trim(u) = <<>>
         \/ \E a, b \in Text(u) : /\ Names!Trim(u) = SubSeq(u, a, b) /\ a <= b
                                  /\ \A i \in Text(u) : a <= i /\ i <= b
<1>1. Len(u) \in Nat /\ DOMAIN u = 1..Len(u)
  BY LenProperties
<1>2. Names!Trim(u) = IF Text(u) = {} THEN <<>> ELSE SubSeq(u, Names!Min(Text(u)), Names!Max(Text(u)))
  BY <1>1 DEF Names!Trim, Text
<1>3. CASE Text(u) = {}
  BY <1>2, <1>3
<1>4. CASE Text(u) # {}
  <2>a. 1..Len(u) \subseteq 0..Len(u) /\ 1..Len(u) \subseteq Nat
    BY <1>1
  <2>b. Text(u) \subseteq 1..Len(u)
    BY DEF Text
  <2>0. 1..Len(u) \subseteq 0..Len(u) /\ 1..Len(u) \subseteq Nat /\ Text(u) \subseteq 1..Len(u)
    BY <2>a, <2>b
  <2>1. Text(u) \subseteq 0..Len(u) /\ Text(u) \subseteq Nat
    BY <2>0
  <2> DEFINE T == Text(u)
             a == Names!Min(T)
             b == Names!Max(T)
  <2>2. a \in T /\ \A i \in T : a <= i
    BY <1>4, <2>1, LeastOf DEF Names!Min
  <2>3. b \in T /\ \A i \in T : i <= b
    BY <1>1, <1>4, <2>1, GreatestOf DEF Names!Max
  <2>4. Names!Trim(u) = SubSeq(u, a, b)
    BY <1>2, <1>4
  <2> HIDE DEF a, b
  <2>5. a <= b
    BY <2>2, <2>3
  <2>6. \E x, y \in T : /\ Names!Trim(u) = SubSeq(u, x, y) /\ x <= y
                        /\ \A i \in T : x <= i /\ i <= y
    BY <2>2, <2>3, <2>4, <2>5
  <2> QED BY <2>6
<1> QED BY <1>3, <1>4

\* What lies between the ends of a text: it is a text, and it grows by a character.
LEMMA Between ==
  ASSUME NEW u \in Seq(Chars), NEW a \in 1..Len(u), NEW b \in (a - 1)..Len(u)
  PROVE  /\ SubSeq(u, a, b) \in Seq(Chars) /\ Len(SubSeq(u, a, b)) = b - a + 1
         /\ \A i \in 1..(b - a + 1) : SubSeq(u, a, b)[i] = u[a + i - 1]
         /\ b # a - 1 => SubSeq(u, a, b) = Append(SubSeq(u, a, b - 1), u[b])
<1>1. /\ Len(u) \in Nat /\ a \in Int /\ b \in Int /\ a - 1 <= b
      /\ \A i \in a..b : i \in 1..Len(u)
      /\ \A i \in a..(b - 1) : i \in 1..Len(u)
  BY LenProperties
<1>2. (\A i \in a..b : u[i] \in Chars) /\ (\A i \in a..(b - 1) : u[i] \in Chars)
  BY <1>1, ElementOfSeq
<1>3. /\ SubSeq(u, a, b) \in Seq(Chars) /\ Len(SubSeq(u, a, b)) = (IF a <= b THEN b - a + 1 ELSE 0)
      /\ \A i \in 1..(b - a + 1) : SubSeq(u, a, b)[i] = u[a + i - 1]
  BY <1>1, <1>2, SubSeqProperties
<1>4. ASSUME b # a - 1 PROVE SubSeq(u, a, b) = Append(SubSeq(u, a, b - 1), u[b])
  <2>1. b \in a..Len(u) /\ b \in a..b
    BY <1>1, <1>4
  <2>2. SubSeq(u, a, b) = SubSeq(u, a, b - 1) \o <<u[b]>>
    BY <2>1, SubSeqRecursiveSecond
  <2>3. SubSeq(u, a, b - 1) \in Seq(Chars) /\ u[b] \in Chars
    BY <1>1, <1>2, <2>1, SubSeqProperties
  <2>4. Append(SubSeq(u, a, b - 1), u[b]) = SubSeq(u, a, b - 1) \o <<u[b]>>
    BY <2>3, AppendIsConcat
  <2> QED BY <2>2, <2>4
<1>5. Len(SubSeq(u, a, b)) = b - a + 1
  BY <1>1, <1>3
<1> QED BY <1>3, <1>4, <1>5

\* Trim leaves the words, and nothing to trim.
LEMMA TrimAgain ==
  ASSUME NEW u \in Seq(Chars)
  PROVE  /\ Names!Trim(u) \in Seq(Chars) /\ Names!Trim(Names!Trim(u)) = Names!Trim(u)
         /\ Names!WordsOf(Names!Trim(u)) = Names!WordsOf(u)
<1> DEFINE n == Len(u)
           p(k) == SubSeq(u, 1, k)
<1>1. n \in Nat /\ p(n) = u /\ p(0) = <<>>
  BY LenProperties, SubSeqFull, SubSeqEmpty
<1>2. \A k \in 1..n : k - 1 \in 0..n /\ k \in 0..n /\ k # 0
  BY <1>1
<1>3. ASSUME NEW k \in 1..n
      PROVE  p(k) = Append(p(k - 1), u[k]) /\ p(k - 1) \in Seq(Chars) /\ u[k] \in Chars
  BY <1>2, Beginning, ElementOfSeq
<1>4. ASSUME NEW k \in 1..n, u[k] = " "
      PROVE  Names!WordsOf(p(k)) = Names!WordsOf(p(k - 1)) /\ ~EndsInWord(p(k))
  <2>1. p(k) = Append(p(k - 1), u[k]) /\ p(k - 1) \in Seq(Chars) /\ u[k] \in Chars
    BY <1>3
  <2> DEFINE t == p(k - 1)
             v == p(k)
             c == u[k]
  <2>2. v = Append(t, c) /\ t \in Seq(Chars) /\ c \in Chars /\ ~IsAlnum(Names!LowerOf(c))
    BY <1>4, <2>1, BlankIs
  <2> HIDE DEF t, v, c
  <2>3. Names!WordsOf(v) = WordStep(Names!WordsOf(t), EndsInWord(t), Names!LowerOf(c))
        /\ (EndsInWord(v) <=> IsAlnum(Names!LowerOf(c)))
    BY <2>2, WordsAppend
  <2>4. Names!WordsOf(v) = Names!WordsOf(t) /\ ~EndsInWord(v)
    BY <2>2, <2>3 DEF WordStep
  <2> QED BY <2>4 DEF t, v
<1>5. CASE Text(u) = {} /\ Names!Trim(u) = <<>>
  <2> DEFINE P == {k \in Nat : k <= n => Names!WordsOf(p(k)) = <<>>}
  <2>1. 0 \in P
    BY <1>1, NoWords
  <2>2. ASSUME NEW k \in Nat, k \in P PROVE k + 1 \in P
    <3> SUFFICES ASSUME k + 1 <= n PROVE Names!WordsOf(p(k + 1)) = <<>>
      OBVIOUS
    <3>1. k + 1 \in 1..n /\ (k + 1) - 1 = k /\ k <= n
      BY <1>1
    <3>2. u[k + 1] = " "
      BY <1>5, <3>1 DEF Text
    <3>3. Names!WordsOf(p(k + 1)) = Names!WordsOf(p((k + 1) - 1))
      <4> HIDE DEF p
      <4> QED BY <1>4, <3>1, <3>2
    <3>4. Names!WordsOf(p(k)) = <<>>
      BY <2>2, <3>1
    <3> HIDE DEF p
    <3> QED BY <3>1, <3>3, <3>4
  <2>3. Nat \subseteq P
    <3> HIDE DEF P
    <3> QED BY <2>1, <2>2, AllNumbers
  <2>4. Names!WordsOf(u) = <<>>
    <3>1. n <= n
      BY <1>1
    <3> HIDE DEF p
    <3> QED BY <1>1, <2>3, <3>1
  <2>5. Names!Trim(<<>>) = <<>>
    BY EmptySeq DEF Names!Trim
  <2> QED BY <1>5, <2>4, <2>5, NoWords, EmptySeq
<1>6. CASE \E a, b \in Text(u) : /\ Names!Trim(u) = SubSeq(u, a, b) /\ a <= b
                                 /\ \A i \in Text(u) : a <= i /\ i <= b
  <2>1. PICK a \in Text(u), b \in Text(u) : /\ Names!Trim(u) = SubSeq(u, a, b) /\ a <= b
                                            /\ \A i \in Text(u) : a <= i /\ i <= b
    BY <1>6
  <2>0. \A i \in Text(u) : i \in 1..n /\ u[i] # " "
    BY DEF Text
  <2>a. a \in 1..n /\ b \in 1..n
    BY <2>0
  <2>2. a \in 1..n /\ b \in a..n /\ a \in Nat /\ b \in Nat
    BY <1>1, <2>1, <2>a
  <2>3. \A i \in 1..n : i < a \/ b < i => u[i] = " "
    <3>1. \A i \in 1..n : i < a \/ b < i => ~(a <= i /\ i <= b)
      BY <1>1, <2>2
    <3> QED BY <2>1, <3>1 DEF Text
  <2> DEFINE m(k) == SubSeq(u, a, k)
             P == {k \in Nat : k <= n =>
                     IF k < a THEN Names!WordsOf(p(k)) = <<>> /\ ~EndsInWord(p(k))
                     ELSE IF k <= b THEN /\ Names!WordsOf(p(k)) = Names!WordsOf(m(k))
                                         /\ EndsInWord(p(k)) <=> EndsInWord(m(k))
                     ELSE Names!WordsOf(p(k)) = Names!WordsOf(m(b))}
  <2>4. 0 \in P
    <3>1. 0 < a
      BY <1>1, <2>2
    <3> QED BY <1>1, <3>1, NoWords
  <2>5. m(a - 1) = <<>>
    BY <2>2, SubSeqEmpty
  <2>6. ASSUME NEW k \in Nat, k \in P, k + 1 <= n
        PROVE  IF k + 1 < a THEN Names!WordsOf(p(k + 1)) = <<>> /\ ~EndsInWord(p(k + 1))
               ELSE IF k + 1 <= b THEN /\ Names!WordsOf(p(k + 1)) = Names!WordsOf(m(k + 1))
                                       /\ EndsInWord(p(k + 1)) <=> EndsInWord(m(k + 1))
               ELSE Names!WordsOf(p(k + 1)) = Names!WordsOf(m(b))
    <3>1. k + 1 \in 1..n /\ (k + 1) - 1 = k /\ k <= n
      BY <1>1, <2>6
    <3>2. /\ p(k + 1) = Append(p(k), u[k + 1]) /\ p(k) \in Seq(Chars) /\ u[k + 1] \in Chars
          /\ u[k + 1] = " " => Names!WordsOf(p(k + 1)) = Names!WordsOf(p(k)) /\ ~EndsInWord(p(k + 1))
      BY <1>3, <1>4, <3>1
    <3>3. CASE k + 1 < a
      <4>a. u[k + 1] = " "
        BY <2>3, <3>1, <3>3
      <4>b. k < a
        BY <2>2, <3>3
      <4>1. k < a /\ u[k + 1] = " "
        BY <4>a, <4>b
      <4> HIDE DEF p, m
      <4> QED BY <2>6, <3>1, <3>2, <3>3, <4>1
    <3>4. CASE b < k + 1
      <4>a. u[k + 1] = " "
        BY <2>3, <3>1, <3>4
      <4>b. ~(k + 1 < a) /\ ~(k + 1 <= b) /\ ~(k < a) /\ (k <= b => k = b)
        BY <2>2, <3>4
      <4>1. u[k + 1] = " " /\ ~(k + 1 < a) /\ ~(k + 1 <= b) /\ ~(k < a) /\ (k <= b => k = b)
        BY <4>a, <4>b
      <4>2. Names!WordsOf(p(k)) = Names!WordsOf(m(b))
        <5> HIDE DEF p, m
        <5> QED BY <2>6, <3>1, <4>1
      <4> HIDE DEF p, m
      <4> QED BY <3>2, <4>1, <4>2
    <3>5. CASE ~(k + 1 < a) /\ ~(b < k + 1)
      <4>1. k + 1 <= b /\ (k < a => k = a - 1) /\ (~(k < a) => k <= b)
        BY <2>2, <3>5
      <4>2. /\ Names!WordsOf(p(k)) = Names!WordsOf(m(k))
            /\ EndsInWord(p(k)) <=> EndsInWord(m(k))
        <5>1. CASE k < a
          <6>1. m(k) = <<>>
            BY <2>5, <4>1, <5>1
          <6>2. Names!WordsOf(p(k)) = <<>> /\ ~EndsInWord(p(k))
            BY <2>6, <3>1, <5>1
          <6> HIDE DEF p, m
          <6> QED BY <6>1, <6>2, NoWords
        <5>2. CASE ~(k < a)
          <6> HIDE DEF p, m
          <6> QED BY <2>6, <3>1, <4>1, <5>2
        <5> QED BY <5>1, <5>2
      <4>3. m(k + 1) = Append(m(k), u[k + 1]) /\ m(k) \in Seq(Chars)
        <5>1. k + 1 \in (a - 1)..n /\ k \in (a - 1)..n /\ k + 1 # a - 1
          BY <2>2, <3>1, <3>5
        <5> QED BY <2>2, <3>1, <5>1, Between
      <4>4. EndsInWord(p(k)) = EndsInWord(m(k))
        BY <4>2 DEF EndsInWord
      <4> HIDE DEF p, m
      <4>5. /\ Names!WordsOf(p(k + 1)) = WordStep(Names!WordsOf(p(k)), EndsInWord(p(k)), Names!LowerOf(u[k + 1]))
            /\ EndsInWord(p(k + 1)) <=> IsAlnum(Names!LowerOf(u[k + 1]))
        <5> DEFINE t == p(k)
                   c == u[k + 1]
        <5>1. p(k + 1) = Append(t, c) /\ t \in Seq(Chars) /\ c \in Chars
          BY <3>2
        <5> HIDE DEF t, c
        <5>2. /\ Names!WordsOf(Append(t, c)) = WordStep(Names!WordsOf(t), EndsInWord(t), Names!LowerOf(c))
              /\ EndsInWord(Append(t, c)) <=> IsAlnum(Names!LowerOf(c))
          BY <5>1, WordsAppend
        <5> QED BY <5>1, <5>2 DEF t, c
      <4>6. /\ Names!WordsOf(m(k + 1)) = WordStep(Names!WordsOf(m(k)), EndsInWord(m(k)), Names!LowerOf(u[k + 1]))
            /\ EndsInWord(m(k + 1)) <=> IsAlnum(Names!LowerOf(u[k + 1]))
        <5> DEFINE t == m(k)
                   c == u[k + 1]
        <5>1. m(k + 1) = Append(t, c) /\ t \in Seq(Chars) /\ c \in Chars
          BY <3>2, <4>3
        <5> HIDE DEF t, c
        <5>2. /\ Names!WordsOf(Append(t, c)) = WordStep(Names!WordsOf(t), EndsInWord(t), Names!LowerOf(c))
              /\ EndsInWord(Append(t, c)) <=> IsAlnum(Names!LowerOf(c))
          BY <5>1, WordsAppend
        <5> QED BY <5>1, <5>2 DEF t, c
      <4>7. Names!WordsOf(p(k + 1)) = Names!WordsOf(m(k + 1))
        BY <4>2, <4>4, <4>5, <4>6
      <4> QED BY <3>5, <4>1, <4>5, <4>6, <4>7
    <3> QED BY <3>3, <3>4, <3>5
  <2>7. ASSUME NEW k \in Nat, k \in P PROVE k + 1 \in P
    BY <2>6, <2>7
  <2>8. Nat \subseteq P
    <3> HIDE DEF P
    <3> QED BY <2>4, <2>7, AllNumbers
  <2>9. Names!WordsOf(u) = Names!WordsOf(m(b))
    <3>a. n \in Nat /\ a \in 1..n /\ b \in a..n /\ a \in Nat /\ b \in Nat
      BY <1>1, <2>2
    <3>1. n <= n /\ ~(n < a) /\ (n <= b => n = b)
      <4> HIDE DEF n
      <4> QED BY <3>a
    <3>2. n \in P
      <4> HIDE DEF P
      <4> QED BY <1>1, <2>8
    <3>3. Names!WordsOf(p(n)) = Names!WordsOf(m(b))
      <4> HIDE DEF p, m
      <4> QED BY <3>1, <3>2
    <3> QED BY <1>1, <3>3
  <2>10. b \in (a - 1)..n /\ b - a + 1 \in Nat /\ a + 1 - 1 = a /\ a + (b - a + 1) - 1 = b
         /\ 1 \in 1..(b - a + 1) /\ b - a + 1 \in 1..(b - a + 1)
    BY <2>2
  <2>11. /\ m(b) \in Seq(Chars) /\ Len(m(b)) = b - a + 1
         /\ \A i \in 1..(b - a + 1) : m(b)[i] = u[a + i - 1]
    BY <2>2, <2>10, Between
  <2>12. m(b)[1] # " " /\ m(b)[Len(m(b))] # " "
    <3>1. u[a] # " " /\ u[b] # " "
      BY <2>1 DEF Text
    <3> HIDE DEF m
    <3> QED BY <2>10, <2>11, <3>1
  <2> DEFINE v == m(b)
  <2>13. v \in Seq(Chars) /\ Len(v) \in Nat /\ 1 \in Text(v) /\ Len(v) \in Text(v)
    BY <2>10, <2>11, <2>12 DEF Text
  <2> HIDE DEF v
  <2>14. Names!Trim(v) = v
    <3>1. Text(v) # {}
      BY <2>13
    <3>2. PICK x \in Text(v), y \in Text(v) : /\ Names!Trim(v) = SubSeq(v, x, y) /\ x <= y
                                              /\ \A i \in Text(v) : x <= i /\ i <= y
      BY <2>13, <3>1, TrimIs
    <3>3. x \in 1..Len(v) /\ y \in 1..Len(v)
      BY DEF Text
    <3>4. x = 1 /\ y = Len(v)
      BY <2>13, <3>2, <3>3
    <3> QED BY <2>13, <3>2, <3>4, SubSeqFull
  <2>15. Names!Trim(u) = v
    BY <2>1 DEF v
  <2>16. Names!WordsOf(u) = Names!WordsOf(v)
    BY <2>9 DEF v
  <2> QED BY <2>13, <2>14, <2>15, <2>16
<1> QED BY <1>5, <1>6, TrimIs

-------------------------------------------------------------------------------
\* The n in front of a digit.

\* The small letters.
LetterSet == Names!ToSet(Names!LowerLetters)

\* The alphabet.
LEMMA CharSets ==
  /\ LetterSet \subseteq Names!Alnum /\ Names!Digits \subseteq Names!Alnum
  /\ \A c \in Names!Alnum : c \notin Names!Digits => c \in LetterSet
  /\ "n" \in LetterSet /\ "d" \in LetterSet /\ "a" \in LetterSet /\ "-" \notin Names!Digits
  /\ \A c \in LetterSet : c \notin Names!Digits
<1>1. LetterSet = {"a", "b", "c", "d", "e", "f", "g", "h", "i", "j", "k", "l", "m",
                   "n", "o", "p", "q", "r", "s", "t", "u", "v", "w", "x", "y", "z"}
  BY DEF Names!ToSet, Names!LowerLetters, LetterSet
<1>2. Names!Alnum = LetterSet \cup Names!Digits
  BY DEF Names!Alnum, LetterSet
<1>3. "-" \notin Names!Digits /\ \A c \in LetterSet : c \notin Names!Digits
  BY <1>1 DEF Names!Digits
<1>4. "n" \in LetterSet /\ "d" \in LetterSet /\ "a" \in LetterSet
  BY <1>1
<1> QED BY <1>2, <1>3, <1>4

\* A letter in front keeps a text neat.
LEMMA LetterInFront ==
  ASSUME NEW e, IsNeat(e), e # <<>>, NEW c \in LetterSet
  PROVE  /\ IsNeat(<<c>> \o e) /\ <<c>> \o e # <<>> /\ Len(<<c>> \o e) = Len(e) + 1
         /\ (<<c>> \o e)[1] = c
<1> DEFINE x == <<c>> \o e
           n == Len(e)
<1>1. /\ e \in Seq(Chars) /\ (\A i \in 1..n : e[i] \in Pure) /\ e[1] # "-"
      /\ (\A i \in 1..(n - 1) : e[i] = "-" => e[i + 1] # "-") /\ EndsInWord(e)
  BY DEF IsNeat, IsTidy
<1>2. n \in Nat /\ n \in 1..n /\ e[n] # "-"
  BY TidyEnds DEF IsNeat
<1>3. c \in Pure /\ c # "-" /\ c \in Chars
  BY CharSets, PureIs DEF Pure, IsAlnum
<1>4. <<c>> \in Seq(Chars) /\ Len(<<c>>) = 1 /\ <<c>>[1] = c
  BY <1>3
<1>5. /\ x \in Seq(Chars) /\ Len(x) = 1 + n
      /\ \A i \in 1..(1 + n) : x[i] = IF i <= 1 THEN <<c>>[i] ELSE e[i - 1]
  BY <1>1, <1>4, ConcatProperties
<1> HIDE DEF x, n
<1>6. x[1] = c /\ \A i \in 2..(1 + n) : x[i] = e[i - 1] /\ i - 1 \in 1..n
  <2>1. 1 \in 1..(1 + n) /\ \A i \in 2..(1 + n) : i \in 1..(1 + n) /\ ~(i <= 1) /\ i - 1 \in 1..n
    BY <1>2
  <2> QED BY <1>4, <1>5, <2>1
<1>7. \A i \in 1..(1 + n) : i = 1 \/ i \in 2..(1 + n)
  BY <1>2
<1>8. x # <<>>
  BY <1>2, <1>5, EmptySeq
<1>9. \A i \in 1..Len(x) : x[i] \in Pure
  BY <1>1, <1>3, <1>5, <1>6, <1>7
<1>10. ASSUME NEW i \in 1..(Len(x) - 1), x[i] = "-" PROVE x[i + 1] # "-"
  <2>1. i # 1
    BY <1>3, <1>6, <1>10
  <2>2. /\ i \in 2..(1 + n) /\ i + 1 \in 2..(1 + n) /\ (i + 1) - 1 = (i - 1) + 1
        /\ i - 1 \in 1..(n - 1)
    BY <1>2, <1>5, <2>1
  <2>3. x[i] = e[i - 1] /\ x[i + 1] = e[(i + 1) - 1]
    BY <1>6, <2>2
  <2> QED BY <1>1, <1>10, <2>2, <2>3
<1>11. IsTidy(x)
  BY <1>3, <1>5, <1>6, <1>8, <1>9, <1>10 DEF IsTidy
<1>12. EndsInWord(x)
  <2>1. 1 + n \in 2..(1 + n) /\ (1 + n) - 1 = n
    BY <1>2
  <2>2. x[Len(x)] # "-"
    BY <1>2, <1>5, <1>6, <2>1
  <2> QED BY <1>8, <1>11, <2>2, TidyEnds
<1>13. IsNeat(x) /\ x # <<>> /\ Len(x) = n + 1 /\ x[1] = c
  BY <1>2, <1>5, <1>6, <1>8, <1>11, <1>12 DEF IsNeat
<1> QED BY <1>13 DEF x, n

\* Texts one after the other, and one more word.
LEMMA InOneGo ==
  \A m, y, x \in Seq(Chars) : (m \o y) \o x = m \o (y \o x)
BY ConcatAssociative

LEMMA SameAfter ==
  \A m, y, x \in Seq(Chars) : m \o y = m \o x => y = x
BY ConcatSimplifications

LEMMA OneMore ==
  ASSUME NEW q \in Seq(Seq(Chars)), NEW w \in Seq(Chars)
  PROVE  /\ Append(q, w) \in Seq(Seq(Chars)) /\ Append(q, w) # <<>> /\ Len(Append(q, w)) = Len(q) + 1
         /\ (\A i \in 1..Len(q) : Append(q, w)[i] = q[i]) /\ Append(q, w)[Len(q) + 1] = w
BY AppendProperties

\* The words of a text that a letter is put in front of.
Prefixed(ws) == [ws EXCEPT ![1] = <<"n">> \o @]

\* Only the first word is another.
LEMMA PrefixedType ==
  ASSUME NEW ws \in Seq(Seq(Chars)), ws # <<>>
  PROVE  /\ Prefixed(ws) \in Seq(Seq(Chars)) /\ Len(Prefixed(ws)) = Len(ws) /\ Len(ws) \in Nat \ {0}
         /\ Prefixed(ws) # <<>>
         /\ \A i \in 1..Len(ws) : Prefixed(ws)[i] = IF i = 1 THEN <<"n">> \o ws[1] ELSE ws[i]
<1>1. Len(ws) \in Nat \ {0} /\ 1 \in 1..Len(ws)
  BY EmptySeq
<1> DEFINE e == <<"n">> \o ws[1]
<1>2. e \in Seq(Chars)
  <2>1. ws[1] \in Seq(Chars)
    BY <1>1, ElementOfSeq
  <2>2. "n" \in Chars
    BY CharSets DEF Chars
  <2>3. <<"n">> \in Seq(Chars)
    BY <2>2
  <2> QED BY <2>1, <2>3, ConcatProperties
<1>3. Prefixed(ws) = [ws EXCEPT ![1] = e]
  BY DEF Prefixed
<1> HIDE DEF e
<1>4. /\ [ws EXCEPT ![1] = e] \in Seq(Seq(Chars)) /\ Len([ws EXCEPT ![1] = e]) = Len(ws)
      /\ \A j \in 1..Len(ws) : [ws EXCEPT ![1] = e][j] = IF j = 1 THEN e ELSE ws[j]
  BY <1>1, <1>2, ExceptSeq
<1>5. Prefixed(ws) # <<>>
  BY <1>1, <1>3, <1>4, EmptySeq
<1> QED BY <1>1, <1>3, <1>4, <1>5 DEF e

\* It makes no difference whether the n is put in front before a character is added or after.
LEMMA PrefixedStep ==
  ASSUME NEW ws \in Seq(Seq(Chars)), ws # <<>>, NEW in \in BOOLEAN, NEW l \in Chars
  PROVE  /\ WordStep(Prefixed(ws), in, l) = Prefixed(WordStep(ws, in, l))
         /\ WordStep(ws, in, l) # <<>>
<1> DEFINE n == Len(ws)
           P == Prefixed(ws)
<1>1. /\ P \in Seq(Seq(Chars)) /\ Len(P) = n /\ n \in Nat \ {0} /\ P # <<>>
      /\ \A i \in 1..n : P[i] = IF i = 1 THEN <<"n">> \o ws[1] ELSE ws[i]
  BY PrefixedType
<1>2. CASE ~IsAlnum(l)
  BY <1>2 DEF WordStep
<1>3. CASE IsAlnum(l) /\ in
  <2> DEFINE V == Longer(ws, l)
             Z == Longer(P, l)
  <2>1. WordStep(P, in, l) = Z /\ WordStep(ws, in, l) = V
    BY <1>3 DEF WordStep
  <2>2. /\ V \in Seq(Seq(Chars)) /\ Len(V) = n
        /\ \A w \in 1..n : V[w] = IF w = n THEN Append(ws[w], l) ELSE ws[w]
    BY LongerType
  <2> HIDE DEF P, V
  <2>3. /\ Z \in Seq(Seq(Chars)) /\ Len(Z) = Len(P)
        /\ \A w \in 1..Len(P) : Z[w] = IF w = Len(P) THEN Append(P[w], l) ELSE P[w]
    BY <1>1, LongerType
  <2> HIDE DEF Z
  <2>4. V # <<>>
    BY <1>1, <2>2, EmptySeq
  <2>5. /\ Prefixed(V) \in Seq(Seq(Chars)) /\ Len(Prefixed(V)) = Len(V)
        /\ \A i \in 1..Len(V) : Prefixed(V)[i] = IF i = 1 THEN <<"n">> \o V[1] ELSE V[i]
    BY <2>2, <2>4, PrefixedType
  <2>6. ASSUME NEW w \in 1..n PROVE Z[w] = Prefixed(V)[w]
    <3>1. Z[w] = (IF w = n THEN Append(P[w], l) ELSE P[w])
      BY <1>1, <2>3
    <3>2. Prefixed(V)[w] = (IF w = 1 THEN <<"n">> \o V[1] ELSE V[w])
      BY <2>2, <2>5
    <3>3. 1 \in 1..n
      BY <1>1
    <3>4. Append(<<"n">> \o ws[1], l) = <<"n">> \o Append(ws[1], l)
      <4>1. <<"n">> \in Seq(Chars) /\ ws[1] \in Seq(Chars) /\ <<l>> \in Seq(Chars)
        <5>1. "n" \in Chars
          BY CharSets DEF Chars
        <5>2. <<"n">> \in Seq(Chars)
          BY <5>1
        <5> QED BY <3>3, <5>2, ElementOfSeq
      <4>2. <<"n">> \o ws[1] \in Seq(Chars)
        BY <4>1, ConcatProperties
      <4>3. Append(<<"n">> \o ws[1], l) = (<<"n">> \o ws[1]) \o <<l>> /\ Append(ws[1], l) = ws[1] \o <<l>>
        BY <4>1, <4>2, AppendIsConcat
      <4> DEFINE m == <<"n">>
                 y == ws[1]
                 x == <<l>>
      <4>4. m \in Seq(Chars) /\ y \in Seq(Chars) /\ x \in Seq(Chars)
        BY <4>1
      <4>5. Append(m \o y, l) = (m \o y) \o x /\ Append(y, l) = y \o x
        BY <4>3
      <4> HIDE DEF m, y, x
      <4>6. (m \o y) \o x = m \o (y \o x)
        BY <4>4, InOneGo
      <4>7. Append(m \o y, l) = m \o Append(y, l)
        BY <4>5, <4>6
      <4> QED BY <4>7 DEF m, y
    <3>5. CASE w = 1
      <4>1. P[w] = <<"n">> \o ws[1] /\ V[1] = (IF 1 = n THEN Append(ws[1], l) ELSE ws[1])
        BY <1>1, <2>2, <3>3, <3>5
      <4>2. CASE n = 1
        BY <3>1, <3>2, <3>4, <3>5, <4>1, <4>2
      <4>3. CASE n # 1
        BY <3>1, <3>2, <3>5, <4>1, <4>3
      <4> QED BY <4>2, <4>3
    <3>6. CASE w # 1
      <4>1. P[w] = ws[w] /\ V[w] = (IF w = n THEN Append(ws[w], l) ELSE ws[w])
        BY <1>1, <2>2, <3>6
      <4> QED BY <3>1, <3>2, <3>6, <4>1
    <3> QED BY <3>5, <3>6
  <2>7. Z = Prefixed(V)
    <3>1. Len(Z) = n /\ Len(Prefixed(V)) = n
      BY <1>1, <2>2, <2>3, <2>5
    <3> DEFINE F == Prefixed(V)
    <3>2. \A w \in 1..Len(Z) : Z[w] = F[w]
      BY <2>6, <3>1
    <3>3. Z \in Seq(Seq(Chars)) /\ F \in Seq(Seq(Chars)) /\ Len(Z) = Len(F)
      BY <2>3, <2>5, <3>1
    <3> HIDE DEF F
    <3>4. Z = F
      BY <3>2, <3>3, SeqEqual
    <3> QED BY <3>4 DEF F
  <2> QED BY <2>1, <2>4, <2>7 DEF P
<1>4. CASE IsAlnum(l) /\ ~in
  <2> DEFINE V == Append(ws, <<l>>)
             Z == Append(P, <<l>>)
  <2>1. WordStep(P, in, l) = Z /\ WordStep(ws, in, l) = V
    BY <1>4 DEF WordStep
  <2>2. <<l>> \in Seq(Chars)
    OBVIOUS
  <2>3. /\ V \in Seq(Seq(Chars)) /\ V # <<>> /\ Len(V) = n + 1
        /\ (\A i \in 1..n : V[i] = ws[i]) /\ V[n + 1] = <<l>>
    BY <2>2, OneMore
  <2> HIDE DEF P, V, n
  <2>4. /\ Z \in Seq(Seq(Chars)) /\ Len(Z) = n + 1
        /\ (\A i \in 1..n : Z[i] = P[i]) /\ Z[n + 1] = <<l>>
    BY <1>1, <2>2, OneMore
  <2> HIDE DEF Z
  <2>5. /\ Prefixed(V) \in Seq(Seq(Chars)) /\ Len(Prefixed(V)) = Len(V)
        /\ \A i \in 1..Len(V) : Prefixed(V)[i] = IF i = 1 THEN <<"n">> \o V[1] ELSE V[i]
    BY <2>3, PrefixedType
  <2>6. ASSUME NEW w \in 1..(n + 1) PROVE Z[w] = Prefixed(V)[w]
    <3>1. 1 \in 1..n /\ (w \in 1..n \/ w = n + 1) /\ n + 1 # 1 /\ n + 1 \in 1..(n + 1)
      BY <1>1
    <3>2. Prefixed(V)[w] = (IF w = 1 THEN <<"n">> \o V[1] ELSE V[w])
      BY <2>3, <2>5
    <3>3. CASE w \in 1..n
      <4>1. Z[w] = (IF w = 1 THEN <<"n">> \o ws[1] ELSE ws[w]) /\ V[w] = ws[w] /\ V[1] = ws[1]
        BY <1>1, <2>3, <2>4, <3>1, <3>3
      <4> QED BY <3>2, <4>1
    <3>4. CASE w = n + 1
      BY <2>3, <2>4, <3>1, <3>2, <3>4
    <3> QED BY <3>1, <3>3, <3>4
  <2>7. Z = Prefixed(V)
    <3>1. \A w \in 1..Len(Z) : Z[w] = Prefixed(V)[w]
      BY <2>4, <2>6
    <3> QED BY <2>3, <2>4, <2>5, <3>1, SeqEqual
  <2> QED BY <2>1, <2>3, <2>7 DEF P
<1> QED BY <1>2, <1>3, <1>4

\* With an n in front, a text that begins with a word has that word prefixed.
Fronted(r) ==
  r # <<>> /\ IsAlnum(Names!LowerOf(r[1])) =>
    /\ Names!WordsOf(r) # <<>> /\ Names!WordsOf(<<"n">> \o r) = Prefixed(Names!WordsOf(r))
    /\ EndsInWord(<<"n">> \o r) <=> EndsInWord(r)

\* A letter in front of a text that begins with a word becomes part of that word.
LEMMA WordsFronted == \A r \in Seq(Chars) : Fronted(r)
<1> DEFINE P == {r \in Seq(Chars) : Fronted(r)}
<1>0. /\ "n" \in Chars /\ Names!LowerOf("n") = "n" /\ IsAlnum("n") /\ <<"n">> \in Seq(Chars)
  <2>1. "n" \in Pure /\ "n" # "-" /\ IsAlnum("n")
    BY CharSets, PureIs DEF Pure, IsAlnum
  <2>2. "n" \in Chars /\ Names!LowerOf("n") = "n"
    BY <2>1, PureIs
  <2> QED BY <2>1, <2>2
<1>1. <<>> \in P
  BY EmptySeq DEF Fronted
<1>2. ASSUME NEW s \in Seq(Chars), NEW c \in Chars, s \in P PROVE Append(s, c) \in P
  <2> DEFINE a == Append(s, c)
             l == Names!LowerOf(c)
             z == <<"n">> \o s
  <2>1. a \in Seq(Chars) /\ l \in Chars /\ z \in Seq(Chars)
    BY <1>0, AppendProperties, LowerKept, ConcatProperties
  <2>2. <<"n">> \o a = Append(z, c)
    <3>1. a = s \o <<c>> /\ <<c>> \in Seq(Chars) /\ Append(z, c) = z \o <<c>>
      BY <2>1, AppendIsConcat
    <3> QED BY <1>0, <3>1, InOneGo
  <2>3. /\ Names!WordsOf(a) = WordStep(Names!WordsOf(s), EndsInWord(s), l)
        /\ EndsInWord(a) <=> IsAlnum(l)
        /\ EndsInWord(s) => Names!WordsOf(s) # <<>>
    BY WordsAppend
  <2> HIDE DEF z, a
  <2>4. /\ Names!WordsOf(Append(z, c)) = WordStep(Names!WordsOf(z), EndsInWord(z), l)
        /\ EndsInWord(Append(z, c)) <=> IsAlnum(l)
    BY <2>1, WordsAppend
  <2> SUFFICES ASSUME IsAlnum(Names!LowerOf(a[1]))
               PROVE  /\ Names!WordsOf(a) # <<>>
                      /\ Names!WordsOf(Append(z, c)) = Prefixed(Names!WordsOf(a))
    BY <2>1, <2>2, <2>3, <2>4 DEF Fronted, a
  <2>5. CASE s = <<>>
    <3>1. a[1] = c
      BY <2>5 DEF a
    <3>2. IsAlnum(l)
      BY <3>1
    <3>3. Names!WordsOf(a) = <<<<l>>>>
      <4>1. EndsInWord(s) = FALSE /\ Names!WordsOf(s) = <<>>
        BY <2>5, NoWords DEF EndsInWord
      <4>2. Names!WordsOf(a) = WordStep(<<>>, FALSE, l)
        BY <2>3, <4>1
      <4> HIDE DEF l
      <4>3. WordStep(<<>>, FALSE, l) = <<<<l>>>>
        BY <3>2 DEF WordStep, l
      <4> QED BY <4>2, <4>3
    <3>4. z = <<"n">>
      BY <1>0, <2>5, ConcatEmptySeq DEF z
    <3>5. z = Append(<<>>, "n")
      BY <3>4
    <3>6. Names!WordsOf(z) = <<<<"n">>>> /\ EndsInWord(z)
      <4>1. <<>> \in Seq(Chars)
        BY EmptySeq
      <4>2. /\ Names!WordsOf(Append(<<>>, "n")) = WordStep(Names!WordsOf(<<>>), EndsInWord(<<>>), "n")
            /\ EndsInWord(Append(<<>>, "n")) <=> IsAlnum("n")
        BY <1>0, <4>1, WordsAppend
      <4>3. WordStep(<<>>, FALSE, "n") = <<<<"n">>>>
        BY <1>0 DEF WordStep
      <4>4. EndsInWord(<<>>) = FALSE
        BY NoWords DEF EndsInWord
      <4> QED BY <1>0, <3>5, <4>2, <4>3, <4>4, NoWords
    <3>7. Names!WordsOf(Append(z, c)) = Longer(<<<<"n">>>>, l)
      BY <2>4, <3>2, <3>6 DEF WordStep
    <3>8. Longer(<<<<"n">>>>, l) = <<Append(<<"n">>, l)>>
      <4> HIDE DEF l
      <4> QED BY DEF Longer
    <3>9. Prefixed(<<<<l>>>>) = <<<<"n">> \o <<l>>>>
      BY DEF Prefixed
    <3>10. Append(<<"n">>, l) = <<"n">> \o <<l>>
      <4> HIDE DEF l
      <4> QED BY <1>0, <2>1, AppendIsConcat
    <3> QED BY <3>3, <3>7, <3>8, <3>9, <3>10
  <2>6. CASE s # <<>>
    <3>1. a[1] = s[1]
      <4>1. 1 \in 1..Len(s)
        BY <2>6, EmptySeq
      <4> QED BY <4>1, AppendProperties DEF a
    <3>2. /\ Names!WordsOf(s) # <<>> /\ Names!WordsOf(z) = Prefixed(Names!WordsOf(s))
          /\ EndsInWord(z) <=> EndsInWord(s)
      BY <1>2, <2>6, <3>1 DEF Fronted, z
    <3>3. Names!WordsOf(s) \in Seq(Seq(Chars)) /\ EndsInWord(s) \in BOOLEAN /\ EndsInWord(z) = EndsInWord(s)
      BY <3>2, WordsType DEF EndsInWord
    <3> QED BY <2>1, <2>3, <2>4, <3>2, <3>3, PrefixedStep
  <2> QED BY <2>5, <2>6
<1>3. Seq(Chars) \subseteq P
  <2> HIDE DEF P
  <2> QED BY <1>1, <1>2, AllSequences
<1> QED BY <1>3

-------------------------------------------------------------------------------
\* Namespaces, labels and hosts.

\* What an account's name becomes before it is cut.
Titled(u) == Names!LetterFirst(Cleaned(Names!Trim(u)))

\* It is neat, begins with a letter, and is the cleaned text with an n in front of a digit.
LEMMA TitledIs ==
  ASSUME NEW u \in Seq(Chars)
  PROVE  LET e == Cleaned(Names!Trim(u)) IN
         /\ IsNeat(e) /\ Names!WordsOf(e) = Names!WordsOf(u)
         /\ IsNeat(Titled(u)) /\ (Titled(u) = <<>> <=> e = <<>>)
         /\ Titled(u) # <<>> => Titled(u)[1] \in LetterSet
         /\ IF e # <<>> /\ e[1] \in Names!Digits
              THEN Titled(u) = <<"n">> \o e /\ Len(Titled(u)) = Len(e) + 1 ELSE Titled(u) = e
<1> DEFINE e == Cleaned(Names!Trim(u))
           x == Titled(u)
<1>1. IsNeat(e) /\ Names!WordsOf(e) = Names!WordsOf(u)
  <2>1. Names!Trim(u) \in Seq(Chars) /\ Names!WordsOf(Names!Trim(u)) = Names!WordsOf(u)
    BY TrimAgain
  <2> QED BY <2>1, CleanedIs
<1>2. e # <<>> => Head(e) = e[1]
  BY <1>1 DEF IsNeat, IsTidy
<1>3. x = IF e # <<>> /\ Head(e) \in Names!Digits THEN <<"n">> \o e ELSE e
  BY DEF Titled, Names!LetterFirst
<1> HIDE DEF e, x
<1>4. CASE e # <<>> /\ e[1] \in Names!Digits
  <2>1. x = <<"n">> \o e
    BY <1>2, <1>3, <1>4
  <2>2. "n" \in LetterSet
    BY CharSets
  <2>3. IsNeat(<<"n">> \o e) /\ <<"n">> \o e # <<>> /\ Len(<<"n">> \o e) = Len(e) + 1 /\ (<<"n">> \o e)[1] = "n"
    BY <1>1, <1>4, <2>2, LetterInFront
  <2> QED BY <1>1, <1>4, <2>1, <2>2, <2>3 DEF e, x
<1>5. CASE ~(e # <<>> /\ e[1] \in Names!Digits)
  <2>1. x = e
    BY <1>2, <1>3, <1>5
  <2>2. e # <<>> => e[1] \in LetterSet
    <3> SUFFICES ASSUME e # <<>> PROVE e[1] \in LetterSet
      OBVIOUS
    <3>1. 1 \in 1..Len(e) /\ e \in Seq(Chars)
      BY <1>1, TidyEnds DEF IsNeat, IsTidy
    <3>2. e[1] \in Pure /\ e[1] # "-"
      BY <1>1, <3>1 DEF IsNeat, IsTidy
    <3> QED BY <1>5, <3>2, CharSets DEF Pure
  <2> QED BY <1>1, <1>5, <2>1, <2>2 DEF e, x
<1> QED BY <1>4, <1>5

\* What NamesAssumption says of the constants.
Bounds ==
  /\ MaxPart \in Nat \ {0} /\ MaxLabel \in Nat /\ MaxPart <= MaxLabel
  /\ Len(Names!DefaultUser) <= MaxLabel
  /\ TypedNames \subseteq Seq(Chars) /\ AppNames \subseteq Seq(Chars) /\ AppIds \subseteq Seq(Names!Digits)
  /\ Owners \subseteq TypedNames

\* The assumptions on names, without the names of their module.
LEMMA BoundsHold == Bounds
<1>1. STRING \subseteq Chars
  BY DEF Chars
<1>2. \A s \in Seq(STRING) : s \in Seq(Chars)
  BY <1>1, SeqMonotonic
<1> QED BY <1>2, PartsAssumption DEF Names!NamesAssumption, Bounds

\* A neat text that is cut is neat, not longer than allowed, and not empty unless it was.
LEMMA ShortenedIs ==
  ASSUME NEW x, IsNeat(x), NEW max \in Nat \ {0}
  PROVE  LET s == Names!Shortened(x, max) IN
         /\ IsNeat(s) /\ Len(s) <= max /\ (s = <<>> <=> x = <<>>) /\ (x # <<>> => s[1] = x[1])
         /\ Len(x) <= max => s = x
<1> DEFINE s == Names!Shortened(x, max)
<1>1. Len(x) \in Nat /\ IsTidy(x)
  BY LenProperties DEF IsNeat, IsTidy
<1>2. CASE Len(x) <= max
  <2>1. s = x
    BY <1>1, <1>2 DEF Names!Shortened
  <2> QED BY <1>2, <2>1
<1>3. CASE Len(x) > max
  <2> DEFINE r == SubSeq(x, 1, max)
  <2>1. s = Names!WithoutLast("-", r)
    BY <1>3 DEF Names!Shortened
  <2>2. max \in 0..Len(x) /\ 1 \in 1..max /\ ~(Len(x) <= max)
    BY <1>1, <1>3
  <2>3. IsTidy(r) /\ Len(r) = max /\ \A i \in 1..max : r[i] = x[i]
    BY <1>1, <2>2, TidyPrefix
  <2>4. r # <<>> /\ x # <<>>
    <3>1. Len(<<>>) = 0
      BY EmptySeq
    <3> QED BY <1>3, <2>3, <3>1
  <2>5. r[1] = x[1]
    BY <2>2, <2>3
  <2> HIDE DEF r, s
  <2>6. IsNeat(s) /\ Len(s) <= max /\ s # <<>> /\ s[1] = x[1]
    BY <2>1, <2>3, <2>4, <2>5, NeatCut
  <2> QED BY <2>2, <2>4, <2>6 DEF s
<1> QED BY <1>1, <1>2, <1>3

\* The namespace is the default, or neat, and the whole title where that is short enough.
LEMMA NamespaceIs ==
  ASSUME NEW u \in Seq(Chars)
  PROVE  LET s == Names!SanitizeUserNamespace(u) IN
         /\ Titled(u) = <<>> => s = Names!DefaultUser
         /\ Titled(u) # <<>> =>
              /\ IsNeat(s) /\ s # <<>> /\ Len(s) <= MaxLabel /\ s[1] \in LetterSet
              /\ Len(Titled(u)) <= MaxPart => s = Titled(u)
<1> DEFINE x == Titled(u)
           t == Names!SanitizeStringForK8s(u)
           s == Names!SanitizeUserNamespace(u)
<1>1. IsNeat(x) /\ (x # <<>> => x[1] \in LetterSet)
  BY TitledIs
<1>2. t = Names!Shortened(x, MaxPart)
  BY DEF Names!SanitizeStringForK8s, Titled, Cleaned, Letters
<1>3. s = IF t = <<>> THEN Names!DefaultUser ELSE Names!Shortened(t, MaxLabel)
  BY DEF Names!SanitizeUserNamespace
<1>4. MaxPart \in Nat \ {0} /\ MaxLabel \in Nat \ {0} /\ MaxPart <= MaxLabel
  BY BoundsHold DEF Bounds
<1> HIDE DEF x, t, s
<1>5. /\ IsNeat(t) /\ Len(t) <= MaxPart /\ (t = <<>> <=> x = <<>>) /\ (x # <<>> => t[1] = x[1])
      /\ Len(x) <= MaxPart => t = x
  BY <1>1, <1>2, <1>4, ShortenedIs
<1>6. Len(t) \in Nat
  BY <1>5, LenProperties DEF IsNeat, IsTidy
<1>7. Names!Shortened(t, MaxLabel) = t /\ Len(t) <= MaxLabel
  BY <1>4, <1>5, <1>6, ShortenedIs
<1> QED BY <1>1, <1>3, <1>5, <1>7 DEF x, s

\* The defaults that stand for names without letters or digits.
LEMMA DefaultsAre ==
  /\ Len(Names!DefaultUser) = 12 /\ Names!DefaultUser # <<>>
  /\ \A i \in 1..12 : Names!DefaultUser[i] \in Pure
  /\ Names!DefaultUser[1] \in LetterSet /\ Names!DefaultUser[12] \in Names!Alnum
  /\ Len(Names!DefaultApp) = 3 /\ Names!DefaultApp # <<>>
  /\ \A i \in 1..3 : Names!DefaultApp[i] \in Pure
  /\ Names!DefaultApp[3] \in Names!Alnum
  /\ Names!DefaultUser \in Seq(Pure) /\ Names!DefaultApp \in Seq(Pure)
<1>1. LetterSet = {"a", "b", "c", "d", "e", "f", "g", "h", "i", "j", "k", "l", "m",
                   "n", "o", "p", "q", "r", "s", "t", "u", "v", "w", "x", "y", "z"}
  BY DEF Names!ToSet, Names!LowerLetters, LetterSet
<1>2. LetterSet \subseteq Names!Alnum /\ Names!Alnum \subseteq Pure /\ "-" \in Pure
  BY CharSets DEF Pure
<1>a. {"d", "e", "f", "a", "u", "l", "t", "s", "r", "p"} \subseteq LetterSet
  BY <1>1
<1>b. {"d", "e", "f", "a", "u", "l", "t", "s", "r", "p", "-"} \subseteq Pure
  BY <1>2, <1>a
<1>3. Names!DefaultUser \in Seq(Pure)
  BY <1>b DEF Names!DefaultUser
<1>4. Names!DefaultApp \in Seq(Pure)
  BY <1>b DEF Names!DefaultApp
<1>5. Len(Names!DefaultUser) = 12 /\ Names!DefaultUser # <<>> /\ Names!DefaultUser[1] = "d" /\ Names!DefaultUser[12] = "r"
  BY DEF Names!DefaultUser
<1>6. Len(Names!DefaultApp) = 3 /\ Names!DefaultApp # <<>> /\ Names!DefaultApp[3] = "p"
  BY DEF Names!DefaultApp
<1>7. "d" \in LetterSet /\ "r" \in Names!Alnum /\ "p" \in Names!Alnum
  BY <1>2, <1>a
<1>8. \A i \in 1..12 : Names!DefaultUser[i] \in Pure
  BY <1>3, <1>5, ElementOfSeq
<1>9. \A i \in 1..3 : Names!DefaultApp[i] \in Pure
  BY <1>4, <1>6, ElementOfSeq
<1> QED BY <1>3, <1>4, <1>5, <1>6, <1>7, <1>8, <1>9

\* A neat text ends with a letter or digit.
LEMMA NeatEnds ==
  ASSUME NEW e, IsNeat(e), e # <<>>
  PROVE  /\ e \in Seq(Pure) /\ Len(e) \in Nat \ {0} /\ e[Len(e)] \in Names!Alnum
         /\ DOMAIN e = 1..Len(e) /\ \A i \in 1..Len(e) : e[i] \in Pure
<1>1. e \in Seq(Chars) /\ \A i \in 1..Len(e) : e[i] \in Pure
  BY DEF IsNeat, IsTidy
<1>2. Len(e) \in Nat \ {0} /\ e[Len(e)] \in Pure /\ e[Len(e)] # "-"
  <2>1. IsTidy(e) /\ EndsInWord(e)
    BY DEF IsNeat
  <2> QED BY <2>1, <1>1, TidyEnds, EmptySeq
<1>3. DOMAIN e = 1..Len(e) /\ e \in [1..Len(e) -> Chars] /\ Len(e) \in Nat
  BY <1>1, LenProperties
<1>4. e \in [1..Len(e) -> Pure]
  BY <1>1, <1>3
<1>5. e \in Seq(Pure)
  BY <1>3, <1>4, StringSeq
<1> QED BY <1>1, <1>2, <1>3, <1>5 DEF Pure

\* Kubernetes takes the namespace that is made of any name.
LEMMA NamespaceTaken ==
  ASSUME NEW u \in Seq(Chars)
  PROVE  /\ Names!IsLabel(Names!SanitizeUserNamespace(u))
         /\ Names!SanitizeUserNamespace(u) \in Seq(Pure)
<1> DEFINE s == Names!SanitizeUserNamespace(u)
<1>1. \A t : Names!IsLabel(t) <=>
        /\ t # <<>> /\ Len(t) <= MaxLabel
        /\ \A i \in DOMAIN t : t[i] \in Pure
        /\ Head(t) \in LetterSet /\ t[Len(t)] \in Names!Alnum
  BY DEF Names!IsLabel, Names!Last, Pure, LetterSet
<1>2. CASE Titled(u) = <<>>
  <2> DEFINE d == Names!DefaultUser
  <2>1. s = d
    BY <1>2, NamespaceIs
  <2>2. /\ d \in Seq(Pure) /\ d # <<>> /\ Len(d) = 12 /\ d[1] \in LetterSet /\ d[12] \in Names!Alnum
        /\ \A i \in 1..12 : d[i] \in Pure
    BY DefaultsAre
  <2> HIDE DEF d
  <2>3. DOMAIN d = 1..12 /\ Head(d) = d[1]
    BY <2>2, LenProperties, HeadTailProperties
  <2>4. Len(d) <= MaxLabel
    BY BoundsHold DEF Bounds, d
  <2> QED BY <1>1, <2>1, <2>2, <2>3, <2>4
<1>3. CASE Titled(u) # <<>>
  <2>1. IsNeat(s) /\ s # <<>> /\ Len(s) <= MaxLabel /\ s[1] \in LetterSet
    BY <1>3, NamespaceIs
  <2> HIDE DEF s
  <2>2. /\ s \in Seq(Pure) /\ s[Len(s)] \in Names!Alnum
        /\ DOMAIN s = 1..Len(s) /\ \A i \in 1..Len(s) : s[i] \in Pure
    BY <2>1, NeatEnds
  <2>3. Head(s) = s[1]
    BY <2>1, <2>2, HeadTailProperties
  <2>4. Names!IsLabel(s)
    BY <1>1, <2>1, <2>2, <2>3
  <2> QED BY <2>2, <2>4 DEF s
<1> QED BY <1>2, <1>3

\* The label made of an application's name is not empty, and ends with a letter or digit.
LEMMA DnsLabelIs ==
  ASSUME NEW u \in Seq(Chars)
  PROVE  LET d == Names!SanitizeDnsLabel(u) IN
         d \in Seq(Pure) /\ d # <<>> /\ d[Len(d)] \in Names!Alnum
<1>1. Names!SanitizeDnsLabel(u) = IF Cleaned(u) = <<>> THEN Names!DefaultApp ELSE Cleaned(u)
  BY DEF Names!SanitizeDnsLabel, Cleaned, Letters
<1>2. IsNeat(Cleaned(u))
  BY CleanedIs
<1>3. Cleaned(u) # <<>> => Cleaned(u) \in Seq(Pure) /\ Cleaned(u)[Len(Cleaned(u))] \in Names!Alnum
  BY <1>2, NeatEnds
<1>4. Names!DefaultApp \in Seq(Pure) /\ Names!DefaultApp # <<>> /\ Names!DefaultApp[Len(Names!DefaultApp)] \in Names!Alnum
  BY DefaultsAre
<1> QED BY <1>1, <1>3, <1>4

\* The host of an application has letters, digits and dashes, and no dash at its end.
LEMMA HostTaken ==
  ASSUME NEW u \in Seq(Chars), NEW v \in Seq(Chars)
  PROVE  LET h == Names!SanitizeUserNamespace(u) \o <<"-">> \o Names!SanitizeDnsLabel(v) IN
         h[Len(h)] \in Names!Alnum /\ \A i \in DOMAIN h : h[i] \in Pure
<1> DEFINE s == Names!SanitizeUserNamespace(u)
           d == Names!SanitizeDnsLabel(v)
           m == s \o <<"-">>
           h == m \o d
<1>1. s \in Seq(Pure) /\ d \in Seq(Pure) /\ d # <<>> /\ d[Len(d)] \in Names!Alnum
  BY NamespaceTaken, DnsLabelIs
<1>2. <<"-">> \in Seq(Pure)
  BY PureIs
<1> HIDE DEF s, d
<1>3. m \in Seq(Pure)
  BY <1>1, <1>2, ConcatProperties
<1> HIDE DEF m
<1>4. /\ h \in Seq(Pure) /\ Len(h) = Len(m) + Len(d)
      /\ \A i \in 1..(Len(m) + Len(d)) : h[i] = IF i <= Len(m) THEN m[i] ELSE d[i - Len(m)]
  BY <1>1, <1>3, ConcatProperties
<1> HIDE DEF h
<1>5. Len(m) \in Nat /\ Len(d) \in Nat \ {0}
  BY <1>1, <1>3, LenProperties, EmptySeq
<1>6. Len(h) \in 1..(Len(m) + Len(d)) /\ ~(Len(h) <= Len(m)) /\ Len(h) - Len(m) = Len(d)
  BY <1>4, <1>5
<1>7. h[Len(h)] = d[Len(d)]
  BY <1>4, <1>6
<1>8. \A i \in DOMAIN h : h[i] \in Pure
  BY <1>4, ElementOfSeq, LenProperties
<1> QED BY <1>1, <1>7, <1>8 DEF h, m, s, d

-------------------------------------------------------------------------------
\* What is made of a name that has words, before it is cut, is as long as they are joined.
LEMMA TitleLength ==
  ASSUME NEW u \in Seq(Chars), Names!WordsOf(u) # <<>>
  PROVE  LET e == Cleaned(Names!Trim(u)) IN
         /\ e # <<>> /\ Names!JoinedLength(Names!WordsOf(u)) = Len(Titled(u))
         /\ Head(Names!WordsOf(u)[1]) = e[1]
<1> DEFINE e == Cleaned(Names!Trim(u))
           W == Names!WordsOf(u)
           x == Titled(u)
<1>1. /\ IsNeat(e) /\ Names!WordsOf(e) = W
      /\ IF e # <<>> /\ e[1] \in Names!Digits THEN Len(x) = Len(e) + 1 ELSE x = e
  BY TitledIs
<1>2. W \in Seq(Seq(Chars))
  BY WordsType
<1> HIDE DEF e, W, x
<1>3. W # <<>>
  BY DEF W
<1>4. e # <<>> /\ TotalOf(W) = Len(e) + 1 /\ W[1] # <<>> /\ W[1][1] = e[1]
  BY <1>1, <1>3, NeatLength
<1>5. Head(W[1]) = W[1][1]
  <2>1. Len(W) \in Nat \ {0}
    BY <1>2, <1>3, EmptySeq, LenProperties
  <2>2. W[1] \in Seq(Chars)
    BY <1>2, <2>1, ElementOfSeq
  <2> QED BY <1>4, <2>2, HeadTailProperties
<1>6. Names!JoinedLength(W) = TotalOf(W) - 1 + (IF W # <<>> /\ Head(W[1]) \in Names!Digits THEN 1 ELSE 0)
  BY <1>2, JoinedIs
<1>7. Len(e) \in Nat
  BY <1>1, LenProperties DEF IsNeat, IsTidy
<1>8. CASE e[1] \in Names!Digits
  <2>1. Names!JoinedLength(W) = TotalOf(W) - 1 + 1
    BY <1>3, <1>4, <1>5, <1>6, <1>8
  <2> QED BY <1>1, <1>4, <1>5, <1>7, <1>8, <2>1 DEF e, W, x
<1>9. CASE e[1] \notin Names!Digits
  <2>1. Names!JoinedLength(W) = TotalOf(W) - 1 + 0
    BY <1>3, <1>4, <1>5, <1>6, <1>9
  <2>2. x = e
    BY <1>1, <1>9
  <2> QED BY <1>4, <1>5, <1>7, <2>1, <2>2 DEF e, W, x
<1> QED BY <1>8, <1>9

\* Of two names with one title, one with a digit first: the other begins with the n.
LEMMA TitleInFront ==
  ASSUME NEW u \in Seq(Chars), NEW v \in Seq(Chars), Titled(u) = Titled(v),
         Names!WordsOf(u) # <<>>, Names!WordsOf(v) # <<>>,
         Head(Names!WordsOf(u)[1]) \in Names!Digits, Head(Names!WordsOf(v)[1]) \notin Names!Digits
  PROVE  Names!WordsOf(v) = Prefixed(Names!WordsOf(u))
<1> DEFINE e == Cleaned(Names!Trim(u))
           f == Cleaned(Names!Trim(v))
<1>1. e # <<>> /\ e[1] \in Names!Digits /\ f[1] \notin Names!Digits
  BY TitleLength
<1>2. /\ IsNeat(e) /\ Names!WordsOf(e) = Names!WordsOf(u)
      /\ Names!WordsOf(f) = Names!WordsOf(v)
      /\ Titled(u) = <<"n">> \o e /\ Titled(v) = f
  BY <1>1, TitledIs
<1> HIDE DEF e, f
<1>3. e \in Seq(Chars) /\ IsAlnum(Names!LowerOf(e[1]))
  <2>1. e[1] \in Names!Alnum
    BY <1>1, CharSets
  <2> QED BY <1>2, <2>1, LowerKept DEF IsAlnum, IsNeat, IsTidy
<1>4. Names!WordsOf(<<"n">> \o e) = Prefixed(Names!WordsOf(e))
  BY <1>1, <1>3, WordsFronted DEF Fronted
<1> QED BY <1>2, <1>4

\* Names that one namespace is made of have the same words, but for an n in front, where
\* something is left of both and neither is cut.
LEMMA Sharers ==
  ASSUME NEW u \in Seq(Chars), NEW v \in Seq(Chars),
         Names!SanitizeUserNamespace(u) = Names!SanitizeUserNamespace(v),
         Names!WordsOf(u) # <<>>, Names!WordsOf(v) # <<>>,
         ~(Names!JoinedLength(Names!WordsOf(u)) > MaxPart),
         ~(Names!JoinedLength(Names!WordsOf(v)) > MaxPart)
  PROVE  \/ Names!WordsOf(u) = Names!WordsOf(v)
         \/ Names!WordsOf(u) = Prefixed(Names!WordsOf(v)) /\ Head(Names!WordsOf(v)[1]) \in Names!Digits
         \/ Names!WordsOf(v) = Prefixed(Names!WordsOf(u)) /\ Head(Names!WordsOf(u)[1]) \in Names!Digits
<1>1. ASSUME NEW w \in Seq(Chars), Names!WordsOf(w) # <<>>, ~(Names!JoinedLength(Names!WordsOf(w)) > MaxPart)
      PROVE  Names!SanitizeUserNamespace(w) = Titled(w)
  <2> DEFINE n == Len(Titled(w))
  <2>1. Names!JoinedLength(Names!WordsOf(w)) = n /\ Cleaned(Names!Trim(w)) # <<>>
    BY <1>1, TitleLength
  <2>2. IsNeat(Titled(w)) /\ Titled(w) # <<>>
    BY <2>1, TitledIs
  <2>3. n \in Nat
    BY <2>2, LenProperties DEF IsNeat, IsTidy
  <2>4. MaxPart \in Nat
    BY BoundsHold DEF Bounds
  <2> HIDE DEF n
  <2>5. n <= MaxPart
    BY <1>1, <2>1, <2>3, <2>4
  <2> QED BY <2>2, <2>5, NamespaceIs DEF n
<1>2. Titled(u) = Titled(v)
  BY <1>1
<1> DEFINE e == Cleaned(Names!Trim(u))
           f == Cleaned(Names!Trim(v))
           d == Head(Names!WordsOf(u)[1]) \in Names!Digits
           c == Head(Names!WordsOf(v)[1]) \in Names!Digits
<1>3. /\ e # <<>> /\ f # <<>> /\ Head(Names!WordsOf(u)[1]) = e[1] /\ Head(Names!WordsOf(v)[1]) = f[1]
  BY TitleLength
<1>4. /\ Names!WordsOf(e) = Names!WordsOf(u) /\ Names!WordsOf(f) = Names!WordsOf(v)
      /\ e \in Seq(Chars) /\ f \in Seq(Chars)
  BY TitledIs DEF IsNeat, IsTidy
<1>5. /\ Titled(u) = IF d THEN <<"n">> \o e ELSE e
      /\ Titled(v) = IF c THEN <<"n">> \o f ELSE f
  BY <1>3, TitledIs
<1>6. CASE d /\ c
  <2>1. "n" \in Chars
    BY CharSets, PureIs DEF Pure
  <2>2. <<"n">> \in Seq(Chars)
    BY <2>1
  <2>3. <<"n">> \o e = <<"n">> \o f
    BY <1>2, <1>5, <1>6
  <2> HIDE DEF e, f
  <2>4. e = f
    BY <1>4, <2>2, <2>3, SameAfter
  <2> QED BY <1>4, <2>4
<1>7. CASE ~d /\ ~c
  BY <1>2, <1>4, <1>5, <1>7
<1>8. CASE d /\ ~c
  BY <1>2, <1>8, TitleInFront
<1>9. CASE ~d /\ c
  BY <1>2, <1>9, TitleInFront
<1> QED BY <1>6, <1>7, <1>8, <1>9

\* An id has no dash, and a Deployment's name ends with one and the id.
LEMMA IdAtTheEnd ==
  ASSUME NEW a \in Seq(Chars), NEW b \in Seq(Chars), NEW i \in Seq(Names!Digits), NEW j \in Seq(Names!Digits),
         Len(i) < Len(j)
  PROVE  a \o <<"-">> \o i # b \o <<"-">> \o j
<1> SUFFICES ASSUME a \o <<"-">> \o i = b \o <<"-">> \o j PROVE FALSE
  OBVIOUS
<1>1. "-" \in Chars /\ <<"-">> \in Seq(Chars) /\ i \in Seq(Chars) /\ j \in Seq(Chars)
  <2>1. Names!Digits \subseteq Chars
    BY CharSets, PureIs DEF Pure
  <2> QED BY <2>1, PureIs, SeqMonotonic
<1> DEFINE x == a \o <<"-">>
           y == b \o <<"-">>
<1>2. /\ x \in Seq(Chars) /\ Len(x) = Len(a) + 1 /\ x[Len(a) + 1] = "-"
      /\ y \in Seq(Chars) /\ Len(y) = Len(b) + 1
  <2>1. x = Append(a, "-") /\ y = Append(b, "-")
    BY <1>1, AppendIsConcat
  <2> HIDE DEF x, y
  <2> QED BY <1>1, <2>1, AppendProperties
<1> HIDE DEF x, y
<1>3. /\ Len(x \o i) = Len(x) + Len(i) /\ Len(y \o j) = Len(y) + Len(j)
      /\ \A k \in 1..(Len(x) + Len(i)) : (x \o i)[k] = IF k <= Len(x) THEN x[k] ELSE i[k - Len(x)]
      /\ \A k \in 1..(Len(y) + Len(j)) : (y \o j)[k] = IF k <= Len(y) THEN y[k] ELSE j[k - Len(y)]
  BY <1>1, <1>2, ConcatProperties
<1>4. x \o i = y \o j
  BY DEF x, y
<1>5. Len(a) \in Nat /\ Len(b) \in Nat /\ Len(i) \in Nat /\ Len(j) \in Nat
  BY LenProperties
<1> DEFINE k == Len(x)
           m == k - Len(y)
<1>6. Len(x) + Len(i) = Len(y) + Len(j)
  BY <1>3, <1>4
<1>7. k \in 1..(Len(x) + Len(i)) /\ k <= Len(x) /\ k \in 1..(Len(y) + Len(j)) /\ ~(k <= Len(y)) /\ m \in 1..Len(j)
  BY <1>2, <1>5, <1>6
<1>8. x[k] = "-"
  BY <1>2
<1> HIDE DEF k, m
<1>9. (x \o i)[k] = "-" /\ (y \o j)[k] = j[m]
  BY <1>3, <1>7, <1>8 DEF m
<1>10. j[m] \in Names!Digits
  BY <1>7, ElementOfSeq
<1> QED BY <1>4, <1>9, <1>10, CharSets

\* Different ids make different names of Deployments, whatever the applications are called.
LEMMA NamesDiffer ==
  ASSUME NEW a \in Seq(Chars), NEW b \in Seq(Chars), NEW i \in Seq(Names!Digits), NEW j \in Seq(Names!Digits),
         i # j
  PROVE  Names!DeploymentName(a, i) # Names!DeploymentName(b, j)
<1>1. /\ Names!DeploymentName(a, i) = Letters(a) \o <<"-">> \o i
      /\ Names!DeploymentName(b, j) = Letters(b) \o <<"-">> \o j
  BY DEF Names!DeploymentName, Letters
<1>2. Letters(a) \in Seq(Chars) /\ Letters(b) \in Seq(Chars)
  BY DashedIs
<1>3. Len(i) \in Nat /\ Len(j) \in Nat
  BY LenProperties
<1>4. CASE Len(i) < Len(j) \/ Len(j) < Len(i)
  BY <1>1, <1>2, <1>4, IdAtTheEnd
<1>5. CASE Len(i) = Len(j)
  <2> DEFINE x == Letters(a) \o <<"-">>
             y == Letters(b) \o <<"-">>
             n == Len(i)
  <2>1. "-" \in Chars /\ <<"-">> \in Seq(Chars) /\ i \in Seq(Chars) /\ j \in Seq(Chars)
    <3>1. Names!Digits \subseteq Chars
      BY CharSets, PureIs DEF Pure
    <3> QED BY <3>1, PureIs, SeqMonotonic
  <2>2. x \in Seq(Chars) /\ y \in Seq(Chars)
    BY <1>2, <2>1, ConcatProperties
  <2> SUFFICES ASSUME x \o i = y \o j PROVE FALSE
    BY <1>1
  <2> HIDE DEF x, y
  <2>3. /\ Len(x \o i) = Len(x) + n /\ Len(y \o j) = Len(y) + n
        /\ \A k \in 1..(Len(x) + n) : (x \o i)[k] = IF k <= Len(x) THEN x[k] ELSE i[k - Len(x)]
        /\ \A k \in 1..(Len(y) + n) : (y \o j)[k] = IF k <= Len(y) THEN y[k] ELSE j[k - Len(y)]
    <3>1. /\ Len(x \o i) = Len(x) + Len(i)
          /\ \A k \in 1..(Len(x) + Len(i)) : (x \o i)[k] = IF k <= Len(x) THEN x[k] ELSE i[k - Len(x)]
      BY <2>1, <2>2, ConcatProperties
    <3>2. /\ Len(y \o j) = Len(y) + Len(j)
          /\ \A k \in 1..(Len(y) + Len(j)) : (y \o j)[k] = IF k <= Len(y) THEN y[k] ELSE j[k - Len(y)]
      BY <2>1, <2>2, ConcatProperties
    <3>3. Len(i) = n /\ Len(j) = n
      BY <1>5
    <3> HIDE DEF n
    <3> QED BY <3>1, <3>2, <3>3
  <2>4. Len(x) \in Nat /\ Len(y) \in Nat /\ n \in Nat
    BY <1>3, <2>2, LenProperties
  <2>5. Len(x) = Len(y)
    <3>1. Len(x) + n = Len(y) + n
      BY <2>3
    <3> QED BY <2>4, <3>1
  <2>6. ASSUME NEW w \in 1..n PROVE i[w] = j[w]
    <3> DEFINE k == Len(x) + w
    <3>1. k \in 1..(Len(x) + n) /\ ~(k <= Len(x)) /\ k - Len(x) = w
      BY <2>4
    <3> HIDE DEF k, n
    <3>2. (x \o i)[k] = i[w]
      BY <2>3, <3>1
    <3>3. (y \o j)[k] = j[w]
      BY <2>3, <2>5, <3>1
    <3> QED BY <3>2, <3>3
  <2>7. i = j
    BY <1>5, <2>1, <2>6, SeqEqual
  <2> QED BY <2>7
<1> QED BY <1>3, <1>4, <1>5

-------------------------------------------------------------------------------
\* The invariant of the names, and what it says.

\* The names that are typed are kept as they are, an application's without blanks at its
\* ends.
IsApp(app) ==
  /\ app.owner \in accounts
  /\ app.name \in Seq(Chars) /\ app.name # <<>> /\ Names!Trim(app.name) = app.name

NamesIInv ==
  /\ accounts \subseteq TypedNames /\ DOMAIN apps \subseteq AppIds
  /\ \A id \in DOMAIN apps : IsApp(apps[id])

\* Nobody has registered yet.
LEMMA NamesBegin == Names!NameInit => NamesIInv
BY DEF Names!NameInit, NamesIInv, IsApp

\* Registrations and uploads keep the names.
LEMMA NamesStep ==
  ASSUME NamesIInv, Names!NameNext PROVE NamesIInv'
<1>1. CASE Names!Register
  <2>1. /\ apps' = apps /\ accounts \subseteq accounts' /\ accounts' \subseteq TypedNames
    BY <1>1 DEF Names!Register, Names!NewAccount, NamesIInv
  <2> QED BY <2>1 DEF NamesIInv, IsApp
<1>2. CASE Names!Upload
  <2>1. PICK u \in accounts \cap Owners, name \in AppNames, id \in AppIds \ DOMAIN apps :
          /\ Names!Trim(name) # <<>>
          /\ apps' = [i \in DOMAIN apps \cup {id} |->
                        IF i = id THEN [owner |-> u, name |-> Names!Trim(name)] ELSE apps[i]]
    BY <1>2 DEF Names!Upload
  <2>2. accounts' = accounts
    BY <1>2 DEF Names!Upload
  <2> DEFINE app == [owner |-> u, name |-> Names!Trim(name)]
  <2>3. app.owner = u /\ app.name = Names!Trim(name)
    OBVIOUS
  <2>4. name \in Seq(Chars)
    BY BoundsHold DEF Bounds
  <2>5. Names!Trim(name) \in Seq(Chars) /\ Names!Trim(Names!Trim(name)) = Names!Trim(name)
    BY <2>4, TrimAgain
  <2> HIDE DEF app
  <2>6. IsApp(app)'
    BY <2>1, <2>2, <2>3, <2>5 DEF IsApp
  <2>7. DOMAIN apps' = DOMAIN apps \cup {id} /\ apps'[id] = app /\ \A i \in DOMAIN apps : apps'[i] = apps[i]
    BY <2>1 DEF app
  <2>8. \A i \in DOMAIN apps : IsApp(apps[i])'
    BY <2>2, <2>7 DEF NamesIInv, IsApp
  <2> QED BY <2>2, <2>6, <2>7, <2>8 DEF NamesIInv
<1> QED BY <1>1, <1>2 DEF Names!NameNext

\* The names have their types.
LEMMA NamesTyped == NamesIInv => Names!NameTypeOK
BY DEF NamesIInv, IsApp, Names!NameTypeOK

\* Kubernetes takes every namespace and every host.
LEMMA NamespacesTaken ==
  ASSUME NamesIInv PROVE Names!NamespacesAreLabels
<1>1. \A u \in accounts : u \in Seq(Chars)
  BY BoundsHold DEF Bounds, NamesIInv
<1>2. \A u \in accounts : Names!IsLabel(Names!SanitizeUserNamespace(u))
  BY <1>1, NamespaceTaken
<1>3. ASSUME NEW id \in DOMAIN apps
      PROVE  /\ Names!Last(Names!IngressHost(id)) \in Names!Alnum
             /\ \A i \in DOMAIN Names!IngressHost(id) : Names!IngressHost(id)[i] \in Names!Alnum \cup {"-"}
  <2> DEFINE h == Names!IngressHost(id)
  <2>1. apps[id].owner \in Seq(Chars) /\ apps[id].name \in Seq(Chars)
    BY <1>1 DEF NamesIInv, IsApp
  <2>2. h = Names!SanitizeUserNamespace(apps[id].owner) \o <<"-">> \o Names!SanitizeDnsLabel(apps[id].name)
    BY DEF Names!IngressHost
  <2> HIDE DEF h
  <2>3. h[Len(h)] \in Names!Alnum /\ \A i \in DOMAIN h : h[i] \in Pure
    BY <2>1, <2>2, HostTaken
  <2> QED BY <2>3 DEF Pure, Names!Last, h
<1> QED BY <1>2, <1>3 DEF Names!NamespacesAreLabels

\* Who shares a namespace has a name that looks alike.
LEMMA SharersAlike ==
  ASSUME NamesIInv PROVE Names!SharersLookAlike
<1> SUFFICES ASSUME NEW u \in accounts, NEW v \in accounts,
                    Names!SanitizeUserNamespace(u) = Names!SanitizeUserNamespace(v),
                    \A x \in {u, v} : ~(Names!WordsOf(x) = <<>> \/ Names!JoinedLength(Names!WordsOf(x)) > MaxPart)
             PROVE  \/ Names!WordsOf(u) = Names!WordsOf(v)
                    \/ LET a == Names!WordsOf(u)
                           b == Names!WordsOf(v)
                       IN \/ a = [b EXCEPT ![1] = <<"n">> \o @] /\ Head(b[1]) \in Names!Digits
                          \/ b = [a EXCEPT ![1] = <<"n">> \o @] /\ Head(a[1]) \in Names!Digits
  BY DEF Names!SharersLookAlike
<1>1. u \in Seq(Chars) /\ v \in Seq(Chars)
  BY BoundsHold DEF Bounds, NamesIInv
<1> QED BY <1>1, Sharers DEF Prefixed

\* No two applications get one Deployment's name.
LEMMA DeploymentsDiffer ==
  ASSUME NamesIInv PROVE Names!DeploymentsAreDistinct
<1>1. \A id \in DOMAIN apps : id \in Seq(Names!Digits) /\ apps[id].name \in Seq(Chars)
  BY BoundsHold DEF Bounds, NamesIInv, IsApp
<1> QED BY <1>1, NamesDiffer DEF Names!DeploymentsAreDistinct

\* What the invariant says of the names.
LEMMA NamesMean == NamesIInv => NamesHold
BY NamespacesTaken, SharersAlike, DeploymentsDiffer DEF NamesHold

-------------------------------------------------------------------------------
\* Usage: sums over nodes and servers.

\* SumFunction adds the values in an order that Pick gives; the sum is the same in any.
LEMMA SumIs ==
  ASSUME NEW S, IsFiniteSet(S), NEW v \in [S -> Nat]
  PROVE  \E g : Sums(g, v, S) /\ Usage!SumFunction(v) = g[S]
<1>1. PICK f : SumBy(f, v, S)
  BY SumsOf
<1>2. DOMAIN v = S
  OBVIOUS
<1>3. SumBy(f, v, DOMAIN v)
  BY <1>1, <1>2
<1>4. \E g : g = [s \in SUBSET DOMAIN v |-> IF s = {} THEN 0 ELSE v[Pick(s)] + g[s \ {Pick(s)}]]
  BY <1>3 DEF SumBy
<1>5. \E g : /\ g = [s \in SUBSET DOMAIN v |-> IF s = {} THEN 0 ELSE v[Pick(s)] + g[s \ {Pick(s)}]]
             /\ Usage!SumFunction(v) = g[DOMAIN v]
  BY <1>4 DEF Usage!SumFunction, Usage!SumFunctionOnSet, Usage!FoldFunctionOnSet, Usage!MapThenFoldSet, Pick
<1>6. \E g : SumBy(g, v, DOMAIN v) /\ Usage!SumFunction(v) = g[DOMAIN v]
  BY <1>5 DEF SumBy
<1> QED BY <1>2, <1>6, SumsOf

\* What holds of no elements, and of more when it holds of one less, holds of all subsets.
LEMMA AllSubsets ==
  ASSUME NEW S, IsFiniteSet(S), NEW P, {} \in P,
         \A s \in SUBSET S : s # {} /\ s \ {Pick(s)} \in P => s \in P
  PROVE  SUBSET S \subseteq P
<1> DEFINE Z == {n \in Nat : \A s \in SUBSET S : Cardinality(s) = n => s \in P}
<1>1. \A s \in SUBSET S : IsFiniteSet(s) /\ Cardinality(s) \in Nat /\ (Cardinality(s) = 0 <=> s = {})
  BY FS_Subset, FS_CardinalityType, FS_EmptySet
<1>2. 0 \in Z
  BY <1>1
<1>3. ASSUME NEW n \in Nat, n \in Z PROVE n + 1 \in Z
  <2> SUFFICES ASSUME NEW s \in SUBSET S, Cardinality(s) = n + 1 PROVE s \in P
    OBVIOUS
  <2>1. s # {}
    BY <1>1
  <2>2. Pick(s) \in s /\ s \ {Pick(s)} \in SUBSET S
    BY <2>1, PickIn
  <2>3. Cardinality(s \ {Pick(s)}) = Cardinality(s) - 1
    BY <1>1, <2>2, FS_RemoveElement
  <2>4. Cardinality(s \ {Pick(s)}) = n
    BY <2>3
  <2>5. s \ {Pick(s)} \in P
    BY <1>3, <2>2, <2>4
  <2> QED BY <2>1, <2>5
<1> HIDE DEF Z
<1>4. Nat \subseteq Z
  BY <1>2, <1>3, AllNumbers
<1> QED BY <1>1, <1>4 DEF Z

\* A sum of numbers is a number, and positive where they are.
LEMMA SumType ==
  ASSUME NEW S, IsFiniteSet(S), NEW v \in [S -> Nat]
  PROVE  /\ Usage!SumFunction(v) \in Nat
         /\ S = {} => Usage!SumFunction(v) = 0
         /\ S # {} /\ (\A x \in S : v[x] > 0) => Usage!SumFunction(v) > 0
<1>1. PICK g : Sums(g, v, S) /\ Usage!SumFunction(v) = g[S]
  BY SumIs
<1>2. g[S] \in Nat /\ (S = {} => g[S] = 0)
  BY <1>1 DEF Sums
<1>3. ASSUME S # {}, \A x \in S : v[x] > 0 PROVE g[S] > 0
  <2>1. Pick(S) \in S /\ S \ {Pick(S)} \in SUBSET S /\ S \in SUBSET S
    BY <1>3, PickIn
  <2>2. g[S] = v[Pick(S)] + g[S \ {Pick(S)}] /\ g[S \ {Pick(S)}] \in Nat
    BY <1>1, <1>3, <2>1 DEF Sums
  <2>3. v[Pick(S)] \in Nat /\ v[Pick(S)] > 0
    BY <1>3, <2>1
  <2> QED BY <2>2, <2>3
<1> QED BY <1>1, <1>2, <1>3

\* A sum of larger values is larger.
LEMMA SumGrows ==
  ASSUME NEW S, IsFiniteSet(S), NEW v \in [S -> Nat], NEW w \in [S -> Nat], \A x \in S : v[x] <= w[x]
  PROVE  Usage!SumFunction(v) <= Usage!SumFunction(w)
<1>1. PICK g : Sums(g, v, S) /\ Usage!SumFunction(v) = g[S]
  BY SumIs
<1>2. PICK h : Sums(h, w, S) /\ Usage!SumFunction(w) = h[S]
  BY SumIs
<1> DEFINE P == {s \in SUBSET S : g[s] <= h[s]}
<1>3. {} \in P
  BY <1>1, <1>2 DEF Sums
<1>4. ASSUME NEW s \in SUBSET S, s # {}, s \ {Pick(s)} \in P PROVE s \in P
  <2> DEFINE x == Pick(s)
             r == s \ {x}
  <2>1. x \in S /\ r \in SUBSET S
    BY <1>4, PickIn
  <2>2. g[s] = v[x] + g[r] /\ h[s] = w[x] + h[r] /\ g[r] \in Nat /\ h[r] \in Nat
    BY <1>1, <1>2, <1>4, <2>1 DEF Sums
  <2>3. g[r] <= h[r] /\ v[x] <= w[x] /\ v[x] \in Nat /\ w[x] \in Nat
    BY <1>4, <2>1
  <2> HIDE DEF x, r
  <2>4. g[s] <= h[s]
    BY <2>2, <2>3
  <2> QED BY <2>4
<1> HIDE DEF P
<1>5. SUBSET S \subseteq P
  BY <1>3, <1>4, AllSubsets
<1> QED BY <1>1, <1>2, <1>5 DEF P

\* A sum of values each so many times another is so many times the other sum.
LEMMA SumTimes ==
  ASSUME NEW S, IsFiniteSet(S), NEW v \in [S -> Nat], NEW w \in [S -> Nat], NEW c \in Nat,
         \A x \in S : w[x] = v[x] * c
  PROVE  Usage!SumFunction(w) = Usage!SumFunction(v) * c
<1>1. PICK g : Sums(g, v, S) /\ Usage!SumFunction(v) = g[S]
  BY SumIs
<1>2. PICK h : Sums(h, w, S) /\ Usage!SumFunction(w) = h[S]
  BY SumIs
<1> DEFINE P == {s \in SUBSET S : h[s] = g[s] * c}
<1>3. {} \in P
  BY <1>1, <1>2 DEF Sums
<1>4. ASSUME NEW s \in SUBSET S, s # {}, s \ {Pick(s)} \in P PROVE s \in P
  <2> DEFINE x == Pick(s)
             r == s \ {x}
  <2>1. x \in S /\ r \in SUBSET S
    BY <1>4, PickIn
  <2>2. g[s] = v[x] + g[r] /\ h[s] = w[x] + h[r] /\ g[r] \in Nat /\ h[r] \in Nat
    BY <1>1, <1>2, <1>4, <2>1 DEF Sums
  <2>3. h[r] = g[r] * c /\ w[x] = v[x] * c /\ v[x] \in Nat
    BY <1>4, <2>1
  <2> HIDE DEF x, r
  <2>4. h[s] = v[x] * c + g[r] * c
    BY <2>2, <2>3
  <2>5. h[s] = g[s] * c
    BY <2>2, <2>3, <2>4
  <2> QED BY <2>5
<1> HIDE DEF P
<1>5. SUBSET S \subseteq P
  BY <1>3, <1>4, AllSubsets
<1> QED BY <1>1, <1>2, <1>5 DEF P

\* A sum of values up to a hundred is at most a hundred for each.
LEMMA SumBounded ==
  ASSUME NEW S, IsFiniteSet(S), NEW v \in [S -> Nat], \A x \in S : v[x] <= 100
  PROVE  Usage!SumFunction(v) <= 100 * Cardinality(S)
<1>1. PICK g : Sums(g, v, S) /\ Usage!SumFunction(v) = g[S]
  BY SumIs
<1> DEFINE P == {s \in SUBSET S : g[s] <= 100 * Cardinality(s)}
<1>2. \A s \in SUBSET S : IsFiniteSet(s) /\ Cardinality(s) \in Nat
  BY FS_Subset, FS_CardinalityType
<1>3. {} \in P
  BY <1>1, FS_EmptySet DEF Sums
<1>4. ASSUME NEW s \in SUBSET S, s # {}, s \ {Pick(s)} \in P PROVE s \in P
  <2> DEFINE x == Pick(s)
             r == s \ {x}
             m == Cardinality(s)
             n == Cardinality(r)
  <2>1. x \in s /\ r \in SUBSET S
    BY <1>4, PickIn
  <2>2. g[s] = v[x] + g[r] /\ g[r] \in Nat
    BY <1>1, <1>4, <2>1 DEF Sums
  <2>3. g[r] <= 100 * n /\ v[x] <= 100 /\ v[x] \in Nat
    BY <1>4, <2>1
  <2>4. n = m - 1 /\ m \in Nat
    BY <1>2, <2>1, FS_RemoveElement
  <2> HIDE DEF x, r, m, n
  <2>5. g[s] <= 100 * m
    BY <2>2, <2>3, <2>4
  <2> QED BY <2>5 DEF m
<1> HIDE DEF P
<1>5. SUBSET S \subseteq P
  BY <1>3, <1>4, AllSubsets
<1> QED BY <1>1, <1>5 DEF P

-------------------------------------------------------------------------------
\* Which element is taken first makes no difference.
AddsUp(g, v, S) == \A s \in SUBSET S : \A x \in s : g[s] = v[x] + g[s \ {x}]

\* A sum is any of its values and the sum of the others.
LEMMA AnyFirst ==
  ASSUME NEW S, IsFiniteSet(S), NEW v \in [S -> Nat], NEW g, Sums(g, v, S)
  PROVE  AddsUp(g, v, S)
<1> DEFINE P == {s \in SUBSET S : \A x \in s : g[s] = v[x] + g[s \ {x}]}
           Z == {n \in Nat : \A s \in SUBSET S : Cardinality(s) = n => s \in P}
<1>1. \A s \in SUBSET S : IsFiniteSet(s) /\ Cardinality(s) \in Nat /\ (Cardinality(s) = 0 <=> s = {})
  BY FS_Subset, FS_CardinalityType, FS_EmptySet
<1>2. \A s \in SUBSET S : g[s] \in Nat
  BY DEF Sums
<1>3. 0 \in Z
  BY <1>1
<1>4. ASSUME NEW n \in Nat, n \in Z PROVE n + 1 \in Z
  <2> SUFFICES ASSUME NEW s \in SUBSET S, Cardinality(s) = n + 1, NEW x \in s
               PROVE  g[s] = v[x] + g[s \ {x}]
    OBVIOUS
  <2> DEFINE y == Pick(s)
  <2>1. s # {} /\ y \in s
    BY PickIn
  <2>2. g[s] = v[y] + g[s \ {y}]
    BY <2>1 DEF Sums
  <2>3. CASE x = y
    BY <2>2, <2>3
  <2>4. CASE x # y
    <3> HIDE DEF y
    <3> DEFINE a == s \ {y}
               b == s \ {x}
               c == a \ {x}
    <3>1. a \in SUBSET S /\ b \in SUBSET S /\ c \in SUBSET S /\ x \in a /\ y \in b /\ c = b \ {y}
      BY <2>1, <2>4
    <3>2. Cardinality(a) = n /\ Cardinality(b) = n
      <4>1. Cardinality(a) = Cardinality(s) - 1 /\ Cardinality(b) = Cardinality(s) - 1
        BY <1>1, <2>1, FS_RemoveElement
      <4> QED BY <4>1
    <3>3. a \in P /\ b \in P
      BY <1>4, <3>1, <3>2
    <3>4. g[a] = v[x] + g[c] /\ g[b] = v[y] + g[c]
      BY <3>1, <3>3
    <3>5. v[x] \in Nat /\ v[y] \in Nat /\ g[c] \in Nat
      BY <1>2, <2>1, <3>1
    <3>6. g[s] = v[y] + g[a]
      BY <2>2
    <3> HIDE DEF a, b, c
    <3>7. g[s] = v[x] + g[b]
      BY <3>4, <3>5, <3>6
    <3> QED BY <3>7 DEF b
  <2> QED BY <2>3, <2>4
<1> HIDE DEF Z
<1>5. Nat \subseteq Z
  BY <1>3, <1>4, AllNumbers
<1> QED BY <1>1, <1>5 DEF Z, AddsUp

\* What adds nothing may be left out.
LEMMA SumOfSome ==
  ASSUME NEW S, IsFiniteSet(S), NEW v \in [S -> Nat], NEW T, T \subseteq S, NEW w \in [T -> Nat],
         \A x \in T : w[x] = v[x], \A x \in S \ T : v[x] = 0
  PROVE  Usage!SumFunction(v) = Usage!SumFunction(w)
<1>0. IsFiniteSet(T)
  BY FS_Subset
<1>1. PICK g : Sums(g, v, S) /\ Usage!SumFunction(v) = g[S]
  BY SumIs
<1>2. PICK h : Sums(h, w, T) /\ Usage!SumFunction(w) = h[T]
  BY <1>0, SumIs
<1>3. \A s \in SUBSET T : \A x \in s : h[s] = w[x] + h[s \ {x}]
  <2>1. AddsUp(h, w, T)
    BY <1>0, <1>2, AnyFirst
  <2> QED BY <2>1 DEF AddsUp
<1> DEFINE P == {s \in SUBSET S : g[s] = h[s \cap T]}
<1>4. {} \in P
  <2>1. {} \cap T = {}
    OBVIOUS
  <2> QED BY <1>1, <1>2, <2>1 DEF Sums
<1>5. ASSUME NEW s \in SUBSET S, s # {}, s \ {Pick(s)} \in P PROVE s \in P
  <2> DEFINE x == Pick(s)
             r == s \ {x}
  <2>1. x \in s /\ r \in SUBSET S
    BY <1>5, PickIn
  <2>2. g[s] = v[x] + g[r] /\ g[r] \in Nat /\ g[r] = h[r \cap T]
    BY <1>1, <1>5, <2>1 DEF Sums
  <2> HIDE DEF x
  <2>3. CASE x \in T
    <3>1. h[s \cap T] = w[x] + h[(s \cap T) \ {x}]
      BY <1>3, <2>1, <2>3
    <3>2. (s \cap T) \ {x} = r \cap T
      OBVIOUS
    <3> QED BY <2>2, <2>3, <3>1, <3>2
  <2>4. CASE x \notin T
    <3>1. s \cap T = r \cap T
      BY <2>4
    <3>2. v[x] = 0
      BY <2>1, <2>4
    <3>3. g[s] = g[r]
      <4> HIDE DEF r
      <4> QED BY <2>2, <3>2
    <3> QED BY <2>2, <3>1, <3>3
  <2> QED BY <2>3, <2>4
<1> HIDE DEF P
<1>6. SUBSET S \subseteq P
  BY <1>4, <1>5, AllSubsets
<1>7. S \cap T = T
  OBVIOUS
<1> QED BY <1>1, <1>2, <1>6, <1>7 DEF P

-------------------------------------------------------------------------------
\* Division in whole numbers.
LEMMA DivIs ==
  ASSUME NEW a \in Nat, NEW b \in Nat, b > 0
  PROVE  a \div b \in Nat /\ (a \div b) * b <= a /\ a < (a \div b + 1) * b
OBVIOUS

\* A factor keeps the order.
LEMMA Products ==
  ASSUME NEW a \in Nat, NEW b \in Nat, NEW c \in Nat, a <= b
  PROVE  a * c <= b * c /\ a * c \in Nat /\ b * c \in Nat
OBVIOUS

\* An upper bound of a quotient.
LEMMA DivLeast ==
  ASSUME NEW a \in Nat, NEW b \in Nat, b > 0, NEW q \in Nat, a < (q + 1) * b
  PROVE  a \div b <= q
<1>1. a \div b \in Nat /\ (a \div b) * b <= a
  BY DivIs
<1> DEFINE r == a \div b
<1> HIDE DEF r
<1>2. r \in Nat /\ r * b <= a
  BY <1>1 DEF r
<1>3. SUFFICES ASSUME q + 1 <= r PROVE FALSE
  BY <1>2 DEF r
<1>4. (q + 1) * b <= r * b
  BY <1>2, <1>3, Products
<1>5. (q + 1) * b \in Nat /\ r * b \in Nat
  BY <1>2
<1> HIDE DEF r
<1> QED BY <1>2, <1>4, <1>5

\* A lower bound of a quotient.
LEMMA DivMost ==
  ASSUME NEW a \in Nat, NEW b \in Nat, b > 0, NEW q \in Nat, q * b <= a
  PROVE  q <= a \div b
<1> DEFINE r == a \div b
<1>1. r \in Nat /\ a < (r + 1) * b
  BY DivIs
<1> HIDE DEF r
<1>2. SUFFICES ASSUME r + 1 <= q PROVE FALSE
  BY <1>1 DEF r
<1>3. (r + 1) * b <= q * b
  BY <1>1, <1>2, Products
<1>4. (r + 1) * b \in Nat /\ q * b \in Nat
  BY <1>1
<1> QED BY <1>1, <1>3, <1>4

-------------------------------------------------------------------------------
\* Quantities and percentages, read without their units.

\* The units are positive numbers.
LEMMA UnitsAre ==
  /\ Kilo \in Nat /\ Kilo > 0 /\ PlainCores \in Nat
  /\ Usage!Million \in Nat /\ Usage!Million > 0 /\ Usage!Billion \in Nat /\ Usage!Billion > 0
  /\ Usage!Mebi \in Nat /\ Usage!Mebi > 0 /\ Usage!Gibi \in Nat /\ Usage!Gibi > 0
  /\ Usage!Tebi \in Nat /\ Usage!Tebi > 0
<1>1. /\ Kilo \in Nat /\ Kilo > 0 /\ Thousand \in Nat /\ Thousand > 0 /\ PlainCores \in Nat
  <2>1. {Thousand, Kilo, PlainCores} \subseteq Nat /\ 1 < Thousand /\ Thousand < Kilo
    <3>1. {Thousand, Kilo, PlainCores, Sampled, SampledDisks} \subseteq Nat /\ 1 < Thousand /\ Thousand < Kilo
      BY PartsAssumption DEF Usage!UsageAssumption
    <3> QED BY <3>1
  <2>2. Thousand \in Nat /\ Kilo \in Nat /\ PlainCores \in Nat
    BY <2>1
  <2> QED BY <2>1, <2>2
<1>2. \A a, b \in Nat : a > 0 /\ b > 0 => a * b \in Nat /\ a * b > 0
  OBVIOUS
<1>3. Usage!Million \in Nat /\ Usage!Million > 0
  BY <1>1, <1>2 DEF Usage!Million
<1>4. Usage!Billion \in Nat /\ Usage!Billion > 0
  BY <1>1, <1>2, <1>3 DEF Usage!Billion
<1>5. Usage!Mebi \in Nat /\ Usage!Mebi > 0
  BY <1>1, <1>2 DEF Usage!Mebi
<1>6. Usage!Gibi \in Nat /\ Usage!Gibi > 0
  BY <1>1, <1>2, <1>5 DEF Usage!Gibi
<1>7. Usage!Tebi \in Nat /\ Usage!Tebi > 0
  BY <1>1, <1>2, <1>6 DEF Usage!Tebi
<1> QED BY <1>1, <1>3, <1>4, <1>5, <1>6, <1>7

\* A percentage that is capped is one.
LEMMA CappedIs ==
  ASSUME NEW p \in Nat
  PROVE  Usage!Capped(p) \in 0..100 /\ (p <= 100 => Usage!Capped(p) = p)
<1> DEFINE m == Usage!Capped(p)
<1>1. m = CHOOSE x \in {100, p} : \A y \in {100, p} : x =< y
  BY DEF Usage!Capped, Usage!Min
<1>2. \E x \in {100, p} : \A y \in {100, p} : x =< y
  OBVIOUS
<1>3. m \in {100, p} /\ \A y \in {100, p} : m =< y
  BY <1>1, <1>2
<1> HIDE DEF m
<1> QED BY <1>3 DEF m

\* A part is at most a hundred percent of the whole.
LEMMA PercentIs ==
  ASSUME NEW a \in Nat, NEW b \in Nat
  PROVE  /\ Usage!Percent(a, b) \in Nat
         /\ a <= b => Usage!Percent(a, b) <= 100
<1>1. CASE ~(b > 0)
  BY <1>1 DEF Usage!Percent
<1>2. CASE b > 0
  <2>1. Usage!Percent(a, b) = (a * 100) \div b /\ a * 100 \in Nat
    BY <1>2 DEF Usage!Percent
  <2> DEFINE x == a * 100
  <2>2. a <= b => x < (100 + 1) * b
    BY <1>2
  <2>3. x \in Nat
    OBVIOUS
  <2> HIDE DEF x
  <2>4. x \div b \in Nat
    BY <1>2, <2>3, DivIs
  <2>5. a <= b => x \div b <= 100
    BY <1>2, <2>2, <2>3, DivLeast
  <2> QED BY <2>1, <2>4, <2>5 DEF x
<1> QED BY <1>1, <1>2

\* A common factor makes no difference to a percentage.
LEMMA PercentTimes ==
  ASSUME NEW a \in Nat, NEW b \in Nat, NEW c \in Nat, c > 0
  PROVE  Usage!Percent(a * c, b * c) = Usage!Percent(a, b)
<1>1. CASE ~(b > 0)
  <2>1. b = 0 /\ b * c = 0
    BY <1>1
  <2> QED BY <1>1, <2>1 DEF Usage!Percent
<1>2. CASE b > 0
  <2> DEFINE x == a * 100
             d == b * c
             q == x \div b
             y == (a * c) * 100
  <2>1. d \in Nat /\ d > 0 /\ x \in Nat /\ y \in Nat /\ y = x * c
    BY <1>2
  <2>2. Usage!Percent(a, b) = q /\ Usage!Percent(a * c, b * c) = y \div d
    BY <1>2, <2>1 DEF Usage!Percent
  <2>3. q \in Nat /\ q * b <= x /\ x < (q + 1) * b
    <3> HIDE DEF x
    <3> QED BY <1>2, <2>1, DivIs
  <2> HIDE DEF x, q
  <2>4. (q * b) * c <= x * c
    BY <2>1, <2>3, Products
  <2>5. (q * b) * c = q * d /\ ((q + 1) * b) * c = (q + 1) * d
    BY <2>3
  <2>6. x * c < ((q + 1) * b) * c
    <3> DEFINE z == (q + 1) * b
    <3>1. z \in Nat /\ x + 1 <= z
      BY <2>1, <2>3
    <3> HIDE DEF z
    <3>2. (x + 1) * c <= z * c
      BY <2>1, <3>1, Products
    <3>3. (x + 1) * c = x * c + c /\ x * c \in Nat /\ z * c \in Nat
      BY <2>1, <3>1
    <3> QED BY <3>2, <3>3 DEF z
  <2> HIDE DEF d, y
  <2>7. q * d <= y /\ y < (q + 1) * d
    BY <2>1, <2>4, <2>5, <2>6
  <2>8. q <= y \div d
    BY <2>1, <2>3, <2>7, DivMost
  <2>9. y \div d <= q
    BY <2>1, <2>3, <2>7, DivLeast
  <2>10. y \div d \in Nat
    BY <2>1, DivIs
  <2>11. y \div d = q
    BY <2>3, <2>8, <2>9, <2>10
  <2> QED BY <2>2, <2>11
<1> QED BY <1>1, <1>2

-------------------------------------------------------------------------------
\* What is measured of a node fits into it.
Fits(m, u) ==
  /\ u \in Uses
  /\ Usage!NanoCoresMeant(u.cpu) <= Usage!NanoCoresMeant(SizeOf[m].cpu)
  /\ u.cpu.n = 0 \/ u.cpu.n > PlainCores
  /\ Usage!BytesMeant(u.memory) <= Usage!BytesMeant(SizeOf[m].memory)

\* What a node has is read as it is meant, but for the unit of its memory.
LEMMA SizesAre ==
  ASSUME NEW m \in Nodes
  PROVE  LET cores == Usage!ParseQuantityToCores(Usage!GetAmount(SizeOf[m].cpu))
             bytes == Usage!ParseQuantityToBytes(Usage!GetAmount(SizeOf[m].memory))
         IN /\ cores \in Nat /\ cores > 0 /\ cores = Usage!NanoCoresMeant(SizeOf[m].cpu)
            /\ bytes \in Nat /\ bytes = SizeOf[m].memory.n
            /\ Usage!BytesMeant(SizeOf[m].memory) = bytes * Kilo
<1> DEFINE c == SizeOf[m].cpu
           y == SizeOf[m].memory
<1>1. c \in [n : Nat, unit : {""}] /\ y \in [n : Nat, unit : {"Ki"}] /\ c.n > 0
  BY PartsAssumption DEF Usage!UsageAssumption
<1> HIDE DEF c, y
<1>2. /\ Usage!GetAmount(c).unit = "" /\ Usage!GetAmount(c).n = c.n /\ c.n \in Nat
      /\ Usage!GetAmount(y).unit = "" /\ Usage!GetAmount(y).n = y.n /\ y.n \in Nat
      /\ c.unit = "" /\ y.unit = "Ki"
  BY <1>1 DEF Usage!GetAmount
<1>3. Usage!ParseQuantityToCores(Usage!GetAmount(c)) = c.n * Usage!Billion
  BY <1>2 DEF Usage!ParseQuantityToCores
<1>4. Usage!NanoCoresMeant(c) = c.n * Usage!Billion
  BY <1>2 DEF Usage!NanoCoresMeant
<1>5. c.n * Usage!Billion \in Nat /\ c.n * Usage!Billion > 0
  <2>1. \A a, b \in Nat : a > 0 /\ b > 0 => a * b \in Nat /\ a * b > 0
    OBVIOUS
  <2> QED BY <1>1, <1>2, <2>1, UnitsAre
<1>6. Usage!ParseQuantityToBytes(Usage!GetAmount(y)) = y.n
  BY <1>2 DEF Usage!ParseQuantityToBytes
<1>7. Usage!BytesMeant(y) = y.n * Kilo
  BY <1>2 DEF Usage!BytesMeant
<1> QED BY <1>2, <1>3, <1>4, <1>5, <1>6, <1>7 DEF c, y

\* So is what it uses, and it is no more than it has.
LEMMA UsesAre ==
  ASSUME NEW m \in Nodes, NEW u, Fits(m, u)
  PROVE  LET cores == Usage!ParseQuantityToNanoCores(Usage!GetAmount(u.cpu))
             bytes == Usage!ParseQuantityToBytes(Usage!GetAmount(u.memory))
         IN /\ cores \in Nat /\ cores = Usage!NanoCoresMeant(u.cpu)
            /\ cores <= Usage!ParseQuantityToCores(Usage!GetAmount(SizeOf[m].cpu))
            /\ bytes \in Nat /\ Usage!BytesMeant(u.memory) = bytes * Kilo
            /\ bytes <= Usage!ParseQuantityToBytes(Usage!GetAmount(SizeOf[m].memory))
<1> DEFINE c == u.cpu
           y == u.memory
           z == SizeOf[m].memory.n
<1>1. c \in [n : Nat, unit : {"n"}] /\ y \in [n : Nat, unit : {"Ki"}] /\ (c.n = 0 \/ c.n > PlainCores)
  BY PartsAssumption DEF Usage!UsageAssumption, Fits
<1>0. /\ Usage!NanoCoresMeant(c) <= Usage!NanoCoresMeant(SizeOf[m].cpu)
      /\ Usage!BytesMeant(y) <= Usage!BytesMeant(SizeOf[m].memory)
  BY DEF Fits
<1> HIDE DEF c, y, z
<1>2. /\ Usage!GetAmount(c).unit = "" /\ Usage!GetAmount(c).n = c.n /\ c.n \in Nat
      /\ Usage!GetAmount(y).unit = "" /\ Usage!GetAmount(y).n = y.n /\ y.n \in Nat
      /\ c.unit = "n" /\ y.unit = "Ki"
  BY <1>1 DEF Usage!GetAmount
<1>3. Usage!ParseQuantityToNanoCores(Usage!GetAmount(c)) = IF c.n > PlainCores THEN c.n ELSE c.n * Usage!Billion
  BY <1>2 DEF Usage!ParseQuantityToNanoCores
<1>4. Usage!ParseQuantityToNanoCores(Usage!GetAmount(c)) = c.n
  <2> DEFINE k == c.n
  <2>1. k \in Nat /\ (k = 0 \/ k > PlainCores)
    BY <1>1, <1>2
  <2>2. Usage!ParseQuantityToNanoCores(Usage!GetAmount(c)) = IF k > PlainCores THEN k ELSE k * Usage!Billion
    BY <1>3
  <2> HIDE DEF k
  <2>3. k = 0 => k * Usage!Billion = k
    BY UnitsAre
  <2> QED BY <2>1, <2>2, <2>3 DEF k
<1>5. Usage!NanoCoresMeant(c) = c.n
  <2> DEFINE k == c.n
  <2>1. Usage!NanoCoresMeant(c) = k * 1 /\ k \in Nat
    BY <1>2 DEF Usage!NanoCoresMeant
  <2> HIDE DEF k
  <2>2. k * 1 = k
    BY <2>1
  <2> QED BY <2>1, <2>2 DEF k
<1>6. Usage!ParseQuantityToBytes(Usage!GetAmount(y)) = y.n
  BY <1>2 DEF Usage!ParseQuantityToBytes
<1>7. Usage!BytesMeant(y) = y.n * Kilo
  BY <1>2 DEF Usage!BytesMeant
<1>8. z \in Nat /\ Usage!ParseQuantityToBytes(Usage!GetAmount(SizeOf[m].memory)) = z
      /\ Usage!BytesMeant(SizeOf[m].memory) = z * Kilo
  BY SizesAre DEF z
<1>9. y.n <= z
  <2>1. y.n * Kilo <= z * Kilo
    BY <1>0, <1>7, <1>8
  <2> DEFINE k == y.n
  <2>2. k \in Nat
    BY <1>2
  <2> HIDE DEF k
  <2>3. SUFFICES ASSUME z + 1 <= k PROVE FALSE
    BY <1>8, <2>2 DEF k
  <2>4. (z + 1) * Kilo <= k * Kilo
    BY <1>8, <2>2, <2>3, UnitsAre, Products
  <2>5. (z + 1) * Kilo = z * Kilo + Kilo /\ z * Kilo \in Nat /\ k * Kilo \in Nat
    BY <1>8, <2>2, UnitsAre
  <2>6. k * Kilo <= z * Kilo
    BY <2>1 DEF k
  <2> QED BY <2>4, <2>5, <2>6, UnitsAre
<1>10. Usage!ParseQuantityToCores(Usage!GetAmount(SizeOf[m].cpu)) = Usage!NanoCoresMeant(SizeOf[m].cpu)
  BY SizesAre
<1> QED BY <1>0, <1>2, <1>4, <1>5, <1>6, <1>7, <1>8, <1>9, <1>10 DEF c, y

-------------------------------------------------------------------------------
\* Results over the nodes that are counted.

\* Results, and what the request holds.
Results == [cpu : 0..100, ram : 0..100, disk : Nat, cpuUsed : Nat, cpuTotal : Nat,
            ramUsed : Nat, ramTotal : Nat]

\* Never more is used than there is.
Within(r) == r.cpuUsed <= r.cpuTotal /\ r.ramUsed <= r.ramTotal

\* The sums over nodes: of what is used, no more than there is; and what they mean.
LEMMA SumsAre ==
  ASSUME NEW S, S \subseteq Nodes, \A m \in S : Fits(m, ask.seen[m])
  PROVE  /\ Usage!CpuUsed(S) \in Nat /\ Usage!CpuTotal(S) \in Nat
         /\ Usage!CpuUsed(S) <= Usage!CpuTotal(S)
         /\ S = {} => Usage!CpuUsed(S) = 0 /\ Usage!CpuTotal(S) = 0
         /\ S # {} => Usage!CpuTotal(S) > 0
         /\ Usage!CpuUsed(S) = Usage!SumFunction([m \in S |-> Usage!NanoCoresMeant(ask.seen[m].cpu)])
         /\ Usage!CpuTotal(S) = Usage!SumFunction([m \in S |-> Usage!NanoCoresMeant(SizeOf[m].cpu)])
         /\ Usage!RamUsed(S) \in Nat /\ Usage!RamTotal(S) \in Nat
         /\ Usage!RamUsed(S) <= Usage!RamTotal(S)
         /\ S = {} => Usage!RamUsed(S) = 0 /\ Usage!RamTotal(S) = 0
         /\ Usage!SumFunction([m \in S |-> Usage!BytesMeant(ask.seen[m].memory)]) = Usage!RamUsed(S) * Kilo
         /\ Usage!SumFunction([m \in S |-> Usage!BytesMeant(SizeOf[m].memory)]) = Usage!RamTotal(S) * Kilo
<1>0. IsFiniteSet(S)
  <2>1. Usage!IsFiniteSet(Nodes)
    BY PartsAssumption DEF Usage!UsageAssumption
  <2>2. IsFiniteSet(Nodes)
    BY <2>1 DEF IsFiniteSet, Usage!IsFiniteSet
  <2> QED BY <2>2, FS_Subset
<1> DEFINE cu == [m \in S |-> Usage!ParseQuantityToNanoCores(Usage!GetAmount(ask.seen[m].cpu))]
           ct == [m \in S |-> Usage!ParseQuantityToCores(Usage!GetAmount(SizeOf[m].cpu))]
           ru == [m \in S |-> Usage!ParseQuantityToBytes(Usage!GetAmount(ask.seen[m].memory))]
           rt == [m \in S |-> Usage!ParseQuantityToBytes(Usage!GetAmount(SizeOf[m].memory))]
           mu == [m \in S |-> Usage!BytesMeant(ask.seen[m].memory)]
           mt == [m \in S |-> Usage!BytesMeant(SizeOf[m].memory)]
<1>1. /\ cu \in [S -> Nat] /\ ct \in [S -> Nat] /\ ru \in [S -> Nat] /\ rt \in [S -> Nat]
      /\ \A m \in S : cu[m] <= ct[m] /\ ru[m] <= rt[m] /\ ct[m] > 0
  <2>1. ASSUME NEW m \in S
        PROVE  /\ Usage!ParseQuantityToNanoCores(Usage!GetAmount(ask.seen[m].cpu)) \in Nat
               /\ Usage!ParseQuantityToCores(Usage!GetAmount(SizeOf[m].cpu)) \in Nat
               /\ Usage!ParseQuantityToCores(Usage!GetAmount(SizeOf[m].cpu)) > 0
               /\ Usage!ParseQuantityToNanoCores(Usage!GetAmount(ask.seen[m].cpu))
                    <= Usage!ParseQuantityToCores(Usage!GetAmount(SizeOf[m].cpu))
               /\ Usage!ParseQuantityToBytes(Usage!GetAmount(ask.seen[m].memory)) \in Nat
               /\ Usage!ParseQuantityToBytes(Usage!GetAmount(SizeOf[m].memory)) \in Nat
               /\ Usage!ParseQuantityToBytes(Usage!GetAmount(ask.seen[m].memory))
                    <= Usage!ParseQuantityToBytes(Usage!GetAmount(SizeOf[m].memory))
    BY SizesAre, UsesAre
  <2> QED BY <2>1
<1>2. /\ cu = [m \in S |-> Usage!NanoCoresMeant(ask.seen[m].cpu)]
      /\ ct = [m \in S |-> Usage!NanoCoresMeant(SizeOf[m].cpu)]
  <2>1. \A m \in S :
          /\ Usage!ParseQuantityToNanoCores(Usage!GetAmount(ask.seen[m].cpu)) = Usage!NanoCoresMeant(ask.seen[m].cpu)
          /\ Usage!ParseQuantityToCores(Usage!GetAmount(SizeOf[m].cpu)) = Usage!NanoCoresMeant(SizeOf[m].cpu)
    BY SizesAre, UsesAre
  <2> QED BY <2>1
<1>3. \A m \in S : mu[m] = ru[m] * Kilo /\ mt[m] = rt[m] * Kilo
  <2>1. \A m \in S :
          /\ Usage!BytesMeant(ask.seen[m].memory) = Usage!ParseQuantityToBytes(Usage!GetAmount(ask.seen[m].memory)) * Kilo
          /\ Usage!BytesMeant(SizeOf[m].memory) = Usage!ParseQuantityToBytes(Usage!GetAmount(SizeOf[m].memory)) * Kilo
    BY SizesAre, UsesAre
  <2> QED BY <2>1
<1>4. mu \in [S -> Nat] /\ mt \in [S -> Nat]
  <2>1. \A m \in S : ru[m] \in Nat /\ rt[m] \in Nat
    BY <1>1
  <2>2. \A a \in Nat : a * Kilo \in Nat
    BY UnitsAre
  <2>3. \A m \in S : mu[m] \in Nat /\ mt[m] \in Nat
    <3> HIDE DEF ru, rt, mu, mt
    <3> QED BY <1>3, <2>1, <2>2
  <2>4. DOMAIN mu = S /\ DOMAIN mt = S
    OBVIOUS
  <2> QED BY <2>3
<1>5. /\ Usage!CpuUsed(S) = Usage!SumFunction(cu) /\ Usage!CpuTotal(S) = Usage!SumFunction(ct)
      /\ Usage!RamUsed(S) = Usage!SumFunction(ru) /\ Usage!RamTotal(S) = Usage!SumFunction(rt)
  BY DEF Usage!CpuUsed, Usage!CpuTotal, Usage!RamUsed, Usage!RamTotal
<1> HIDE DEF cu, ct, ru, rt, mu, mt
<1>6. /\ Usage!SumFunction(cu) \in Nat /\ Usage!SumFunction(ct) \in Nat
      /\ Usage!SumFunction(ru) \in Nat /\ Usage!SumFunction(rt) \in Nat
  BY <1>0, <1>1, SumType
<1>7. S = {} => /\ Usage!SumFunction(cu) = 0 /\ Usage!SumFunction(ct) = 0
                /\ Usage!SumFunction(ru) = 0 /\ Usage!SumFunction(rt) = 0
  BY <1>0, <1>1, SumType
<1>8. S # {} => Usage!SumFunction(ct) > 0
  BY <1>0, <1>1, SumType
<1>9. Usage!SumFunction(cu) <= Usage!SumFunction(ct)
  BY <1>0, <1>1, SumGrows
<1>10. Usage!SumFunction(ru) <= Usage!SumFunction(rt)
  BY <1>0, <1>1, SumGrows
<1>11. Usage!SumFunction(mu) = Usage!SumFunction(ru) * Kilo
  BY <1>0, <1>1, <1>3, <1>4, UnitsAre, SumTimes
<1>12. Usage!SumFunction(mt) = Usage!SumFunction(rt) * Kilo
  BY <1>0, <1>1, <1>3, <1>4, UnitsAre, SumTimes
<1> QED BY <1>2, <1>5, <1>6, <1>7, <1>8, <1>9, <1>10, <1>11, <1>12 DEF mu, mt

\* The result over some nodes, and what it means.
LEMMA ResultIs ==
  ASSUME NEW S, S \subseteq Nodes, \A m \in S : Fits(m, ask.seen[m])
  PROVE  LET r == Usage!ResultOver(S, S) IN
         /\ r \in Results /\ Within(r)
         /\ S = {} => r = Usage!Nothing
         /\ S # {} => r.cpuTotal > 0
         /\ r.cpu = Usage!Percent(Usage!SumFunction([m \in S |-> Usage!NanoCoresMeant(ask.seen[m].cpu)]),
                                  Usage!SumFunction([m \in S |-> Usage!NanoCoresMeant(SizeOf[m].cpu)]))
         /\ r.ram = Usage!Percent(Usage!SumFunction([m \in S |-> Usage!BytesMeant(ask.seen[m].memory)]),
                                  Usage!SumFunction([m \in S |-> Usage!BytesMeant(SizeOf[m].memory)]))
<1> DEFINE a == Usage!CpuUsed(S)
           b == Usage!CpuTotal(S)
           c == Usage!RamUsed(S)
           d == Usage!RamTotal(S)
           p == Usage!Capped(Usage!Percent(a, b))
           q == Usage!Capped(Usage!Percent(c, d))
           r == Usage!ResultOver(S, S)
<1>1. r = [cpu |-> p, ram |-> q, disk |-> 0, cpuUsed |-> a, cpuTotal |-> b,
           ramUsed |-> c, ramTotal |-> d]
  BY DEF Usage!ResultOver
<1>2. /\ a \in Nat /\ b \in Nat /\ a <= b /\ (S = {} => a = 0 /\ b = 0) /\ (S # {} => b > 0)
      /\ c \in Nat /\ d \in Nat /\ c <= d /\ (S = {} => c = 0 /\ d = 0)
  BY SumsAre
<1>3. /\ a = Usage!SumFunction([m \in S |-> Usage!NanoCoresMeant(ask.seen[m].cpu)])
      /\ b = Usage!SumFunction([m \in S |-> Usage!NanoCoresMeant(SizeOf[m].cpu)])
      /\ Usage!SumFunction([m \in S |-> Usage!BytesMeant(ask.seen[m].memory)]) = c * Kilo
      /\ Usage!SumFunction([m \in S |-> Usage!BytesMeant(SizeOf[m].memory)]) = d * Kilo
  BY SumsAre
<1>4. p \in 0..100 /\ p = Usage!Percent(a, b)
  <2> HIDE DEF a, b
  <2> QED BY <1>2, PercentIs, CappedIs
<1>5. q \in 0..100 /\ q = Usage!Percent(c, d)
  <2> HIDE DEF c, d
  <2> QED BY <1>2, PercentIs, CappedIs
<1>6. q = Usage!Percent(c * Kilo, d * Kilo)
  <2> HIDE DEF c, d
  <2> QED BY <1>2, <1>5, PercentTimes, UnitsAre
<1>7. S = {} => p = 0 /\ q = 0
  <2>1. Usage!Percent(0, 0) = 0
    BY DEF Usage!Percent
  <2> HIDE DEF p, q, a, b, c, d
  <2> QED BY <1>2, <1>4, <1>5, <2>1
<1> HIDE DEF a, b, c, d, p, q, r
<1>8. r \in Results /\ Within(r)
  BY <1>1, <1>2, <1>4, <1>5 DEF Results, Within
<1>9. S = {} => r = Usage!Nothing
  BY <1>1, <1>2, <1>7 DEF Usage!Nothing
<1>10. r.cpuTotal = b /\ r.cpu = p /\ r.ram = q
  BY <1>1
<1> QED BY <1>2, <1>3, <1>4, <1>6, <1>8, <1>9, <1>10 DEF r

-------------------------------------------------------------------------------
\* Averages over the servers that answer.

\* Bytes as they are meant, and the share of them rounded.
Share(o) == (200 * Usage!BytesMeant(o.used) + Usage!BytesMeant(o.total)) \div (2 * Usage!BytesMeant(o.total))

\* Products of numbers.
LEMMA ProductIs ==
  /\ \A a, b \in Nat : a * b \in Nat /\ (a > 0 /\ b > 0 => a * b > 0)
  /\ \A a \in Nat : a * 1 = a
<1>1. \A a, b \in Nat : a * b \in Nat
  OBVIOUS
<1>2. \A a, b \in Nat : a > 0 /\ b > 0 => a * b > 0
  OBVIOUS
<1>3. \A a \in Nat : a * 1 = a
  OBVIOUS
<1> QED BY <1>1, <1>2, <1>3

\* Of memory as it is printed nothing is lost but what is in tera.
LEMMA MemoryIs ==
  ASSUME NEW q \in [n : Nat, unit : {"", "Ki", "Mi", "Gi", "Ti"}]
  PROVE  /\ Usage!BytesMeant(q) \in Nat /\ (q.n > 0 => Usage!BytesMeant(q) > 0)
         /\ Usage!ParseMemoryValue(q) = IF q.unit = "Ti" THEN 0 ELSE Usage!BytesMeant(q)
<1> DEFINE n == q.n
<1>1. n \in Nat /\ q.unit \in {"", "Ki", "Mi", "Gi", "Ti"}
  OBVIOUS
<1> HIDE DEF n
<1>a. n \in Nat
  BY <1>1
<1>2. \A a, b \in Nat : a * b \in Nat /\ (a > 0 /\ b > 0 => a * b > 0)
  BY ProductIs
<1>3. CASE q.unit = ""
  <2>1. Usage!BytesMeant(q) = n * 1 /\ Usage!ParseMemoryValue(q) = n
    BY <1>3 DEF Usage!BytesMeant, Usage!ParseMemoryValue, n
  <2>2. n * 1 = n
    BY <1>a, ProductIs
  <2> QED BY <1>1, <1>3, <2>1, <2>2 DEF n
<1>4. CASE q.unit = "Ki"
  <2>1. Usage!BytesMeant(q) = n * Kilo /\ Usage!ParseMemoryValue(q) = n * Kilo
    BY <1>4 DEF Usage!BytesMeant, Usage!ParseMemoryValue, n
  <2> QED BY <1>1, <1>2, <1>4, <2>1, UnitsAre DEF n
<1>5. CASE q.unit = "Mi"
  <2>1. Usage!BytesMeant(q) = n * Usage!Mebi /\ Usage!ParseMemoryValue(q) = n * Usage!Mebi
    BY <1>5 DEF Usage!BytesMeant, Usage!ParseMemoryValue, n
  <2> QED BY <1>1, <1>2, <1>5, <2>1, UnitsAre DEF n
<1>6. CASE q.unit = "Gi"
  <2>1. Usage!BytesMeant(q) = n * Usage!Gibi /\ Usage!ParseMemoryValue(q) = n * Usage!Gibi
    BY <1>6 DEF Usage!BytesMeant, Usage!ParseMemoryValue, n
  <2> QED BY <1>1, <1>2, <1>6, <2>1, UnitsAre DEF n
<1>7. CASE q.unit = "Ti"
  <2>1. Usage!BytesMeant(q) = n * Usage!Tebi /\ Usage!ParseMemoryValue(q) = 0
    BY <1>7 DEF Usage!BytesMeant, Usage!ParseMemoryValue, n
  <2> QED BY <1>1, <1>2, <1>7, <2>1, UnitsAre DEF n
<1> QED BY <1>1, <1>3, <1>4, <1>5, <1>6, <1>7

\* What a server says it uses is a percentage, and never more than is meant.
LEMMA SharesAre ==
  ASSUME NEW o \in Outcomes, o.cpu # None
  PROVE  /\ o.cpu \in Nat /\ o.cpu <= 100 /\ o.disk \in Nat /\ o.disk <= 100
         /\ Usage!RamOf(o) \in Nat /\ Usage!RamOf(o) <= 100
         /\ Share(o) \in Nat /\ Usage!RamOf(o) <= Share(o)
         /\ {o.used.unit, o.total.unit} \subseteq {"Ki", "Mi", "Gi"} => Usage!RamOf(o) = Share(o)
<1> DEFINE U == Usage!BytesMeant(o.used)
           T == Usage!BytesMeant(o.total)
           u == Usage!ParseMemoryValue(o.used)
           t == Usage!ParseMemoryValue(o.total)
<1>1. /\ o.cpu \in 0..100 /\ o.disk \in 0..100
      /\ o.used \in [n : Nat, unit : {"", "Ki", "Mi", "Gi", "Ti"}]
      /\ o.total \in [n : Nat, unit : {"", "Ki", "Mi", "Gi", "Ti"}]
      /\ o.total.n > 0 /\ U <= T
  BY PartsAssumption DEF Usage!UsageAssumption
<1>2. /\ U \in Nat /\ T \in Nat /\ T > 0
      /\ u = IF o.used.unit = "Ti" THEN 0 ELSE U
      /\ t = IF o.total.unit = "Ti" THEN 0 ELSE T
  BY <1>1, MemoryIs
<1>3. Usage!RamOf(o) = IF u <= 0 \/ t <= 0 THEN 0 ELSE (200 * u + t) \div (2 * t)
  BY DEF Usage!RamOf, Usage!RamPercentage
<1>4. Share(o) = (200 * U + T) \div (2 * T)
  BY DEF Share
<1>a. U <= T
  BY <1>1
<1>d. o.cpu \in Nat /\ o.cpu <= 100 /\ o.disk \in Nat /\ o.disk <= 100
  <2>1. \A c \in 0..100 : c \in Nat /\ c <= 100
    OBVIOUS
  <2>2. o.cpu \in 0..100 /\ o.disk \in 0..100
    BY <1>1
  <2> QED BY ONLY <2>1, <2>2
<1> HIDE DEF U, T, u, t
<1> DEFINE x == 200 * U + T
           y == 2 * T
<1>5. x \in Nat /\ y \in Nat /\ y > 0 /\ x < (100 + 1) * y /\ (U = 0 => x < (0 + 1) * y)
  BY <1>a, <1>2
<1>6. x \div y \in Nat /\ x \div y <= 100 /\ (U = 0 => x \div y <= 0)
  <2> HIDE DEF x, y
  <2>1. x \div y \in Nat
    BY <1>5, DivIs
  <2>2. x \div y <= 100
    BY <1>5, DivLeast
  <2>3. U = 0 => x \div y <= 0
    BY <1>5, DivLeast
  <2> QED BY <2>1, <2>2, <2>3
<1>7. CASE u <= 0 \/ t <= 0
  <2>1. Usage!RamOf(o) = 0
    BY <1>3, <1>7
  <2>2. ASSUME {o.used.unit, o.total.unit} \subseteq {"Ki", "Mi", "Gi"} PROVE U = 0
    <3>1. o.used.unit # "Ti" /\ o.total.unit # "Ti"
      BY <2>2
    <3>2. u = U /\ t = T
      BY <1>2, <3>1
    <3> QED BY <1>2, <1>7, <3>2
  <2>3. Share(o) \in Nat /\ (U = 0 => Share(o) = 0)
    <3>1. Share(o) = x \div y
      BY <1>4
    <3> HIDE DEF x, y
    <3> QED BY <1>6, <3>1
  <2> QED BY <1>d, <2>1, <2>2, <2>3
<1>8. CASE ~(u <= 0 \/ t <= 0)
  <2>1. u = U /\ t = T
    BY <1>2, <1>8
  <2>2. Usage!RamOf(o) = x \div y /\ Share(o) = x \div y
    BY <1>3, <1>4, <1>8, <2>1
  <2> HIDE DEF x, y
  <2> QED BY <1>d, <1>6, <2>2
<1> QED BY <1>7, <1>8

\* A mean of values in whole numbers.
LEMMA MeanIs ==
  ASSUME NEW D, IsFiniteSet(D), NEW v \in [D -> Nat]
  PROVE  /\ Usage!Mean(v) \in Nat
         /\ D = {} => Usage!Mean(v) = 0
         /\ D # {} => /\ Usage!Mean(v) * Cardinality(D) <= Usage!SumFunction(v)
                      /\ Usage!SumFunction(v) < (Usage!Mean(v) + 1) * Cardinality(D)
         /\ (\A x \in D : v[x] <= 100) => Usage!Mean(v) <= 100
<1> DEFINE k == Cardinality(D)
           z == Usage!SumFunction(v)
<1>1. DOMAIN v = D
  OBVIOUS
<1>2. Usage!Mean(v) = IF D = {} THEN 0 ELSE z \div k
  BY <1>1 DEF Usage!Mean, Usage!Cardinality, Cardinality
<1>3. k \in Nat /\ (D # {} => k > 0)
  <2>1. k \in Nat /\ (k = 0 <=> D = {})
    BY FS_CardinalityType, FS_EmptySet
  <2> HIDE DEF k
  <2> QED BY <2>1
<1>4. z \in Nat
  BY SumType
<1>5. (\A x \in D : v[x] <= 100) => z <= 100 * k
  BY SumBounded
<1> HIDE DEF k, z
<1>6. ASSUME D # {}
      PROVE  /\ Usage!Mean(v) \in Nat /\ Usage!Mean(v) * k <= z /\ z < (Usage!Mean(v) + 1) * k
             /\ (\A x \in D : v[x] <= 100) => Usage!Mean(v) <= 100
  <2>1. Usage!Mean(v) = z \div k
    BY <1>2, <1>6
  <2>2. z \div k \in Nat /\ (z \div k) * k <= z /\ z < (z \div k + 1) * k
    BY <1>3, <1>4, <1>6, DivIs
  <2>3. z <= 100 * k => z < (100 + 1) * k
    BY <1>3, <1>4, <1>6
  <2>4. z <= 100 * k => z \div k <= 100
    BY <1>3, <1>4, <1>6, <2>3, DivLeast
  <2> QED BY <1>5, <2>1, <2>2, <2>4
<1>7. D = {} => Usage!Mean(v) = 0
  BY <1>2
<1> QED BY <1>6, <1>7 DEF k, z

-------------------------------------------------------------------------------
\* The answers that come over SSH.
Answers == UNION {[s -> Outcomes] : s \in SUBSET Servers}

\* Of finitely many servers some answer, some of those with numbers.
LEMMA AnswersAre ==
  ASSUME NEW a \in Answers
  PROVE  /\ IsFiniteSet(DOMAIN a) /\ IsFiniteSet(Usage!Answered(a)) /\ Usage!Answered(a) \subseteq DOMAIN a
         /\ \A s \in DOMAIN a : a[s] \in Outcomes /\ (s \in Usage!Answered(a) <=> a[s].cpu # None)
<1>1. PICK d \in SUBSET Servers : a \in [d -> Outcomes]
  BY DEF Answers
<1>2. IsFiniteSet(Servers)
  <2>1. Usage!IsFiniteSet(Servers)
    BY PartsAssumption DEF Usage!UsageAssumption
  <2> QED BY <2>1 DEF IsFiniteSet, Usage!IsFiniteSet
<1>3. DOMAIN a = d /\ Usage!Answered(a) \subseteq d
  BY <1>1 DEF Usage!Answered
<1> QED BY <1>1, <1>2, <1>3, FS_Subset DEF Usage!Answered

\* An average over the answers is a result, and what it is of those with numbers.
LEMMA AverageIs ==
  ASSUME NEW a \in Answers
  PROVE  LET r == Usage!CalculateAverageResourceUsage(a)
             ok == Usage!Answered(a)
             k == Cardinality(ok)
             cpu == Usage!SumFunction([s \in ok |-> a[s].cpu])
             ram == Usage!SumFunction([s \in ok |-> Share(a[s])])
         IN /\ r \in Results /\ Within(r) /\ r.cpuTotal = 0 /\ k \in Nat
            /\ ok = {} => r = Usage!Nothing
            /\ ok # {} =>
                 /\ r.cpu * k <= cpu /\ cpu < (r.cpu + 1) * k
                 /\ r.ram * k <= ram
                 /\ (\A s \in DOMAIN a : s \in ok /\ {a[s].used.unit, a[s].total.unit} \subseteq {"Ki", "Mi", "Gi"})
                      => ram < (r.ram + 1) * k
            /\ Usage!DiskMean(a) \in Nat
<1> DEFINE D == DOMAIN a
           ok == Usage!Answered(a)
           k == Cardinality(ok)
           d == Cardinality(D)
           c == [s \in ok |-> a[s].cpu]
           w == [s \in ok |-> Share(a[s])]
           x == [s \in ok |-> Usage!RamOf(a[s])]
           y == [s \in D |-> Usage!RamOf(a[s])]
           z == [s \in ok |-> a[s].disk]
           r == Usage!CalculateAverageResourceUsage(a)
<1>1. /\ IsFiniteSet(D) /\ IsFiniteSet(ok) /\ ok \subseteq D
      /\ \A s \in D : a[s] \in Outcomes /\ (s \in ok <=> a[s].cpu # None)
  BY AnswersAre
<1>2. ASSUME NEW s \in ok
      PROVE  /\ a[s].cpu \in Nat /\ a[s].cpu <= 100 /\ a[s].disk \in Nat /\ a[s].disk <= 100
             /\ Usage!RamOf(a[s]) \in Nat /\ Usage!RamOf(a[s]) <= 100
             /\ Share(a[s]) \in Nat /\ Usage!RamOf(a[s]) <= Share(a[s])
             /\ {a[s].used.unit, a[s].total.unit} \subseteq {"Ki", "Mi", "Gi"} => Usage!RamOf(a[s]) = Share(a[s])
  BY <1>1, SharesAre
<1>3. \A s \in D \ ok : Usage!RamOf(a[s]) = 0
  BY <1>1 DEF Usage!RamOf
<1>4. /\ c \in [ok -> Nat] /\ w \in [ok -> Nat] /\ x \in [ok -> Nat] /\ z \in [ok -> Nat]
      /\ (\A s \in ok : c[s] <= 100) /\ (\A s \in ok : x[s] <= w[s])
  BY <1>2
<1>5. y \in [D -> Nat] /\ (\A s \in D : y[s] <= 100) /\ (\A s \in ok : x[s] = y[s]) /\ (\A s \in D \ ok : y[s] = 0)
  <2>1. \A s \in D : Usage!RamOf(a[s]) \in Nat /\ Usage!RamOf(a[s]) <= 100
    BY <1>2, <1>3
  <2> QED BY <1>1, <1>3, <2>1
<1>6. r = [Usage!Nothing EXCEPT !.cpu = Usage!Mean(c), !.ram = Usage!Mean(y), !.disk = Usage!Mean(z)]
  BY DEF Usage!CalculateAverageResourceUsage, Usage!DiskMean
<1>7. Usage!DiskMean(a) = Usage!Mean(z)
  BY DEF Usage!DiskMean
<1>8. (\A s \in D : s \in ok /\ {a[s].used.unit, a[s].total.unit} \subseteq {"Ki", "Mi", "Gi"})
        => D = ok /\ x = w
  BY <1>1, <1>2
<1> DEFINE cpu == Usage!SumFunction(c)
           ram == Usage!SumFunction(w)
           some == Usage!SumFunction(x)
           all == Usage!SumFunction(y)
           p == Usage!Mean(c)
           q == Usage!Mean(y)
           m == Usage!Mean(z)
<1> HIDE DEF c, w, x, y, z, D, ok, r
<1>9. /\ cpu \in Nat /\ ram \in Nat /\ some \in Nat /\ all \in Nat
  BY <1>1, <1>4, <1>5, SumType
<1>10. some <= ram
  BY <1>1, <1>4, SumGrows
<1>11. all = some
  <2>1. IsFiniteSet(D) /\ y \in [D -> Nat] /\ ok \subseteq D /\ x \in [ok -> Nat]
    BY <1>1, <1>4, <1>5
  <2>2. (\A s \in ok : x[s] = y[s]) /\ (\A s \in D \ ok : y[s] = 0)
    BY <1>5
  <2>3. Usage!SumFunction(y) = Usage!SumFunction(x)
    BY ONLY <2>1, <2>2, SumOfSome
  <2> QED BY <2>3
<1>12. k \in Nat /\ d \in Nat /\ k <= d /\ (ok # {} => k > 0) /\ (D # {} => d > 0)
  <2>1. k \in Nat /\ d \in Nat /\ (k = 0 <=> ok = {}) /\ (d = 0 <=> D = {})
    BY <1>1, FS_CardinalityType, FS_EmptySet
  <2>2. k <= d
    BY <1>1, FS_Subset
  <2> HIDE DEF k, d
  <2> QED BY <2>1, <2>2
<1>13. /\ p \in Nat /\ p <= 100 /\ (ok = {} => p = 0)
       /\ ok # {} => p * k <= cpu /\ cpu < (p + 1) * k
  BY <1>1, <1>4, MeanIs
<1>14. /\ q \in Nat /\ q <= 100
       /\ D # {} => q * d <= all /\ all < (q + 1) * d
       /\ D = {} => q = 0
  BY <1>1, <1>5, MeanIs
<1>15. m \in Nat /\ (ok = {} => m = 0)
  BY <1>1, <1>4, MeanIs
<1>16. ok = {} => q = 0
  <2> SUFFICES ASSUME ok = {}, D # {} PROVE q = 0
    BY <1>14
  <2>1. some = 0
    BY <1>1, <1>4, SumType
  <2>2. q * d <= 0 /\ d > 0
    BY <1>11, <1>12, <1>14, <2>1
  <2> HIDE DEF q, d
  <2>3. SUFFICES ASSUME 1 <= q PROVE FALSE
    BY <1>14
  <2>4. 1 * d <= q * d
    BY <1>12, <1>14, <2>3, Products
  <2>5. 1 * d = d /\ q * d \in Nat
    BY <1>12, <1>14
  <2> QED BY <1>12, <2>2, <2>4, <2>5
<1>17. ok # {} => q * k <= ram
  <2> SUFFICES ASSUME ok # {} PROVE q * k <= ram
    OBVIOUS
  <2>1. q * d <= all
    BY <1>1, <1>14
  <2>2. k * q <= d * q
    BY <1>12, <1>14, Products
  <2> HIDE DEF q, k, d, all, some, ram
  <2>3. k * q = q * k /\ d * q = q * d /\ q * k \in Nat /\ q * d \in Nat
    BY <1>12, <1>14
  <2> QED BY <1>9, <1>10, <1>11, <2>1, <2>2, <2>3
<1>18. ok # {} /\ D = ok /\ x = w => ram < (q + 1) * k
  BY <1>11, <1>14
<1>19. r.cpu = p /\ r.ram = q /\ r.cpuTotal = 0
  BY <1>6 DEF Usage!Nothing
<1>20. r \in Results /\ Within(r)
  <2>1. r = [cpu |-> p, ram |-> q, disk |-> m, cpuUsed |-> 0, cpuTotal |-> 0, ramUsed |-> 0, ramTotal |-> 0]
    BY <1>6 DEF Usage!Nothing
  <2>2. p \in 0..100 /\ q \in 0..100 /\ m \in Nat
    BY <1>13, <1>14, <1>15
  <2> HIDE DEF p, q, m
  <2> QED BY <2>1, <2>2 DEF Results, Within
<1>21. ok = {} => r = Usage!Nothing
  <2> SUFFICES ASSUME ok = {} PROVE r = Usage!Nothing
    OBVIOUS
  <2>1. p = 0 /\ q = 0 /\ m = 0
    BY <1>13, <1>15, <1>16
  <2> QED BY <1>6, <2>1 DEF Usage!Nothing
<1>22. /\ cpu = Usage!SumFunction([s \in ok |-> a[s].cpu])
       /\ ram = Usage!SumFunction([s \in ok |-> Share(a[s])])
  BY DEF c, w
<1>23. Usage!DiskMean(a) \in Nat
  BY <1>7, <1>15
<1> HIDE DEF p, q, m, cpu, ram, some, all, k, d
<1>24. ok # {} => r.cpu * k <= cpu /\ cpu < (r.cpu + 1) * k /\ r.ram * k <= ram
  BY <1>13, <1>17, <1>19
<1>25. (\A s \in D : s \in ok /\ {a[s].used.unit, a[s].total.unit} \subseteq {"Ki", "Mi", "Gi"})
         => (ok # {} => ram < (r.ram + 1) * k)
  BY <1>8, <1>18, <1>19
<1> QED BY <1>12, <1>19, <1>20, <1>21, <1>22, <1>23, <1>24, <1>25 DEF r, ok, k, D

-------------------------------------------------------------------------------
\* The request for the usage, and the cluster under it.

\* The steps of a request.
Steps == {"idle", "metrics", "nodes", "disks", "servers", "answered"}
Asks == [step : Steps, seen : [Nodes -> Uses \cup {Absent}], answers : Answers, result : Results]

\* A result is nothing yet, or of nodes that have some cores, or the average of the
\* answers that are kept with it.
AskOK(q) ==
  /\ q \in Asks
  /\ \A m \in Nodes : q.seen[m] # Absent => Fits(m, q.seen[m])
  /\ Within(q.result)
  /\ q.step \in {"idle", "metrics", "nodes"} => q.result = Usage!Nothing
  /\ q.step = "disks" => q.result.cpuTotal > 0
  /\ \/ q.result = Usage!Nothing \/ q.result.cpuTotal > 0
     \/ q.step = "answered" /\ q.result = Usage!CalculateAverageResourceUsage(q.answers)

\* The inductive invariant of the usage.
UsageIInv ==
  /\ nodes \subseteq Nodes
  /\ metrics \in [Nodes -> Uses \cup {Absent}]
  /\ \A m \in Nodes : metrics[m] # Absent => Fits(m, metrics[m])
  /\ AskOK(ask)

\* A request begins with nothing, and so does one that starts over.
LEMMA StartOK ==
  /\ AskOK(Usage!Start) /\ Usage!Nothing \in Results /\ Within(Usage!Nothing)
  /\ \A step \in Steps \ {"disks"} : AskOK([Usage!Start EXCEPT !.step = step])
                         /\ [Usage!Start EXCEPT !.step = step].result = Usage!Nothing
<1>1. Usage!Nothing \in Results /\ Within(Usage!Nothing)
  <2>1. 0 \in 0..100 /\ 0 \in Nat /\ 0 <= 0
    OBVIOUS
  <2> QED BY <2>1 DEF Results, Within, Usage!Nothing
<1>2. [s \in {} |-> None] \in Answers
  <2>1. [s \in {} |-> None] \in [{} -> Outcomes] /\ {} \in SUBSET Servers
    OBVIOUS
  <2> QED BY <2>1 DEF Answers
<1>3. \A step \in Steps \ {"disks"} : [Usage!Start EXCEPT !.step = step] =
        [step |-> step, seen |-> [m \in Nodes |-> Absent], answers |-> [s \in {} |-> None],
         result |-> Usage!Nothing]
  BY DEF Usage!Start
<1>4. ASSUME NEW step \in Steps \ {"disks"}
      PROVE  AskOK([step |-> step, seen |-> [m \in Nodes |-> Absent], answers |-> [s \in {} |-> None],
                    result |-> Usage!Nothing])
  <2>1. [m \in Nodes |-> Absent] \in [Nodes -> Uses \cup {Absent}]
    OBVIOUS
  <2> QED BY <1>1, <1>2, <2>1 DEF AskOK, Asks
<1>5. Usage!Start = [step |-> "idle", seen |-> [m \in Nodes |-> Absent], answers |-> [s \in {} |-> None],
                     result |-> Usage!Nothing]
  BY DEF Usage!Start
<1>6. "idle" \in Steps \ {"disks"}
  BY DEF Steps
<1> QED BY <1>1, <1>3, <1>4, <1>5, <1>6

\* No request is under way, and nothing is measured.
LEMMA UsageBegins == Usage!UsageInit => UsageIInv
BY StartOK DEF Usage!UsageInit, UsageIInv

\* The nodes of the cluster, and what is measured of them.
LEMMA NodeKeeps ==
  ASSUME UsageIInv, NEW m \in Nodes,
         Usage!NodeJoins(m) \/ Usage!NodeLeaves(m) \/ Usage!NodeMeasured(m) \/ Usage!NodeForgotten(m)
  PROVE  UsageIInv' /\ ask' = ask
<1>1. ask' = ask /\ nodes' \subseteq Nodes
  BY DEF Usage!NodeJoins, Usage!NodeLeaves, Usage!NodeMeasured, Usage!NodeForgotten, UsageIInv
<1>2. /\ metrics' \in [Nodes -> Uses \cup {Absent}]
      /\ \A j \in Nodes : metrics'[j] # Absent => Fits(j, metrics'[j])
  <2>1. CASE Usage!NodeJoins(m) \/ Usage!NodeLeaves(m)
    BY <2>1 DEF Usage!NodeJoins, Usage!NodeLeaves, UsageIInv
  <2>2. CASE Usage!NodeMeasured(m)
    <3>1. PICK u \in Uses :
            /\ Usage!NanoCoresMeant(u.cpu) <= Usage!NanoCoresMeant(SizeOf[m].cpu)
            /\ u.cpu.n = 0 \/ u.cpu.n > PlainCores
            /\ Usage!BytesMeant(u.memory) <= Usage!BytesMeant(SizeOf[m].memory)
            /\ metrics' = [metrics EXCEPT ![m] = u]
      BY <2>2 DEF Usage!NodeMeasured
    <3>2. Fits(m, u)
      BY <3>1 DEF Fits
    <3> QED BY <3>1, <3>2 DEF UsageIInv
  <2>3. CASE Usage!NodeForgotten(m)
    BY <2>3 DEF Usage!NodeForgotten, UsageIInv
  <2> QED BY <2>1, <2>2, <2>3
<1>3. AskOK(ask')
  BY <1>1 DEF UsageIInv
<1>4. \A j, u : Fits(j, u)' <=> Fits(j, u)
  BY DEF Fits
<1> QED BY <1>1, <1>2, <1>3 DEF UsageIInv

\* What GetNodes makes of the metrics: a result of the nodes that are still there.
LEMMA SummedOK ==
  ASSUME UsageIInv, ask.step = "nodes"
  PROVE  LET r == Usage!CalculateClusterResourceUsageFromMetrics IN
         /\ r \in Results /\ Within(r)
         /\ r = Usage!Nothing \/ r.cpuTotal > 0
         /\ r.cpuUsed * r.cpuTotal > 0 \/ r.ramUsed * r.ramTotal > 0 => r.cpuTotal > 0
         /\ r.cpu = Usage!Percent(Usage!SumFunction([m \in Usage!CountedNodes |-> Usage!NanoCoresMeant(ask.seen[m].cpu)]),
                                  Usage!SumFunction([m \in Usage!CountedNodes |-> Usage!NanoCoresMeant(SizeOf[m].cpu)]))
         /\ r.ram = Usage!Percent(Usage!SumFunction([m \in Usage!CountedNodes |-> Usage!BytesMeant(ask.seen[m].memory)]),
                                  Usage!SumFunction([m \in Usage!CountedNodes |-> Usage!BytesMeant(SizeOf[m].memory)]))
<1> DEFINE S == Usage!Reported \cap nodes
           r == Usage!ResultOver(S, S)
<1>1. S \subseteq Nodes /\ \A m \in S : Fits(m, ask.seen[m])
  BY DEF UsageIInv, AskOK, Usage!Reported
<1>2. Usage!CalculateClusterResourceUsageFromMetrics = r
  BY DEF Usage!CalculateClusterResourceUsageFromMetrics
<1>3. S = Usage!CountedNodes
  BY DEF Usage!Reported, Usage!CountedNodes, UsageIInv
<1> HIDE DEF S
<1>4. /\ r \in Results /\ Within(r)
      /\ S = {} => r = Usage!Nothing
      /\ S # {} => r.cpuTotal > 0
      /\ r.cpu = Usage!Percent(Usage!SumFunction([m \in S |-> Usage!NanoCoresMeant(ask.seen[m].cpu)]),
                               Usage!SumFunction([m \in S |-> Usage!NanoCoresMeant(SizeOf[m].cpu)]))
      /\ r.ram = Usage!Percent(Usage!SumFunction([m \in S |-> Usage!BytesMeant(ask.seen[m].memory)]),
                               Usage!SumFunction([m \in S |-> Usage!BytesMeant(SizeOf[m].memory)]))
  BY <1>1, ResultIs
<1> HIDE DEF r
<1>5. r = Usage!Nothing => ~(r.cpuUsed * r.cpuTotal > 0 \/ r.ramUsed * r.ramTotal > 0)
  <2>1. r = Usage!Nothing => r.cpuUsed = 0 /\ r.cpuTotal = 0 /\ r.ramUsed = 0 /\ r.ramTotal = 0
    BY DEF Usage!Nothing
  <2>2. 0 * 0 = 0 /\ ~(0 > 0)
    OBVIOUS
  <2> QED BY <2>1, <2>2
<1> QED BY <1>2, <1>3, <1>4, <1>5

\* The steps of a request keep what it has read and its result sound.
LEMMA AskKeeps ==
  ASSUME UsageIInv,
         \/ Usage!ListNodes \/ Usage!ListFails \/ Usage!GetNodeMetrics \/ Usage!MetricsFail
         \/ Usage!GetNodes \/ Usage!GetDiskUsageFromSSH \/ Usage!FallBackToSSH \/ Usage!Answer
  PROVE  AskOK(ask') /\ UNCHANGED <<nodes, metrics>>
<1>1. UNCHANGED <<nodes, metrics>>
  BY DEF Usage!ListNodes, Usage!ListFails, Usage!GetNodeMetrics, Usage!MetricsFail,
         Usage!GetNodes, Usage!GetDiskUsageFromSSH, Usage!FallBackToSSH, Usage!Answer
<1>2. /\ ask \in Asks /\ (\A m \in Nodes : ask.seen[m] # Absent => Fits(m, ask.seen[m]))
      /\ Within(ask.result) /\ AskOK(ask)
  BY DEF UsageIInv, AskOK
<1>3. CASE Usage!ListNodes \/ Usage!ListFails \/ Usage!MetricsFail
  <2>1. \E step \in Steps \ {"disks"} : ask' = [Usage!Start EXCEPT !.step = step]
    BY <1>3 DEF Usage!ListNodes, Usage!ListFails, Usage!MetricsFail, Steps
  <2> QED BY <1>1, <2>1, StartOK
<1>4. CASE Usage!Answer
  BY <1>1, <1>4, StartOK DEF Usage!Answer
<1>5. CASE Usage!GetNodeMetrics
  <2>1. PICK step \in {"nodes", "servers"} : ask' = [ask EXCEPT !.seen = metrics, !.step = step]
    BY <1>5 DEF Usage!GetNodeMetrics
  <2>2. ask.result = Usage!Nothing
    BY <1>2, <1>5 DEF Usage!GetNodeMetrics, AskOK
  <2>3. ask' \in Asks /\ ask'.seen = metrics /\ ask'.result = Usage!Nothing /\ ask'.step # "disks"
    BY <1>2, <2>1, <2>2 DEF Asks, Steps, UsageIInv
  <2> QED BY <1>1, <2>3, StartOK DEF AskOK, UsageIInv
<1>6. CASE Usage!GetNodes
  <2> DEFINE r == Usage!CalculateClusterResourceUsageFromMetrics
  <2>1. /\ ask.step = "nodes"
        /\ ask' = [ask EXCEPT !.result = r, !.seen = Usage!Start.seen,
                     !.step = IF r.cpuUsed * r.cpuTotal > 0 \/ r.ramUsed * r.ramTotal > 0
                                THEN "disks" ELSE "servers"]
    BY <1>6 DEF Usage!GetNodes
  <2>2. /\ r \in Results /\ Within(r) /\ (r = Usage!Nothing \/ r.cpuTotal > 0)
    BY <2>1, SummedOK
  <2>3. Usage!Start.seen = [m \in Nodes |-> Absent]
    BY DEF Usage!Start
  <2> HIDE DEF r
  <2>4. PICK step \in {"disks", "servers"} : ask' = [ask EXCEPT !.result = r, !.seen = [m \in Nodes |-> Absent], !.step = step]
    BY <2>1, <2>3
  <2>5. ask' \in Asks /\ ask'.result = r /\ ask'.step \in {"disks", "servers"} /\ \A m \in Nodes : ask'.seen[m] = Absent
    BY <1>2, <2>2, <2>4 DEF Asks, Steps
  <2>6. ask'.step = "disks" => r.cpuTotal > 0
    <3>1. r.cpuUsed * r.cpuTotal > 0 \/ r.ramUsed * r.ramTotal > 0 => r.cpuTotal > 0
      BY <2>1, SummedOK DEF r
    <3>2. ask \in Asks
      BY <1>2
    <3>3. ask'.step = "disks" => r.cpuUsed * r.cpuTotal > 0 \/ r.ramUsed * r.ramTotal > 0
      BY <2>1, <3>2 DEF Asks
    <3> QED BY <3>1, <3>3
  <2> QED BY <1>1, <2>2, <2>5, <2>6 DEF AskOK
<1>7. CASE Usage!GetDiskUsageFromSSH
  <2>1. PICK a \in Usage!Polled(SampledDisks) :
          ask' = [ask EXCEPT !.step = "answered", !.answers = a, !.result.disk = Usage!DiskMean(a)]
    BY <1>7 DEF Usage!GetDiskUsageFromSSH
  <2>2. a \in Answers
    BY DEF Usage!Polled, Answers
  <2>3. Usage!DiskMean(a) \in Nat
    BY <2>2, AverageIs
  <2>4. ask.step = "disks" /\ ask.result.cpuTotal > 0
    BY <1>2, <1>7 DEF Usage!GetDiskUsageFromSSH, AskOK
  <2> DEFINE d == Usage!DiskMean(a)
             r == [ask.result EXCEPT !.disk = d]
  <2> HIDE DEF d
  <2>5. ask.result \in Results /\ d \in Nat
    BY <1>2, <2>3 DEF Asks, d
  <2>6. r \in Results /\ Within(r) /\ r.cpuTotal = ask.result.cpuTotal
    BY <1>2, <2>5 DEF Results, Within
  <2>7. ask' = [ask EXCEPT !.step = "answered", !.answers = a, !.result = r]
    BY <1>2, <2>1 DEF d, Asks
  <2> HIDE DEF r
  <2>8. ask' \in Asks /\ ask'.result = r /\ ask'.step = "answered" /\ ask'.seen = ask.seen
    BY <1>2, <2>2, <2>6, <2>7 DEF Asks, Steps
  <2> QED BY <1>1, <1>2, <2>4, <2>6, <2>8 DEF AskOK
<1>8. CASE Usage!FallBackToSSH
  <2>1. PICK a \in Usage!Polled(Sampled) :
       ask' = [ask EXCEPT !.step = "answered", !.answers = a,
                 !.result = IF DOMAIN a = {} THEN @ ELSE Usage!CalculateAverageResourceUsage(a)]
    BY <1>8 DEF Usage!FallBackToSSH
  <2>2. a \in Answers
    BY DEF Usage!Polled, Answers
  <2> DEFINE r == Usage!CalculateAverageResourceUsage(a)
  <2>3. r \in Results /\ Within(r)
    BY <2>2, AverageIs
  <2>4. ask.step = "servers"
    BY <1>8 DEF Usage!FallBackToSSH
  <2>5. ask.result = Usage!Nothing \/ ask.result.cpuTotal > 0
    BY <1>2, <2>4 DEF AskOK
  <2> HIDE DEF r
  <2>6. PICK x \in {ask.result, r} : /\ ask' = [ask EXCEPT !.step = "answered", !.answers = a, !.result = x]
                                     /\ x = ask.result \/ x = r
    BY <2>1 DEF r
  <2>7. ask' \in Asks /\ ask'.result = x /\ ask'.step = "answered" /\ ask'.answers = a /\ ask'.seen = ask.seen
    BY <1>2, <2>2, <2>3, <2>6 DEF Asks, Steps
  <2>8. Within(x)
    BY <1>2, <2>3
  <2>9. x = Usage!Nothing \/ x.cpuTotal > 0 \/ x = Usage!CalculateAverageResourceUsage(ask'.answers)
    BY <2>5, <2>6, <2>7 DEF r
  <2> QED BY <1>1, <1>2, <2>7, <2>8, <2>9 DEF AskOK
<1> QED BY <1>3, <1>4, <1>5, <1>6, <1>7, <1>8

-------------------------------------------------------------------------------
\* What the nodes have does not change, and neither does what fits them.
LEMMA UsageStays ==
  ASSUME UsageIInv, AskOK(ask'), UNCHANGED <<nodes, metrics>>
  PROVE  UsageIInv'
<1>1. \A j, u : Fits(j, u)' <=> Fits(j, u)
  BY DEF Fits
<1> QED BY <1>1 DEF UsageIInv

\* A step of the cluster or of the request keeps the invariant.
LEMMA UsageStep ==
  ASSUME UsageIInv, Usage!UsageNext
  PROVE  UsageIInv'
<1>1. ASSUME NEW m \in Nodes,
             Usage!NodeJoins(m) \/ Usage!NodeLeaves(m) \/ Usage!NodeMeasured(m) \/ Usage!NodeForgotten(m)
      PROVE  UsageIInv'
  BY <1>1, NodeKeeps
<1>2. ASSUME \/ Usage!ListNodes \/ Usage!ListFails \/ Usage!GetNodeMetrics \/ Usage!MetricsFail
             \/ Usage!GetNodes \/ Usage!GetDiskUsageFromSSH \/ Usage!FallBackToSSH \/ Usage!Answer
      PROVE  UsageIInv'
  <2>1. AskOK(ask') /\ UNCHANGED <<nodes, metrics>>
    BY <1>2, AskKeeps
  <2> QED BY <2>1, UsageStays
<1> QED BY <1>1, <1>2 DEF Usage!UsageNext

\* What the invariant says of a state.
LEMMA UsageMeans ==
  ASSUME UsageIInv
  PROVE  Usage!UsageTypeOK /\ Usage!UsedIsWithinTotal /\ Usage!AverageIsTrue
<1>1. Usage!UsageTypeOK
  BY DEF UsageIInv, AskOK, Asks, Steps, Results, Usage!UsageTypeOK
<1>2. Usage!UsedIsWithinTotal
  BY DEF UsageIInv, AskOK, Within, Usage!UsedIsWithinTotal
<1>3. ASSUME ask.step = "answered", ask.result # Usage!Nothing, ask.result.cpuTotal = 0
      PROVE  Usage!AverageIsTrue
  <2> DEFINE a == ask.answers
             ok == Usage!Answered(a)
  <2>1. a \in Answers /\ ask.result = Usage!CalculateAverageResourceUsage(a)
    <3>1. AskOK(ask)
      BY DEF UsageIInv
    <3>2. ~(0 > 0)
      OBVIOUS
    <3> QED BY <1>3, <3>1, <3>2 DEF AskOK, Asks
  <2>2. ok # {}
    BY <1>3, <2>1, AverageIs
  <2>3. Usage!Cardinality(ok) = Cardinality(ok)
    BY DEF Usage!Cardinality, Cardinality
  <2>4. /\ ask.result.cpu * Cardinality(ok) <= Usage!SumFunction([s \in ok |-> a[s].cpu])
        /\ Usage!SumFunction([s \in ok |-> a[s].cpu]) < (ask.result.cpu + 1) * Cardinality(ok)
        /\ ask.result.ram * Cardinality(ok) <= Usage!SumFunction([s \in ok |-> Share(a[s])])
        /\ (\A s \in DOMAIN a : s \in ok /\ {a[s].used.unit, a[s].total.unit} \subseteq {"Ki", "Mi", "Gi"})
             => Usage!SumFunction([s \in ok |-> Share(a[s])]) < (ask.result.ram + 1) * Cardinality(ok)
    BY <2>1, <2>2, AverageIs
  <2> QED BY <2>3, <2>4 DEF Usage!AverageIsTrue, Share
<1>4. Usage!AverageIsTrue
  <2>1. CASE ask.step = "answered" /\ ask.result # Usage!Nothing /\ ask.result.cpuTotal = 0
    BY <1>3, <2>1
  <2>2. CASE ~(ask.step = "answered" /\ ask.result # Usage!Nothing /\ ask.result.cpuTotal = 0)
    BY <2>2 DEF Usage!AverageIsTrue
  <2> QED BY <2>1, <2>2
<1> QED BY <1>1, <1>2, <1>4

\* A result that a step makes from the metrics.
SummedUp ==
  ask.step = "nodes" /\ ask'.result # Usage!Nothing =>
    /\ ask'.result.cpu =
         Usage!Percent(Usage!SumFunction([n \in Usage!CountedNodes |-> Usage!NanoCoresMeant(ask.seen[n].cpu)]),
                       Usage!SumFunction([n \in Usage!CountedNodes |-> Usage!NanoCoresMeant(SizeOf[n].cpu)]))
    /\ ask'.result.ram =
         Usage!Percent(Usage!SumFunction([n \in Usage!CountedNodes |-> Usage!BytesMeant(ask.seen[n].memory)]),
                       Usage!SumFunction([n \in Usage!CountedNodes |-> Usage!BytesMeant(SizeOf[n].memory)]))

\* A step from "nodes" that makes a result makes the one that is meant.
LEMMA SummedStep ==
  ASSUME UsageIInv, Usage!UsageNext \/ UNCHANGED ask
  PROVE  SummedUp
<1> SUFFICES ASSUME ask.step = "nodes", ask'.result # Usage!Nothing PROVE SummedUp
  BY DEF SummedUp
<1>1. ask \in Asks /\ ask.result = Usage!Nothing
  BY DEF UsageIInv, AskOK
<1>2. ask' # ask
  BY <1>1
<1>3. Usage!UsageNext
  BY <1>2
<1>4. \A m \in Nodes : ~(Usage!NodeJoins(m) \/ Usage!NodeLeaves(m) \/ Usage!NodeMeasured(m)
                           \/ Usage!NodeForgotten(m))
  BY <1>2, NodeKeeps
<1>5. Usage!GetNodes \/ Usage!MetricsFail
  BY <1>3, <1>4 DEF Usage!UsageNext, Usage!ListNodes, Usage!ListFails, Usage!GetNodeMetrics,
       Usage!GetDiskUsageFromSSH, Usage!FallBackToSSH, Usage!Answer
<1>6. ~ Usage!MetricsFail
  <2>1. [Usage!Start EXCEPT !.step = "servers"].result = Usage!Nothing
    BY DEF Usage!Start
  <2> QED BY <2>1 DEF Usage!MetricsFail
<1> DEFINE r == Usage!CalculateClusterResourceUsageFromMetrics
<1>7. ask'.result = r
  <2>1. ask' = [ask EXCEPT !.result = r, !.seen = Usage!Start.seen,
                  !.step = IF r.cpuUsed * r.cpuTotal > 0 \/ r.ramUsed * r.ramTotal > 0
                             THEN "disks" ELSE "servers"]
    BY <1>5, <1>6 DEF Usage!GetNodes
  <2> HIDE DEF r
  <2> QED BY <1>1, <2>1 DEF Asks
<1>8. /\ r.cpu = Usage!Percent(Usage!SumFunction([m \in Usage!CountedNodes |-> Usage!NanoCoresMeant(ask.seen[m].cpu)]),
                               Usage!SumFunction([m \in Usage!CountedNodes |-> Usage!NanoCoresMeant(SizeOf[m].cpu)]))
      /\ r.ram = Usage!Percent(Usage!SumFunction([m \in Usage!CountedNodes |-> Usage!BytesMeant(ask.seen[m].memory)]),
                               Usage!SumFunction([m \in Usage!CountedNodes |-> Usage!BytesMeant(SizeOf[m].memory)]))
  BY SummedOK
<1> HIDE DEF r
<1> QED BY <1>7, <1>8 DEF SummedUp

-------------------------------------------------------------------------------
\* The parts together.

\* The part that is looked at keeps its invariant, the others stay as they begin.
PartsIInv ==
  /\ AccountIInv
  /\ part = "single requests" => SerialAccountIInv
  /\ NamesIInv
  /\ UsageIInv

\* What a step does to each part, and which part another run of requests is in.
PartSteps ==
  /\ part' = part
  /\ [AccountNext]_accountVars
  /\ part = "single requests" => SerialNext
  /\ Names!NameNext \/ UNCHANGED <<accounts, apps>>
  /\ Usage!UsageNext \/ UNCHANGED <<nodes, metrics, ask>>

\* Requests that come one at a time step alone.
LEMMA OneRequestSerial == OneRequestNext => SerialNext
<1>1. ASSUME NEW t \in Threads, \A u \in Threads \ {t} : req[u] = Idle PROVE Alone(t)
  BY <1>1, IdleCarries DEF Alone
<1> QED BY <1>1 DEF OneRequestNext, SerialNext

\* A step of the instance is a step of one part, or of none.
LEMMA PartsTake == [Next]_vars => PartSteps
<1>1. CASE part = "overlapping requests" /\ AccountNext
           /\ UNCHANGED <<part, accounts, apps, nodes, metrics, ask>>
  BY <1>1 DEF PartSteps
<1>2. CASE part = "single requests" /\ OneRequestNext
           /\ UNCHANGED <<part, accounts, apps, nodes, metrics, ask>>
  BY <1>2, OneRequestSerial, SerialSteps DEF PartSteps
<1>3. CASE part = "names" /\ Names!NameNext /\ UNCHANGED <<part, accountVars, nodes, metrics, ask>>
  BY <1>3 DEF PartSteps
<1>4. CASE part = "usage" /\ Usage!UsageNext /\ UNCHANGED <<part, accountVars, accounts, apps>>
  BY <1>4 DEF PartSteps
<1>5. CASE UNCHANGED vars
  BY <1>5 DEF PartSteps, vars, SerialNext
<1> QED BY <1>1, <1>2, <1>3, <1>4, <1>5 DEF Next

\* Every part begins in its invariant.
LEMMA PartsBegin == Init => PartsIInv
BY InitHolds, SerialInit, NamesBegin, UsageBegins DEF Init, PartsIInv

\* A step keeps the invariant of every part.
LEMMA PartsKeep == PartsIInv /\ [Next]_vars => PartsIInv'
<1> SUFFICES ASSUME PartsIInv, [Next]_vars PROVE PartsIInv'
  OBVIOUS
<1>1. PartSteps
  BY PartsTake
<1>2. AccountIInv'
  BY <1>1, StepKeeps DEF PartsIInv, PartSteps
<1>3. part' = "single requests" => SerialAccountIInv'
  BY <1>1, SerialStep DEF PartsIInv, PartSteps
<1>4. NamesIInv'
  <2>1. CASE Names!NameNext
    BY <2>1, NamesStep DEF PartsIInv
  <2>2. CASE UNCHANGED <<accounts, apps>>
    BY <2>2 DEF PartsIInv, NamesIInv, IsApp
  <2> QED BY <1>1, <2>1, <2>2 DEF PartSteps
<1>5. UsageIInv'
  <2>1. CASE Usage!UsageNext
    BY <2>1, UsageStep DEF PartsIInv
  <2>2. CASE UNCHANGED <<nodes, metrics, ask>>
    <3>1. AskOK(ask')
      BY <2>2 DEF PartsIInv, UsageIInv
    <3> QED BY <2>2, <3>1, UsageStays DEF PartsIInv
  <2> QED BY <1>1, <2>1, <2>2 DEF PartSteps
<1> QED BY <1>2, <1>3, <1>4, <1>5 DEF PartsIInv

\* The inductive invariant of the parts, whichever is looked at.
THEOREM PartsInvariance == Spec => []PartsIInv
BY PartsBegin, PartsKeep, PTL DEF Spec

\* Every variable keeps its type: accounts and sessions (UserService, AuthController), the
\* names that are typed (AdminController), and the usage and its percentages
\* (ClusterAdminController.getOverviewResourceUsage).
THEOREM PartsTypeCorrect == Spec => []PartsTypeOK
<1>1. PartsIInv => PartsTypeOK
  BY NamesTyped, UsageMeans DEF PartsIInv, PartsTypeOK, AccountIInv
<1> QED BY <1>1, PartsInvariance, PTL

\* Whatever is typed, of any length, and however many register: Kubernetes takes the
\* namespace (AdminController.sanitizeUserNamespace), two accounts share one only when
\* their names look alike, and no two applications get one Deployment's name.
THEOREM NamesAlwaysHold == Spec => []NamesHold
<1>1. PartsIInv => NamesHold
  BY NamesMean DEF PartsIInv
<1> QED BY <1>1, PartsInvariance, PTL

\* Where requests come one at a time an account changes in nothing but what one asked for,
\* and the end of a session is entered for its own account (UserService.updateUser,
\* resetPassword, AuthController.logout).
THEOREM AlwaysServedAsAsked == Spec => ServedAsAsked
<1>1. PartsIInv /\ [Next]_vars => [part = "single requests" => OnlyTheAsked /\ OwnLogout]_vars
  BY PartsTake, AskedStep, OwnStep DEF PartsIInv, PartSteps
<1> QED BY <1>1, PartsInvariance, PTL DEF Spec, ServedAsAsked

\* Of any number of nodes that come and go, and servers that answer or do not: the usage
\* that is shown is that of the nodes that were measured and are still there, or of the
\* servers that answered (ClusterAdminController.getOverviewResourceUsage).
THEOREM UsageAlwaysHolds == Spec => UsageHolds
<1>1. PartsIInv => Usage!UsedIsWithinTotal /\ Usage!AverageIsTrue
  BY UsageMeans DEF PartsIInv
<1>2. PartsIInv /\ [Next]_vars => [SummedUp]_(Usage!usageVars)
  <2>1. PartsIInv /\ [Next]_vars => SummedUp
    BY PartsTake, SummedStep DEF PartsIInv, PartSteps
  <2> QED BY <2>1
<1>3. Spec => [][SummedUp]_(Usage!usageVars)
  BY <1>2, PartsInvariance, PTL DEF Spec
<1>4. Spec => [](Usage!UsedIsWithinTotal /\ Usage!AverageIsTrue)
  BY <1>1, PartsInvariance, PTL
<1> QED BY <1>3, <1>4, PTL DEF UsageHolds, Usage!SharesAreTrue, SummedUp

===============================================================================
