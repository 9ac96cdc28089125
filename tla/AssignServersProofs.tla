--------------------------- MODULE AssignServersProofs ---------------------------
(***************************************************************************)
(* For any finite set of servers and any number of operations and of       *)
(* failed requests: AssignTypeOK, OneMaster, RoleKept and SettledTables    *)
(* hold of every behaviour of AssignServers.                               *)
(*                                                                         *)
(* OneMaster is not inductive: an operation sends roles that were looked   *)
(* after when it began, so what was true then must be known to be true     *)
(* when it sends them.  Careful says it of the one operation there is      *)
(* while nothing careless has been done; that it began on tables that      *)
(* showed the servers as they are is the work of Settled.                  *)
(***************************************************************************)
EXTENDS AssignServers, TLAPS, FiniteSetTheorems, WellFoundedInduction

Database == [Servers -> [in : BOOLEAN, role : Roles]]
Changing == {"assign", "role", "roles"}   \* kinds that keep a server in the cluster
Removing == {"remove", "removeAll"}
Asking == {"confirm", "check"}            \* steps at which nothing has been sent

\* The record of an operation.
Rec(o) == [id |-> o.id, kind |-> o.kind, at |-> o.at, todo |-> o.todo,
           roles |-> o.roles, seen |-> o.seen]

\* An operation by itself: a record, whose step fits its kind and which has a role for
\* what it sends.
OpOK(o) ==
  /\ o = Rec(o)
  /\ o.id \in 0..MaxActs
  /\ o.todo \in SUBSET Servers
  /\ o.at \in {"put", "get", "check", "confirm"} => o.todo # {}
  /\ o.at = "check" => o.kind = "roles"
  /\ o.at = "confirm" => o.kind = "removeAll"
  /\ o.at = "get" => o.kind \in Removing
  /\ o.at = "put" => o.kind \in Changing \cup Removing
  /\ o.seen = NoRows \/ o.seen \in Database
  /\ o.at \notin {"reload", "last"} => o.seen = NoRows
  /\ o.kind \in Changing => \A s \in o.todo : o.roles[s] \in Roles
  /\ o.kind \notin Changing /\ o.at = "put" => o.roles[First(o.todo)] \in Roles

Types ==
  /\ db \in Database
  /\ tables = NoRows \/ tables \in Database
  /\ \A o \in ops : OpOK(o)
  /\ \A b \in busy : \E o \in ops : o.id = b.op /\ o.kind \in {"role", "remove"}
  /\ acts \in 0..MaxActs /\ failures \in Nat
  /\ careless \in BOOLEAN /\ late \in BOOLEAN

AllEqual(S) == \A s, t \in S : s = t

\* What an operation that is alone may rely on, where d is what the server has.
Lone(d, o) ==
  /\ o.seen = NoRows \/ o.seen = d
  /\ o.kind \in Changing /\ o.at # "check" =>
       \A s \in o.todo : o.roles[s] = "MASTER" => o.todo = {s} /\ MastersOf(d) \subseteq {s}
  /\ o.at = "check" => MastersOf(d) # {} \/ AllEqual(o.todo)
  /\ o.kind \notin Changing /\ o.at = "put" => o.roles[First(o.todo)] = d[First(o.todo)].role

Careful ==
  ~careless => /\ AllEqual(ops)
               /\ \A o \in ops : Lone(db, o)
               /\ AllEqual(MastersOf(db))
               /\ failures = 0 => ~late

Settled == failures = 0 /\ ~late => tables = db \/ \E o \in ops : o.at \notin Asking

\* The inductive invariant.
AssignIInv == Types /\ Careful /\ Settled

-------------------------------------------------------------------------------
LEMMA FirstOf ==
  ASSUME NEW S \in SUBSET Nat, S # {}
  PROVE  First(S) \in S
<1>1. PICK x \in S : \A y \in S : ~(<<y, x>> \in OpToRel(<, Nat))
  BY NatLessThanWellFounded, WFMin, Zenon
<1>2. \A y \in S : ~(y < x)
  BY <1>1, Zenon DEF OpToRel
<1>3. \A y \in S : x <= y
  BY <1>2
<1> QED
  BY <1>3 DEF First

LEMMA AtMostOne ==
  ASSUME NEW S, IsFiniteSet(S)
  PROVE  AllEqual(S) <=> Cardinality(S) <= 1
<1>1. CASE S = {}
  BY <1>1, FS_EmptySet DEF AllEqual
<1>2. CASE S # {}
  <2>1. PICK x \in S : TRUE
    BY <1>2
  <2>2. AllEqual(S) => Cardinality(S) <= 1
    <3>1. AllEqual(S) => S = {x}
      BY DEF AllEqual
    <3> QED BY <3>1, FS_Singleton
  <2>3. ASSUME Cardinality(S) <= 1 PROVE AllEqual(S)
    <3>1. Cardinality(S) \in Nat /\ Cardinality(S) # 0
      BY <1>2, FS_CardinalityType, FS_EmptySet
    <3>2. Cardinality(S) = 1
      BY <2>3, <3>1
    <3>3. PICK y : S = {y}
      BY <3>2, FS_Singleton
    <3> QED BY <3>3 DEF AllEqual
  <2> QED BY <2>2, <2>3
<1> QED BY <1>1, <1>2

LEMMA ServersSubset ==
  ASSUME AssignAssumption, NEW S \in SUBSET Servers
  PROVE  /\ IsFiniteSet(S)
         /\ S # {} => First(S) \in S
BY FS_Subset, FirstOf DEF AssignAssumption

LEMMA MastersAreServers ==
  ASSUME NEW d \in Database
  PROVE  MastersOf(d) = {s \in Servers : d[s].in /\ d[s].role = "MASTER"}
BY DEF MastersOf, InCluster, Database

\* AssignIInv is what the properties follow from.
LEMMA InvariantGives ==
  ASSUME AssignAssumption, AssignIInv
  PROVE  AssignTypeOK /\ OneMaster /\ SettledTables
<1>1. AssignTypeOK
  BY DEF AssignIInv, Types, AssignTypeOK, OpOK, Database
<1>2. OneMaster
  <2>1. MastersOf(db) \in SUBSET Servers
    BY MastersAreServers DEF AssignIInv, Types
  <2> QED
    BY <2>1, ServersSubset, AtMostOne DEF AssignIInv, Careful, OneMaster
<1>3. SettledTables
  BY DEF AssignIInv, Settled, SettledTables
<1> QED BY <1>1, <1>2, <1>3

-------------------------------------------------------------------------------
\* What EXCEPT makes of an operation.
LEMMA ChangedOnce ==
  ASSUME NEW o, o = Rec(o), NEW at, NEW roles, NEW seen
  PROVE  /\ [o EXCEPT !.at = at] = [id |-> o.id, kind |-> o.kind, at |-> at, todo |-> o.todo,
                                    roles |-> o.roles, seen |-> o.seen]
         /\ [o EXCEPT !.roles = roles] = [id |-> o.id, kind |-> o.kind, at |-> o.at,
                                          todo |-> o.todo, roles |-> roles, seen |-> o.seen]
         /\ [o EXCEPT !.seen = seen] = [id |-> o.id, kind |-> o.kind, at |-> o.at,
                                        todo |-> o.todo, roles |-> o.roles, seen |-> seen]
<1>1. [o EXCEPT !.at = at] = [id |-> o.id, kind |-> o.kind, at |-> at, todo |-> o.todo,
                              roles |-> o.roles, seen |-> o.seen]
  BY DEF Rec
<1>2. [o EXCEPT !.roles = roles] = [id |-> o.id, kind |-> o.kind, at |-> o.at,
                                    todo |-> o.todo, roles |-> roles, seen |-> o.seen]
  BY DEF Rec
<1>3. [o EXCEPT !.seen = seen] = [id |-> o.id, kind |-> o.kind, at |-> o.at,
                                  todo |-> o.todo, roles |-> o.roles, seen |-> seen]
  BY DEF Rec
<1> QED
  BY <1>1, <1>2, <1>3

LEMMA AtAndRoles ==
  ASSUME NEW o, o = Rec(o), NEW at, NEW roles
  PROVE  [o EXCEPT !.at = at, !.roles = roles] =
           [id |-> o.id, kind |-> o.kind, at |-> at, todo |-> o.todo,
            roles |-> roles, seen |-> o.seen]
<1> DEFINE a == [o EXCEPT !.at = at]
<1>1. a = [id |-> o.id, kind |-> o.kind, at |-> at, todo |-> o.todo,
           roles |-> o.roles, seen |-> o.seen]
  BY ChangedOnce
<1>2. [o EXCEPT !.at = at, !.roles = roles] = [a EXCEPT !.roles = roles]
  OBVIOUS
<1> HIDE DEF a
<1>3. /\ a.id = o.id /\ a.kind = o.kind /\ a.at = at /\ a.todo = o.todo
      /\ a.roles = o.roles /\ a.seen = o.seen /\ a = Rec(a)
  BY <1>1 DEF Rec
<1>4. [a EXCEPT !.roles = roles] = [id |-> a.id, kind |-> a.kind, at |-> a.at, todo |-> a.todo,
                               roles |-> roles, seen |-> a.seen]
  BY <1>3, ChangedOnce
<1> QED
  BY <1>2, <1>3, <1>4, Zenon

LEMMA TodoAndAt ==
  ASSUME NEW o, o = Rec(o), NEW todo, NEW at
  PROVE  [o EXCEPT !.todo = todo, !.at = at] =
           [id |-> o.id, kind |-> o.kind, at |-> at, todo |-> todo,
            roles |-> o.roles, seen |-> o.seen]
<1> DEFINE a == [o EXCEPT !.todo = todo]
<1>1. a = [id |-> o.id, kind |-> o.kind, at |-> o.at, todo |-> todo,
           roles |-> o.roles, seen |-> o.seen]
  BY DEF Rec
<1>2. [o EXCEPT !.todo = todo, !.at = at] = [a EXCEPT !.at = at]
  OBVIOUS
<1> HIDE DEF a
<1>3. /\ a.id = o.id /\ a.kind = o.kind /\ a.at = o.at /\ a.todo = todo
      /\ a.roles = o.roles /\ a.seen = o.seen /\ a = Rec(a)
  BY <1>1 DEF Rec
<1>4. [a EXCEPT !.at = at] = [id |-> a.id, kind |-> a.kind, at |-> at, todo |-> a.todo,
                               roles |-> a.roles, seen |-> a.seen]
  BY <1>3, ChangedOnce
<1> QED
  BY <1>2, <1>3, <1>4, Zenon

LEMMA AtAndSeen ==
  ASSUME NEW o, o = Rec(o), NEW at, NEW seen
  PROVE  [o EXCEPT !.at = at, !.seen = seen] =
           [id |-> o.id, kind |-> o.kind, at |-> at, todo |-> o.todo,
            roles |-> o.roles, seen |-> seen]
<1> DEFINE a == [o EXCEPT !.at = at]
<1>1. a = [id |-> o.id, kind |-> o.kind, at |-> at, todo |-> o.todo,
           roles |-> o.roles, seen |-> o.seen]
  BY ChangedOnce
<1>2. [o EXCEPT !.at = at, !.seen = seen] = [a EXCEPT !.seen = seen]
  OBVIOUS
<1> HIDE DEF a
<1>3. /\ a.id = o.id /\ a.kind = o.kind /\ a.at = at /\ a.todo = o.todo
      /\ a.roles = o.roles /\ a.seen = o.seen /\ a = Rec(a)
  BY <1>1 DEF Rec
<1>4. [a EXCEPT !.seen = seen] = [id |-> a.id, kind |-> a.kind, at |-> a.at, todo |-> a.todo,
                             roles |-> a.roles, seen |-> seen]
  BY <1>3, ChangedOnce
<1> QED
  BY <1>2, <1>3, <1>4, Zenon

\* A new operation begins, alone and on true tables unless that is careless.
LEMMA Begins ==
  ASSUME AssignAssumption, AssignIInv,
         NEW unchecked \in BOOLEAN, Act(unchecked),
         NEW p, OpOK(p), ops' = ops \cup {p},
         \/ busy' = busy
         \/ \E b : busy' = busy \cup {b} /\ b.op = p.id /\ p.kind \in {"role", "remove"},
         ~unchecked /\ tables = db /\ AllEqual(MastersOf(db)) => Lone(db, p),
         UNCHANGED <<db, tables, failures, late>>
  PROVE  AssignIInv'
<1>1. Types'
  BY DEF AssignIInv, Types, Act, AssignAssumption
<1>2. Careful'
  <2>1. SUFFICES ASSUME ~careless' PROVE Careful'
    BY DEF Careful
  <2>2. ~careless /\ ~unchecked /\ ops = {} /\ failures = 0
    <3>1. ~(careless \/ unchecked \/ ops # {} \/ failures > 0)
      BY <2>1 DEF Act
    <3> QED
      BY <3>1 DEF AssignIInv, Types
  <2>3. ~late /\ AllEqual(MastersOf(db)) /\ tables = db
    BY <2>2 DEF AssignIInv, Careful, Settled
  <2>4. Lone(db, p) /\ ops' = {p}
    BY <2>2, <2>3
  <2> QED
    BY <2>2, <2>3, <2>4 DEF Careful, AllEqual, MastersOf, InCluster
<1>3. Settled'
  BY DEF AssignIInv, Settled
<1> QED
  BY <1>1, <1>2, <1>3 DEF AssignIInv

\* An operation goes on to a step that loads or sends.
LEMMA GoesOn ==
  ASSUME AssignAssumption, AssignIInv,
         NEW o \in ops, NEW p, OpOK(p), p.id = o.id, p.kind = o.kind, p.at \notin Asking,
         Becomes(o, p), db' \in Database,
         careless' \in BOOLEAN, careless => careless',
         ~careless' /\ AllEqual(MastersOf(db)) /\ Lone(db, o) =>
           AllEqual(MastersOf(db')) /\ Lone(db', p),
         failures' \in {failures, failures + 1},
         UNCHANGED <<tables, busy, acts, late>>
  PROVE  AssignIInv'
<1>1. Types'
  BY DEF AssignIInv, Types, Becomes
<1>2. Careful'
  <2>1. SUFFICES ASSUME ~careless' PROVE Careful'
    BY DEF Careful
  <2>2. ~careless /\ ops' = {p} /\ AllEqual(MastersOf(db')) /\ Lone(db', p)
    BY <2>1 DEF AssignIInv, Careful, AllEqual, Becomes
  <2>3. failures' = 0 => ~late'
    BY <2>2 DEF AssignIInv, Careful, Types
  <2> QED
    BY <2>2, <2>3 DEF Careful, AllEqual
<1>3. Settled'
  BY DEF Settled, Becomes
<1> QED
  BY <1>1, <1>2, <1>3 DEF AssignIInv

\* An operation that is not confirmed, or not allowed, ends without a trace.
LEMMA GivesUp ==
  ASSUME AssignIInv, NEW o \in ops, o.at \in Asking, ops' = ops \ {o},
         UNCHANGED <<db, tables, busy, acts, failures, careless, late>>
  PROVE  AssignIInv'
<1>1. Types'
  <2>1. o.kind \notin {"role", "remove"}
    BY DEF AssignIInv, Types, OpOK, Asking
  <2> QED
    BY <2>1 DEF AssignIInv, Types
<1>2. Careful'
  BY DEF AssignIInv, Careful, AllEqual, MastersOf, InCluster
<1>3. Settled'
  BY DEF AssignIInv, Settled
<1> QED
  BY <1>1, <1>2, <1>3 DEF AssignIInv

-------------------------------------------------------------------------------
LEMMA InitHolds ==
  ASSUME AssignAssumption, Init
  PROVE  AssignIInv
<1> DEFINE o == [id |-> 0, kind |-> "refresh", at |-> "last", todo |-> {},
                 roles |-> NoRows, seen |-> NoRows]
<1>1. ops = {o} /\ tables = NoRows /\ busy = {} /\ acts = 0 /\ failures = 0
      /\ careless = FALSE /\ late = FALSE /\ db \in Database
  BY DEF Init, Database
<1>2. OpOK(o) /\ Lone(db, o)
  BY DEF OpOK, Rec, Lone, Changing, AssignAssumption
<1>3. AllEqual(MastersOf(db))
  <2>1. MastersOf(db) \in SUBSET Servers
    BY <1>1, MastersAreServers
  <2> QED
    BY <2>1, ServersSubset, AtMostOne DEF Init
<1>4. o.at \notin Asking
  BY DEF Asking
<1> HIDE DEF o
<1>5. Types
  <2>1. acts \in 0..MaxActs /\ failures \in Nat
    BY <1>1 DEF AssignAssumption
  <2>2. careless \in BOOLEAN /\ late \in BOOLEAN
    BY <1>1
  <2> QED
    BY <1>1, <1>2, <2>1, <2>2 DEF Types
<1>6. Careful
  BY <1>1, <1>2, <1>3 DEF Careful, AllEqual
<1>7. Settled
  BY <1>1, <1>4 DEF Settled
<1> QED
  BY <1>5, <1>6, <1>7 DEF AssignIInv

LEMMA NewOp ==
  ASSUME AssignAssumption, AssignIInv, acts < MaxActs,
         NEW kind \in {"refresh", "assign", "role", "roles", "remove", "removeAll"},
         NEW at \in {"last", "put", "check", "get", "confirm"},
         NEW todo \in SUBSET Servers, NEW roles,
         at # "last" => todo # {},
         at = "check" => kind = "roles",
         at = "confirm" => kind = "removeAll",
         at = "get" => kind \in Removing,
         kind \in Changing => \A s \in todo : roles[s] \in Roles,
         kind \notin Changing => at # "put"
  PROVE  LET p == Op(kind, at, todo, roles)
         IN  /\ OpOK(p)
             /\ p.kind = kind /\ p.at = at /\ p.todo = todo /\ p.roles = roles
             /\ p.seen = NoRows /\ p.id = acts + 1
<1>1. acts + 1 \in 0..MaxActs
  BY DEF AssignIInv, Types, AssignAssumption
<1> QED
  BY <1>1 DEF Op, OpOK, Rec, Changing, Removing

LEMMA RefreshStep ==
  ASSUME AssignAssumption, AssignIInv, Refresh
  PROVE  AssignIInv'
<1> DEFINE p == Op("refresh", "last", {}, NoRows)
<1>1. Act(FALSE) /\ ops' = ops \cup {p} /\ UNCHANGED <<db, tables, busy, failures, late>>
  BY DEF Refresh
<1>2. OpOK(p) /\ p.kind = "refresh" /\ p.at = "last" /\ p.seen = NoRows
  BY <1>1, NewOp DEF Act, Changing, Removing
<1>3. Lone(db, p)
  BY <1>2 DEF Lone, Changing
<1> HIDE DEF p
<1> QED
  BY <1>1, <1>2, <1>3, Begins

LEMMA AssignStep ==
  ASSUME AssignAssumption, AssignIInv,
         NEW todo \in SUBSET Servers, NEW roles \in [todo -> Roles], Assign(todo, roles)
  PROVE  AssignIInv'
<1> DEFINE p == Op("assign", "put", todo, roles)
           unchecked == \E s \in todo : roles[s] = "MASTER"
<1>1. /\ Act(unchecked) /\ ops' = ops \cup {p} /\ todo # {}
      /\ UNCHANGED <<db, tables, busy, failures, late>>
  BY DEF Assign
<1>2. /\ OpOK(p) /\ p.kind = "assign" /\ p.at = "put" /\ p.todo = todo /\ p.roles = roles
      /\ p.seen = NoRows
  BY <1>1, NewOp DEF Act, Changing, Removing
<1>3. ~unchecked => Lone(db, p)
  BY <1>2 DEF Lone, Changing
<1>4. unchecked \in BOOLEAN
  OBVIOUS
<1> HIDE DEF p, unchecked
<1> QED
  BY <1>1, <1>2, <1>3, <1>4, Begins

LEMMA ChangeRoleStep ==
  ASSUME AssignAssumption, AssignIInv,
         NEW s \in Servers, NEW role \in Roles, ChangeRole(s, role)
  PROVE  AssignIInv'
<1> DEFINE roles == [x \in {s} |-> role]
           p == Op("role", "put", {s}, roles)
           b == [what |-> "select", of |-> s, op |-> acts + 1]
<1>1. /\ Act(FALSE) /\ ops' = ops \cup {p} /\ busy' = busy \cup {b}
      /\ role = "MASTER" => MastersOf(tables) = {}
      /\ UNCHANGED <<db, tables, failures, late>>
  BY DEF ChangeRole
<1>2. \A x \in {s} : roles[x] = role
  OBVIOUS
<1> HIDE DEF roles
<1>3. /\ OpOK(p) /\ p.kind = "role" /\ p.at = "put" /\ p.todo = {s} /\ p.roles = roles
      /\ p.seen = NoRows /\ p.id = acts + 1
  BY <1>1, <1>2, NewOp DEF Act, Changing, Removing
<1>4. b.op = p.id
  BY <1>3
<1>5. tables = db => Lone(db, p)
  BY <1>1, <1>2, <1>3 DEF Lone, Changing
<1> HIDE DEF p, b
<1> QED
  BY <1>1, <1>3, <1>4, <1>5, Begins

LEMMA ChangeRolesStep ==
  ASSUME AssignAssumption, AssignIInv,
         NEW todo \in SUBSET Servers, NEW role \in Roles, ChangeRoles(todo, role)
  PROVE  AssignIInv'
<1> DEFINE roles == [s \in todo |-> role]
           at == IF role = "MASTER" THEN "check" ELSE "put"
           p == Op("roles", at, todo, roles)
           unchecked == role = "MASTER" /\ Cardinality(todo) > 1 /\ MastersOf(tables) = {}
<1>1. /\ Act(unchecked) /\ ops' = ops \cup {p} /\ todo # {}
      /\ UNCHANGED <<db, tables, busy, failures, late>>
  BY DEF ChangeRoles
<1>2. \A s \in todo : roles[s] = role
  OBVIOUS
<1> HIDE DEF roles
<1>3. at \in {"check", "put"} /\ (at = "check" <=> role = "MASTER")
  OBVIOUS
<1> HIDE DEF at
<1>4. /\ OpOK(p) /\ p.kind = "roles" /\ p.at = at /\ p.todo = todo /\ p.roles = roles
      /\ p.seen = NoRows
  BY <1>1, <1>2, <1>3, NewOp DEF Act, Changing, Removing
<1>5. ASSUME ~unchecked, tables = db PROVE Lone(db, p)
  <2>1. role = "MASTER" => MastersOf(db) # {} \/ AllEqual(todo)
    <3>1. Cardinality(todo) \in Nat
      BY ServersSubset, FS_CardinalityType
    <3>2. Cardinality(todo) > 1 \/ AllEqual(todo)
      BY <3>1, ServersSubset, AtMostOne
    <3> QED
      BY <1>5, <3>2
  <2> QED
    BY <1>2, <1>3, <1>4, <2>1 DEF Lone, Changing
<1>6. unchecked \in BOOLEAN
  OBVIOUS
<1> HIDE DEF p, unchecked
<1> QED
  BY <1>1, <1>4, <1>5, <1>6, Begins

LEMMA RemoveStep ==
  ASSUME AssignAssumption, AssignIInv, NEW s \in Servers, Remove(s)
  PROVE  AssignIInv'
<1> DEFINE p == Op("remove", "get", {s}, NoRows)
           b == [what |-> "button", of |-> s, op |-> acts + 1]
<1>1. /\ Act(FALSE) /\ ops' = ops \cup {p} /\ busy' = busy \cup {b}
      /\ UNCHANGED <<db, tables, failures, late>>
  BY DEF Remove
<1>2. /\ OpOK(p) /\ p.kind = "remove" /\ p.at = "get" /\ p.seen = NoRows /\ p.id = acts + 1
  BY <1>1, NewOp DEF Act, Changing, Removing
<1>3. b.op = p.id /\ Lone(db, p)
  BY <1>2 DEF Lone, Changing
<1> HIDE DEF p, b
<1> QED
  BY <1>1, <1>2, <1>3, Begins

LEMMA RemoveAllStep ==
  ASSUME AssignAssumption, AssignIInv, NEW todo \in SUBSET Servers, RemoveAll(todo)
  PROVE  AssignIInv'
<1> DEFINE p == Op("removeAll", "confirm", todo, NoRows)
<1>1. /\ Act(FALSE) /\ ops' = ops \cup {p} /\ todo # {}
      /\ UNCHANGED <<db, tables, busy, failures, late>>
  BY DEF RemoveAll
<1>2. OpOK(p) /\ p.kind = "removeAll" /\ p.at = "confirm" /\ p.seen = NoRows
  BY <1>1, NewOp DEF Act, Changing, Removing
<1>3. Lone(db, p)
  BY <1>2 DEF Lone, Changing
<1> HIDE DEF p
<1> QED
  BY <1>1, <1>2, <1>3, Begins

-------------------------------------------------------------------------------
LEMMA ConfirmStep ==
  ASSUME AssignAssumption, AssignIInv, NEW o \in ops, Confirm(o)
  PROVE  AssignIInv'
<1> DEFINE p == [o EXCEPT !.at = "get"]
<1>1. OpOK(o)
  BY DEF AssignIInv, Types
<1>2. CASE ops' = ops \ {o}
  BY <1>2, GivesUp DEF Confirm, Asking
<1>3. CASE Becomes(o, p)
  <2>1. /\ p.id = o.id /\ p.kind = o.kind /\ p.at = "get" /\ p.todo = o.todo
        /\ p.roles = o.roles /\ p.seen = o.seen /\ p = Rec(p)
    BY <1>1, ChangedOnce DEF OpOK, Rec
  <2> HIDE DEF p
  <2>2. OpOK(p)
    BY <1>1, <2>1 DEF OpOK, Confirm, Changing, Removing
  <2>3. Lone(db, o) => Lone(db, p)
    BY <1>1, <2>1 DEF Lone, OpOK, Confirm, Changing
  <2>4. db' = db /\ db' \in Database /\ careless' = careless /\ careless' \in BOOLEAN
    BY DEF Confirm, AssignIInv, Types
  <2> QED
    BY <1>3, <2>1, <2>2, <2>3, <2>4, GoesOn DEF Confirm, Asking
<1> QED
  BY <1>2, <1>3 DEF Confirm, Becomes

\* One master where one is looked for: the check lets many pass only while there is no
\* master, or where all of them are the master.
LEMMA CheckStep ==
  ASSUME AssignAssumption, AssignIInv, NEW o \in ops, Check(o)
  PROVE  AssignIInv'
<1> DEFINE p == [o EXCEPT !.at = "put"]
<1>1. OpOK(o)
  BY DEF AssignIInv, Types
<1>2. CASE ~Passes(db, o.todo)
  BY <1>2, GivesUp DEF Check, Asking
<1>3. CASE Passes(db, o.todo)
  <2>1. /\ p.id = o.id /\ p.kind = o.kind /\ p.at = "put" /\ p.todo = o.todo
        /\ p.roles = o.roles /\ p.seen = o.seen /\ p = Rec(p)
    BY <1>1, ChangedOnce DEF OpOK, Rec
  <2>4. Becomes(o, p)
    BY <1>3 DEF Check, Becomes
  <2> HIDE DEF p
  <2>2. OpOK(p)
    BY <1>1, <2>1 DEF OpOK, Check, Changing, Removing
  <2>3. ASSUME Lone(db, o), AllEqual(MastersOf(db)) PROVE Lone(db, p)
    <3>1. o.todo # {} /\ o.seen = NoRows
      BY <1>1 DEF OpOK, Check
    <3>2. PICK s \in o.todo : o.todo = {s} /\ MastersOf(db) \subseteq {s}
      BY <1>3, <2>3, <3>1 DEF Passes, Lone, Check, AllEqual
    <3> QED
      BY <1>1, <2>1, <3>1, <3>2 DEF Lone, OpOK, Check, Changing
  <2>5. db' = db /\ db' \in Database /\ careless' = careless /\ careless' \in BOOLEAN
    BY DEF Check, AssignIInv, Types
  <2> QED
    BY <2>1, <2>2, <2>3, <2>4, <2>5, GoesOn DEF Check, Asking
<1> QED
  BY <1>2, <1>3

LEMMA CheckFailsStep ==
  ASSUME AssignAssumption, AssignIInv, NEW o \in ops, CheckFails(o)
  PROVE  AssignIInv'
<1> DEFINE p == [o EXCEPT !.at = "put"]
<1>1. OpOK(o)
  BY DEF AssignIInv, Types
<1>2. /\ p.id = o.id /\ p.kind = o.kind /\ p.at = "put" /\ p.todo = o.todo
      /\ p.roles = o.roles /\ p.seen = o.seen /\ p = Rec(p)
  BY <1>1, ChangedOnce DEF OpOK, Rec
<1>3. Becomes(o, p)
  BY DEF CheckFails
<1> HIDE DEF p
<1>4. OpOK(p)
  BY <1>1, <1>2 DEF OpOK, CheckFails, Changing, Removing
<1>5. db' \in Database /\ careless' = TRUE /\ careless' \in BOOLEAN
  BY DEF CheckFails, AssignIInv, Types
<1> QED
  BY <1>2, <1>3, <1>4, <1>5, GoesOn DEF CheckFails, Failure, Asking

\* What a removal will send, where the role is asked for and where it is not had.
LEMMA RoleGot ==
  ASSUME AssignAssumption, NEW o, OpOK(o), o.at = "get", NEW role \in Roles
  PROVE  LET p == [o EXCEPT !.at = "put", !.roles = [s \in {First(o.todo)} |-> role]]
         IN  /\ OpOK(p) /\ p.id = o.id /\ p.kind = o.kind /\ p.at = "put"
             /\ p.kind \notin Changing /\ p.todo = o.todo /\ p.seen = NoRows
             /\ p.roles[First(p.todo)] = role
<1> DEFINE roles == [s \in {First(o.todo)} |-> role]
           p == [o EXCEPT !.at = "put", !.roles = roles]
<1>1. roles[First(o.todo)] = role
  OBVIOUS
<1> HIDE DEF roles
<1>2. /\ p.id = o.id /\ p.kind = o.kind /\ p.at = "put" /\ p.todo = o.todo
      /\ p.roles = roles /\ p.seen = o.seen /\ p = Rec(p)
  <2>1. o = Rec(o)
    BY DEF OpOK
  <2>2. p = [id |-> o.id, kind |-> o.kind, at |-> "put", todo |-> o.todo,
             roles |-> roles, seen |-> o.seen]
    BY <2>1, AtAndRoles
  <2> HIDE DEF p
  <2> QED
    BY <2>2 DEF Rec
<1> HIDE DEF p
<1>3. OpOK(p) /\ p.kind \notin Changing /\ p.seen = NoRows
  BY <1>1, <1>2 DEF OpOK, Changing, Removing
<1>4. /\ OpOK(p) /\ p.id = o.id /\ p.kind = o.kind /\ p.at = "put"
      /\ p.kind \notin Changing /\ p.todo = o.todo /\ p.seen = NoRows
      /\ p.roles[First(p.todo)] = role
  BY <1>1, <1>2, <1>3
<1> QED
  BY <1>4 DEF p, roles

LEMMA GetRoleStep ==
  ASSUME AssignAssumption, AssignIInv, NEW o \in ops, GetRole(o)
  PROVE  AssignIInv'
<1> DEFINE role == db[First(o.todo)].role
           p == [o EXCEPT !.at = "put", !.roles = [s \in {First(o.todo)} |-> role]]
<1>1. OpOK(o) /\ o.at = "get"
  BY DEF AssignIInv, Types, GetRole
<1>2. role \in Roles
  <2>1. First(o.todo) \in Servers
    BY <1>1, ServersSubset DEF OpOK
  <2> QED
    BY <2>1 DEF AssignIInv, Types, Database
<1> HIDE DEF role
<1>3. /\ OpOK(p) /\ p.id = o.id /\ p.kind = o.kind /\ p.at = "put" /\ p.kind \notin Changing
      /\ p.todo = o.todo /\ p.seen = NoRows /\ p.roles[First(p.todo)] = role
  BY <1>1, <1>2, RoleGot
<1>4. Becomes(o, p)
  BY DEF GetRole, role
<1> HIDE DEF p
<1>5. Lone(db, p)
  BY <1>3 DEF Lone, role
<1>6. db' = db /\ db' \in Database /\ careless' = careless /\ careless' \in BOOLEAN
  BY DEF GetRole, AssignIInv, Types
<1> QED
  BY <1>3, <1>4, <1>5, <1>6, GoesOn DEF GetRole, Asking

LEMMA GetRoleFailsStep ==
  ASSUME AssignAssumption, AssignIInv, NEW o \in ops, GetRoleFails(o)
  PROVE  AssignIInv'
<1> DEFINE p == [o EXCEPT !.at = "put", !.roles = [s \in {First(o.todo)} |-> "WORKER"]]
<1>1. OpOK(o) /\ o.at = "get"
  BY DEF AssignIInv, Types, GetRoleFails
<1>2. /\ OpOK(p) /\ p.id = o.id /\ p.kind = o.kind /\ p.at = "put"
  BY <1>1, RoleGot DEF Roles
<1>3. Becomes(o, p)
  BY DEF GetRoleFails
<1> HIDE DEF p
<1>4. db' \in Database /\ careless' = TRUE /\ careless' \in BOOLEAN
  BY DEF GetRoleFails, AssignIInv, Types
<1> QED
  BY <1>2, <1>3, <1>4, GoesOn DEF GetRoleFails, Failure, Asking

-------------------------------------------------------------------------------
\* What a request carried out leaves.
LEMMA StoredIs ==
  ASSUME AssignAssumption, AssignIInv, NEW o \in ops, o.at = "put"
  PROVE  /\ First(o.todo) \in o.todo /\ First(o.todo) \in Servers
         /\ Stored(o) \in Database
         /\ Stored(o)[First(o.todo)].in <=> o.kind \in Changing
         /\ Stored(o)[First(o.todo)].role = o.roles[First(o.todo)]
         /\ \A s \in Servers \ {First(o.todo)} : Stored(o)[s] = db[s]
<1> DEFINE f == First(o.todo)
           stays == o.kind \in Changing
           row == [in |-> stays, role |-> o.roles[f]]
<1>1. OpOK(o) /\ db \in Database
  BY DEF AssignIInv, Types
<1>2. f \in o.todo /\ f \in Servers
  BY <1>1, ServersSubset DEF OpOK
<1>3. o.roles[f] \in Roles
  BY <1>1, <1>2 DEF OpOK
<1>4. Stored(o) = [db EXCEPT ![f] = row]
  BY DEF Stored, Changing
<1>5. row \in [in : BOOLEAN, role : Roles] /\ row.in = stays /\ row.role = o.roles[f]
  <2>1. stays \in BOOLEAN
    OBVIOUS
  <2> HIDE DEF stays
  <2> QED
    BY <1>3, <2>1
<1> HIDE DEF row, f, stays
<1>6. /\ Stored(o) \in Database /\ Stored(o)[f] = row
      /\ \A s \in Servers \ {f} : Stored(o)[s] = db[s]
  BY <1>1, <1>2, <1>4, <1>5 DEF Database
<1> QED
  BY <1>2, <1>5, <1>6 DEF f, stays

\* A request of an operation that is alone leaves at most the one master there was.
LEMMA OneMasterStored ==
  ASSUME AssignAssumption, AssignIInv, NEW o \in ops, o.at = "put",
         AllEqual(MastersOf(db)), Lone(db, o)
  PROVE  AllEqual(MastersOf(Stored(o)))
<1> DEFINE f == First(o.todo)
<1>1. /\ f \in o.todo /\ f \in Servers /\ Stored(o) \in Database /\ db \in Database
      /\ Stored(o)[f].in <=> o.kind \in Changing
      /\ Stored(o)[f].role = o.roles[f]
      /\ \A s \in Servers \ {f} : Stored(o)[s] = db[s]
  BY StoredIs DEF AssignIInv, Types
<1> HIDE DEF f
<1>2. MastersOf(Stored(o)) \ {f} \subseteq MastersOf(db) \ {f}
  BY <1>1, MastersAreServers
<1>3. CASE f \in MastersOf(Stored(o))
  <2>1. o.kind \in Changing /\ o.roles[f] = "MASTER"
    BY <1>1, <1>3, MastersAreServers
  <2>2. MastersOf(db) \subseteq {f}
    BY <1>1, <2>1 DEF Lone
  <2> QED
    BY <1>2, <2>2 DEF AllEqual
<1>4. CASE f \notin MastersOf(Stored(o))
  BY <1>2, <1>4 DEF AllEqual
<1> QED
  BY <1>3, <1>4

LEMMA PutStep ==
  ASSUME AssignAssumption, AssignIInv, NEW o \in ops, Put(o)
  PROVE  AssignIInv'
<1> DEFINE at == CASE o.kind \in {"role", "roles"} -> "reload"
                   [] o.kind = "assign" -> IF Rest(o) = {} THEN "detail" ELSE "put"
                   [] OTHER -> IF Rest(o) = {} THEN "last" ELSE "get"
           p == [o EXCEPT !.todo = Rest(o), !.at = at]
<1>1. OpOK(o) /\ o = Rec(o) /\ o.at = "put" /\ o.seen = NoRows
  BY DEF AssignIInv, Types, OpOK, Put
<1>2. Becomes(o, p) /\ db' = Stored(o)
  BY DEF Put
<1>3. /\ at = "reload" \/ at = "detail" \/ at = "last"
         \/ (at = "put" /\ Rest(o) # {} /\ o.kind = "assign")
         \/ (at = "get" /\ Rest(o) # {} /\ o.kind \notin Changing)
  BY DEF Changing
<1> HIDE DEF at
<1>4. p = [id |-> o.id, kind |-> o.kind, at |-> at, todo |-> Rest(o),
           roles |-> o.roles, seen |-> o.seen]
  BY <1>1, TodoAndAt, Zenon
<1> HIDE DEF p
<1>5. /\ p.id = o.id /\ p.kind = o.kind /\ p.at = at /\ p.todo = Rest(o)
      /\ p.roles = o.roles /\ p.seen = NoRows /\ p = Rec(p)
  BY <1>1, <1>4 DEF Rec
<1>6. /\ Rest(o) \subseteq o.todo /\ First(o.todo) \notin Rest(o) /\ First(o.todo) \in o.todo
      /\ Stored(o) \in Database
  BY <1>1, StoredIs DEF Rest
<1>7. OpOK(p)
  BY <1>1, <1>3, <1>5, <1>6 DEF OpOK, Changing, Removing
<1>8. p.at \notin Asking
  BY <1>3, <1>5 DEF Asking
<1>9. Lone(db, o) => Lone(db', p)
  <2>1. p.at # "check" /\ ~(p.kind \notin Changing /\ p.at = "put")
    BY <1>3, <1>5 DEF Changing
  <2>2. ASSUME Lone(db, o), p.kind \in Changing, NEW s \in p.todo, p.roles[s] = "MASTER"
        PROVE  FALSE
    BY <1>1, <1>5, <1>6, <2>2 DEF Lone
  <2> QED
    BY <1>5, <2>1, <2>2 DEF Lone
<1>10. AllEqual(MastersOf(db)) /\ Lone(db, o) => AllEqual(MastersOf(db'))
  <2>1. AllEqual(MastersOf(db)) /\ Lone(db, o) => AllEqual(MastersOf(Stored(o)))
    BY <1>1, OneMasterStored
  <2> QED
    BY <1>2, <2>1
<1>11. db' \in Database /\ careless' = careless /\ careless' \in BOOLEAN
  BY <1>2, <1>6 DEF Put, AssignIInv, Types
<1> QED
  BY <1>2, <1>5, <1>7, <1>8, <1>9, <1>10, <1>11, GoesOn DEF Put

LEMMA PutFailsStep ==
  ASSUME AssignAssumption, AssignIInv, NEW o \in ops, PutFails(o)
  PROVE  AssignIInv'
<1> DEFINE todo == IF o.kind = "assign" THEN {} ELSE Rest(o)
           at == IF o.kind = "assign" \/ Rest(o) = {} THEN "last"
                 ELSE IF o.kind = "removeAll" THEN "get" ELSE "put"
           p == [o EXCEPT !.todo = todo, !.at = at]
<1>1. OpOK(o) /\ o = Rec(o) /\ o.at = "put" /\ o.seen = NoRows
  BY DEF AssignIInv, Types, OpOK, PutFails
<1>2. db' \in Database /\ careless' = TRUE /\ careless' \in BOOLEAN
  BY <1>1, StoredIs DEF PutFails, AssignIInv, Types
<1>3. CASE o.kind = "remove"
  <2>1. /\ ops' = ops \ {o} /\ busy' = {b \in busy : b.op # o.id}
        /\ failures' = failures + 1 /\ UNCHANGED <<tables, acts, late>>
    BY <1>3 DEF PutFails, Ends, Failure
  <2>2. Types'
    BY <1>2, <2>1 DEF AssignIInv, Types
  <2>3. Careful' /\ Settled'
    <3>1. failures' # 0
      BY <2>1 DEF AssignIInv, Types
    <3> QED
      BY <1>2, <3>1 DEF Careful, Settled
  <2> QED
    BY <2>2, <2>3 DEF AssignIInv
<1>4. CASE o.kind # "remove"
  <2>1. Becomes(o, p) /\ UNCHANGED busy
    BY <1>4 DEF PutFails
  <2>2. /\ todo \subseteq Rest(o)
        /\ \/ at = "last"
           \/ at = "get" /\ todo # {} /\ o.kind = "removeAll"
           \/ at = "put" /\ todo # {} /\ o.kind \notin {"remove", "removeAll"}
    BY <1>4
  <2> HIDE DEF at, todo
  <2>3. p = [id |-> o.id, kind |-> o.kind, at |-> at, todo |-> todo,
             roles |-> o.roles, seen |-> o.seen]
    BY <1>1, TodoAndAt, Zenon
  <2> HIDE DEF p
  <2>4. /\ p.id = o.id /\ p.kind = o.kind /\ p.at = at /\ p.todo = todo
        /\ p.roles = o.roles /\ p.seen = NoRows /\ p = Rec(p)
    BY <1>1, <2>3 DEF Rec
  <2>5. OpOK(p)
    BY <1>1, <2>2, <2>4 DEF OpOK, Rest, Changing, Removing
  <2>6. p.at \notin Asking
    BY <2>2, <2>4 DEF Asking
  <2> QED
    BY <1>2, <2>1, <2>4, <2>5, <2>6, GoesOn DEF PutFails, Failure
<1> QED
  BY <1>3, <1>4

-------------------------------------------------------------------------------
\* The details of the cluster change nothing, whether or not they are had.
LEMMA AfterDetail ==
  ASSUME AssignAssumption, AssignIInv, NEW o \in ops, o.at = "detail",
         NEW at \in {"reload", "last"}, ops' = (ops \ {o}) \cup {[o EXCEPT !.at = at]},
         failures' \in {failures, failures + 1},
         UNCHANGED <<db, tables, busy, acts, careless, late>>
  PROVE  AssignIInv'
<1> DEFINE p == [o EXCEPT !.at = at]
<1>1. OpOK(o)
  BY DEF AssignIInv, Types
<1>2. /\ p.id = o.id /\ p.kind = o.kind /\ p.at = at /\ p.todo = o.todo
      /\ p.roles = o.roles /\ p.seen = o.seen /\ p = Rec(p)
  BY <1>1, ChangedOnce DEF OpOK, Rec
<1>3. Becomes(o, p)
  BY DEF Becomes
<1> HIDE DEF p
<1>4. OpOK(p) /\ p.at \notin Asking
  BY <1>1, <1>2 DEF OpOK, Asking
<1>5. Lone(db, o) => Lone(db, p)
  BY <1>2 DEF Lone
<1>6. db' = db /\ db' \in Database /\ careless' = careless /\ careless' \in BOOLEAN
  BY DEF AssignIInv, Types
<1> QED
  BY <1>2, <1>3, <1>4, <1>5, <1>6, GoesOn

LEMMA DetailStep ==
  ASSUME AssignAssumption, AssignIInv, NEW o \in ops, Detail(o) \/ DetailFails(o)
  PROVE  AssignIInv'
<1>1. CASE Detail(o)
  BY <1>1, AfterDetail DEF Detail, Becomes
<1>2. CASE DetailFails(o)
  <2>1. PICK at \in {"reload", "last"} : ops' = (ops \ {o}) \cup {[o EXCEPT !.at = at]}
    BY <1>2 DEF DetailFails
  <2> QED
    BY <1>2, <2>1, AfterDetail DEF DetailFails, Failure
<1> QED
  BY <1>1, <1>2

LEMMA ServeStep ==
  ASSUME AssignAssumption, AssignIInv, NEW o \in ops, Serve(o)
  PROVE  AssignIInv'
<1> DEFINE p == [o EXCEPT !.seen = db]
<1>1. OpOK(o) /\ o.at \in {"reload", "last"} /\ db \in Database
  BY DEF AssignIInv, Types, Serve
<1>2. /\ p.id = o.id /\ p.kind = o.kind /\ p.at = o.at /\ p.todo = o.todo
      /\ p.roles = o.roles /\ p.seen = db /\ p = Rec(p)
  BY <1>1, ChangedOnce DEF OpOK, Rec
<1>3. Becomes(o, p)
  BY DEF Serve
<1> HIDE DEF p
<1>4. OpOK(p) /\ p.at \notin Asking
  BY <1>1, <1>2 DEF OpOK, Asking
<1>5. Lone(db, o) => Lone(db, p)
  BY <1>1, <1>2 DEF Lone
<1>6. db' = db /\ db' \in Database /\ careless' = careless /\ careless' \in BOOLEAN
  BY DEF AssignIInv, Types, Serve
<1> QED
  BY <1>2, <1>3, <1>4, <1>5, <1>6, GoesOn DEF Serve

\* The tables are filled with what an operation was answered, or emptied by a failure.
LEMMA ShownStep ==
  ASSUME AssignAssumption, AssignIInv, NEW o \in ops, o.at \in {"reload", "last"},
         NEW rows, rows = NoRows \/ rows \in Database, Shown(o, rows),
         \/ failures' = failures /\ rows = o.seen /\ rows # NoRows
         \/ failures' = failures + 1
  PROVE  AssignIInv'
<1> DEFINE at == IF o.kind = "roles" /\ o.todo # {} THEN "put" ELSE "last"
           p == [o EXCEPT !.at = at, !.seen = NoRows]
<1>1. OpOK(o) /\ o = Rec(o)
  BY DEF AssignIInv, Types, OpOK
<1>2. /\ tables' = rows /\ (late' <=> late \/ rows # db) /\ late' \in BOOLEAN /\ busy' = {}
      /\ UNCHANGED <<db, acts, careless>>
      /\ ops' = ops \ {o} \/ ops' = (ops \ {o}) \cup {p}
  BY DEF Shown, Becomes
<1>3. at = "last" \/ (at = "put" /\ o.kind = "roles" /\ o.todo # {})
  OBVIOUS
<1> HIDE DEF at
<1>4. p = [id |-> o.id, kind |-> o.kind, at |-> at, todo |-> o.todo,
           roles |-> o.roles, seen |-> NoRows]
  BY <1>1, AtAndSeen, Zenon
<1> HIDE DEF p
<1>5. /\ p.id = o.id /\ p.kind = o.kind /\ p.at = at /\ p.todo = o.todo
      /\ p.roles = o.roles /\ p.seen = NoRows /\ p = Rec(p)
  BY <1>4 DEF Rec
<1>6. OpOK(p)
  BY <1>1, <1>3, <1>5 DEF OpOK, Changing, Removing
<1>7. Lone(db, o) => Lone(db, p)
  BY <1>3, <1>5 DEF Lone, Changing
<1>8. Types'
  <2>1. failures' \in Nat
    BY DEF AssignIInv, Types
  <2>2. careless' \in BOOLEAN /\ acts' \in 0..MaxActs /\ db' \in Database
    BY <1>2 DEF AssignIInv, Types
  <2>3. \A q \in ops' : OpOK(q)
    BY <1>2, <1>6 DEF AssignIInv, Types
  <2> QED
    BY <1>2, <2>1, <2>2, <2>3 DEF Types
<1>9. Careful'
  <2>1. SUFFICES ASSUME ~careless' PROVE Careful'
    BY DEF Careful
  <2>2. ~careless /\ AllEqual(ops) /\ Lone(db, o) /\ AllEqual(MastersOf(db))
    BY <1>2, <2>1 DEF AssignIInv, Careful
  <2>3. AllEqual(ops') /\ \A q \in ops' : Lone(db, q)
    BY <1>2, <1>7, <2>2 DEF AllEqual
  <2>4. failures' = 0 => ~late'
    <3>1. failures' = 0 => failures = 0 /\ rows = o.seen /\ rows # NoRows
      BY DEF AssignIInv, Types
    <3>2. failures' = 0 => rows = db /\ ~late
      BY <2>2, <3>1 DEF Lone, AssignIInv, Careful
    <3> QED
      BY <1>2, <3>2
  <2> QED
    BY <1>2, <2>2, <2>3, <2>4 DEF Careful
<1>10. Settled'
  BY <1>2 DEF Settled
<1> QED
  BY <1>8, <1>9, <1>10 DEF AssignIInv

LEMMA TablesStep ==
  ASSUME AssignAssumption, AssignIInv, NEW o \in ops, GotTables(o) \/ TablesFail(o)
  PROVE  AssignIInv'
<1>1. OpOK(o)
  BY DEF AssignIInv, Types
<1>2. CASE GotTables(o)
  BY <1>1, <1>2, ShownStep DEF GotTables, OpOK
<1>3. CASE TablesFail(o)
  BY <1>3, ShownStep DEF TablesFail, Failure
<1> QED
  BY <1>2, <1>3

-------------------------------------------------------------------------------
LEMMA StepHolds ==
  ASSUME AssignAssumption, AssignIInv, [Next]_assignVars
  PROVE  AssignIInv'
<1>1. CASE Refresh
  BY <1>1, RefreshStep
<1>2. ASSUME NEW todo \in SUBSET Servers, NEW roles \in [todo -> Roles], Assign(todo, roles)
      PROVE  AssignIInv'
  BY <1>2, AssignStep
<1>3. ASSUME NEW todo \in SUBSET Servers, NEW role \in Roles, ChangeRoles(todo, role)
      PROVE  AssignIInv'
  BY <1>3, ChangeRolesStep
<1>4. ASSUME NEW todo \in SUBSET Servers, RemoveAll(todo) PROVE AssignIInv'
  BY <1>4, RemoveAllStep
<1>5. ASSUME NEW s \in Servers, Remove(s) PROVE AssignIInv'
  BY <1>5, RemoveStep
<1>6. ASSUME NEW s \in Servers, NEW role \in Roles, ChangeRole(s, role) PROVE AssignIInv'
  BY <1>6, ChangeRoleStep
<1>7. ASSUME NEW o \in ops, Confirm(o) \/ Check(o) \/ CheckFails(o) PROVE AssignIInv'
  BY <1>7, ConfirmStep, CheckStep, CheckFailsStep
<1>8. ASSUME NEW o \in ops, GetRole(o) \/ GetRoleFails(o) PROVE AssignIInv'
  BY <1>8, GetRoleStep, GetRoleFailsStep
<1>9. ASSUME NEW o \in ops, Put(o) \/ PutFails(o) PROVE AssignIInv'
  BY <1>9, PutStep, PutFailsStep
<1>10. ASSUME NEW o \in ops, Detail(o) \/ DetailFails(o) \/ Serve(o) PROVE AssignIInv'
  BY <1>10, DetailStep, ServeStep
<1>11. ASSUME NEW o \in ops, GotTables(o) \/ TablesFail(o) PROVE AssignIInv'
  BY <1>11, TablesStep
<1>12. CASE UNCHANGED assignVars
  BY <1>12 DEF AssignIInv, Types, Careful, Settled, AllEqual, MastersOf, InCluster, assignVars
<1> QED
  BY <1>1, <1>2, <1>3, <1>4, <1>5, <1>6, <1>7, <1>8, <1>9, <1>10, <1>11, <1>12 DEF Next

\* The inductive invariant holds of every behaviour of the page: what an operation that
\* is alone relies on is still true whenever it sends something.
THEOREM AssignInvariance ==
  ASSUME AssignAssumption
  PROVE  Spec => []AssignIInv
<1>1. Init => AssignIInv
  BY InitHolds
<1>2. AssignIInv /\ [Next]_assignVars => AssignIInv'
  BY StepHolds
<1> QED
  BY <1>1, <1>2, PTL DEF Spec

\* Every variable keeps its type, and a control that is disabled has an operation under
\* way, however operations overlap and whichever requests fail.
THEOREM AssignTypeCorrect ==
  ASSUME AssignAssumption
  PROVE  Spec => []AssignTypeOK
<1>1. AssignIInv => AssignTypeOK
  BY InvariantGives
<1> QED
  BY <1>1, AssignInvariance, PTL

\* One operation after another makes no second master, for any number of servers: the
\* rows of the tables and the check of k8sClusters.js are enough where nothing overlaps.
THEOREM OneMasterAlways ==
  ASSUME AssignAssumption
  PROVE  Spec => []OneMaster
<1>1. AssignIInv => OneMaster
  BY InvariantGives
<1> QED
  BY <1>1, AssignInvariance, PTL

\* Once nothing is under way both tables show what the server has, unless a request
\* failed or an answer came late.
THEOREM TablesSettle ==
  ASSUME AssignAssumption
  PROVE  Spec => []SettledTables
<1>1. AssignIInv => SettledTables
  BY InvariantGives
<1> QED
  BY <1>1, AssignInvariance, PTL

-------------------------------------------------------------------------------
\* A request that takes a server out of the cluster sends the role it has, as long as
\* nothing careless has been done.
LEMMA PutKeepsRole ==
  ASSUME AssignAssumption, AssignIInv, NEW o \in ops, Put(o), ~careless,
         NEW s \in Servers, db[s].in, ~db'[s].in
  PROVE  db'[s].role = db[s].role
<1> DEFINE f == First(o.todo)
<1>1. o.at = "put" /\ db' = Stored(o)
  BY DEF Put
<1>2. /\ Stored(o)[f].in <=> o.kind \in Changing
      /\ Stored(o)[f].role = o.roles[f]
      /\ \A t \in Servers \ {f} : Stored(o)[t] = db[t]
  BY <1>1, StoredIs
<1>3. s = f /\ o.kind \notin Changing
  BY <1>1, <1>2
<1>4. o.roles[f] = db[f].role
  BY <1>1, <1>3 DEF AssignIInv, Careful, Lone
<1> QED
  BY <1>1, <1>2, <1>3, <1>4

LEMMA StepKeepsRole ==
  ASSUME AssignAssumption, AssignIInv, [Next]_assignVars
  PROVE  RoleKept
<1>1. SUFFICES ASSUME ~careless', NEW s \in Servers, db[s].in, ~db'[s].in
               PROVE  db'[s].role = db[s].role
  BY DEF RoleKept
<1>2. db' # db
  BY <1>1
<1>3. PICK o \in ops : Put(o) \/ PutFails(o)
  BY <1>2 DEF Next, assignVars, Refresh, Assign, ChangeRole, ChangeRoles, Remove, RemoveAll,
              Confirm, Check, CheckFails, GetRole, GetRoleFails, Detail, DetailFails, Serve,
              GotTables, TablesFail, Shown
<1>4. Put(o) /\ careless' = careless
  BY <1>1, <1>3 DEF Put, PutFails
<1> QED
  BY <1>1, <1>4, PutKeepsRole

\* A server that leaves the cluster keeps its role, for any number of servers, unless
\* something failed or was done meanwhile.
THEOREM RoleIsKept ==
  ASSUME AssignAssumption
  PROVE  Spec => [][RoleKept]_assignVars
<1>1. AssignIInv /\ [Next]_assignVars => RoleKept
  BY StepKeepsRole
<1> QED
  BY <1>1, AssignInvariance, PTL DEF Spec

================================================================================
