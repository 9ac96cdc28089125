----------------------------- MODULE ProjectsPage -----------------------------
(***************************************************************************)
(* The user's page (user.js on home-user.html): the list of the user's     *)
(* applications, searched and paged in the browser, and the form that      *)
(* uploads a new one with its environment variables. Every change of the   *)
(* search or of the page asks for the whole list again; the answer that    *)
(* comes last is shown, under the search and the page of that moment. Of   *)
(* a variable only its key is kept, and of a search term what it matches.  *)
(***************************************************************************)
EXTENDS Integers, Sequences, FiniteSets

CONSTANTS
  Projects,     \* ids the database can issue, in order
  Named,        \* those whose name has the term "some" in it; "" matches all
  PerPage,      \* projectsItemsPerPage, 6 in the code
  Keys,         \* keys of environment variables, "" one of them
  MaxEnv,       \* bound: variables in the form
  MaxActs,      \* bound: what the user does
  MaxFailures   \* bound: requests that fail

\* Assumed where the constants are given values.
ProjectsAssumption ==
  /\ Projects \subseteq Nat /\ IsFiniteSet(Projects) /\ Projects # {}
  /\ Named \subseteq Projects /\ PerPage \in Nat \ {0}
  /\ "" \in Keys /\ MaxEnv \in Nat \ {0} /\ {MaxActs, MaxFailures} \subseteq Nat

VARIABLES
  apps,      \* the applications there are, and whether a scale is asked for
  term,      \* projectsSearchTerm
  current,   \* projectsCurrentPage
  list,      \* what the section of the projects shows
  tab,       \* activeTab
  env,       \* envVariables: their keys
  inputs,    \* the keys in the form's fields
  button,    \* whether the form's button can be pressed
  asked,     \* requests the page waits for
  acts, failures,
  gone,      \* applications that have been deleted
  late       \* whether an answer has been shown that was no longer true

projectsVars == <<apps, term, current, list, tab, env, inputs, button, asked,
                  acts, failures, gone, late>>

Loading == [kind |-> "loading", total |-> 0, rows |-> {}]
Empty == [kind |-> "empty", total |-> 0, rows |-> {}]

-------------------------------------------------------------------------------
(* renderProjectsList                                                        *)

Matching(ids) == IF term = "" THEN ids ELSE ids \cap Named
Rank(x, ids) == Cardinality({y \in ids : y <= x})
Pages(n) == (n + PerPage - 1) \div PerPage
OnPage(ids) == {x \in ids : (Rank(x, ids) - 1) \div PerPage = current - 1}

\* The page of those that match, with what is asked of each; with none there is a text
\* only, and no field to search in.
Rendered(d) ==
  LET ids == Matching(DOMAIN d) IN
  IF ids = {} THEN Empty
  ELSE [kind |-> "rows", total |-> Cardinality(ids), rows |-> {<<x, d[x]>> : x \in OnPage(ids)}]

Ids == {row[1] : row \in list.rows}

\* A request: the act it comes from and, for a list, what the server has answered.
Ask(id, what, of) == [id |-> id, what |-> what, of |-> of, at |-> "sent", seen |-> <<>>]
List(id) == Ask(id, "list", 0)

Init ==
  /\ apps \in UNION {[S -> {FALSE}] : S \in SUBSET Projects}
  /\ term = "" /\ current = 1 /\ list = Loading /\ tab = "projects"
  /\ env = <<"">> /\ inputs = <<"">> /\ button = TRUE
  /\ asked = {List(0)} /\ acts = 0 /\ failures = 0 /\ gone = {} /\ late = FALSE

Act == acts < MaxActs /\ acts' = acts + 1 /\ UNCHANGED <<apps, failures, gone, late>>
Failure == failures < MaxFailures /\ failures' = failures + 1

LoadProjects(id) == asked' = asked \cup {List(id)} /\ list' = Loading

-------------------------------------------------------------------------------
(* The list                                                                  *)

SwitchTab(t) ==
  /\ t # tab
  /\ Act
  /\ tab' = t
  /\ IF t = "projects" THEN LoadProjects(acts + 1) ELSE UNCHANGED <<asked, list>>
  /\ UNCHANGED <<term, current, env, inputs, button>>

\* The field, there with the rows: from the first page on.
Search(t) ==
  /\ tab = "projects" /\ list.kind = "rows" /\ t # term
  /\ Act
  /\ term' = t /\ current' = 1
  /\ LoadProjects(acts + 1)
  /\ UNCHANGED <<tab, env, inputs, button>>

\* The refresh button, and the buttons of the pages there are.
GoTo(p) ==
  /\ tab = "projects" /\ list.kind = "rows"
  /\ p = current \/ p \in 1..Pages(list.total)
  /\ Act
  /\ current' = p
  /\ LoadProjects(acts + 1)
  /\ UNCHANGED <<term, tab, env, inputs, button>>

\* The buttons of a row: a scale is asked of the administrator, a deletion carried out.
Press(what, x) ==
  /\ tab = "projects" /\ x \in Ids
  /\ Act
  /\ asked' = asked \cup {Ask(acts + 1, what, x)}
  /\ UNCHANGED <<term, current, list, tab, env, inputs, button>>

Serve(r) ==
  /\ r.what # "upload" /\ r.at = "sent"
  /\ asked' = (asked \ {r}) \cup
              {[r EXCEPT !.at = IF r.what = "list" \/ r.of \in DOMAIN apps THEN "done" ELSE "refused",
                         !.seen = IF r.what = "list" THEN apps ELSE <<>>]}
  /\ apps' = CASE r.what = "list" \/ r.of \notin DOMAIN apps -> apps
               [] r.what = "scale" /\ r.of \in DOMAIN apps -> [apps EXCEPT ![r.of] = TRUE]
               [] r.what = "delete" /\ r.of \in DOMAIN apps -> [x \in DOMAIN apps \ {r.of} |-> apps[x]]
  /\ gone' = gone \cup (DOMAIN apps \ DOMAIN apps')
  /\ UNCHANGED <<term, current, list, tab, env, inputs, button, acts, failures, late>>

\* A scale or a deletion is answered: the list again, unless it was refused.
Pressed(r) ==
  /\ r.what \in {"scale", "delete"} /\ r.at # "sent"
  /\ IF r.at = "done"
     THEN asked' = (asked \ {r}) \cup {List(r.id)} /\ list' = Loading
     ELSE asked' = asked \ {r} /\ UNCHANGED list
  /\ UNCHANGED <<apps, term, current, tab, env, inputs, button, acts, failures, gone, late>>

GotList(r) ==
  /\ r.what = "list" /\ r.at = "done"
  /\ asked' = asked \ {r}
  /\ list' = Rendered(r.seen)
  /\ late' = (late \/ r.seen # apps)
  /\ UNCHANGED <<apps, term, current, tab, env, inputs, button, acts, failures, gone>>

\* A list that fails says that there are no projects; of the rest the user is told.
Fails(r) ==
  /\ r.what \in {"list", "scale", "delete"} /\ Failure
  /\ asked' = asked \ {r}
  /\ list' = IF r.what = "list" THEN Empty ELSE list
  /\ UNCHANGED <<apps, term, current, tab, env, inputs, button, acts, gone, late>>

-------------------------------------------------------------------------------
(* The form                                                                  *)

\* A variable is added, or its key changed in its field.
Add ==
  /\ tab = "new" /\ Len(env) < MaxEnv
  /\ env' = Append(env, "") /\ inputs' = env'
  /\ UNCHANGED <<apps, term, current, list, tab, button, asked, acts, failures, gone, late>>

Change(i, k) ==
  /\ tab = "new" /\ i \in DOMAIN inputs
  /\ inputs' = [inputs EXCEPT ![i] = k]
  /\ env' = IF i \in DOMAIN env THEN [env EXCEPT ![i] = k] ELSE env
  /\ UNCHANGED <<apps, term, current, list, tab, button, asked, acts, failures, gone, late>>

\* One is removed, except the last; a file replaces them all by those it has a key for.
Remove(i) ==
  /\ tab = "new" /\ i \in DOMAIN env /\ Len(env) > 1
  /\ env' = SubSeq(env, 1, i - 1) \o SubSeq(env, i + 1, Len(env)) /\ inputs' = env'
  /\ UNCHANGED <<apps, term, current, list, tab, button, asked, acts, failures, gone, late>>

Import(ks) ==
  /\ tab = "new"
  /\ ks # <<>> /\ \A i \in DOMAIN ks : ks[i] # ""
  /\ env' = ks /\ inputs' = env'
  /\ UNCHANGED <<apps, term, current, list, tab, button, asked, acts, failures, gone, late>>

\* The form is sent, with a name and an image that have been looked at.
Submit ==
  /\ tab = "new" /\ button
  /\ Act
  /\ button' = FALSE
  /\ asked' = asked \cup {Ask(acts + 1, "upload", 0)}
  /\ UNCHANGED <<term, current, list, tab, env, inputs>>

ServeUpload(r) ==
  /\ r.what = "upload" /\ r.at = "sent"
  /\ \/ \E x \in Projects :
          /\ x \notin gone /\ \A y \in DOMAIN apps : y < x
          /\ apps' = [y \in DOMAIN apps \cup {x} |-> IF y = x THEN FALSE ELSE apps[y]]
          /\ asked' = (asked \ {r}) \cup {[r EXCEPT !.at = "done"]}
     \/ UNCHANGED apps /\ asked' = (asked \ {r}) \cup {[r EXCEPT !.at = "refused"]}
  /\ UNCHANGED <<term, current, list, tab, env, inputs, button, acts, failures, gone, late>>

\* A good answer empties the form, whatever has been typed since, and shows the projects:
\* switchTab asks for them, and loadProjects again.
Uploaded(r) ==
  /\ r.what = "upload" /\ r.at = "done"
  /\ env' = <<"">> /\ inputs' = env' /\ button' = TRUE
  /\ tab' = "projects" /\ list' = Loading
  /\ asked' = (asked \ {r}) \cup {List(r.id), [List(r.id) EXCEPT !.of = 1]}
  /\ UNCHANGED <<apps, term, current, acts, failures, gone, late>>

\* One that refuses, or none, is told, and the form stays.
NotUploaded(r) ==
  /\ r.what = "upload"
  /\ IF r.at = "refused" THEN UNCHANGED failures ELSE Failure
  /\ asked' = asked \ {r} /\ button' = TRUE
  /\ UNCHANGED <<apps, term, current, list, tab, env, inputs, acts, gone, late>>

Next ==
  \/ \E t \in {"projects", "new"} : SwitchTab(t)
  \/ \E t \in {"", "some"} : Search(t)
  \/ \E p \in 1..Cardinality(Projects) : GoTo(p)
  \/ \E what \in {"scale", "delete"}, x \in Projects : Press(what, x)
  \/ Add \/ Submit
  \/ \E i \in 1..MaxEnv : Remove(i) \/ \E k \in Keys : Change(i, k)
  \/ \E n \in 1..MaxEnv : \E ks \in [1..n -> Keys] : Import(ks)
  \/ \E r \in asked :
       \/ Serve(r) \/ Pressed(r) \/ GotList(r) \/ Fails(r)
       \/ ServeUpload(r) \/ Uploaded(r) \/ NotUploaded(r)

Spec == Init /\ [][Next]_projectsVars

-------------------------------------------------------------------------------
\* Each variable has its type.
ProjectsTypeOK ==
  /\ DOMAIN apps \subseteq Projects /\ current \in 1..Cardinality(Projects)
  /\ term \in {"", "some"} /\ tab \in {"projects", "new"}
  /\ list.kind \in {"loading", "empty", "rows"} /\ Ids \subseteq Projects
  /\ env # <<>> /\ Len(env) <= MaxEnv /\ \A i \in DOMAIN env : env[i] \in Keys
  /\ acts \in 0..MaxActs /\ failures \in 0..MaxFailures

\* Once the page waits for nothing, the list is the page of the applications there are
\* under the search, unless a request failed or an answer came late.
SettledProjects == asked = {} /\ failures = 0 /\ ~late => list = Rendered(apps)

\* As long as no application is deleted and no answer comes late, a list that counts
\* projects shows some: the page is never past the last one, whatever is searched.
PageHasProjects == gone = {} /\ ~late /\ failures = 0 /\ list.kind = "rows" => list.rows # {}

\* A field of the form changes the variable it shows: removals, files and a form that is
\* emptied leave no field with the number of another variable.
FieldsAreEnv == inputs = env

\* The form can be sent unless an upload is under way, and no two are.
OneUpload ==
  /\ button <=> ~\E r \in asked : r.what = "upload"
  /\ Cardinality({r \in asked : r.what = "upload"}) <= 1
================================================================================
