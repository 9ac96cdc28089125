------------------------------- MODULE K8sNames -------------------------------
(***************************************************************************)
(* The names Kubernetes objects get: a namespace from a user name, a       *)
(* Deployment from an application's name and id, and what an Ingress       *)
(* answers to.  Nothing validates the name of an account that registers    *)
(* itself or of an application, so the conversions meet any string.  A     *)
(* string is the sequence of its characters here, since what a conversion  *)
(* does to them is the subject.                                            *)
(***************************************************************************)
EXTENDS Integers, FiniteSets, SequencesExt

CONSTANTS
  Usernames,     \* what is typed for a user name
  AppNames,      \* what is typed for an application's name
  Ids,           \* application ids, as the sequences of their digits
  MaxPart,       \* the longest name sanitizeStringForK8s returns: 50
  MaxLabel,      \* the longest label Kubernetes takes: 63
  MaxAccounts, MaxApps,  \* bounds of the model
  Owners         \* bound: uploads are looked at where only these are registered

VARIABLES
  accounts,      \* the user names of table users
  apps           \* [ids -> [owner, name]], of table applications

nameVars == <<accounts, apps>>

LowerLetters == <<"a", "b", "c", "d", "e", "f", "g", "h", "i", "j", "k", "l", "m",
                  "n", "o", "p", "q", "r", "s", "t", "u", "v", "w", "x", "y", "z">>
Capitals     == <<"A", "B", "C", "D", "E", "F", "G", "H", "I", "J", "K", "L", "M",
                  "N", "O", "P", "Q", "R", "S", "T", "U", "V", "W", "X", "Y", "Z">>
Digits       == {"0", "1", "2", "3", "4", "5", "6", "7", "8", "9"}
Alnum        == ToSet(LowerLetters) \cup Digits
DefaultUser  == <<"d", "e", "f", "a", "u", "l", "t", "-", "u", "s", "e", "r">>
DefaultApp   == <<"a", "p", "p">>

\* Assumed where the constants are given values.
NamesAssumption ==
  /\ Usernames \subseteq Seq(STRING) /\ AppNames \subseteq Seq(STRING)
  /\ Ids \subseteq Seq(Digits)
  /\ MaxPart \in Nat \ {0} /\ MaxLabel \in Nat
  /\ MaxPart <= MaxLabel /\ Len(DefaultUser) <= MaxLabel
  /\ Owners \subseteq Usernames

-------------------------------------------------------------------------------
\* The steps of the conversions, each a replacement the code makes.
LowerOf(c) == IF \E i \in DOMAIN Capitals : Capitals[i] = c
                THEN LowerLetters[CHOOSE i \in DOMAIN Capitals : Capitals[i] = c] ELSE c
ToLower(s) == [i \in DOMAIN s |-> LowerOf(s[i])]

\* Faulty variant: other characters are dropped.
Dropped(s) == SelectSeq(s, LAMBDA c : c \in Alnum)

Dashed(s) == [i \in DOMAIN s |-> IF s[i] \in Alnum THEN s[i] ELSE "-"]

SingleDashes(s) ==
  FoldLeft(LAMBDA done, c : IF c = "-" /\ done # <<>> /\ Last(done) = "-" THEN done
                                                                    ELSE Append(done, c),
           <<>>, s)

WithoutFirst(c, s) == IF s # <<>> /\ Head(s) = c THEN Tail(s) ELSE s
WithoutLast(c, s)  == IF s # <<>> /\ Last(s) = c THEN Front(s) ELSE s

\* "^-|-$"
WithoutEnds(s) == WithoutLast("-", WithoutFirst("-", s))

\* Blanks at either end.
Trim(s) ==
  LET text == {i \in DOMAIN s : s[i] # " "} IN
  IF text = {} THEN <<>> ELSE SubSeq(s, Min(text), Max(text))

Shortened(s, max) ==
  IF Len(s) > max THEN WithoutLast("-", SubSeq(s, 1, max)) ELSE s

\* A name must not begin with a digit.
LetterFirst(s) == IF s # <<>> /\ Head(s) \in Digits THEN <<"n">> \o s ELSE s

-------------------------------------------------------------------------------
SanitizeStringForK8s(s) ==
  Shortened(LetterFirst(WithoutEnds(SingleDashes(Dashed(ToLower(Trim(s)))))), MaxPart)

SanitizeUserNamespace(username) ==
  LET s == SanitizeStringForK8s(username) IN
  IF s = <<>> THEN DefaultUser ELSE Shortened(s, MaxLabel)

\* "(^-+|-+$)" on dashes that are single; the letters it then adds at the ends are
\* never needed.
SanitizeDnsLabel(s) ==
  LET label == WithoutEnds(SingleDashes(Dashed(ToLower(s)))) IN
  IF label = <<>> THEN DefaultApp ELSE label

DeploymentName(app, id) == Dashed(ToLower(app)) \o <<"-">> \o id

\* With a base domain: the first label of the host.
IngressHost(id) ==
  SanitizeUserNamespace(apps[id].owner) \o <<"-">> \o SanitizeDnsLabel(apps[id].name)

-------------------------------------------------------------------------------
NameInit == accounts = {} /\ apps = [id \in {} |-> [owner |-> <<>>, name |-> <<>>]]

NewAccount(u) ==
  /\ Cardinality(accounts) < MaxAccounts
  /\ apps = <<>>
  /\ u \notin accounts
  /\ accounts' = accounts \cup {u}
  /\ UNCHANGED apps

\* Registration takes any name that is free; an admin's form checks the letters and
\* the length, and is among its cases.  (A database may take two spellings for one.)
Register == \E u \in Usernames : NewAccount(u)

Upload ==
  /\ Cardinality(DOMAIN apps) < MaxApps
  /\ accounts \subseteq Owners
  /\ \E u \in accounts \cap Owners, name \in AppNames, id \in Ids \ DOMAIN apps :
       /\ Trim(name) # <<>>
       /\ apps' = [i \in DOMAIN apps \cup {id} |->
                     IF i = id THEN [owner |-> u, name |-> Trim(name)] ELSE apps[i]]
  /\ UNCHANGED accounts

NameNext == Register \/ Upload

NameSpec == NameInit /\ [][NameNext]_nameVars

-------------------------------------------------------------------------------
NameTypeOK ==
  /\ accounts \subseteq Usernames
  /\ DOMAIN apps \subseteq Ids
  /\ \A id \in DOMAIN apps :
       /\ apps[id].owner \in accounts
       /\ apps[id].name # <<>> /\ Trim(apps[id].name) = apps[id].name

\* What Kubernetes takes for the name of a namespace.
IsLabel(s) ==
  /\ s # <<>> /\ Len(s) <= MaxLabel
  /\ \A i \in DOMAIN s : s[i] \in Alnum \cup {"-"}
  /\ Head(s) \in ToSet(LowerLetters)
  /\ Last(s) \in Alnum

\* "Lower-case letters, digits and dashes only, at most 63, no digit first"
\* (AdminController.sanitizeUserNamespace): whatever somebody registers as, Kubernetes
\* takes the namespace, and takes the host of each application but for its length.
NamespacesAreLabels ==
  /\ \A u \in accounts : IsLabel(SanitizeUserNamespace(u))
  /\ \A id \in DOMAIN apps :
       /\ Last(IngressHost(id)) \in Alnum
       /\ \A i \in DOMAIN IngressHost(id) : IngressHost(id)[i] \in Alnum \cup {"-"}

\* The words of a name: its longest runs of letters and digits, without regard to case.
WordsOf(s) ==
  LET t == ToLower(s)
      starts == {i \in DOMAIN t : t[i] \in Alnum /\ (i > 1 => t[i - 1] \notin Alnum)}
      endOf(i) == Max({j \in i..Len(t) : \A k \in i..j : t[k] \in Alnum})
  IN [w \in 1..Cardinality(starts) |->
        LET i == CHOOSE i \in starts : Cardinality({j \in starts : j < i}) = w - 1
        IN SubSeq(t, i, endOf(i))]

\* How long they are with a dash between two, and the n a digit is given.
JoinedLength(words) ==
  FoldLeft(LAMBDA sum, w : sum + Len(w) + 1, 0, words) - 1
    + (IF words # <<>> /\ Head(words[1]) \in Digits THEN 1 ELSE 0)

\* Two accounts get one namespace, which the deletion of either deletes, only when
\* their names have the same words; or one begins with the n the other's first digit
\* is given; or nothing is left of one (it becomes default-user); or one is cut.
SharersLookAlike ==
  \A u, v \in accounts :
    SanitizeUserNamespace(u) = SanitizeUserNamespace(v) =>
      \/ WordsOf(u) = WordsOf(v)
      \/ \E x \in {u, v} : WordsOf(x) = <<>> \/ JoinedLength(WordsOf(x)) > MaxPart
      \/ LET a == WordsOf(u)
             b == WordsOf(v)
         IN \/ a = [b EXCEPT ![1] = <<"n">> \o @] /\ Head(b[1]) \in Digits
            \/ b = [a EXCEPT ![1] = <<"n">> \o @] /\ Head(a[1]) \in Digits

\* Kubernetes refuses to create what exists, and a deletion goes by name: no two
\* applications, of whichever users and names, get one Deployment's name.
DeploymentsAreDistinct ==
  \A i, j \in DOMAIN apps :
    i # j => DeploymentName(apps[i].name, i) # DeploymentName(apps[j].name, j)

===============================================================================
