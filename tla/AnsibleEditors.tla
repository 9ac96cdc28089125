---------------------------- MODULE AnsibleEditors ----------------------------
(***************************************************************************)
(* The window in which Ansible's configuration is edited (ansibleConfig.js *)
(* 19-118 and 872-1125): ansible.cfg, the inventory and the variables. It  *)
(* reads them when it is shown; four buttons reload, verify, roll back and *)
(* save them, each disabled during its own request only. The server reads  *)
(* the three files one by one, and one that cannot be read as empty; it    *)
(* backs up the first two before it writes, and reports a failure also     *)
(* when some or all of them are written.                                   *)
(***************************************************************************)
EXTENDS Naturals, FiniteSets

CONSTANTS
  MaxActs,      \* bound: openings of the window, presses and edits
  MaxFailures   \* bound: requests and readings that fail

\* Assumed where the constants are given values.
EditorsAssumption == MaxActs \in Nat /\ MaxFailures \in Nat

VARIABLES
  files, backup,   \* what the controller has, and its copies
  editors,
  shown,           \* whether the window is
  asked,           \* requests under way
  busy,            \* the buttons that are disabled
  panel,           \* the colour of the state above the editors
  tries, faults

editorsVars == <<files, backup, editors, shown, asked, busy, panel, tries, faults>>

Fields == {"cfg", "hosts", "vars"}
Empty == ""
Texts == {Empty, "old", "new"}
Buttons == {"reload", "verify", "rollback", "save"}
Nothing == [f \in Fields |-> Empty]

Init ==
  /\ files \in {[Nothing EXCEPT !.cfg = "old", !.hosts = "old", !.vars = v] : v \in {Empty, "old"}}
  /\ backup = Nothing /\ editors = Nothing
  /\ shown = FALSE /\ asked = {} /\ busy = {} /\ panel = "info" /\ tries = 0 /\ faults = 0

Try == tries < MaxActs /\ tries' = tries + 1
Fault == faults < MaxFailures /\ faults' = faults + 1

Asks(what, texts) ==
  asked' = asked \cup {[id |-> tries, what |-> what, at |-> "sent", done |-> TRUE, texts |-> texts]}

-------------------------------------------------------------------------------
\* The window is shown: the files are read. Nothing keeps a second reading away.
Show ==
  /\ ~shown /\ Try
  /\ shown' = TRUE /\ panel' = "info"
  /\ Asks("show", Nothing)
  /\ UNCHANGED <<files, backup, editors, busy, faults>>

Hide ==
  /\ shown
  /\ shown' = FALSE
  /\ UNCHANGED <<files, backup, editors, asked, busy, panel, tries, faults>>

Type(f, text) ==
  /\ shown /\ Try
  /\ editors' = [editors EXCEPT ![f] = text]
  /\ UNCHANGED <<files, backup, shown, asked, busy, panel, faults>>

\* Reload, verify and, once confirmed, roll back.
Press(button) ==
  /\ shown /\ button \notin busy /\ Try
  /\ busy' = busy \cup {button}
  /\ Asks(button, Nothing)
  /\ UNCHANGED <<files, backup, editors, shown, panel, faults>>

\* A configuration or an inventory that is empty is refused.
MaySave == editors.cfg # Empty /\ editors.hosts # Empty

Save ==
  /\ shown /\ "save" \notin busy /\ Try
  /\ IF MaySave
       THEN Asks("save", editors) /\ busy' = busy \cup {"save"}
       ELSE UNCHANGED <<asked, busy>>
  /\ UNCHANGED <<files, backup, editors, shown, panel, faults>>

-------------------------------------------------------------------------------
\* The controller's files, under what the server does.
Answered(r, done, texts) ==
  asked' = (asked \ {r}) \cup {[r EXCEPT !.at = "answered", !.done = done, !.texts = texts]}

ServeRead(r) ==
  /\ r.at = "sent" /\ r.what \in {"show", "reload", "reread"}
  /\ \/ Answered(r, TRUE, files) /\ UNCHANGED faults
     \/ \E f \in Fields : Fault /\ Answered(r, TRUE, [files EXCEPT ![f] = Empty])
  /\ UNCHANGED <<files, backup, editors, shown, busy, panel, tries>>

\* A save may fail before, between and after its writings; variables are not emptied.
ServeSave(r) ==
  /\ r.at = "sent" /\ r.what = "save"
  /\ backup' = [files EXCEPT !.vars = Empty]
  /\ \E written \in {{}, {"cfg"}, {"cfg", "hosts"}, Fields}, done \in BOOLEAN :
       /\ IF done THEN written = Fields /\ UNCHANGED faults ELSE Fault
       /\ files' = [f \in Fields |->
                      IF f \in written /\ (f # "vars" \/ r.texts[f] # Empty)
                        THEN r.texts[f] ELSE files[f]]
       /\ Answered(r, done, Nothing)
  /\ UNCHANGED <<editors, shown, busy, panel, tries>>

ServeRollback(r) ==
  /\ r.at = "sent" /\ r.what = "rollback"
  /\ files' = [f \in Fields |-> IF backup[f] # Empty THEN backup[f] ELSE files[f]]
  /\ \/ Answered(r, backup.cfg # Empty, Nothing) /\ UNCHANGED faults
     \/ Answered(r, FALSE, Nothing) /\ Fault
  /\ UNCHANGED <<backup, editors, shown, busy, panel, tries>>

ServeVerify(r) ==
  /\ r.at = "sent" /\ r.what = "verify"
  /\ \E done \in BOOLEAN :
       /\ IF done THEN UNCHANGED faults ELSE Fault
       /\ Answered(r, done, Nothing)
  /\ UNCHANGED <<files, backup, editors, shown, busy, panel, tries>>

\* A request that fails, or is given up before the server has done with it.
Fails(r) ==
  /\ r.at = "sent"
  /\ Fault
  /\ Answered(r, FALSE, Nothing)
  /\ UNCHANGED <<files, backup, editors, shown, busy, panel, tries>>

-------------------------------------------------------------------------------
\* The files read for the window replace what the editors hold; a failure empties them.
PanelAfter(r) == IF r.done THEN "success" ELSE "warning"

GotShow(r) ==
  /\ r.at = "answered" /\ r.what = "show"
  /\ asked' = asked \ {r}
  /\ editors' = IF r.done THEN r.texts ELSE Nothing
  /\ panel' = PanelAfter(r)
  /\ UNCHANGED <<files, backup, shown, busy, tries, faults>>

\* A file read again replaces what its editor holds unless it is empty; that of ansible.cfg
\* is looked for under a name the server does not give it.
Reread(texts) ==
  [f \in Fields |-> IF f # "cfg" /\ texts[f] # Empty THEN texts[f] ELSE editors[f]]

GotRead(r) ==
  /\ r.at = "answered" /\ r.what \in {"reload", "reread"}
  /\ asked' = asked \ {r}
  /\ editors' = IF r.done THEN Reread(r.texts) ELSE editors
  /\ busy' = busy \ {IF r.what = "reload" THEN "reload" ELSE "rollback"}
  /\ UNCHANGED <<files, backup, shown, panel, tries, faults>>

\* A roll-back that succeeded reads again before its button is enabled.
GotRollback(r) ==
  /\ r.at = "answered" /\ r.what = "rollback"
  /\ IF r.done
       THEN /\ asked' = (asked \ {r}) \cup {[r EXCEPT !.what = "reread", !.at = "sent"]}
            /\ UNCHANGED busy
       ELSE asked' = asked \ {r} /\ busy' = busy \ {"rollback"}
  /\ UNCHANGED <<files, backup, editors, shown, panel, tries, faults>>

\* Verify and save tell their result and change no colour.
GotResult(r) ==
  /\ r.at = "answered" /\ r.what \in {"verify", "save"}
  /\ asked' = asked \ {r}
  /\ busy' = busy \ {r.what}
  /\ UNCHANGED <<files, backup, editors, shown, panel, tries, faults>>

Next ==
  \/ Show \/ Hide \/ Save
  \/ \E f \in Fields, text \in {Empty, "new"} : Type(f, text)
  \/ \E button \in Buttons \ {"save"} : Press(button)
  \/ \E r \in asked :
       \/ ServeRead(r) \/ ServeSave(r) \/ ServeRollback(r) \/ ServeVerify(r) \/ Fails(r)
       \/ GotShow(r) \/ GotRead(r) \/ GotRollback(r) \/ GotResult(r)

Spec == Init /\ [][Next]_editorsVars

-------------------------------------------------------------------------------
(* Properties                                                              *)

EditorsTypeOK ==
  /\ {files, backup, editors} \subseteq [Fields -> Texts]
  /\ shown \in BOOLEAN /\ busy \subseteq Buttons /\ panel \in {"info", "success", "warning"}
  /\ \A r \in asked : r.id \in 0..MaxActs /\ r.texts \in [Fields -> Texts]
  /\ tries \in 0..MaxActs /\ faults \in 0..MaxFailures

\* A file that has a content is never emptied from this window: neither by saving editors
\* that a failed or partial reading emptied, nor by rolling back to a copy never made.
NothingEmptied == \A f \in Fields : files[f] # Empty => files'[f] # Empty

\* A button is disabled exactly while its own request, or the reading that ends a
\* roll-back, is under way; and the state says "loading" only while the window's reading is.
Own(button) ==
  \E r \in asked : r.what = button \/ (button = "rollback" /\ r.what = "reread")
SettledEditors ==
  /\ \A button \in Buttons : button \in busy <=> Own(button)
  /\ panel = "info" => tries = 0 \/ \E r \in asked : r.what = "show"

===============================================================================
