---------------------------- MODULE PlaybookManager ----------------------------
(***************************************************************************)
(* The playbook manager of a cluster's page (playbook-manager.js) and the  *)
(* files on the Ansible controller it works on (AnsibleService.java).      *)
(* Running a playbook is in PlaybookRuns.                                  *)
(*                                                                         *)
(* A handler of the page is a flow: the requests it still awaits, one      *)
(* after another.  A request is sent, served, and its answer received;     *)
(* between these steps the user clicks on, other flows go on, and the      *)
(* answers of different flows arrive in any order.                         *)
(***************************************************************************)
EXTENDS Integers, Sequences, FiniteSets

CONSTANTS
  Stems,        \* file names without their extension
  Slots,        \* flows that can be under way at once
  MaxClicks,    \* bound: clicks of the user
  MaxFailures   \* bound: requests that fail

\* Assumed where the constants are given values.
PlaybookAssumption ==
  /\ "" \notin Stems /\ "new" \notin Stems
  /\ MaxClicks \in Nat /\ MaxFailures \in Nat

File(stem, ext) == [stem |-> stem, ext |-> ext]
Files == [stem : Stems, ext : {"yml", "yaml"}]

\* A text is known by the playbook it is meant for; a new one is for none yet.
Texts == Stems \cup {"", "new"}

VARIABLES
  files,     \* the playbooks on the controller: file -> text
  list,      \* the files the page lists
  name, text,
  buttons,   \* whether Delete and Execute are shown
  view,      \* whether the editor is shown
  flows,
  clicks, failures

editor == <<name, text, buttons, view>>
pvars == <<files, list, name, text, buttons, view, flows, clicks, failures>>

NoFlow == [kind |-> "none", todo |-> <<>>, at |-> "idle", file |-> "none", text |-> "", answer |-> "none"]

Init ==
  /\ files \in {[f \in F |-> f.stem] : F \in SUBSET Files}
  /\ list = {} /\ name = "" /\ text = "" /\ buttons = FALSE /\ view = "none"
  /\ flows = [s \in Slots |-> NoFlow]
  /\ clicks = 0 /\ failures = 0

-------------------------------------------------------------------------------
(* The user's clicks.  A handler whose button is disabled while it runs is one   *)
(* flow at a time; a row's buttons and the others are not disabled.               *)

Begin(s, kind, todo, file, content) ==
  /\ flows[s] = NoFlow
  /\ flows' = [flows EXCEPT ![s] = [kind |-> kind, todo |-> todo, at |-> "sent", file |-> file,
                                   text |-> content, answer |-> "none"]]

\* The button of a handler is disabled until the handler is through.
Enabled(kind) == \A s \in Slots : flows[s].kind # kind

\* refreshPlaybooks, and opening the manager
Refresh(s) ==
  /\ Enabled("refresh")
  /\ Begin(s, "refresh", <<"list">>, "none", "")
  /\ UNCHANGED <<files, list, editor, failures>>

\* the eye of a row
ClickView(s) ==
  /\ \E f \in list : Begin(s, "view", <<"load">>, f, "")
  /\ UNCHANGED <<files, list, editor, failures>>

\* savePlaybook takes name and text when it is clicked; the server adds the extension.
ClickSave(s) ==
  /\ Enabled("save") /\ name # "" /\ text # ""
  /\ Begin(s, "save", <<"save", "list">>, File(name, "yml"), text)
  /\ UNCHANGED <<files, list, editor, failures>>

\* The bin of a row, once confirmed.
ClickDeleteRow(s) ==
  /\ \E f \in list : Begin(s, "delete", <<"delete", "list">>, f, "")
  /\ UNCHANGED <<files, list, editor, failures>>

\* The Delete button: whatever becomes of the deletion, the editor is cleared after it.
ClickDelete(s) ==
  /\ buttons /\ name # ""
  /\ Begin(s, "delete", <<"delete", "list", "clear">>, File(name, "yml"), "")
  /\ UNCHANGED <<files, list, editor, failures>>

Cleared ==
  /\ name' = "" /\ text' = "" /\ buttons' = FALSE
  /\ UNCHANGED view

\* The Delete button, and the confirmation refused.
CancelDelete ==
  /\ buttons /\ name # ""
  /\ Cleared
  /\ UNCHANGED <<files, list, flows, failures>>

ClickCreate ==
  /\ name' = "" /\ text' = "new" /\ buttons' = FALSE /\ view' = "content"
  /\ UNCHANGED <<files, list, flows, failures>>

\* The user names the text in the editor: from then on it is meant for that playbook.
TypeName(stem) ==
  /\ view = "content" /\ text # ""
  /\ name' = stem /\ text' = stem
  /\ UNCHANGED <<files, list, buttons, view, flows, failures>>

\* generateK8sPlaybookFromTemplate, and what its button does with the answer.
ClickGenerate(s) ==
  /\ Enabled("generate")
  /\ \E stem \in Stems :
       Begin(s, "generate", <<"check", "save", "load", "content", "list">>, File(stem, "yml"), stem)
  /\ UNCHANGED <<files, list, editor, failures>>

\* The file chosen for upload is put into the editor at once.
ClickUpload(s) ==
  /\ \E f \in Files :
       /\ Begin(s, "upload", <<"check", "save", "list", "load", "buttons">>, f, f.stem)
       /\ name' = f.stem /\ text' = f.stem
  /\ UNCHANGED <<files, list, buttons, view, failures>>

\* resetPlaybookUI: the cluster's page is left; flows and monitors go on.
LeavePage ==
  /\ list' = {} /\ name' = "" /\ text' = "" /\ view' = "none"
  /\ UNCHANGED <<files, buttons, flows, failures>>

-------------------------------------------------------------------------------
(* The server. *)

Answer(s, answer) == flows' = [flows EXCEPT ![s].at = "served", ![s].answer = answer]

Asks(s, what) == flows[s].at = "sent" /\ Head(flows[s].todo) = what

\* Both listPlaybooks and checkPlaybookExists ask for the list of files.
ServeList(s) ==
  /\ Asks(s, "list") \/ Asks(s, "check")
  /\ Answer(s, DOMAIN files)
  /\ UNCHANGED <<files, list, editor, failures>>

\* cat of a file that is not there prints nothing, and its exit code is not looked at.
ServeRead(s) ==
  /\ Asks(s, "load")
  /\ LET f == flows[s].file IN
       Answer(s, IF f \in DOMAIN files THEN files[f] ELSE "")
  /\ UNCHANGED <<files, list, editor, failures>>

ServeSave(s) ==
  /\ Asks(s, "save")
  /\ files' = [f \in DOMAIN files \cup {flows[s].file} |->
                 IF f = flows[s].file THEN flows[s].text ELSE files[f]]
  /\ Answer(s, "ok")
  /\ UNCHANGED <<list, editor, failures>>

\* rm -f: no file, no error
ServeDelete(s) ==
  /\ Asks(s, "delete")
  /\ files' = [f \in DOMAIN files \ {flows[s].file} |-> files[f]]
  /\ Answer(s, "ok")
  /\ UNCHANGED <<list, editor, failures>>

-------------------------------------------------------------------------------
(* The answers. *)

Step(s) == Head(flows[s].todo)

\* A flow goes on to its next request, or is over.
Onward(s, rest) ==
  flows' = [flows EXCEPT ![s] =
              IF rest = <<>> THEN NoFlow
              ELSE [flows[s] EXCEPT !.todo = rest, !.at = "sent", !.answer = "none"]]

Received(s, what) == flows[s].at = "served" /\ Step(s) = what

ShowList(s) ==
  /\ Received(s, "list")
  /\ list' = flows[s].answer
  /\ Onward(s, Tail(flows[s].todo))
  /\ UNCHANGED <<files, editor, failures>>

\* (variant) the name is put into the editor when the playbook is clicked
ShowPlaybookLate(s) ==
  /\ Received(s, "load")
  /\ text' = flows[s].answer
  /\ buttons' = TRUE /\ view' = "content"
  /\ Onward(s, Tail(flows[s].todo))
  /\ UNCHANGED <<files, list, name, failures>>

\* loadPlaybook sets name and text together, when the text has arrived.
ShowPlaybook(s) ==
  /\ Received(s, "load")
  /\ name' = flows[s].file.stem /\ text' = flows[s].answer
  /\ buttons' = TRUE /\ view' = "content"
  /\ Onward(s, Tail(flows[s].todo))
  /\ UNCHANGED <<files, list, failures>>

Saved(s) ==
  /\ Received(s, "save") \/ Received(s, "delete")
  /\ Onward(s, Tail(flows[s].todo))
  /\ UNCHANGED <<files, list, editor, failures>>

\* A file of that name is there: the user agrees to overwrite it, or the flow ends; an
\* upload that is given up still shows the buttons.
Checked(s) ==
  /\ Received(s, "check")
  /\ \/ Onward(s, Tail(flows[s].todo))
     \/ /\ flows[s].file \in flows[s].answer
        /\ Onward(s, IF flows[s].kind = "upload" THEN <<"buttons">> ELSE <<>>)
  /\ UNCHANGED <<files, list, editor, failures>>

\* The steps that ask nothing of the server.
ClearEditor(s) ==
  /\ Asks(s, "clear")
  /\ Cleared
  /\ Onward(s, Tail(flows[s].todo))
  /\ UNCHANGED <<files, list, failures>>

ShowButtons(s) ==
  /\ Asks(s, "buttons") /\ buttons' = TRUE
  /\ Onward(s, Tail(flows[s].todo))
  /\ UNCHANGED <<files, list, name, text, view, failures>>

ShowContent(s) ==
  /\ Asks(s, "content") /\ view' = "content"
  /\ Onward(s, Tail(flows[s].todo))
  /\ UNCHANGED <<files, list, name, text, buttons, failures>>

\* What is left of a flow when its request fails: the list shows the error, a look-up that
\* failed counts as no file, and a deletion goes on to clear the editor all the same, without
\* the list.
AfterFailure(s) ==
  CASE Step(s) \in {"list", "load", "check"} -> Tail(flows[s].todo)
    [] Step(s) = "delete" -> SubSeq(flows[s].todo, 3, Len(flows[s].todo))
    [] OTHER -> <<>>

\* A request, or the answer to it, is lost, or the server answers with an error.
Fail(s) ==
  /\ flows[s] # NoFlow /\ Step(s) \notin {"clear", "buttons", "content"}
  /\ failures < MaxFailures
  /\ failures' = failures + 1
  /\ list' = IF Step(s) = "list" THEN {} ELSE list
  /\ Onward(s, AfterFailure(s))
  /\ UNCHANGED <<files, editor>>

-------------------------------------------------------------------------------
Click ==
  /\ clicks < MaxClicks /\ clicks' = clicks + 1
  /\ \/ \E s \in Slots :
         \/ Refresh(s) \/ ClickView(s) \/ ClickSave(s) \/ ClickDeleteRow(s) \/ ClickDelete(s)
         \/ ClickGenerate(s) \/ ClickUpload(s)
     \/ \E stem \in Stems : TypeName(stem)
     \/ CancelDelete \/ ClickCreate \/ LeavePage

Serve(s) == ServeList(s) \/ ServeRead(s) \/ ServeSave(s) \/ ServeDelete(s)

Receive(s) ==
  \/ ShowList(s) \/ ShowPlaybook(s) \/ Saved(s) \/ Checked(s)
  \/ ClearEditor(s) \/ ShowButtons(s) \/ ShowContent(s)

Next ==
  \/ Click
  \/ /\ \E s \in Slots : Serve(s) \/ Receive(s) \/ Fail(s)
     /\ UNCHANGED clicks

\* Requests are answered.
Spec == Init /\ [][Next]_pvars /\ \A s \in Slots : WF_pvars(Serve(s) \/ Receive(s))

-------------------------------------------------------------------------------
(* Properties *)

TypeOK ==
  /\ DOMAIN files \subseteq Files /\ \A f \in DOMAIN files : files[f] \in Texts
  /\ list \subseteq Files
  /\ name \in Stems \cup {""} /\ text \in Texts
  /\ buttons \in BOOLEAN /\ view \in {"none", "content"}
  /\ failures \in 0..MaxFailures

\* Whatever flows overlap and whatever answers come late, no playbook's text stands in the
\* editor under another playbook's name, or is saved under it.
TextUnderItsName ==
  /\ name # "" /\ text # "" => text = name
  /\ \A f \in DOMAIN files : files[f] = f.stem

===============================================================================
