-------------------------------- MODULE Windows --------------------------------
(***************************************************************************)
(* The windows of every page: Bootstrap's Modal and Backdrop as the pages  *)
(* use them, through modal.js, admin.js's interceptor of clicks, and the   *)
(* two windows whose page makes a new instance of Modal at every opening   *)
(* (showNodeDetail, viewDeploymentDetail). An instance has a backdrop of   *)
(* its own; the class "show" and the display are the window's. Opening and *)
(* closing go by transitions, whose ends call back; after every            *)
(* "hidden.bs.modal" modal.js cleans up in the next frame. Focus, and the  *)
(* attributes for screen readers, are left out.                            *)
(***************************************************************************)
EXTENDS Integers, Sequences

CONSTANTS
  Reused,     \* the windows with one instance (getOrCreateInstance)
  Renewed,    \* the windows with a new instance for every opening
  MaxOpens    \* bound: openings

\* Assumed where the constants are given values.
WindowsAssumption == Reused \cap Renewed = {} /\ MaxOpens \in Nat

VARIABLES
  page,        \* one with buttons that toggle windows, or with lists and their details
  newest,      \* how many instances a renewed window has had
  awaited,     \* instances that are shown when an answer comes
  asked,       \* windows that a click shows in the next frame
  opens,
  shown, changing,    \* _isShown and _isTransitioning, as sets of instances
  callbacks,   \* the ends of transitions that an instance waits for, in order
  appended,    \* the instances that take their backdrop for appended
  up,          \* the windows with the class "show"
  displayed,   \* the windows with display "block"
  backdrops,   \* the instances whose backdrop is in the document
  locked,      \* the body's class "modal-open"
  overflow, saved,    \* the body's overflow is hidden; its former value is kept
  due,         \* the next frame cleans up
  ripe,        \* the instances whose transition may end before the next frame
  crossed      \* the instances whose opening met a closing, a click or another of its window

asks == <<page, newest, awaited, asked, opens>>
body == <<backdrops, locked, overflow, saved>>

windowVars ==
  <<asks, shown, changing, callbacks, appended, up, displayed, body, due, ripe, crossed>>

Windows == Reused \cup Renewed
Instances == {<<w, 0>> : w \in Reused} \cup (Renewed \X (1..MaxOpens))
Of(i) == i[1]

\* The instance Bootstrap finds for a window.
Current(w) == IF w \in Reused THEN <<w, 0>> ELSE <<w, newest[w]>>

Init ==
  /\ page \in {"setup", "lists"} /\ newest = [w \in Renewed |-> 0]
  /\ awaited = {} /\ asked = {} /\ opens = 0
  /\ shown = {} /\ changing = {} /\ callbacks = [i \in Instances |-> <<>>] /\ appended = {}
  /\ up = {} /\ displayed = {}
  /\ backdrops = {} /\ locked = FALSE /\ overflow = FALSE /\ saved = FALSE
  /\ due = FALSE /\ ripe = {} /\ crossed = {}

Opens == opens < MaxOpens /\ opens' = opens + 1

-------------------------------------------------------------------------------
(* The ends of transitions, and the frames, which come before the end of a    *)
(* transition that begins after they were asked for                           *)

Awaits(i, what) == callbacks[i] # <<>> /\ Head(callbacks[i]) = what
Opening(i) == Awaits(i, "element")
Closing(i) == Awaits(i, "modal") \/ Awaits(i, "hidden")

FrameAwaited == due \/ asked # {}

\* The end of a transition, after which another may be awaited.
Ends(i, what, next) ==
  /\ Awaits(i, what) /\ (FrameAwaited => i \in ripe)
  /\ callbacks' = [callbacks EXCEPT ![i] = Tail(@) \o next]

Later(i) == ripe' = ripe \ {i}
NewFrame(i) ==
  ripe' = (IF FrameAwaited THEN ripe ELSE {j \in Instances : callbacks[j] # <<>>}) \ {i}

-------------------------------------------------------------------------------
(* Bootstrap                                                                  *)

Alike(i) == {j \in shown \cup changing : Of(j) = Of(i)}
MeetsClosing == due \/ \E j \in Instances : Closing(j)

\* Modal.show, with ScrollBarHelper.hide and Backdrop.show: nothing when it is shown, or
\* in the midst of a transition.
Show(i) ==
  IF i \in shown \cup changing
  THEN UNCHANGED <<shown, changing, callbacks, appended, body, crossed>>
  ELSE /\ shown' = shown \cup {i} /\ changing' = changing \cup {i}
       /\ saved' = (saved \/ overflow) /\ overflow' = TRUE /\ locked' = TRUE
       /\ appended' = appended \cup {i}
       /\ backdrops' = IF i \in appended THEN backdrops ELSE backdrops \cup {i}
       /\ callbacks' = [callbacks EXCEPT ![i] = Append(@, "element")]
       /\ crossed' = IF MeetsClosing \/ Alike(i) # {}
                     THEN crossed \cup {i} \cup Alike(i) ELSE crossed \ {i}

\* The backdrop has faded in: _showElement.
ShowElement(i) ==
  /\ Ends(i, "element", <<"shown">>) /\ Later(i)
  /\ up' = up \cup {Of(i)} /\ displayed' = displayed \cup {Of(i)}
  /\ UNCHANGED <<asks, shown, changing, appended, body, due, crossed>>

\* The window has: transitionComplete.
Shown(i) ==
  /\ Ends(i, "shown", <<>>) /\ Later(i)
  /\ changing' = changing \ {i}
  /\ UNCHANGED <<asks, shown, appended, up, displayed, body, due, crossed>>

\* Modal.hide of some instances: of those that are shown, and not in a transition.
Hide(w, instances) ==
  LET hiding == (instances \cap shown) \ changing
  IN  /\ hiding # {}
      /\ shown' = shown \ hiding /\ changing' = changing \cup hiding
      /\ up' = up \ {w}
      /\ callbacks' = [i \in Instances |->
                         IF i \in hiding THEN Append(callbacks[i], "modal") ELSE callbacks[i]]
      /\ crossed' = crossed \cup {i \in Instances : Opening(i)}
      /\ UNCHANGED <<asks, appended, displayed, body, due, ripe>>

\* The window has faded out: _hideModal. From here on it may be shown again.
HideModal(i) ==
  /\ Ends(i, "modal", <<"hidden">>) /\ Later(i)
  /\ displayed' = displayed \ {Of(i)} /\ changing' = changing \ {i}
  /\ UNCHANGED <<asks, shown, appended, up, body, due, crossed>>

\* Its backdrop has: it is disposed of, the body released, and "hidden.bs.modal" triggered.
\* ScrollBarHelper.reset puts back a former overflow, if one was kept.
Hidden(i) ==
  /\ Ends(i, "hidden", <<>>) /\ NewFrame(i) /\ due' = TRUE
  /\ appended' = appended \ {i}
  /\ backdrops' = IF i \in appended THEN backdrops \ {i} ELSE backdrops
  /\ locked' = FALSE /\ overflow' = saved /\ saved' = FALSE
  /\ UNCHANGED <<asks, shown, changing, up, displayed, crossed>>

-------------------------------------------------------------------------------
(* modal.js and admin.js                                                      *)

\* With no window up, what backdrops there are go.
ForceCleanupBackdrop ==
  IF up = {} /\ backdrops # {}
  THEN backdrops' = {} /\ locked' = FALSE /\ overflow' = FALSE /\ UNCHANGED saved
  ELSE UNCHANGED body

\* The frame after "hidden.bs.modal".
Frame ==
  /\ due /\ due' = FALSE
  /\ ForceCleanupBackdrop
  /\ UNCHANGED <<asks, shown, changing, callbacks, appended, up, displayed, ripe, crossed>>

\* A page opens a window itself (showModal, getOrCreateInstance).
ShowWindow(w) ==
  /\ w \in Reused /\ Opens
  /\ Show(<<w, 0>>)
  /\ UNCHANGED <<page, newest, awaited, asked, up, displayed, due, ripe>>

\* A button with data-bs-toggle is clicked, with the pointer or, under a backdrop, with
\* the key: the interceptor cleans up, and shows the window in the next frame.
ClickToggle(w) ==
  /\ page = "setup" /\ w \in Reused \ asked /\ displayed = {} /\ Opens
  /\ ForceCleanupBackdrop
  /\ asked' = asked \cup {w}
  /\ ripe' = IF FrameAwaited THEN ripe ELSE {j \in Instances : callbacks[j] # <<>>}
  /\ crossed' = crossed \cup {i \in Instances : Opening(i)}
  /\ UNCHANGED <<page, newest, awaited, shown, changing, callbacks, appended, up, displayed,
                 due>>

ShowAsked(w) ==
  /\ w \in asked /\ asked' = asked \ {w}
  /\ Show(<<w, 0>>)
  /\ UNCHANGED <<page, newest, awaited, opens, up, displayed, due, ripe>>

\* A row's details are asked for: a new instance takes the place of the last, and is
\* shown when the answer is there.
AskDetail(w) ==
  /\ page = "lists" /\ w \in Renewed /\ displayed = {} /\ backdrops = {} /\ Opens
  /\ newest' = [newest EXCEPT ![w] = @ + 1]
  /\ awaited' = awaited \cup {<<w, newest'[w]>>}
  /\ UNCHANGED <<page, asked, shown, changing, callbacks, appended, up, displayed, body, due,
                 ripe, crossed>>

ShowDetail(i) ==
  /\ i \in awaited /\ awaited' = awaited \ {i}
  /\ Show(i)
  /\ UNCHANGED <<page, newest, asked, opens, up, displayed, due, ripe>>

\* A button with data-bs-dismiss, or the page, asks the instance that is the window's now.
Dismiss(w) == w \in displayed /\ Hide(w, {Current(w)})

\* Escape, or a click beside the dialog: every instance the window had listens.
Escape(w) == w \in displayed /\ Hide(w, {i \in Instances : Of(i) = w})

Next ==
  \/ Frame
  \/ \E w \in Windows : \/ ShowWindow(w) \/ ClickToggle(w) \/ ShowAsked(w) \/ AskDetail(w)
                        \/ Dismiss(w) \/ Escape(w)
  \/ \E i \in Instances : \/ ShowDetail(i) \/ ShowElement(i) \/ Shown(i)
                          \/ HideModal(i) \/ Hidden(i)

-------------------------------------------------------------------------------
WindowsTypeOK ==
  /\ page \in {"setup", "lists"} /\ newest \in [Renewed -> 0..MaxOpens] /\ opens \in 0..MaxOpens
  /\ asked \subseteq Reused /\ up \cup displayed \subseteq Windows
  /\ UNION {awaited, shown, changing, appended, backdrops, ripe, crossed} \subseteq Instances
  /\ \A i \in Instances :
       /\ Len(callbacks[i]) <= 2
       /\ \A n \in 1..Len(callbacks[i]) :
            callbacks[i][n] \in {"element", "shown", "modal", "hidden"}
  /\ {locked, overflow, saved, due} \subseteq BOOLEAN

Settled == ~FrameAwaited /\ \A i \in Instances : callbacks[i] = <<>>

\* With no window up nothing covers the page, however windows were opened over and
\* during one another, and twice (modal.js: "this ensures any stuck backdrops are
\* removed"); and the body scrolls, unless an instance takes itself for shown still.
NothingLeft ==
  Settled /\ up = {} =>
    /\ backdrops = {}
    /\ shown = {} => ~locked /\ ~overflow

\* A window that has opened is seen and has its backdrop, unless its opening met a
\* closing, another click, or another instance of its own.
OpenIsCovered ==
  \A w \in Windows :
    LET i == Current(w)
    IN  i \in (shown \ changing) \ crossed => w \in up \cap displayed /\ i \in backdrops

================================================================================
