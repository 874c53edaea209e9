------------------------------- MODULE Windows -------------------------------
(***************************************************************************)
(* Windows, dialogs, popups and the shell's panels in the scene (scene.rs, *)
(* scene/workspaces.rs, scene/window.rs, scene/shell.rs,                   *)
(* scene/shortcuts.rs): which surface has the keyboard, which window is    *)
(* active, the chain of popups that grabs input, and which surface each    *)
(* press, touch, pinch and resting hand belongs to, as windows open,       *)
(* close, are minimized, hidden, moved between workspaces and locked away. *)
(*                                                                         *)
(* Each handler is an operator from a scene to a scene, composed in the    *)
(* order the code calls them.  A surface's role, owner and parent are      *)
(* constants; where it is matters only as whether it is under the pointer. *)
(* An input's serial is kept as whether it is the latest.  The field       *)
(* "told" is what the clients heard; no handler reads it.                  *)
(***************************************************************************)
EXTENDS Integers, Sequences, FiniteSets, SequencesExt

CONSTANTS
  Surfaces, Clients, Owner, Role, Parent,
  Order,          \* the surfaces by their keys
  Spots,          \* the sets of surfaces whose rectangles the pointer can be in
  Workspaces,     \* how many workspaces there may be
  MaxButtons,     \* how many buttons are held at once
  Inputs,         \* which of "pointer", "key", "touch", "pinch", "hold" there are
  Requests,       \* which of the shell's and clients' requests there are
  Crosses,        \* whether a menu is asked for as its window leaves the screen
  None

Roles == {"window", "dialog", "popup", "background", "panel", "overlay", "lock"}

TreeAssumption ==
  /\ Owner \in [Surfaces -> Clients] /\ Role \in [Surfaces -> Roles]
  /\ Parent \in [Surfaces -> Surfaces \cup {None}]
  /\ \A k \in Surfaces : (Parent[k] = None) = (Role[k] \notin {"dialog", "popup"})
  /\ \A k \in Surfaces : Role[k] = "dialog" => Role[Parent[k]] = "window"
  /\ {Order[i] : i \in DOMAIN Order} = Surfaces /\ Len(Order) = Cardinality(Surfaces)
LimitsAssumption ==
  /\ Spots \subseteq SUBSET Surfaces /\ Workspaces \in Nat \ {0} /\ MaxButtons \in Nat
  /\ None \notin Surfaces /\ Crosses \in BOOLEAN

VARIABLE scene

Without(s, k) == SelectSeq(s, LAMBDA x : x # k)

-----------------------------------------------------------------------------
(* The tree, its stacking and what is shown. *)

Layer(k) ==
  CASE Role[k] = "background" -> 0 [] Role[k] = "panel" -> 2
    [] Role[k] = "overlay" -> 3 [] Role[k] = "lock" -> 4 [] OTHER -> 1

ParentOf(s, k) == IF k \in s.orphans THEN None ELSE Parent[k]

\* A surface and those it hangs from.
Ancestry(s, key) ==
  LET up[k \in Surfaces] ==
        {k} \cup IF ParentOf(s, k) = None THEN {} ELSE up[ParentOf(s, k)]
  IN up[key]

RootOf(s, key) ==
  CHOOSE k \in Ancestry(s, key) : ParentOf(s, k) = None
IsAncestorOrSelf(s, ancestor, key) == ancestor \in Ancestry(s, key)

Live(s, k) == k \in s.made /\ k \notin s.dismissed

\* Not dismissed, hidden, on another workspace or behind the lock.
RootAdmitted(s, root) ==
  /\ Role[root] = "window" => s.workspace[root] = s.shown
  /\ s.locked = (Role[root] = "lock")
Admitted(s, k) ==
  /\ \A a \in Ancestry(s, k) : Live(s, a) /\ a \notin s.hidden
  /\ RootAdmitted(s, RootOf(s, k))

Visible(s, k) == Admitted(s, k) /\ Ancestry(s, k) \subseteq s.mapped

Focusable(s, k) == Visible(s, k) /\ Role[k] # "background"

\* The topmost surface shown under the pointer.
HitTest(s) ==
  LET hit[k \in Surfaces] ==
        LET under == {i \in DOMAIN s.children[k] : hit[s.children[k][i]] # None}
        IN IF under # {} THEN hit[s.children[k][Max(under)]]
           ELSE IF k \in s.over /\ Visible(s, k) THEN k ELSE None
      roots == {i \in DOMAIN s.roots : hit[s.roots[i]] # None}
  IN IF roots = {} THEN None ELSE hit[s.roots[Max(roots)]]

\* A window group's topmost dialog shown, else the window.
Topmost(seq, at, none) == IF at = {} THEN none ELSE seq[Max(at)]
FocusTarget(s, root) ==
  Topmost(s.children[root],
          {i \in DOMAIN s.children[root] :
             Role[s.children[root][i]] = "dialog" /\ Visible(s, s.children[root][i])}, root)

\* At the top of its layer.
InsertRoot(roots, root) ==
  LET above == {i \in DOMAIN roots : Layer(roots[i]) > Layer(root)}
      at == IF above = {} THEN Len(roots) ELSE Min(above) - 1
  IN SubSeq(roots, 1, at) \o <<root>> \o SubSeq(roots, at + 1, Len(roots))

RaiseInLayer(s, key) ==
  LET root == RootOf(s, key) IN
  IF root \notin s.made \/ (s.locked /\ Role[root] # "lock") THEN s
  ELSE [s EXCEPT !.roots = InsertRoot(Without(@, root), root)]

-----------------------------------------------------------------------------
(* The keyboard. *)

FocusedRoot(s) == IF s.focus = None THEN None ELSE RootOf(s, s.focus)

\* A panel keeps the active window active while it is shown.
ActiveFor(s, root) ==
  IF root = None \/ root \notin s.made THEN None
  ELSE IF Role[root] = "window" THEN root
  ELSE IF Role[root] = "panel" /\ s.active # None
       THEN IF Visible(s, s.active) THEN s.active ELSE None
  ELSE None
NowActive(s, active) ==
  IF active = s.active THEN s
  ELSE [s EXCEPT !.active = active, !.told.active = (@ \ {s.active}) \cup ({active} \ {None})]
UpdateActive(s) == NowActive(s, ActiveFor(s, FocusedRoot(s)))

SetFocus(s, key) ==
  IF s.focus = key THEN s
  ELSE UpdateActive([s EXCEPT !.focus = key,
                              !.told.focused = (@ \ {s.focus}) \cup ({key} \ {None})])

TopmostTarget(s, at) ==
  IF at = {} THEN None ELSE FocusTarget(s, s.roots[Max(at)])
\* A mistake: the lock is not looked at, nor what is minimized.
FocusNextMapped(s) ==
  IF s.grab # <<>> THEN s
  ELSE SetFocus(s, TopmostTarget(s,
         {i \in DOMAIN s.roots : Layer(s.roots[i]) = 1 /\ s.roots[i] \in s.mapped}))

FocusNext(s) ==
  IF s.grab # <<>> THEN s
  ELSE SetFocus(s, TopmostTarget(s,
         {i \in DOMAIN s.roots :
            /\ Layer(s.roots[i]) = (IF s.locked THEN 4 ELSE 1) /\ Visible(s, s.roots[i])}))

\* The topmost other window shown of the application of a window gone.
ApplicationWindowAfter(s, gone) ==
  IF s.locked THEN None
  ELSE TopmostTarget(s, {i \in DOMAIN s.roots :
         /\ s.roots[i] # gone /\ Role[s.roots[i]] = "window"
         /\ Visible(s, s.roots[i]) /\ Owner[s.roots[i]] = Owner[gone]})

\* A surface takes the keyboard, or else what is topmost.
FocusBack(s, back) == IF back = None THEN FocusNext(SetFocus(s, None)) ELSE SetFocus(s, back)

FocusElse(s, next) == IF next # None THEN SetFocus(s, next) ELSE FocusNext(s)
FocusAfterWindow(s, gone, application) ==
  FocusElse(s, IF application /\ s.grab = <<>> THEN ApplicationWindowAfter(s, gone) ELSE None)

-----------------------------------------------------------------------------
(* The pointer.  A surface hears a press until its release, a cancel or the *)
(* pointer's leaving.                                                       *)

InGrab(s, k) == \E i \in DOMAIN s.grab : IsAncestorOrSelf(s, s.grab[i], k)
GrabBase(s) == IF s.grab = <<>> THEN None ELSE ParentOf(s, s.grab[1])

\* A surface is given input; behind the lock, only the lock screen is.
Given(s, k) ==
  IF s.locked /\ Role[RootOf(s, k)] # "lock" THEN [s EXCEPT !.told.behind = TRUE] ELSE s

Ended(s, k) == IF k = None THEN s ELSE [s EXCEPT !.told.presses[k] = 0]

UnlessGrabbed(s, hit) == IF hit # None /\ s.grab # <<>> /\ ~InGrab(s, hit) THEN None ELSE hit
PointerTarget(s) == IF s.capture # None THEN s.capture ELSE UnlessGrabbed(s, HitTest(s))

\* Also the chain's base, when its first popup asked that it track the pointer.
TrackingBase(s) ==
  IF s.grab # <<>> /\ s.grab[1] \in s.tracks /\ HitTest(s) = GrabBase(s) THEN GrabBase(s) ELSE None
HoverOr(s, target) == IF target # None THEN target ELSE TrackingBase(s)
HoverTarget(s) == HoverOr(s, PointerTarget(s))

SetPointerFocus(s, target) ==
  IF s.pointerFocus = target THEN s
  ELSE [Ended(s, s.pointerFocus) EXCEPT
          !.pointerFocus = target,
          !.told.entered = (@ \ {s.pointerFocus}) \cup ({target} \ {None})]

RefreshPointerFocus(s) == SetPointerFocus(s, HoverTarget(s))

\* What refers to a surface that takes no input any more.
DetachInput(s, k) ==
  [s EXCEPT !.hold = IF @ = k THEN None ELSE @,
            !.pinch = IF @ = k THEN None ELSE @,
            !.capture = IF @ = k THEN None ELSE @,
            !.swallowed = IF s.capture = k THEN s.buttons ELSE @,
            !.pointerFocus = IF @ = k THEN None ELSE @,
            !.touch = IF @ = k THEN "nobody" ELSE @]

\* Its client still has it: it is told what it held is over.
WithdrawInput(s, k) ==
  IF k \notin s.made THEN s
  ELSE DetachInput(
         [s EXCEPT !.told.presses[k] = IF s.capture = k \/ s.pointerFocus = k THEN 0 ELSE @,
                   !.told.touched = IF s.touch = k THEN @ \ {k} ELSE @,
                   !.told.pinched = IF s.pinch = k THEN @ \ {k} ELSE @,
                   !.told.held = IF s.hold = k THEN @ \ {k} ELSE @,
                   !.told.entered = IF s.pointerFocus = k THEN @ \ {k} ELSE @], k)

PointerCancel(s) ==
  [Ended(s, s.capture) EXCEPT !.capture = None, !.swallowed = s.buttons]
TouchCancel(s) ==
  [s EXCEPT !.touch = None, !.told.touched = @ \ {s.touch}]

\* A press that reaches no client.
ConsumePress(s) == [s EXCEPT !.swallowed = s.buttons, !.press = None]
RecordPress(s, target) ==
  [s EXCEPT !.press = target, !.activated = {Owner[target]}]

-----------------------------------------------------------------------------
(* Popups and the chain that grabs. *)

\* What is left of the chain cut at a popup, and the surface that has the
\* keyboard again: the popup below it, or what had it before the chain.
GrabLeft(s, key) ==
  SubSeq(s.grab, 1, Min({i \in DOMAIN s.grab : s.grab[i] = key}) - 1)
GrabCut(s, key) ==
  [s EXCEPT !.grab = GrabLeft(s, key), !.before = IF GrabLeft(s, key) = <<>> THEN None ELSE @]
HadBefore(s, key) ==
  IF s.before # None /\ s.before # key /\ Focusable(GrabCut(s, key), s.before) THEN s.before ELSE None

\* A mistake: with nothing to give the keyboard back to, nothing has it.
CutGrabNone(s, key) ==
  IF key \notin Range(s.grab) THEN s
  ELSE SetFocus(GrabCut(s, key),
         IF GrabLeft(s, key) # <<>> THEN Last(GrabLeft(s, key)) ELSE HadBefore(s, key))

CutGrab(s, key) ==
  IF key \notin Range(s.grab) THEN s
  ELSE FocusBack(GrabCut(s, key),
         IF GrabLeft(s, key) # <<>> THEN Last(GrabLeft(s, key)) ELSE HadBefore(s, key))

\* One surface of a dismissed tree, those it hangs from dismissed already.
Refocused(s, key) == IF s.focus = key THEN FocusBack(s, None) ELSE s
DismissOne(s, key) ==
  Refocused(CutGrab(WithdrawInput([s EXCEPT !.dismissed = @ \cup {key}], key), key), key)

\* All that hangs from a surface, the deepest and newest first, and the surface.
Below(s, key) ==
  LET below[k \in Surfaces] ==
        LET from[n \in 0 .. Len(s.children[k])] ==
              IF n = 0 THEN <<k>>
              ELSE (IF s.children[k][n] \in s.dismissed THEN <<>>
                    ELSE below[s.children[k][n]]) \o from[n - 1]
        IN from[Len(s.children[k])]
  IN below[key]
DismissTree(s, all) ==
  FoldLeft(LAMBDA done, k :
             DismissOne([done EXCEPT !.dismissed = @ \cup (Ancestry(s, k) \cap Range(all))], k),
           s, all)
Dismiss(s, key) == IF ~Live(s, key) THEN s ELSE DismissTree(s, Below(s, key))

DismissEach(s, keys) == FoldLeft(Dismiss, s, keys)

\* A window's popups and its dialogs'.
GroupPopups(s, key) ==
  LET OfOne(k) == SelectSeq(s.children[k], LAMBDA c : Role[c] = "popup")
      all[n \in 0 .. Len(s.children[key])] ==
        IF n = 0 THEN <<>>
        ELSE LET c == s.children[key][n]
             IN all[n - 1] \o (IF Role[c] = "popup" THEN <<c>>
                               ELSE IF Role[c] = "dialog" THEN OfOne(c) ELSE <<>>)
  IN all[Len(s.children[key])]
DismissGroupPopups(s, key) == DismissEach(s, GroupPopups(s, key))

DismissGrab(s) == IF s.grab = <<>> THEN s ELSE Dismiss(s, s.grab[1])

\* The menus of another window of the layer close for one that is activated.
ClosesGrab(s, root) ==
  /\ s.grab # <<>> /\ RootOf(s, s.grab[1]) # root
  /\ Layer(RootOf(s, s.grab[1])) = Layer(root)
GrabClosed(s, root) ==
  IF ~ClosesGrab(s, root) THEN s
  ELSE DismissGrab(IF Focusable(s, root) THEN [s EXCEPT !.before = FocusTarget(s, root)] ELSE s)
FocusRoot(s, root) == IF Focusable(s, root) THEN SetFocus(s, FocusTarget(s, root)) ELSE s
FocusUnlessGrabbed(s, root) == IF s.grab = <<>> THEN FocusRoot(s, root) ELSE s

Activate(s, key) ==
  LET root == RootOf(s, key) IN
  IF root \notin s.made \/ (s.locked /\ Role[root] # "lock") THEN s
  ELSE FocusUnlessGrabbed(RaiseInLayer(GrabClosed(s, root), root), root)

LowerBelowFocus(s, key) ==
  LET root == RootOf(s, key)
      focused == IF s.focus = None THEN None ELSE RootOf(s, s.focus)
      rest == Without(s.roots, root)
      at == CHOOSE i \in DOMAIN rest : rest[i] = focused
  IN IF focused = None \/ focused = root THEN s
     ELSE IF Layer(focused) # Layer(root) THEN s
     ELSE [s EXCEPT !.roots = SubSeq(rest, 1, at - 1) \o <<root>> \o SubSeq(rest, at, Len(rest))]

-----------------------------------------------------------------------------
(* Surfaces come and go. *)

Init ==
  scene = [made |-> {}, mapped |-> {}, dismissed |-> {}, hidden |-> {}, apart |-> {},
           orphans |-> {}, tracks |-> {}, children |-> [k \in Surfaces |-> <<>>],
           roots |-> <<>>, workspace |-> [k \in Surfaces |-> 0], shown |-> 0, count |-> 1,
           focus |-> None, before |-> None, active |-> None, grab |-> <<>>,
           over |-> {}, capture |-> None, pointerFocus |-> None, buttons |-> 0,
           swallowed |-> 0, touch |-> None, pinch |-> None, hold |-> None,
           press |-> None, activated |-> Clients, locked |-> FALSE,
           told |-> [focused |-> {}, active |-> {}, entered |-> {}, behind |-> FALSE,
                     presses |-> [k \in Surfaces |-> 0],
                     touched |-> {}, pinched |-> {}, held |-> {}]]

\* A surface a client has no more: it expects nothing of it.
Forgotten(told, k) ==
  [told EXCEPT !.focused = @ \ {k}, !.active = @ \ {k}, !.entered = @ \ {k},
               !.presses[k] = 0, !.touched = @ \ {k}, !.pinched = @ \ {k}, !.held = @ \ {k}]

Insert(s, k) ==
  LET made == [s EXCEPT !.made = @ \cup {k}, !.workspace[k] = s.shown]
  IN IF Parent[k] = None THEN [made EXCEPT !.roots = InsertRoot(@, k)]
     ELSE [made EXCEPT !.children[Parent[k]] = Append(@, k)]

Answers(k) == Crosses \/ scene.locked \/ Admitted(scene, k)

Create(k) ==
  /\ k \notin scene.made
  /\ Role[k] = "dialog" => Live(scene, Parent[k])
  /\ Role[k] = "popup" =>
       Live(scene, Parent[k]) /\ Parent[k] \in scene.mapped /\ Answers(Parent[k])
  /\ scene' = LET made == Insert(scene, k)
              IN IF Role[k] = "popup" /\ scene.locked /\ Role[RootOf(made, k)] # "lock"
                 THEN Dismiss(made, k) ELSE made

\* Its first frame is on screen.
Map(k) ==
  /\ Live(scene, k) /\ k \notin scene.mapped
  /\ LET s == [scene EXCEPT !.mapped = @ \cup {k}] IN
     scene' = RefreshPointerFocus(
       IF Role[k] = "lock" /\ s.locked /\ s.focus = None THEN SetFocus(s, k)
       ELSE IF Role[k] \notin {"window", "dialog"} THEN s
       ELSE IF Owner[k] \in s.activated THEN Activate(s, k)
       ELSE LowerBelowFocus(s, k))

\* A popup no place fits any more.
Unplaceable(k) ==
  /\ Live(scene, k) /\ Role[k] = "popup"
  /\ scene' = Dismiss(scene, k)

\* What a menu gives the keyboard back to, a surface gone.
BeforeGrab(s, key) ==
  IF s.before # key THEN s.before
  ELSE IF Role[key] = "window" THEN ApplicationWindowAfter(s, key) ELSE None

Orphaned(s, kids) == [DismissEach(s, kids) EXCEPT !.orphans = @ \cup Range(kids)]
InputLeft(s, key) ==
  IF key \in s.dismissed THEN s
  ELSE CutGrab(DetachInput([s EXCEPT !.dismissed = @ \cup {key}], key), key)
TakenOut(s, key, parent) ==
  [s EXCEPT
     !.made = @ \ {key}, !.mapped = @ \ {key}, !.hidden = @ \ {key},
     !.apart = @ \ {key}, !.tracks = @ \ {key}, !.roots = Without(@, key),
     !.children = [k \in Surfaces |-> IF k = key THEN <<>>
                                      ELSE IF k = parent THEN Without(@[k], key) ELSE @[k]],
     !.told = Forgotten(@, key),
     !.active = IF @ = key THEN None ELSE @]
FocusWithout(s, key) ==
  IF s.focus = key THEN FocusAfterWindow([s EXCEPT !.focus = None], key, Role[key] = "window") ELSE s
RefersNot(s, key, parent) ==
  [s EXCEPT
     !.before = BeforeGrab(s, key),
     !.press = IF @ # key THEN @
               ELSE IF Role[key] = "popup" /\ parent \in s.made THEN parent ELSE None,
     !.dismissed = @ \ {key}, !.orphans = @ \ {key}]

RemoveNode(s, key) ==
  LET parent == ParentOf(s, key)
  IN RefersNot(FocusWithout(TakenOut(InputLeft(Orphaned(s, s.children[key]), key), key, parent), key),
               key, parent)

Destroy(k) ==
  /\ k \in scene.made
  /\ scene' = RefreshPointerFocus(RemoveNode(scene, k))

\* Its client goes: its surfaces, the last first.
RemoveEach(s, owned) == FoldLeft(RemoveNode, s, Reverse(owned))
ClientGone(s, c) ==       \* and it connects again
  [s EXCEPT !.press = IF @ # None /\ Owner[@] = c THEN None ELSE @, !.activated = @ \cup {c}]
Disconnect(c) ==
  LET owned == SelectSeq(Order, LAMBDA k : Owner[k] = c /\ k \in scene.made)
  IN /\ owned # <<>> /\ "disconnect" \in Requests
     /\ scene' = RefreshPointerFocus(ClientGone(RemoveEach(scene, owned), c))

-----------------------------------------------------------------------------
(* Requests. *)

\* It lost the capture but has the pointer: it is told its press is over.
TellLost(s, lost) ==
  IF lost # None /\ s.pointerFocus = lost THEN Ended(s, lost) ELSE s

\* GrabPopup, citing the latest press or not.
GrabPopup(k, latest) ==
  LET parent == Parent[k]
      top == IF scene.grab = <<>> THEN None ELSE Last(scene.grab)
      at == {i \in DOMAIN scene.grab : scene.grab[i] = parent}
      chain == IF top # None THEN top = parent ELSE Role[parent] # "popup"
      keep == IF chain THEN Len(scene.grab)
              ELSE IF at # {} THEN Min(at)
              ELSE IF GrabBase(scene) = parent THEN 0 ELSE -1
      press == /\ latest /\ scene.press # None /\ Owner[scene.press] = Owner[k]
               /\ \/ IsAncestorOrSelf(scene, scene.press, parent)
                  \/ scene.press \in Range(scene.grab)
      lost == scene.capture
      taken == RefreshPointerFocus(
                 [SetFocus([scene EXCEPT
                              !.grab = Append(SubSeq(@, 1, keep), k),
                              !.before = IF @ = None /\ scene.grab = <<>> THEN scene.focus
                                         ELSE @], k)
                    EXCEPT !.capture = None])
  IN /\ Role[k] = "popup" /\ Live(scene, k) /\ k \notin Range(scene.grab) /\ Answers(k)
     /\ scene' = IF scene.locked \/ keep = -1 \/ ~press THEN Dismiss(scene, k)
                 ELSE TellLost(taken, IF lost = k THEN None ELSE lost)

TrackPointer(k) ==
  /\ "track" \in Requests /\ Role[k] = "popup" /\ Live(scene, k) /\ k \notin scene.tracks
  /\ scene' = [scene EXCEPT !.tracks = @ \cup {k}]

Concealed(s, key) ==
  WithdrawInput(DismissGroupPopups([s EXCEPT !.hidden = @ \cup {key}], key), key)
FocusIn(s, key) == s.focus # None /\ RootOf(s, s.focus) = key

FocusPast(s, key, minimized) ==
  IF FocusIn(s, key) THEN FocusAfterWindow(SetFocus(s, None), key, minimized) ELSE s

\* conceal: minimized, or hidden with its application.
Conceal(s, key, minimized) ==
  IF key \in s.hidden THEN s
  ELSE RefreshPointerFocus(UpdateActive(FocusPast(Concealed(s, key), key, minimized)))

Windows(s) == {k \in s.made : Role[k] = "window"}

Minimize(k) ==
  /\ "minimize" \in Requests /\ k \in Windows(scene) /\ k \notin scene.hidden
  /\ scene' = Conceal(scene, k, TRUE)

\* An application's windows mapped, in the order of their keys.
ApplicationWindows(s, c) ==
  SelectSeq(Order, LAMBDA k : k \in Windows(s) /\ k \in s.mapped /\ Live(s, k) /\ Owner[k] = c)

ConcealEach(s, all) ==
  FoldLeft(LAMBDA done, k : Conceal([done EXCEPT !.apart = @ \cup {k}], k, FALSE), s, all)
HideApplication(c) ==
  LET all == SelectSeq(ApplicationWindows(scene, c), LAMBDA k : k \notin scene.hidden)
  IN /\ "hide" \in Requests /\ ~scene.locked /\ all # <<>>
     /\ scene' = ConcealEach(scene, all)

Restore(s, key) ==
  LET back == IF key \in s.apart
              THEN s.apart \cap Range(ApplicationWindows(s, Owner[key])) ELSE {key}
      shown == [s EXCEPT !.hidden = @ \ back, !.apart = @ \ back]
  IN IF key \notin s.hidden THEN s ELSE RefreshPointerFocus(Activate(shown, key))

-----------------------------------------------------------------------------
(* Workspaces. *)

ShownWindows(s) == {k \in Windows(s) : Visible(s, k)}

Left(s, k) == WithdrawInput(DismissGroupPopups(s, k), k)
Unfocused(s, k) == IF FocusIn(s, k) THEN SetFocus(s, None) ELSE s
Leave(s, k) == Unfocused(Left(s, k), k)
LeaveEach(s, gone) == FoldLeft(Leave, s, gone)
FocusSome(s) == IF s.focus = None THEN FocusNext(s) ELSE s

\* Each window no longer shown loses what it held.
Apply(s, before) ==
  RefreshPointerFocus(UpdateActive(FocusSome(
    LeaveEach(s, SelectSeq(Order, LAMBDA k : k \in before \ ShownWindows(s))))))

ActivateWorkspace(s, index) ==
  LET before == ShownWindows(s)
      shown == [s EXCEPT !.shown = index]
      left == IF s.focus # None /\ RootOf(s, s.focus) \in before THEN SetFocus(shown, None) ELSE shown
  IN IF s.locked \/ index = s.shown THEN s ELSE Apply(left, before)

ShowWorkspace(index) ==
  /\ ~scene.locked /\ index < scene.count /\ index # scene.shown
  /\ scene' = ActivateWorkspace(scene, index)

MoveToWorkspace(k, index) ==
  /\ index < scene.count /\ ~scene.locked /\ k \in Windows(scene)
  /\ scene.workspace[k] # index
  /\ scene' = Apply([scene EXCEPT !.workspace[k] = index], ShownWindows(scene))

AddWorkspace ==
  /\ scene.count < Workspaces
  /\ scene' = [scene EXCEPT !.count = @ + 1]

\* Its windows go to its neighbour, those after it are numbered down.
RemoveWorkspace(index) ==
  LET Down(n) == IF n > index THEN n - 1 ELSE IF n = index /\ index > 0 THEN index - 1 ELSE n
  IN /\ index < scene.count /\ scene.count > 1 /\ ~scene.locked
     /\ scene' = Apply([scene EXCEPT !.count = @ - 1, !.shown = Down(@),
                                     !.workspace = [k \in Surfaces |-> Down(@[k])]],
                       ShownWindows(scene))

\* FocusWindow: the shell shows a window, its workspace first.
ShowWindow(s, k) == IF k \in s.hidden THEN Restore(s, k) ELSE Activate(s, k)
MenuGivesBack(s, k, shell) ==
  IF s.grab # <<>> /\ Owner[s.grab[1]] = shell /\ Focusable(s, k)
  THEN [s EXCEPT !.before = FocusTarget(s, k)] ELSE s
FocusWindow(k, shell) ==
  /\ "focus" \in Requests /\ k \in Windows(scene) /\ k \in scene.mapped
  /\ scene' = MenuGivesBack(ShowWindow(ActivateWorkspace(scene, scene.workspace[k]), k), k, shell)

\* FocusShellSurface, citing an input of the shell's.
FocusShellSurface(k) ==
  /\ "focus" \in Requests /\ Role[k] \in {"panel", "overlay"} /\ Live(scene, k)
  /\ Focusable(scene, k) /\ scene.grab = <<>>
  /\ scene' = Activate(scene, k)

-----------------------------------------------------------------------------
(* The lock. *)

PopupsDismissed(s) ==
  DismissEach(DismissGrab(s), SelectSeq(Order, LAMBDA k : Role[k] = "popup" /\ Live(scene, k)))

Lock ==
  /\ "lock" \in Requests /\ ~scene.locked
  /\ scene' = FocusNext(SetFocus(SetPointerFocus(TouchCancel(PointerCancel(
                PopupsDismissed([scene EXCEPT !.locked = TRUE]))), None), None))

Unlock ==
  /\ scene.locked
  /\ scene' = RefreshPointerFocus(FocusNext(SetFocus(
                TouchCancel(PointerCancel([scene EXCEPT !.locked = FALSE])), None)))

\* The shell's grant is withdrawn: its surfaces are dismissed.
Revoke ==
  LET all == SelectSeq(Order, LAMBDA k : Live(scene, k) /\ Role[k] \in {"background", "panel", "overlay"})
  IN /\ "revoke" \in Requests /\ all # <<>>
     /\ scene' = DismissEach(scene, all)

-----------------------------------------------------------------------------
(* Input. *)

MotionGiven(s) == IF s.pointerFocus = None THEN s ELSE Given(s, s.pointerFocus)
PointerMotion(over) ==
  /\ "pointer" \in Inputs /\ over # scene.over
  /\ scene' = MotionGiven(RefreshPointerFocus([scene EXCEPT !.over = over]))

\* A window behind its dialog.
Blocked(s, target, root) == target = root /\ FocusTarget(s, root) # root
FocusPressed(s, target, root) ==
  IF Focusable(s, target) /\ target # root THEN SetFocus(s, target) ELSE s
PressFocuses(s, target, root) ==
  IF s.grab # <<>> THEN s
  ELSE IF Role[root] = "panel" THEN RaiseInLayer(s, target)
  ELSE FocusPressed(Activate(s, target), target, root)
Pressed(s, target) ==
  Given([RecordPress(SetPointerFocus([s EXCEPT !.capture = target], target), target)
           EXCEPT !.told.presses[target] = @ + 1], target)
PressOn(s, target, root) ==
  IF s.grab = <<>> /\ Role[root] # "panel" /\ Blocked(s, target, root)
  THEN ConsumePress(Activate(s, target))
  ELSE Pressed(PressFocuses(s, target, root), target)
Outside(s, hit) == s.grab # <<>> /\ (hit # None => ~InGrab(s, hit))

PressButton ==
  /\ "pointer" \in Inputs /\ scene.buttons < MaxButtons
  /\ LET s == [scene EXCEPT !.buttons = @ + 1, !.activated = {}]
         target == IF s.capture # None THEN s.capture ELSE HitTest(s)
     IN scene' = IF Outside(s, HitTest(s)) THEN RefreshPointerFocus(ConsumePress(DismissGrab(s)))
                 ELSE IF target = None THEN ConsumePress(s)
                 ELSE PressOn(s, target, RootOf(s, target))

ReleaseButton ==
  /\ scene.buttons > 0
  /\ LET s == [scene EXCEPT !.buttons = @ - 1]
         target == PointerTarget(s)
         heard == IF s.swallowed > 0 THEN [s EXCEPT !.swallowed = @ - 1]
                  ELSE IF target = None THEN s
                  ELSE Given([s EXCEPT !.told.presses[target] = IF @ = 0 THEN 0 ELSE @ - 1], target)
     IN scene' = IF s.buttons = 0 THEN RefreshPointerFocus([heard EXCEPT !.capture = None]) ELSE heard

\* A key pressed; its serial is the latest whether it reaches a surface or not.
Key ==
  /\ "key" \in Inputs
  /\ LET s == [scene EXCEPT !.activated = {}] IN
     scene' = IF s.focus # None /\ Visible(s, s.focus)
              THEN Given(RecordPress(s, s.focus), s.focus) ELSE s

TouchNobody(s) == [s EXCEPT !.touch = "nobody", !.press = None]
TouchOn(s, hit, root) ==
  IF s.grab = <<>> /\ Blocked(s, hit, root) THEN TouchNobody(Activate(s, hit))
  ELSE Given(RecordPress([(IF s.grab = <<>> THEN Activate(s, hit) ELSE s)
                            EXCEPT !.touch = hit, !.told.touched = @ \cup {hit}], hit), hit)
TouchAt(s, hit) ==
  IF Outside(s, hit) THEN TouchNobody(DismissGrab(s))
  ELSE IF hit = None THEN TouchNobody(s) ELSE TouchOn(s, hit, RootOf(s, hit))
TouchDown(at) ==
  /\ "touch" \in Inputs /\ scene.touch = None
  /\ scene' = TouchAt([scene EXCEPT !.activated = {}],
                      HitTest([scene EXCEPT !.activated = {}, !.over = at]))

TouchUp ==
  /\ scene.touch # None
  /\ scene' = LET s == [scene EXCEPT !.touch = None, !.told.touched = @ \ {scene.touch}]
              IN IF scene.touch \in Surfaces THEN Given(s, scene.touch) ELSE s

\* The fingers pinch, or rest, over what is under the pointer until they end.
PinchBegin ==
  /\ "pinch" \in Inputs /\ scene.pinch = None
  /\ LET target == PointerTarget(scene) IN
     /\ target # None
     /\ scene' = Given([scene EXCEPT !.pinch = target, !.told.pinched = @ \cup {target}], target)
PinchMoves == /\ scene.pinch # None /\ scene' = Given(scene, scene.pinch)
PinchEnd ==
  /\ scene.pinch # None
  /\ scene' = Given([scene EXCEPT !.pinch = None, !.told.pinched = @ \ {scene.pinch}], scene.pinch)

HoldBegin ==
  /\ "hold" \in Inputs /\ scene.hold = None
  /\ LET target == PointerTarget(scene) IN
     /\ target # None
     /\ scene' = Given([scene EXCEPT !.hold = target, !.told.held = @ \cup {target}], target)
HoldEnd ==
  /\ scene.hold # None
  /\ scene' = LET s == [scene EXCEPT !.hold = None]
              IN IF Live(scene, scene.hold)
                 THEN Given([s EXCEPT !.told.held = @ \ {scene.hold}], scene.hold) ELSE s

Next ==
  \/ \E k \in Surfaces : \/ Create(k) \/ Map(k) \/ Destroy(k) \/ Unplaceable(k)
                         \/ TrackPointer(k) \/ Minimize(k) \/ FocusShellSurface(k)
                         \/ \E latest \in BOOLEAN : GrabPopup(k, latest)
                         \/ \E c \in Clients : FocusWindow(k, c)
                         \/ \E n \in 0 .. Workspaces - 1 : MoveToWorkspace(k, n)
  \/ \E c \in Clients : Disconnect(c) \/ HideApplication(c)
  \/ \E n \in 0 .. Workspaces - 1 : ShowWorkspace(n) \/ RemoveWorkspace(n)
  \/ AddWorkspace \/ Lock \/ Unlock \/ Revoke
  \/ \E over \in Spots : PointerMotion(over) \/ TouchDown(over)
  \/ PressButton \/ ReleaseButton \/ Key \/ TouchUp
  \/ PinchBegin \/ PinchMoves \/ PinchEnd \/ HoldBegin \/ HoldEnd

Spec == Init /\ [][Next]_scene

-----------------------------------------------------------------------------
TypeOK ==
  /\ scene.mapped \cup scene.dismissed \cup scene.hidden \subseteq scene.made
  /\ Range(scene.roots) = {k \in scene.made : Parent[k] = None}
  /\ Len(scene.roots) = Cardinality(Range(scene.roots))
  /\ scene.shown \in 0 .. scene.count - 1 /\ scene.count \in 1 .. Workspaces
  /\ scene.buttons \in 0 .. MaxButtons /\ scene.swallowed \in 0 .. MaxButtons
  /\ scene.apart \subseteq scene.hidden

\* Nothing the scene keeps refers to a surface that has gone: the keyboard, what
\* a menu gives it back to, the chain, the pointer, a touch, a pinch, a press.
\* (A client may use the same number again for another surface.)
NothingDangles ==
  /\ {scene.focus, scene.before, scene.active, scene.capture, scene.pointerFocus,
      scene.pinch, scene.hold, scene.press} \subseteq scene.made \cup {None}
  /\ scene.touch \in scene.made \cup {None, "nobody"}
  /\ Range(scene.grab) \subseteq scene.made

\* The popups that grab are a chain, each the child of the one before, none of
\* them dismissed, and the last has the keyboard.
ChainHasKeyboard ==
  scene.grab # <<>> =>
    /\ \A i \in DOMAIN scene.grab : Live(scene, scene.grab[i])
    /\ \A i \in 2 .. Len(scene.grab) : ParentOf(scene, scene.grab[i]) = scene.grab[i - 1]
    /\ scene.focus = Last(scene.grab)

\* The keyboard is never at a surface dismissed, minimized, on a workspace not
\* shown or behind the lock.
KeyboardIsShown == scene.focus # None => Admitted(scene, scene.focus)

\* The active window is one shown.
ActiveIsShown == scene.active # None => Visible(scene, scene.active)

\* While a window is shown, the keyboard is not lost: what closed, hid or moved
\* the surface that had it gives it to another.
KeyboardNotLost ==
  scene.focus # None /\ ~scene'.locked /\ ShownWindows(scene') # {}
    => scene'.focus # None

\* Each client was told what is: who has the keyboard and the pointer, and
\* which window is active.
ToldWhatIs ==
  /\ scene.told.focused = {scene.focus} \ {None}
  /\ scene.told.active = {scene.active} \ {None}
  /\ scene.told.entered = {scene.pointerFocus} \ {None}

\* A press, a touch, a pinch or a resting hand a surface heard begin is one it
\* still has, or it was told that it is over.
InputEnds ==
  /\ \A k \in Surfaces : scene.told.presses[k] <= scene.buttons
  /\ scene.told.touched = {scene.touch} \ {None, "nobody"}
  /\ scene.told.pinched = {scene.pinch} \ {None}
  /\ scene.told.held = {scene.hold} \ {None}

\* Locked, no input reaches a surface but the lock screen's.
NothingBehindLock == ~scene.told.behind

\* A window with a dialog shown hears no press that began after it.
ModalHolds ==
  \A k \in Surfaces :
    (Role[k] = "window" /\ Visible(scene, k) /\ FocusTarget(scene, k) # k)
      => scene'.told.presses[k] <= scene.told.presses[k]
=============================================================================
