---------------------------- MODULE DragAndDrop ----------------------------
(* Drag and drop between applications (crates/oxyos-compositor-core/src/
   scene/drag.rs, ADR 0035) with the part of the pointer it takes over from
   scene.rs: presses, capture, the releases swallowed, window moves, the lock.

   Each handler of the scene is an operator from a scene to a scene, composed
   in the order the code calls them; an action applies one handler.  What is
   under the pointer is an input (hit testing is geometry), except that it is
   always a surface shown.  An entering's serial is fresh for each entering,
   so whether a request cites the current one is all that is kept of it.  No
   popup holds a grab and no window is being resized by its edge.

   Fields after "told": what the clients heard, which no handler reads. *)
EXTENDS Integers, Sequences, FiniteSets

CONSTANTS
  Clients, OldClients,   \* OldClients speak a protocol without drags
  Sources,               \* the clients that start drags
  Buttons, DragIds, Types,
  SourceActions,         \* the sets of actions a source may allow
  TargetActions,         \* the sets of actions a target may answer with
  Preferred,             \* the actions a target may prefer
  ModifierSets,          \* the sets of modifiers that may be held
  MAX_OPEN_DROPS, MaxDrags,
  Reuses,                \* whether a client starts a drag or a move from a press
                         \* it was told ended, its button still held
  None

ConstantsAssumption ==
  /\ OldClients \cup Sources \subseteq Clients /\ MAX_OPEN_DROPS \in Nat \ {0} /\ MaxDrags \in Nat
  /\ ModifierSets \subseteq SUBSET {"alt", "super"} /\ {} \in ModifierSets
  /\ SourceActions \cup TargetActions \subseteq SUBSET {"copy", "move", "link"}
  /\ Preferred \subseteq {"copy", "move", "link", None}
  /\ Reuses \in BOOLEAN /\ None \notin Clients \cup Types

VARIABLE scene

Actions == {"copy", "move", "link"}
Surfaces == Clients    \* one window each: the surface is named for its client
Offers == 1..MaxDrags

Targets == [surface : Surfaces, mime : Types \cup {None}, actions : SUBSET Actions,
            preferred : Actions \cup {None}, told : Actions \cup {None}]
Drags == [source : Clients, drag : DragIds, origin : Surfaces, types : SUBSET Types,
          actions : SUBSET Actions, offer : Offers, target : Targets \cup {None},
          told : Actions \cup {None}]
Drops == [source : Clients, drag : DragIds, offer : Offers, target : Clients,
          types : SUBSET Types, received : SUBSET Types, action : Actions]

Init == scene =
  [connected |-> Clients, nodes |-> Surfaces, shown |-> Surfaces, under |-> None,
   locked |-> FALSE, held |-> {}, swallowed |-> 0, capture |-> None, focus |-> None,
   press |-> None, moving |-> None, modifiers |-> {}, escapeHeld |-> FALSE,
   pending |-> [c \in Clients |-> None], drag |-> None, offers |-> 0, dropped |-> <<>>,
   told |-> [fate |-> [o \in Offers |-> None],    \* what each drag's source heard
             over |-> {},                         \* <<surface, offer>> entered, not left
             owed |-> [s \in Surfaces |-> 0],     \* presses heard and not ended
             stray |-> FALSE,                     \* a release without its press
             escape |-> None,                     \* who has the press of Escape
             agreed |-> None,                     \* the target's answer to this entering
             took |-> [o \in Offers |-> None],    \* the client dropped on, what it agreed to
             sent |-> [o \in Offers |-> <<>>]]]   \* content: <<mime, client, fate>>

--------------------------------------------------------------------------
(* The pointer *)

ButtonsDown(s) == Cardinality(s.held)

Hit(s) == IF s.locked \/ s.under \notin s.shown THEN None ELSE s.under

PointerTarget(s) ==
  IF s.drag # None \/ s.moving # None THEN None
  ELSE IF s.capture # None THEN s.capture ELSE Hit(s)

(* A press ends for the surface that has it: told its Cancel or the pointer's
   Leave, every press of it; its Release, one. *)
EndPresses(s, key) == IF key = None THEN s ELSE [s EXCEPT !.told.owed[key] = 0]
Released(s, key) ==
  IF s.told.owed[key] = 0 THEN [s EXCEPT !.told.stray = TRUE]
  ELSE [s EXCEPT !.told.owed[key] = @ - 1]

SetPointerFocus(s, target) ==
  IF s.focus = target THEN s
  ELSE [EndPresses(s, IF s.focus \in s.nodes THEN s.focus ELSE None) EXCEPT !.focus = target]

--------------------------------------------------------------------------
(* The drag *)

SpeaksDrags(c) == c \notin OldClients

NegotiateAction(source, target, preferred, accepts, modifiers) ==
  LET both == source \cap target
      forced == CASE modifiers = {"alt", "super"} -> "link"
                  [] modifiers = {"alt"} -> "copy"
                  [] modifiers = {"super"} -> "move"
                  [] OTHER -> None
      Allowed(a) == IF a \in both THEN a ELSE None
  IN CASE ~accepts -> None
       [] accepts /\ forced # None -> Allowed(forced)
       [] accepts /\ forced = None /\ preferred \in both -> preferred
       [] OTHER -> IF "copy" \in both THEN "copy"
                   ELSE IF "move" \in both THEN "move" ELSE Allowed("link")

NegotiateDrag(s) ==
  IF s.drag = None THEN s
  ELSE LET t == s.drag.target
           action == IF t = None THEN None
                     ELSE NegotiateAction(s.drag.actions, t.actions, t.preferred,
                                          t.mime # None, s.modifiers)
       IN [s EXCEPT !.drag = [@ EXCEPT
             !.told = action,
             !.target = IF t = None THEN None ELSE [t EXCEPT !.told = action]]]

LeaveDragTarget(s, drag) ==
  IF drag.target = None THEN s
  ELSE [s EXCEPT !.told.over = @ \ {<<drag.target.surface, drag.offer>>}]

RetargetDrag(s) ==
  LET hit == IF Hit(s) # None /\ SpeaksDrags(Hit(s)) THEN Hit(s) ELSE None
      old == s.drag.target
      left == LeaveDragTarget(s, s.drag)
  IN IF (old = None /\ hit = None) \/ (old # None /\ old.surface = hit) THEN s
     ELSE NegotiateDrag(
            [left EXCEPT
               !.told.over = IF hit = None THEN @ ELSE @ \cup {<<hit, s.drag.offer>>},
               !.told.agreed = None,
               !.drag = [@ EXCEPT !.target =
                 IF hit = None THEN None
                 ELSE [surface |-> hit, mime |-> None, actions |-> {},
                       preferred |-> None, told |-> None]]])

RefreshPointerFocus(s) ==
  IF s.drag # None THEN RetargetDrag(s) ELSE SetPointerFocus(s, PointerTarget(s))

(* The source hears how a drag, or a drop, ended. *)
Ended(s, offer, how) ==
  [s EXCEPT !.told.fate[offer] = IF @ \in {"going", "dropped"} THEN how ELSE "twice"]

CancelDrag(s) ==
  IF s.drag = None THEN s
  ELSE LET c == [Ended(LeaveDragTarget(s, s.drag), s.drag.offer, "cancelled")
                   EXCEPT !.drag = None, !.swallowed = ButtonsDown(s), !.capture = None,
                          !.told.agreed = None]
       IN IF s.held = {} THEN RefreshPointerFocus(c) ELSE c

(* The oldest drops beyond the bound are pushed out. *)
PushOut(s) ==
  IF Len(s.dropped) <= MAX_OPEN_DROPS THEN s
  ELSE [Ended(s, Head(s.dropped).offer, "cancelled") EXCEPT !.dropped = Tail(@)]

DropDrag(s) ==
  LET d == s.drag
      t == d.target
      accepted == t # None /\ t.mime # None /\ t.told # None
      drop == [source |-> d.source, drag |-> d.drag, offer |-> d.offer, target |-> t.surface,
               types |-> d.types, received |-> {}, action |-> t.told]
      left == [LeaveDragTarget(s, d) EXCEPT !.drag = None]
      ended == IF accepted
               THEN PushOut([left EXCEPT !.dropped = Append(@, drop),
                                         !.told.fate[d.offer] = "dropped",
                                         !.told.took[d.offer] =
                                           [client |-> t.surface, answer |-> s.told.agreed,
                                            allowed |-> d.actions]])
               ELSE Ended(left, d.offer, "cancelled")
  IN RefreshPointerFocus([ended EXCEPT !.capture = None, !.told.agreed = None])

(* A surface went: its target is left without a word, its origin cancels. *)
ForgetDragSurface(s, key) ==
  LET t == IF s.drag = None THEN None ELSE s.drag.target
      blind == IF t # None /\ t.surface = key
               THEN NegotiateDrag([s EXCEPT !.drag = [@ EXCEPT !.target = None]]) ELSE s
  IN IF blind.drag # None /\ blind.drag.origin = key THEN CancelDrag(blind) ELSE blind

ForgetDragClient(s, c) ==
  LET quiet == [s EXCEPT !.pending[c] = None]
      ours == IF s.drag # None /\ s.drag.source = c THEN CancelDrag(quiet)
              ELSE IF s.drag # None /\ s.drag.target # None /\ s.drag.target.surface = c
              THEN NegotiateDrag([quiet EXCEPT !.drag = [@ EXCEPT !.target = None]])
              ELSE quiet
      gone == {ours.dropped[i] : i \in {i \in DOMAIN ours.dropped :
                 c \in {ours.dropped[i].source, ours.dropped[i].target}}}
      told == {d.offer : d \in {d \in gone : d.source # c}}
      Kept(d) == d \notin gone
  IN [ours EXCEPT !.dropped = SelectSeq(@, Kept),
                  !.told.fate = [o \in Offers |-> IF o \in told THEN "cancelled" ELSE @[o]]]

--------------------------------------------------------------------------
(* Input *)

(* Pointer motion: onto what is under the pointer now. *)
PointerMotion(under) ==
  LET s == [scene EXCEPT !.under = under]
  IN /\ under # scene.under
     /\ scene' = IF s.drag # None THEN RetargetDrag(s)
                 ELSE IF s.moving # None THEN s
                 ELSE SetPointerFocus(s, PointerTarget(s))

(* A press: consumed over nothing, else the captured surface's, or the one's
   under the pointer, which captures it. *)
PointerPress(b) ==
  LET s == [scene EXCEPT !.held = @ \cup {b}]
      target == IF s.capture # None THEN s.capture ELSE Hit(s)
  IN /\ b \notin scene.held
     /\ scene' = IF s.drag # None THEN s
                 ELSE IF target = None
                 THEN [s EXCEPT !.swallowed = ButtonsDown(s), !.press = None]
                 ELSE [SetPointerFocus([s EXCEPT !.capture = target], target) EXCEPT
                         !.press = target,
                         !.told.owed[target] = IF @ < Cardinality(Buttons) THEN @ + 1 ELSE @]

(* A release: the drag's, the move's, swallowed, or the captured surface's. *)
PointerRelease(b) ==
  LET s == [scene EXCEPT !.held = @ \ {b}]
      Last(t) == IF t.held = {} THEN RefreshPointerFocus([t EXCEPT !.capture = None]) ELSE t
  IN /\ b \in scene.held
     /\ scene' =
          CASE s.drag # None -> IF s.held = {} THEN DropDrag(s) ELSE s
            [] s.drag = None /\ s.moving # None ->
                 IF s.held = {} THEN Last([s EXCEPT !.moving = None]) ELSE s
            [] s.drag = None /\ s.moving = None /\ s.swallowed > 0 ->
                 Last([s EXCEPT !.swallowed = @ - 1])
            [] OTHER -> Last(IF PointerTarget(s) = None THEN s
                             ELSE Released(s, PointerTarget(s)))

CancelPointer(s) ==
  LET c == CancelDrag(s)
  IN [EndPresses(c, c.capture) EXCEPT
        !.capture = None, !.swallowed = ButtonsDown(s), !.moving = None]

(* Escape: cancels a drag, its press and release reaching nobody; otherwise
   the focused surface's. *)
EscapePress ==
  /\ scene.told.escape = None
  /\ scene' = IF scene.drag # None
              THEN [CancelDrag([scene EXCEPT !.escapeHeld = TRUE]) EXCEPT !.told.escape = "drag"]
              ELSE [scene EXCEPT !.told.escape = "client", !.press = None]
EscapeRelease ==
  /\ scene.told.escape # None
  /\ scene' = [NegotiateDrag([scene EXCEPT !.escapeHeld = FALSE]) EXCEPT !.told.escape = None]

(* A modifier pressed or released; a press is the focused surface's input. *)
ModifierKey(m) ==
  /\ m # scene.modifiers
  /\ scene' = [NegotiateDrag([scene EXCEPT !.modifiers = m]) EXCEPT
                 !.press = IF m \subseteq scene.modifiers THEN @ ELSE None]

--------------------------------------------------------------------------
(* Requests *)

(* DragType: a number other than the one spoken of begins another offer. *)
DragType(c, drag, mime) ==
  LET said == scene.pending[c]
      types == IF said # None /\ said.drag = drag THEN said.types ELSE {}
  IN /\ c \in scene.connected
     /\ scene' = [scene EXCEPT !.pending[c] = [drag |-> drag, types |-> types \cup {mime}]]

(* A mistake: the pointer goes on hovering the surface the press was on. *)
StartDragHovering(c, drag, latest, actions) ==
  LET said == scene.pending[c]
      offer == scene.offers + 1
  IN /\ c \in scene.connected \cap scene.shown /\ offer <= MaxDrags
     /\ latest /\ scene.press = c /\ scene.held # {} /\ scene.told.owed[c] > 0
     /\ scene.drag = None /\ scene.moving = None /\ ~scene.locked /\ actions # {}
     /\ said # None /\ said.drag = drag
     /\ scene' = RetargetDrag([EndPresses(scene, scene.capture) EXCEPT
                    !.capture = None, !.offers = offer, !.told.fate[offer] = "going",
                    !.pending[c] = None,
                    !.drag = [source |-> c, drag |-> drag, origin |-> c, types |-> said.types,
                              actions |-> actions, offer |-> offer, target |-> None,
                              told |-> None]])

(* StartDrag, citing the latest press or an older one; refused unless its
   button is held, on that window, with nothing else owning the pointer. *)
StartDrag(c, drag, latest, actions) ==
  LET said == scene.pending[c]
      s == [scene EXCEPT !.pending[c] = None]
      valid == /\ latest /\ scene.press = c /\ scene.held # {} /\ c \in scene.shown
               /\ scene.drag = None /\ scene.moving = None /\ ~scene.locked /\ actions # {}
               /\ said # None /\ said.drag = drag
      offer == scene.offers + 1
      started == [EndPresses(s, s.capture) EXCEPT
                    !.capture = None, !.offers = offer, !.told.fate[offer] = "going",
                    !.drag = [source |-> c, drag |-> drag, origin |-> c, types |-> said.types,
                              actions |-> actions, offer |-> offer, target |-> None,
                              told |-> None]]
  IN /\ c \in scene.connected \cap scene.nodes
     /\ valid => offer <= MaxDrags /\ (Reuses \/ scene.told.owed[c] > 0)
     /\ scene' = IF valid THEN RetargetDrag(SetPointerFocus(started, None)) ELSE s

(* AcceptDrag, citing the offer and the entering it answers. *)
AcceptDrag(c, offer, current, mime, actions, preferred) ==
  LET d == scene.drag
      ours == d # None /\ d.offer = offer /\ d.target # None /\ d.target.surface = c
  IN /\ c \in scene.connected /\ ours
     /\ scene' =
          IF ~current THEN scene
          ELSE NegotiateDrag([scene EXCEPT
                 !.told.agreed = [mime |-> mime, actions |-> actions],
                 !.drag.target = [@ EXCEPT
                    !.mime = IF mime \in d.types THEN mime ELSE None,
                    !.actions = actions, !.preferred = preferred]])

(* ReceiveDrop: each type once, for the client dropped on, before it finished;
   the pipe goes to the source with its DragSend. *)
Answers(c, offer, i) == scene.dropped[i].offer = offer /\ scene.dropped[i].target = c

ReceiveDrop(c, offer, mime) ==
  /\ c \in scene.connected
  /\ \E i \in DOMAIN scene.dropped :
       /\ Answers(c, offer, i) /\ mime \in scene.dropped[i].types \ scene.dropped[i].received
       /\ scene' = [scene EXCEPT
            !.dropped[i].received = @ \cup {mime},
            !.told.sent[offer] = Append(@, <<mime, c, scene.told.fate[offer]>>)]

Without(q, i) == SubSeq(q, 1, i - 1) \o SubSeq(q, i + 1, Len(q))

FinishDrop(c, offer) ==
  /\ c \in scene.connected
  /\ \E i \in DOMAIN scene.dropped :
       /\ Answers(c, offer, i)
       /\ scene' = [Ended(scene, offer, "finished") EXCEPT !.dropped = Without(@, i)]

(* CancelDrag by its source: the drag going on, else the oldest drop of that
   number. *)
CancelDragRequest(c, drag) ==
  LET mine == {i \in DOMAIN scene.dropped :
                 scene.dropped[i].source = c /\ scene.dropped[i].drag = drag}
      first == CHOOSE i \in mine : \A j \in mine : i <= j
  IN /\ c \in scene.connected
     /\ \/ /\ scene.drag # None /\ scene.drag.source = c /\ scene.drag.drag = drag
           /\ scene' = CancelDrag(scene)
        \/ /\ ~(scene.drag # None /\ scene.drag.source = c /\ scene.drag.drag = drag)
           /\ mine # {}
           /\ scene' = [Ended(scene, scene.dropped[first].offer, "cancelled") EXCEPT
                          !.dropped = Without(@, first)]

(* BeginMove: from the latest press of this client on the window, held. *)
BeginMove(c) ==
  /\ c \in scene.connected \cap scene.nodes
  /\ scene.press = c /\ scene.held # {} /\ ~scene.locked
  /\ Reuses \/ scene.told.owed[c] > 0
  /\ scene' = SetPointerFocus([scene EXCEPT !.moving = c], None)

--------------------------------------------------------------------------
(* Surfaces and clients come and go *)

DetachInput(s, key) ==
  [s EXCEPT !.capture = IF @ = key THEN None ELSE @,
            !.swallowed = IF s.capture = key THEN ButtonsDown(s) ELSE @,
            !.focus = IF @ = key THEN None ELSE @,
            !.moving = IF @ = key THEN None ELSE @]

RemoveNode(s, key) ==
  IF key \notin s.nodes THEN s
  ELSE LET gone == [DetachInput(s, key) EXCEPT
                      !.nodes = @ \ {key}, !.shown = @ \ {key},
                      !.told.owed[key] = 0,
                      !.told.over = {e \in @ : e[1] # key}]
           left == ForgetDragSurface(gone, key)
       IN [left EXCEPT !.press = IF @ = key THEN None ELSE @]

CreateSurface(c) ==
  /\ c \in scene.connected \ scene.nodes
  /\ scene' = RefreshPointerFocus([scene EXCEPT !.nodes = @ \cup {c}, !.shown = @ \cup {c}])

Destroy(c) ==
  /\ c \in scene.connected \cap scene.nodes
  /\ scene' = RefreshPointerFocus(RemoveNode(scene, c))

(* Minimized or hidden: a press it held is cancelled, the pointer leaves. *)
Conceal(c) ==
  LET s == [scene EXCEPT !.shown = @ \ {c}]
      told == IF c \in {s.capture, s.focus} THEN EndPresses(s, c) ELSE s
  IN /\ c \in scene.shown
     /\ scene' = RefreshPointerFocus(DetachInput(told, c))

Restore(c) ==
  /\ c \in scene.nodes \ scene.shown
  /\ scene' = RefreshPointerFocus([scene EXCEPT !.shown = @ \cup {c}])

Disconnect(c) ==
  LET s == [scene EXCEPT !.connected = @ \ {c}]
      removed == RemoveNode(ForgetDragClient(s, c), c)
      quiet == [removed EXCEPT
                  !.press = IF @ = c THEN None ELSE @,
                  !.told.fate = [o \in Offers |->
                     IF \E i \in DOMAIN scene.dropped : /\ scene.dropped[i].offer = o
                                                        /\ scene.dropped[i].source = c
                     THEN "gone" ELSE @[o]]]
  IN /\ c \in scene.connected
     /\ scene' = RefreshPointerFocus(quiet)

Connect(c) ==
  /\ c \notin scene.connected
  /\ scene' = [scene EXCEPT !.connected = @ \cup {c}]

Lock ==
  /\ ~scene.locked
  /\ scene' = SetPointerFocus(CancelPointer(CancelDrag([scene EXCEPT !.locked = TRUE])), None)

Unlock ==
  /\ scene.locked
  /\ scene' = RefreshPointerFocus(CancelPointer([scene EXCEPT !.locked = FALSE]))

Next ==
  \/ \E u \in Surfaces \cup {None} : PointerMotion(u)
  \/ \E b \in Buttons : PointerPress(b) \/ PointerRelease(b)
  \/ \E m \in ModifierSets : ModifierKey(m)
  \/ EscapePress \/ EscapeRelease \/ Lock \/ Unlock
  \/ \E c \in Sources :
       \/ \E d \in DragIds, t \in Types : DragType(c, d, t)
       \/ \E d \in DragIds, l \in BOOLEAN, a \in SourceActions : StartDrag(c, d, l, a)
       \/ \E d \in DragIds : CancelDragRequest(c, d)
  \/ \E c \in Clients :
       \/ \E o \in Offers, l \in BOOLEAN, t \in Types \cup {None}, a \in TargetActions,
             p \in Preferred : AcceptDrag(c, o, l, t, a, p)
       \/ \E o \in Offers, t \in Types : ReceiveDrop(c, o, t)
       \/ \E o \in Offers : FinishDrop(c, o)
       \/ BeginMove(c) \/ CreateSurface(c) \/ Destroy(c) \/ Conceal(c) \/ Restore(c)
       \/ Disconnect(c) \/ Connect(c)

Spec == Init /\ [][Next]_scene

--------------------------------------------------------------------------
(* Every field has its type: at most MAX_OPEN_DROPS drops stay open and no
   more releases are swallowed than buttons there are. *)
TypeOK ==
  /\ scene.connected \subseteq Clients /\ scene.shown \subseteq scene.nodes
  /\ scene.nodes \subseteq scene.connected
  /\ {scene.capture, scene.focus, scene.press, scene.moving} \subseteq scene.nodes \cup {None}
  /\ scene.held \subseteq Buttons /\ scene.swallowed \in 0..Cardinality(Buttons)
  /\ scene.drag \in Drags \cup {None} /\ scene.offers \in 0..MaxDrags
  /\ scene.dropped \in Seq(Drops) /\ Len(scene.dropped) <= MAX_OPEN_DROPS

(* "Every drag ends in exactly one of DragFinished or DragCancelled": a source
   still there has heard no ending of the drag going on or of a drop still
   open, whose target is there to finish it, and one ending of every other, through drops, cancels, drops pushed
   out, targets gone and surfaces destroyed. *)
SourceToldOnce ==
  \A o \in 1..scene.offers :
    /\ scene.told.fate[o] # "twice"
    /\ scene.told.fate[o] = "going" <=> scene.drag # None /\ scene.drag.offer = o
    /\ scene.told.fate[o] = "dropped" <=>
         \E i \in DOMAIN scene.dropped : /\ scene.dropped[i].offer = o
                                         /\ scene.dropped[i].target \in scene.connected

(* A drag is over at most one surface, its target, a surface shown: every
   other one that was told it entered was told it left, or went. *)
OneTarget ==
  scene.told.over = IF scene.drag = None \/ scene.drag.target = None THEN {}
                    ELSE {<<scene.drag.target.surface, scene.drag.offer>>}

(* Nothing is dropped on a surface that went or is hidden, and its source and
   its target were told the same action. *)
TargetShown ==
  scene.drag # None =>
    /\ scene.drag.target # None =>
         /\ scene.drag.target.surface \in scene.shown
         /\ scene.drag.target.told = scene.drag.told
    /\ scene.drag.target = None => scene.drag.told = None

(* "The pointer is the drag's": while it goes on no surface has the pointer
   or a press, and no window moves with it. *)
PointerIsTheDrags ==
  scene.drag # None => scene.focus = None /\ scene.capture = None /\ scene.moving = None

(* "A release only to the surface that has its press": every press a surface
   heard ended for it, by its release, a cancel or the pointer's leave, once no
   button is held, and no surface heard a release without a press. *)
PressesEnd ==
  /\ ~scene.told.stray
  /\ scene.held = {} => \A s \in scene.nodes : scene.told.owed[s] = 0

(* A drop's action is one its source allows and its target answered to this
   very entering, taking a type the source offers. *)
DropsAgreed ==
  \A i \in DOMAIN scene.dropped :
    LET d == scene.dropped[i]
        took == scene.told.took[d.offer]
    IN /\ took.answer # None /\ took.answer.mime \in d.types
       /\ d.action \in took.allowed \cap took.answer.actions

(* A drag's content goes only to the client it was dropped on, before it
   finished, each type once. *)
ContentToTarget ==
  \A o \in 1..scene.offers :
    LET sent == scene.told.sent[o]
    IN /\ \A i \in DOMAIN sent : sent[i][2] = scene.told.took[o].client /\ sent[i][3] = "dropped"
       /\ \A i, j \in DOMAIN sent : sent[i][1] = sent[j][1] => i = j
=============================================================================
