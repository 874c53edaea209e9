----------------------------- MODULE MCInputs -----------------------------
(***************************************************************************)
(* Windows, drags and gestures beside each other: where input goes.        *)
(* A behaviour runs one of them, named by part, and leaves the others where*)
(* they start; a component with several instances is run with each one's   *)
(* constants.                                                              *)
(***************************************************************************)
EXTENDS Integers, Sequences

CONSTANTS RunParts, \* the components the run is of
          None

VARIABLES
    part, \* the component that runs
    \* DragAndDrop
    dragged,
    \* Windows
    scene,
    \* Gestures
    gestures

(* Windows: window w with a dialog d and a menu m with a submenu n; window *)
(* v, which may be the same client's; the panel p with a menu q; the lock. *)
RoleOf(these) ==
    [k \in these |-> CASE k \in {"w", "v"} -> "window" [] k = "d" -> "dialog"
                       [] k \in {"m", "n", "q"} -> "popup" [] k = "p" -> "panel" [] OTHER -> "lock"]
ParentOf(these) ==
    [k \in these |-> CASE k \in {"d", "m"} -> "w" [] k = "n" -> "m" [] k = "q" -> "p" [] OTHER -> None]
OrderOf(these) ==
    SelectSeq(<<"w", "d", "m", "n", "v", "p", "q", "l">>, LAMBDA k : k \in these)
OneEach(these) ==
    [k \in these |-> CASE k \in {"w", "d", "m", "n"} -> "app" [] k = "v" -> "other" [] OTHER -> "shell"]
SameApp(these) == [k \in these |-> IF k \in {"w", "d", "m", "n", "v"} THEN "app" ELSE "shell"]

(* Gestures: handlers named for what they are, on a view and the view it   *)
(* is in.                                                                  *)
KindOf(these) == [h \in these |->
    CASE h \in {"pan", "outer pan", "two-finger pan", "held pan"} -> "pan"
      [] h \in {"tap", "double tap", "blocking tap"} -> "tap" [] OTHER -> h]
ViewOf(these) == [h \in these |-> IF h \in {"outer pan", "fling"} THEN "outer" ELSE "inner"]
AboveOf == [v \in {"outer", "inner"} |-> IF v = "inner" THEN {"outer"} ELSE {}]
Fingers(these) == [h \in these |-> IF h = "two-finger pan" THEN 2 ELSE 1]
TapsOf(these) == [h \in these |-> IF h = "double tap" THEN 2 ELSE 1]
ManualOf(these) == [h \in these |-> h = "two-finger pan"]
DataOf(these) == [h \in these |-> h \in {"tap", "manual", "two-finger pan"}]
HeldOf(these) == [h \in these |-> h = "held pan"]
WaitForOf(these) == [h \in these |->
    CASE h = "tap" -> {"double tap"} \cap these [] h = "fling" -> {"pan"} \cap these [] OTHER -> {}]
TogetherOf(these) == [h \in these |-> IF h = "pinch" THEN {"rotation"} \cap these ELSE {}]
BlocksOf(these) == [h \in these |-> IF h = "blocking tap" THEN {"pan"} \cap these ELSE {}]
Inside(fingers) == [n \in fingers |-> <<"inner", "outer">>]
Apart == [n \in {1, 2} |-> IF n = 1 THEN <<"inner", "outer">> ELSE <<"outer">>]

-----------------------------------------------------------------------------
(* The instances' constants.                                              *)
DragsClients == {"c1", "c2"}
DragsOldClients == {}
DragsSources == {"c1"}
DragsButtons == {1}
DragsTypes == {"t1"}
DragsSourceActions == {{"copy", "move"}}
DragsTargetActions == {{"copy"}, {"link"}}
DragsPreferred == {None}
DragsModifierSets == {{}}
DropsSourceActions == {{"copy", "move"}, {"link"}}
DropsTargetActions == {{"copy"}, {"move", "link"}}
DropsPreferred == {"move", None}
DropsModifierSets == {{}, {"alt"}, {"alt", "super"}}
MenusSurfaces == {"w", "m", "n", "v"}
MenusClients == {"app", "other", "shell"}
MenusOwner == OneEach({"w", "m", "n", "v"})
MenusRole == RoleOf({"w", "m", "n", "v"})
MenusParent == ParentOf({"w", "m", "n", "v"})
MenusOrder == OrderOf({"w", "m", "n", "v"})
MenusSpots == {{}, {"w"}, {"w", "m"}, {"m", "n"}, {"v"}}
MenusInputs == {"pointer"}
MenusRequests == {"track"}
DialogsSurfaces == {"w", "d", "v"}
DialogsOwner == OneEach({"w", "d", "v"})
DialogsRole == RoleOf({"w", "d", "v"})
DialogsParent == ParentOf({"w", "d", "v"})
DialogsOrder == OrderOf({"w", "d", "v"})
DialogsSpots == {{}, {"w"}, {"w", "d"}, {"v"}}
DialogsInputs == {"pointer", "touch"}
DialogsRequests == {"minimize", "disconnect", "focus"}
SpacesSurfaces == {"w", "m", "v"}
SpacesClients == {"app", "shell"}
SpacesOwner == SameApp({"w", "m", "v"})
SpacesRole == RoleOf({"w", "m", "v"})
SpacesParent == ParentOf({"w", "m", "v"})
SpacesOrder == OrderOf({"w", "m", "v"})
SpacesInputs == {"key"}
SpacesRequests == {"minimize", "hide", "focus"}
PanelSurfaces == {"w", "p", "q"}
PanelOwner == SameApp({"w", "p", "q"})
PanelRole == RoleOf({"w", "p", "q"})
PanelParent == ParentOf({"w", "p", "q"})
PanelOrder == OrderOf({"w", "p", "q"})
PanelRequests == {"minimize", "hide", "focus", "revoke"}
LockScreenSurfaces == {"w", "m", "l"}
LockScreenOwner == OneEach({"w", "m", "l"})
LockScreenRole == RoleOf({"w", "m", "l"})
LockScreenParent == ParentOf({"w", "m", "l"})
LockScreenOrder == OrderOf({"w", "m", "l"})
LockScreenSpots == {{}, {"w", "l"}, {"l"}}
LockScreenInputs == {"pointer", "key", "touch"}
LockScreenRequests == {"lock", "focus", "minimize"}
TouchPadOwner == OneEach({"w", "m", "v"})
TouchPadSpots == {{}, {"w"}, {"w", "m"}, {"v"}}
TouchPadInputs == {"pointer", "pinch", "hold"}
TouchPadRequests == {"minimize"}
TappedHandlers == {"tap", "double tap", "press"}
TappedPointers == {1, 2}
TappedSpots == Inside({1, 2})
TappedMoves == {{}, {"astray"}, {"outside"}}
TappedRequests == {"disable"}
TappedKind == KindOf({"tap", "double tap", "press"})
TappedView == ViewOf({"tap", "double tap", "press"})
TappedNeed == Fingers({"tap", "double tap", "press"})
TappedTaps == TapsOf({"tap", "double tap", "press"})
TappedManualActivation == ManualOf({"tap", "double tap", "press"})
TappedNeedsPointerData == DataOf({"tap", "double tap", "press"})
TappedLongPressFirst == HeldOf({"tap", "double tap", "press"})
TappedWaitFor == WaitForOf({"tap", "double tap", "press"})
TappedSimultaneous == TogetherOf({"tap", "double tap", "press"})
TappedBlocks == BlocksOf({"tap", "double tap", "press"})
PannedHandlers == {"pan", "outer pan", "press", "held pan"}
PannedSpots == Inside({1})
PannedMoves == {{}, {"far"}, {"far", "astray"}}
PannedRequests == {"gone", "disable"}
PannedKind == KindOf({"pan", "outer pan", "press", "held pan"})
PannedView == ViewOf({"pan", "outer pan", "press", "held pan"})
PannedNeed == Fingers({"pan", "outer pan", "press", "held pan"})
PannedTaps == TapsOf({"pan", "outer pan", "press", "held pan"})
PannedManualActivation == ManualOf({"pan", "outer pan", "press", "held pan"})
PannedNeedsPointerData == DataOf({"pan", "outer pan", "press", "held pan"})
PannedLongPressFirst == HeldOf({"pan", "outer pan", "press", "held pan"})
PannedWaitFor == WaitForOf({"pan", "outer pan", "press", "held pan"})
PannedSimultaneous == TogetherOf({"pan", "outer pan", "press", "held pan"})
PannedBlocks == BlocksOf({"pan", "outer pan", "press", "held pan"})
PinchedHandlers == {"pinch", "rotation", "two-finger pan"}
PinchedMoves == {{}, {"far"}, {"spread"}, {"turn"}}
PinchedSets == {"ACTIVE"}
PinchedKind == KindOf({"pinch", "rotation", "two-finger pan"})
PinchedView == ViewOf({"pinch", "rotation", "two-finger pan"})
PinchedNeed == Fingers({"pinch", "rotation", "two-finger pan"})
PinchedTaps == TapsOf({"pinch", "rotation", "two-finger pan"})
PinchedManualActivation == ManualOf({"pinch", "rotation", "two-finger pan"})
PinchedNeedsPointerData == DataOf({"pinch", "rotation", "two-finger pan"})
PinchedLongPressFirst == HeldOf({"pinch", "rotation", "two-finger pan"})
PinchedWaitFor == WaitForOf({"pinch", "rotation", "two-finger pan"})
PinchedSimultaneous == TogetherOf({"pinch", "rotation", "two-finger pan"})
PinchedBlocks == BlocksOf({"pinch", "rotation", "two-finger pan"})
FlungHandlers == {"fling", "pan", "native"}
FlungMoves == {{}, {"far"}, {"fast"}}
FlungKind == KindOf({"fling", "pan", "native"})
FlungView == ViewOf({"fling", "pan", "native"})
FlungNeed == Fingers({"fling", "pan", "native"})
FlungTaps == TapsOf({"fling", "pan", "native"})
FlungManualActivation == ManualOf({"fling", "pan", "native"})
FlungNeedsPointerData == DataOf({"fling", "pan", "native"})
FlungLongPressFirst == HeldOf({"fling", "pan", "native"})
FlungWaitFor == WaitForOf({"fling", "pan", "native"})
FlungSimultaneous == TogetherOf({"fling", "pan", "native"})
FlungBlocks == BlocksOf({"fling", "pan", "native"})
ManuallyHandlers == {"manual", "tap", "double tap"}
ManuallyMoves == {{}, {"astray"}}
ManuallySets == {"ACTIVE", "END", "FAILED", "CANCELLED", "BEGAN"}
ManuallyRequests == {"drop"}
ManuallyKind == KindOf({"manual", "tap", "double tap"})
ManuallyView == ViewOf({"manual", "tap", "double tap"})
ManuallyNeed == Fingers({"manual", "tap", "double tap"})
ManuallyTaps == TapsOf({"manual", "tap", "double tap"})
ManuallyManualActivation == ManualOf({"manual", "tap", "double tap"})
ManuallyNeedsPointerData == DataOf({"manual", "tap", "double tap"})
ManuallyLongPressFirst == HeldOf({"manual", "tap", "double tap"})
ManuallyWaitFor == WaitForOf({"manual", "tap", "double tap"})
ManuallySimultaneous == TogetherOf({"manual", "tap", "double tap"})
ManuallyBlocks == BlocksOf({"manual", "tap", "double tap"})

Drags == INSTANCE DragAndDrop WITH
    Clients <- DragsClients, OldClients <- DragsOldClients, Sources <- DragsSources,
    Buttons <- DragsButtons, DragIds <- DragsButtons, Types <- DragsTypes,
    SourceActions <- DragsSourceActions, TargetActions <- DragsTargetActions,
    Preferred <- DragsPreferred, ModifierSets <- DragsModifierSets, MAX_OPEN_DROPS <- 1,
    MaxDrags <- 2, Reuses <- FALSE, scene <- dragged
Drops == INSTANCE DragAndDrop WITH
    Clients <- DragsClients, OldClients <- DragsSources, Sources <- DragsSources,
    Buttons <- DragsButtons, DragIds <- DragsButtons, Types <- DragsTypes,
    SourceActions <- DropsSourceActions, TargetActions <- DropsTargetActions,
    Preferred <- DropsPreferred, ModifierSets <- DropsModifierSets, MAX_OPEN_DROPS <- 1,
    MaxDrags <- 1, Reuses <- FALSE, scene <- dragged
Menus == INSTANCE Windows WITH
    Surfaces <- MenusSurfaces, Clients <- MenusClients, Owner <- MenusOwner,
    Role <- MenusRole, Parent <- MenusParent, Order <- MenusOrder, Spots <- MenusSpots,
    Workspaces <- 1, MaxButtons <- 1, Inputs <- MenusInputs, Requests <- MenusRequests,
    Crosses <- FALSE
Dialogs == INSTANCE Windows WITH
    Surfaces <- DialogsSurfaces, Clients <- MenusClients, Owner <- DialogsOwner,
    Role <- DialogsRole, Parent <- DialogsParent, Order <- DialogsOrder,
    Spots <- DialogsSpots, Workspaces <- 1, MaxButtons <- 1, Inputs <- DialogsInputs,
    Requests <- DialogsRequests, Crosses <- FALSE
Spaces == INSTANCE Windows WITH
    Surfaces <- SpacesSurfaces, Clients <- SpacesClients, Owner <- SpacesOwner,
    Role <- SpacesRole, Parent <- SpacesParent, Order <- SpacesOrder,
    Spots <- DragsModifierSets, Workspaces <- 2, MaxButtons <- 0, Inputs <- SpacesInputs,
    Requests <- SpacesRequests, Crosses <- FALSE
Panel == INSTANCE Windows WITH
    Surfaces <- PanelSurfaces, Clients <- SpacesClients, Owner <- PanelOwner,
    Role <- PanelRole, Parent <- PanelParent, Order <- PanelOrder,
    Spots <- DragsModifierSets, Workspaces <- 2, MaxButtons <- 0, Inputs <- SpacesInputs,
    Requests <- PanelRequests, Crosses <- FALSE
LockScreen == INSTANCE Windows WITH
    Surfaces <- LockScreenSurfaces, Clients <- MenusClients, Owner <- LockScreenOwner,
    Role <- LockScreenRole, Parent <- LockScreenParent, Order <- LockScreenOrder,
    Spots <- LockScreenSpots, Workspaces <- 1, MaxButtons <- 1,
    Inputs <- LockScreenInputs, Requests <- LockScreenRequests, Crosses <- FALSE
TouchPad == INSTANCE Windows WITH
    Surfaces <- SpacesSurfaces, Clients <- MenusClients, Owner <- TouchPadOwner,
    Role <- SpacesRole, Parent <- SpacesParent, Order <- SpacesOrder,
    Spots <- TouchPadSpots, Workspaces <- 1, MaxButtons <- 0, Inputs <- TouchPadInputs,
    Requests <- TouchPadRequests, Crosses <- FALSE
Tapped == INSTANCE Gestures WITH
    Handlers <- TappedHandlers, Pointers <- TappedPointers, Spots <- TappedSpots,
    Moves <- TappedMoves, Sets <- DragsOldClients, Requests <- TappedRequests,
    Kind <- TappedKind, View <- TappedView, Above <- AboveOf, Need <- TappedNeed,
    Most <- TappedNeed, Taps <- TappedTaps, ManualActivation <- TappedManualActivation,
    NeedsPointerData <- TappedNeedsPointerData, LongPressFirst <- TappedLongPressFirst,
    WaitFor <- TappedWaitFor, Simultaneous <- TappedSimultaneous, Blocks <- TappedBlocks,
    g <- gestures
Panned == INSTANCE Gestures WITH
    Handlers <- PannedHandlers, Pointers <- DragsButtons, Spots <- PannedSpots,
    Moves <- PannedMoves, Sets <- DragsOldClients, Requests <- PannedRequests,
    Kind <- PannedKind, View <- PannedView, Above <- AboveOf, Need <- PannedNeed,
    Most <- PannedNeed, Taps <- PannedTaps, ManualActivation <- PannedManualActivation,
    NeedsPointerData <- PannedNeedsPointerData, LongPressFirst <- PannedLongPressFirst,
    WaitFor <- PannedWaitFor, Simultaneous <- PannedSimultaneous, Blocks <- PannedBlocks,
    g <- gestures
Pinched == INSTANCE Gestures WITH
    Handlers <- PinchedHandlers, Pointers <- TappedPointers, Spots <- TappedSpots,
    Moves <- PinchedMoves, Sets <- PinchedSets, Requests <- TappedRequests,
    Kind <- PinchedKind, View <- PinchedView, Above <- AboveOf, Need <- PinchedNeed,
    Most <- PinchedNeed, Taps <- PinchedTaps, ManualActivation <- PinchedManualActivation,
    NeedsPointerData <- PinchedNeedsPointerData, LongPressFirst <- PinchedLongPressFirst,
    WaitFor <- PinchedWaitFor, Simultaneous <- PinchedSimultaneous,
    Blocks <- PinchedBlocks, g <- gestures
Flung == INSTANCE Gestures WITH
    Handlers <- FlungHandlers, Pointers <- TappedPointers, Spots <- Apart,
    Moves <- FlungMoves, Sets <- DragsOldClients, Requests <- TappedRequests,
    Kind <- FlungKind, View <- FlungView, Above <- AboveOf, Need <- FlungNeed,
    Most <- FlungNeed, Taps <- FlungTaps, ManualActivation <- FlungManualActivation,
    NeedsPointerData <- FlungNeedsPointerData, LongPressFirst <- FlungLongPressFirst,
    WaitFor <- FlungWaitFor, Simultaneous <- FlungSimultaneous, Blocks <- FlungBlocks,
    g <- gestures
Manually == INSTANCE Gestures WITH
    Handlers <- ManuallyHandlers, Pointers <- DragsButtons, Spots <- PannedSpots,
    Moves <- ManuallyMoves, Sets <- ManuallySets, Requests <- ManuallyRequests,
    Kind <- ManuallyKind, View <- ManuallyView, Above <- AboveOf, Need <- ManuallyNeed,
    Most <- ManuallyNeed, Taps <- ManuallyTaps,
    ManualActivation <- ManuallyManualActivation,
    NeedsPointerData <- ManuallyNeedsPointerData,
    LongPressFirst <- ManuallyLongPressFirst, WaitFor <- ManuallyWaitFor,
    Simultaneous <- ManuallySimultaneous, Blocks <- ManuallyBlocks, g <- gestures

ASSUME Drags!ConstantsAssumption
ASSUME Drops!ConstantsAssumption
ASSUME Menus!TreeAssumption
ASSUME Dialogs!TreeAssumption
ASSUME Spaces!TreeAssumption
ASSUME Panel!TreeAssumption
ASSUME LockScreen!TreeAssumption
ASSUME TouchPad!TreeAssumption
ASSUME Menus!LimitsAssumption
ASSUME Dialogs!LimitsAssumption
ASSUME Spaces!LimitsAssumption
ASSUME Panel!LimitsAssumption
ASSUME LockScreen!LimitsAssumption
ASSUME TouchPad!LimitsAssumption
ASSUME Tapped!HandlersAssumption
ASSUME Panned!HandlersAssumption
ASSUME Pinched!HandlersAssumption
ASSUME Flung!HandlersAssumption
ASSUME Manually!HandlersAssumption
ASSUME Tapped!RelationsAssumption
ASSUME Panned!RelationsAssumption
ASSUME Pinched!RelationsAssumption
ASSUME Flung!RelationsAssumption
ASSUME Manually!RelationsAssumption

dragVars == <<dragged>>
windowsVars == <<scene>>
gesturesVars == <<gestures>>
vars == <<part, dragVars, windowsVars, gesturesVars>>

(* The component that runs starts as it does; the others rest where they   *)
(* start.                                                                  *)
Init ==
    /\ part \in RunParts
    /\ IF part = "drags" THEN Drags!Init ELSE Drops!Init
    /\ IF part = "menus" THEN Menus!Init ELSE IF part = "dialogs" THEN Dialogs!Init ELSE
       IF part = "workspaces" THEN Spaces!Init ELSE IF part = "panel" THEN Panel!Init
       ELSE IF part = "lock screen" THEN LockScreen!Init ELSE TouchPad!Init
    /\ IF part = "taps" THEN Tapped!Init ELSE IF part = "pans" THEN Panned!Init ELSE IF
       part = "pinches" THEN Pinched!Init ELSE IF part = "flings" THEN Flung!Init ELSE
       Manually!Init

DragGoes ==
    /\ \/ part = "drags" /\ Drags!Next
       \/ part = "drops" /\ Drops!Next
    /\ UNCHANGED <<part, windowsVars, gesturesVars>>
WindowsGoes ==
    /\ \/ part = "menus" /\ Menus!Next
       \/ part = "dialogs" /\ Dialogs!Next
       \/ part = "workspaces" /\ Spaces!Next
       \/ part = "panel" /\ Panel!Next
       \/ part = "lock screen" /\ LockScreen!Next
       \/ part = "fingers" /\ TouchPad!Next
    /\ UNCHANGED <<part, dragVars, gesturesVars>>
GesturesGoes ==
    /\ \/ part = "taps" /\ Tapped!Next
       \/ part = "pans" /\ Panned!Next
       \/ part = "pinches" /\ Pinched!Next
       \/ part = "flings" /\ Flung!Next
       \/ part = "manual" /\ Manually!Next
    /\ UNCHANGED <<part, dragVars, windowsVars>>

Next == \/ DragGoes \/ WindowsGoes \/ GesturesGoes

Spec == Init /\ [][Next]_vars



-----------------------------------------------------------------------------
(* Properties.                                                             *)

(* The keyboard, the pointer, touches and drags go where they can be seen: *)
(* nothing dangles, a menu's chain has the keyboard, what began is ended   *)
(* to whoever it began with, clients are told what is, and nothing passes  *)
(* the lock (scene.rs's focus, grabs, capture).                            *)
InputGoesWhereShown ==
    /\ part = "menus" => /\ Menus!TypeOK /\ Menus!NothingDangles /\ Menus!ChainHasKeyboard
                         /\ Menus!KeyboardIsShown /\ Menus!ToldWhatIs /\ Menus!InputEnds
    /\ part = "dialogs" => /\ Dialogs!NothingDangles /\ Dialogs!KeyboardIsShown /\ Dialogs!InputEnds
    /\ part = "workspaces" => Spaces!KeyboardIsShown
    /\ part = "panel" => /\ Panel!NothingDangles /\ Panel!ChainHasKeyboard /\ Panel!ActiveIsShown
                         /\ Panel!ToldWhatIs
    /\ part = "lock screen" => /\ LockScreen!NothingBehindLock /\ LockScreen!InputEnds
                               /\ LockScreen!KeyboardIsShown
    /\ part = "fingers" => TouchPad!InputEnds

(* The keyboard is not lost while a window is shown, and a window with a   *)
(* dialog hears no press that began after it.                              *)
KeyboardKept ==
    [][/\ part = "menus" => Menus!KeyboardNotLost
       /\ part = "workspaces" => Spaces!KeyboardNotLost
       /\ part = "dialogs" => Dialogs!ModalHolds]_vars

(* A drag has one source, told once how it ended, one target, shown, and   *)
(* the pointer until it ends; a drop's content goes to the client it was   *)
(* dropped on, with an action both agreed to (scene/drag.rs).              *)
DragsAgree ==
    /\ part = "drags" => /\ Drags!TypeOK /\ Drags!SourceToldOnce /\ Drags!OneTarget /\ Drags!TargetShown
                         /\ Drags!PointerIsTheDrags /\ Drags!PressesEnd
    /\ part = "drops" => Drops!DropsAgreed /\ Drops!ContentToTarget

(* A gesture handler is told its states in their order and its end, not    *)
(* before what it waits for, nor with one it excludes; and none is left    *)
(* waiting when every finger is up (oxyos-gestures).                       *)
GesturesEnd ==
    /\ part = "taps" => /\ Tapped!TypeOK /\ Tapped!ToldInOrder /\ Tapped!NotEarly /\ Tapped!NotBoth
                        /\ Tapped!TouchesEnd /\ Tapped!NoneStranded
    /\ part = "pans" => Panned!ToldOver /\ Panned!Exclusive /\ Panned!NoneStranded
    /\ part = "pinches" => Pinched!ToldInOrder /\ Pinched!TouchesEnd /\ Pinched!NoneStranded
    /\ part = "flings" => Flung!ToldOver /\ Flung!NotEarly /\ Flung!NotBoth
    /\ part = "manual" => Manually!ToldOver /\ Manually!TouchesEnd
=============================================================================
