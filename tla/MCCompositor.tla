--------------------------- MODULE MCCompositor ---------------------------
(***************************************************************************)
(* The compositor's parts, and the client's library, beside each other.    *)
(* A behaviour runs one of them, named by part, and leaves the others where*)
(* they start; a component with several instances is run with each one's   *)
(* constants.                                                              *)
(***************************************************************************)
EXTENDS Integers, Sequences

CONSTANTS RunParts, \* the components the run is of
          None

VARIABLES
    part, \* the component that runs
    \* GpuSync
    gpuClient, surfaces, frames, stage, acquired, signalled, buffers,
    destroyed, releases, after, fenced, orphans, gpu, kept, direct,
    planes,
    \* ScanoutDamage
    scanoutSurfaces, order, screen, targets, display, lit, flip, away,
    changes, losses,
    \* Displays
    shown, dark, displaysLit, trial, displaysKept, arranged,
    confirmed, displayChanges, plugs,
    \* LockChecker
    checking, answer, rejections, left, streak, since,
    \* IdleLock
    phase, now, idleAfter, idleSince, held, idle, seen, moved, locked,
    armed, touched,
    \* InputMethods
    server, front, engineHost, events, commands, outcomes, used,
    \* InputSources
    sourcesKept, manager, super, queue, sourcesOrder, sourcesMoved,
    sourcesUsed,
    \* Candidates
    candidates, view, candidatesAsked, engine, killed, candidatesUsed,
    \* Clipboard
    selection, emitted, peers, up, down, lib, pipes, spent,
    \* ClientText
    inputs, building, textUp, input, textDown, made, textSpent,
    \* ClientFrames
    library, drawn, memory, reads, clientEvents, sent, clientSpent

(* Displays: a panel and two monitors, whose other mode is half as wide.   *)
PixelsOf(these) == [d \in these |->
               CASE d = "panel" -> <<<<4, 4>>, <<2, 4>>>>
                 [] d = "left"  -> <<<<4, 8>>, <<4, 4>>>>
                 [] OTHER       -> <<<<6, 2>>, <<2, 2>>>>]

-----------------------------------------------------------------------------
(* The instances' constants.                                              *)
GpuSurfaces == {"s1"}
GpuBuffers == {"b1", "b2"}
GpuSyncs == {{"acquire", "release"}, {}}
GpuWithoutSurfaces == {"s1", "s2"}
ComposedWide == {"s2"}
ArrangedCard == <<"left", "panel", "below">>
ArrangedInternal == {"panel"}
ArrangedModes == {1, 2}
ArrangedPixels == PixelsOf({"left", "panel", "below"})
ArrangedWanted == {}
DraggedWanted == {<<9, 5>>, <<1, 9>>, <<-9, -1>>}
TriedCard == <<"panel", "left">>
TriedPixels == PixelsOf({"panel", "left"})
TriedWanted == {<<1, 9>>}
IdledAfters == {None, 1, 2, 3}
FieldsSurfaces == {"a", "b"}
FieldsKeys == {"k"}
FieldsMethods == {"pinyin"}
CycledKnown == {"pinyin", "japanese", "korean"}
CycledAvailable == {"pinyin", "korean"}
DrawnOutputs == {"left", "right"}
OffersClients == {"a", "b", "shell"}
OffersTypes == {"text"}
PastesTypes == {"text", "html"}
ToldTexts == {"empty", "hello", "world"}
ToldPurposes == {"normal", "email"}
ToldCarets == {"k1"}
TextChangesTexts == {"empty", "hello"}
TextChangesPurposes == {"normal"}
FramesExtents == {"small"}
SizesChangeExtents == {"small", "large"}

Gpu == INSTANCE GpuSync WITH
    Surfaces <- GpuSurfaces, Buffers <- GpuBuffers, MaxFrames <- 3, SyncFiles <- TRUE,
    Syncs <- GpuSyncs, Destroys <- FALSE, Transitions <- TRUE, OverDirect <- FALSE,
    client <- gpuClient
GpuWithout == INSTANCE GpuSync WITH
    Surfaces <- GpuWithoutSurfaces, Buffers <- GpuBuffers, MaxFrames <- 2,
    SyncFiles <- FALSE, Syncs <- GpuSyncs, Destroys <- FALSE, Transitions <- TRUE,
    OverDirect <- FALSE, client <- gpuClient
GpuDestroys == INSTANCE GpuSync WITH
    Surfaces <- GpuSurfaces, Buffers <- GpuBuffers, MaxFrames <- 2, SyncFiles <- TRUE,
    Syncs <- GpuSyncs, Destroys <- TRUE, Transitions <- FALSE, OverDirect <- FALSE,
    client <- gpuClient
Composed == INSTANCE ScanoutDamage WITH
    Surfaces <- GpuWithoutSurfaces, Wide <- ComposedWide, Plain <- GpuSurfaces,
    MaxFrames <- 1, MaxChanges <- 3, MaxLosses <- 1, Refuses <- TRUE, SameSize <- TRUE,
    surfaces <- scanoutSurfaces
Damage == INSTANCE ScanoutDamage WITH
    Surfaces <- GpuWithoutSurfaces, Wide <- ComposedWide, Plain <- GpuWithoutSurfaces,
    MaxFrames <- 1, MaxChanges <- 3, MaxLosses <- 1, Refuses <- FALSE, SameSize <- TRUE,
    surfaces <- scanoutSurfaces
Arranged == INSTANCE Displays WITH
    MIN_SHARED <- 2, ALIGN <- 1, Card <- ArrangedCard, Internal <- ArrangedInternal,
    Modes <- ArrangedModes, Pixels <- ArrangedPixels, Scales <- ArrangedModes,
    Wanted <- ArrangedWanted, MaxChanges <- 3, MaxPlugs <- 3, CardHolds <- TRUE,
    lit <- displaysLit, kept <- displaysKept, changes <- displayChanges
Dragged == INSTANCE Displays WITH
    MIN_SHARED <- 2, ALIGN <- 1, Card <- ArrangedCard, Internal <- ArrangedInternal,
    Modes <- ArrangedModes, Pixels <- ArrangedPixels, Scales <- ArrangedModes,
    Wanted <- DraggedWanted, MaxChanges <- 2, MaxPlugs <- 1, CardHolds <- TRUE,
    lit <- displaysLit, kept <- displaysKept, changes <- displayChanges
Tried == INSTANCE Displays WITH
    MIN_SHARED <- 2, ALIGN <- 1, Card <- TriedCard, Internal <- ArrangedInternal,
    Modes <- ArrangedModes, Pixels <- TriedPixels, Scales <- ArrangedModes,
    Wanted <- TriedWanted, MaxChanges <- 3, MaxPlugs <- 2, CardHolds <- TRUE,
    lit <- displaysLit, kept <- displaysKept, changes <- displayChanges
Guessed == INSTANCE LockChecker WITH
    FreeAttempts <- 5, LongestWait <- 30, MostDoublings <- 16, CountMax <- 26,
    MaxStreak <- 30
Idled == INSTANCE IdleLock WITH
    Afters <- IdledAfters, MaxTime <- 9, Never <- None, after <- idleAfter,
    since <- idleSince
Fields == INSTANCE InputMethods WITH
    Surfaces <- FieldsSurfaces, Keys <- FieldsKeys, Methods <- FieldsMethods,
    MaxPending <- 9, FieldChanges <- TRUE, MaxKeys <- 1, MaxCommits <- 2, MaxFocus <- 2,
    MaxSwitches <- 1, MaxStops <- 0, MaxEmoji <- 0, s <- server, f <- front,
    w <- engineHost
HeldKeys == INSTANCE InputMethods WITH
    Surfaces <- FieldsSurfaces, Keys <- FieldsKeys, Methods <- FieldsMethods,
    MaxPending <- 1, FieldChanges <- FALSE, MaxKeys <- 1, MaxCommits <- 1, MaxFocus <- 2,
    MaxSwitches <- 2, MaxStops <- 0, MaxEmoji <- 0, s <- server, f <- front,
    w <- engineHost
EngineStops == INSTANCE InputMethods WITH
    Surfaces <- FieldsSurfaces, Keys <- FieldsKeys, Methods <- FieldsMethods,
    MaxPending <- 9, FieldChanges <- FALSE, MaxKeys <- 1, MaxCommits <- 1, MaxFocus <- 2,
    MaxSwitches <- 1, MaxStops <- 1, MaxEmoji <- 0, s <- server, f <- front,
    w <- engineHost
Emoji == INSTANCE InputMethods WITH
    Surfaces <- FieldsSurfaces, Keys <- FieldsKeys, Methods <- FieldsMethods,
    MaxPending <- 9, FieldChanges <- FALSE, MaxKeys <- 1, MaxCommits <- 1, MaxFocus <- 2,
    MaxSwitches <- 1, MaxStops <- 0, MaxEmoji <- 1, s <- server, f <- front,
    w <- engineHost
Cycled == INSTANCE InputSources WITH
    Known <- CycledKnown, Available <- CycledAvailable, Layout <- "layout",
    Removes <- FALSE, Saves <- TRUE, MaxShortcuts <- 2, MaxChanges <- 2,
    kept <- sourcesKept, m <- manager, order <- sourcesOrder, moved <- sourcesMoved,
    used <- sourcesUsed
Listed == INSTANCE InputSources WITH
    Known <- CycledKnown, Available <- CycledAvailable, Layout <- "layout",
    Removes <- TRUE, Saves <- FALSE, MaxShortcuts <- 1, MaxChanges <- 1,
    kept <- sourcesKept, m <- manager, order <- sourcesOrder, moved <- sourcesMoved,
    used <- sourcesUsed
Drawn == INSTANCE Candidates WITH
    Outputs <- DrawnOutputs, MaxCount <- 2, Prompts <- TRUE, Chooses <- FALSE,
    MaxLists <- 2, MaxMoves <- 1, MaxGone <- 1, MaxFields <- 2, MaxChoices <- 2,
    sc <- candidates, asked <- candidatesAsked, used <- candidatesUsed
Offers == INSTANCE Clipboard WITH
    Clients <- OffersClients, Shell <- "shell", Types <- OffersTypes,
    OFFERS_KEPT <- 1, RECENT_INPUTS <- 2, MaxInputs <- 1, MaxCopies <- 2, MaxPastes <- 0,
    MaxFocus <- 3, scene <- selection
Pastes == INSTANCE Clipboard WITH
    Clients <- FieldsSurfaces, Shell <- "b", Types <- PastesTypes, OFFERS_KEPT <- 2,
    RECENT_INPUTS <- 2, MaxInputs <- 2, MaxCopies <- 1, MaxPastes <- 2, MaxFocus <- 2,
    scene <- selection
Told == INSTANCE ClientText WITH
    Surfaces <- GpuSurfaces, Texts <- ToldTexts, Empty <- "empty",
    Purposes <- ToldPurposes, Carets <- ToldCarets, EmptiesKept <- FALSE, MaxTells <- 2,
    MaxChanges <- 0, up <- textUp, down <- textDown, spent <- textSpent
TextChanges == INSTANCE ClientText WITH
    Surfaces <- GpuWithoutSurfaces, Texts <- TextChangesTexts, Empty <- "empty",
    Purposes <- TextChangesPurposes, Carets <- ArrangedWanted, EmptiesKept <- FALSE,
    MaxTells <- 2, MaxChanges <- 2, up <- textUp, down <- textDown, spent <- textSpent
Frames == INSTANCE ClientFrames WITH
    Surfaces <- GpuWithoutSurfaces, Extents <- FramesExtents, Regions <- DrawnOutputs,
    HISTORY <- 2, MaxFrames <- 4, MaxAttached <- 0, MaxDestroyed <- 0, client <- library,
    events <- clientEvents, spent <- clientSpent
SizesChange == INSTANCE ClientFrames WITH
    Surfaces <- GpuSurfaces, Extents <- SizesChangeExtents, Regions <- DrawnOutputs,
    HISTORY <- 1, MaxFrames <- 4, MaxAttached <- 0, MaxDestroyed <- 1, client <- library,
    events <- clientEvents, spent <- clientSpent
Mixed == INSTANCE ClientFrames WITH
    Surfaces <- GpuSurfaces, Extents <- FramesExtents, Regions <- DrawnOutputs,
    HISTORY <- 3, MaxFrames <- 3, MaxAttached <- 1, MaxDestroyed <- 0, client <- library,
    events <- clientEvents, spent <- clientSpent

ASSUME Gpu!BoundAssumption
ASSUME GpuWithout!BoundAssumption
ASSUME GpuDestroys!BoundAssumption
ASSUME Gpu!FlagAssumption
ASSUME GpuWithout!FlagAssumption
ASSUME GpuDestroys!FlagAssumption
ASSUME Gpu!SyncAssumption
ASSUME GpuWithout!SyncAssumption
ASSUME GpuDestroys!SyncAssumption
ASSUME Composed!SurfacesAssumption
ASSUME Damage!SurfacesAssumption
ASSUME Composed!BoundsAssumption
ASSUME Damage!BoundsAssumption
ASSUME Composed!ChoicesAssumption
ASSUME Damage!ChoicesAssumption
ASSUME Arranged!CardAssumption
ASSUME Dragged!CardAssumption
ASSUME Tried!CardAssumption
ASSUME Arranged!SizesAssumption
ASSUME Dragged!SizesAssumption
ASSUME Tried!SizesAssumption
ASSUME Arranged!LimitsAssumption
ASSUME Dragged!LimitsAssumption
ASSUME Tried!LimitsAssumption
ASSUME Guessed!BoundAssumption
ASSUME Guessed!FirstAssumption
ASSUME Guessed!CountAssumption
ASSUME Idled!TimeAssumption
ASSUME Idled!AfterAssumption
ASSUME Fields!BoundsAssumption
ASSUME HeldKeys!BoundsAssumption
ASSUME EngineStops!BoundsAssumption
ASSUME Emoji!BoundsAssumption
ASSUME Fields!NoneAssumption
ASSUME HeldKeys!NoneAssumption
ASSUME EngineStops!NoneAssumption
ASSUME Emoji!NoneAssumption
ASSUME Cycled!SourcesAssumption
ASSUME Listed!SourcesAssumption
ASSUME Cycled!BoundsAssumption
ASSUME Listed!BoundsAssumption
ASSUME Drawn!BoundsAssumption
ASSUME Offers!ShellAssumption
ASSUME Pastes!ShellAssumption
ASSUME Offers!LimitsAssumption
ASSUME Pastes!LimitsAssumption
ASSUME Offers!BoundsAssumption
ASSUME Pastes!BoundsAssumption
ASSUME Told!TextsAssumption
ASSUME TextChanges!TextsAssumption
ASSUME Told!BoundsAssumption
ASSUME TextChanges!BoundsAssumption
ASSUME Told!EmptiesAssumption
ASSUME TextChanges!EmptiesAssumption
ASSUME Frames!HistoryAssumption
ASSUME SizesChange!HistoryAssumption
ASSUME Mixed!HistoryAssumption
ASSUME Frames!BoundsAssumption
ASSUME SizesChange!BoundsAssumption
ASSUME Mixed!BoundsAssumption
ASSUME Frames!RegionsAssumption
ASSUME SizesChange!RegionsAssumption
ASSUME Mixed!RegionsAssumption

gpuVars == <<gpuClient, surfaces, frames, stage, acquired, signalled, buffers, destroyed,
             releases, after, fenced, orphans, gpu, kept, direct, planes>>
scanoutVars == <<scanoutSurfaces, order, screen, targets, display, lit, flip, away,
                 changes, losses>>
displaysVars == <<shown, dark, displaysLit, trial, displaysKept, arranged, confirmed,
                  displayChanges, plugs>>
checkerVars == <<checking, answer, rejections, left, streak, since>>
idleVars == <<phase, now, idleAfter, idleSince, held, idle, seen, moved, locked, armed,
              touched>>
imVars == <<server, front, engineHost, events, commands, outcomes, used>>
sourcesVars == <<sourcesKept, manager, super, queue, sourcesOrder, sourcesMoved, sourcesUsed>>
candidatesVars == <<candidates, view, candidatesAsked, engine, killed, candidatesUsed>>
clipboardVars == <<selection, emitted, peers, up, down, lib, pipes, spent>>
textVars == <<inputs, building, textUp, input, textDown, made, textSpent>>
clientVars == <<library, drawn, memory, reads, clientEvents, sent, clientSpent>>
vars == <<part, gpuVars, scanoutVars, displaysVars, checkerVars, idleVars, imVars,
          sourcesVars, candidatesVars, clipboardVars, textVars, clientVars>>

(* The component that runs starts as it does; the others rest where they   *)
(* start.                                                                  *)
Init ==
    /\ part \in RunParts
    /\ IF part = "gpu" THEN Gpu!Init ELSE IF part = "gpu without files" THEN
       GpuWithout!Init ELSE GpuDestroys!Init
    /\ IF part = "composed" THEN Composed!Init ELSE Damage!Init
    /\ part \notin {"composed", "damage"} => order = <<"s1", "s2">>
    /\ IF part = "displays" THEN Arranged!Init ELSE IF part = "dragged" THEN
       Dragged!Init ELSE Tried!Init
    /\ Guessed!Init
    /\ Idled!Init
    /\ part # "idle" => idleAfter = None
    /\ IF part = "fields" THEN Fields!Init ELSE IF part = "held keys" THEN HeldKeys!Init
       ELSE IF part = "engine stops" THEN EngineStops!Init ELSE Emoji!Init
    /\ IF part = "sources" THEN Cycled!Init ELSE Listed!Init
    /\ part \notin {"sources", "source lists"} => sourcesKept = [sources |-> <<>>, source |-> "layout"]
    /\ Drawn!Init
    /\ IF part = "offers" THEN Offers!Init ELSE Pastes!Init
    /\ IF part = "texts" THEN Told!Init ELSE TextChanges!Init
    /\ IF part = "frames" THEN Frames!Init ELSE IF part = "sizes" THEN SizesChange!Init
       ELSE Mixed!Init

GpuGoes ==
    /\ \/ part = "gpu" /\ Gpu!Next
       \/ part = "gpu without files" /\ GpuWithout!Next
       \/ part = "gpu destroys" /\ GpuDestroys!Next
    /\ UNCHANGED <<part, scanoutVars, displaysVars, checkerVars, idleVars, imVars,
                   sourcesVars, candidatesVars, clipboardVars, textVars, clientVars>>
ScanoutGoes ==
    /\ \/ part = "composed" /\ Composed!Next
       \/ part = "damage" /\ Damage!Next
    /\ UNCHANGED <<part, gpuVars, displaysVars, checkerVars, idleVars, imVars,
                   sourcesVars, candidatesVars, clipboardVars, textVars, clientVars>>
DisplaysGoes ==
    /\ \/ part = "displays" /\ Arranged!Next
       \/ part = "dragged" /\ Dragged!Next
       \/ part = "trials" /\ Tried!Next
    /\ UNCHANGED <<part, gpuVars, scanoutVars, checkerVars, idleVars, imVars, sourcesVars,
                   candidatesVars, clipboardVars, textVars, clientVars>>
CheckerGoes ==
    /\ part = "guesses" /\ Guessed!Next
    /\ UNCHANGED <<part, gpuVars, scanoutVars, displaysVars, idleVars, imVars,
                   sourcesVars, candidatesVars, clipboardVars, textVars, clientVars>>
IdleGoes ==
    /\ part = "idle" /\ Idled!Next
    /\ UNCHANGED <<part, gpuVars, scanoutVars, displaysVars, checkerVars, imVars,
                   sourcesVars, candidatesVars, clipboardVars, textVars, clientVars>>
ImGoes ==
    /\ \/ part = "fields" /\ Fields!Next
       \/ part = "held keys" /\ HeldKeys!Next
       \/ part = "engine stops" /\ EngineStops!Next
       \/ part = "emoji" /\ Emoji!Next
    /\ UNCHANGED <<part, gpuVars, scanoutVars, displaysVars, checkerVars, idleVars,
                   sourcesVars, candidatesVars, clipboardVars, textVars, clientVars>>
SourcesGoes ==
    /\ \/ part = "sources" /\ Cycled!Next
       \/ part = "source lists" /\ Listed!Next
    /\ UNCHANGED <<part, gpuVars, scanoutVars, displaysVars, checkerVars, idleVars,
                   imVars, candidatesVars, clipboardVars, textVars, clientVars>>
CandidatesGoes ==
    /\ part = "candidates" /\ Drawn!Next
    /\ UNCHANGED <<part, gpuVars, scanoutVars, displaysVars, checkerVars, idleVars,
                   imVars, sourcesVars, clipboardVars, textVars, clientVars>>
ClipboardGoes ==
    /\ \/ part = "offers" /\ Offers!Next
       \/ part = "pastes" /\ Pastes!Next
    /\ UNCHANGED <<part, gpuVars, scanoutVars, displaysVars, checkerVars, idleVars,
                   imVars, sourcesVars, candidatesVars, textVars, clientVars>>
TextGoes ==
    /\ \/ part = "texts" /\ Told!Next
       \/ part = "text changes" /\ TextChanges!Next
    /\ UNCHANGED <<part, gpuVars, scanoutVars, displaysVars, checkerVars, idleVars,
                   imVars, sourcesVars, candidatesVars, clipboardVars, clientVars>>
ClientGoes ==
    /\ \/ part = "frames" /\ Frames!Next
       \/ part = "sizes" /\ SizesChange!Next
       \/ part = "mixed" /\ Mixed!Next
    /\ UNCHANGED <<part, gpuVars, scanoutVars, displaysVars, checkerVars, idleVars,
                   imVars, sourcesVars, candidatesVars, clipboardVars, textVars>>

Next == \/ GpuGoes \/ ScanoutGoes \/ DisplaysGoes \/ CheckerGoes \/ IdleGoes
        \/ ImGoes \/ SourcesGoes \/ CandidatesGoes \/ ClipboardGoes \/ TextGoes
        \/ ClientGoes

Spec == Init /\ [][Next]_vars



-----------------------------------------------------------------------------
(* Properties.                                                             *)

(* A buffer is drawn only while the client has not been told it may write  *)
(* it and after its acquire point, its release is told only once nothing   *)
(* holds it, a plane scans out only a buffer held (gpu_buffers.rs,         *)
(* scanout.rs), and what a display shows is what was composed for it, its  *)
(* planes and its damage taken together (damage.rs).                       *)
BuffersSynchronized ==
    /\ part = "gpu" => /\ Gpu!TypeOK /\ Gpu!DrawnUnread /\ Gpu!ReleasedUnheld
                       /\ Gpu!AcquireFirst /\ Gpu!ScannedHeld
    /\ part = "gpu without files" => /\ GpuWithout!DrawnUnread /\ GpuWithout!ReleasedUnheld
                                     /\ GpuWithout!AcquireFirst
    /\ part = "gpu destroys" => GpuDestroys!AcquireFirst /\ GpuDestroys!DrawnImported
    /\ part = "composed" => Composed!TypeOK /\ Composed!ShownIsComposed

(* Displays never overlap, each touches another, an output is the size of  *)
(* its mode, and an arrangement comes back with its displays; a mode is    *)
(* kept only once the person confirmed it, and one on trial does not       *)
(* outlive its trial (displays.rs, arrangement.rs).                        *)
DisplaysArranged ==
    /\ part = "displays" => /\ Arranged!TypeOK /\ Arranged!NoOverlap /\ Arranged!Reachable
                            /\ Arranged!SizeOfMode /\ Arranged!ArrangementRestored
    /\ part = "dragged" => Dragged!NoOverlap
    /\ part = "trials" => Tried!KeptWasConfirmed /\ Tried!ChosenIsKept /\ Tried!NotLeftOnTrial

(* The session unlocks only for a password accepted since it locked, one   *)
(* check at a time; nothing typed is kept; it locks when the time left     *)
(* alone is over, and logind is told what is (session_lock.rs, idle.rs).   *)
LockKeeps ==
    /\ part = "guesses" => Guessed!TypeOK
    /\ part = "idle" => Idled!TypeOK /\ Idled!LocksInTime /\ Idled!HintFollows

(* No composition writes what a display shows, nor a client's drawing what *)
(* the compositor reads; a guess is checked only when the wait promised is *)
(* over; the session never locks early; and a trial's display goes back to *)
(* what it was.                                                            *)
ScreensHold ==
    [][/\ part = "damage" => Damage!NotTorn
       /\ part = "frames" => Frames!ReadKept
       /\ part = "guesses" => Guessed!GuessesSpaced
       /\ part = "idle" => Idled!NeverEarly
       /\ part = "trials" => Tried!BackAsBefore]_vars

(* The field with the keyboard is the one an engine serves; the field, the *)
(* compositor and the engine come to agree; keys held for it keep their    *)
(* order and none stays down; the search of emoji is its own; the source   *)
(* used before is the one gone back to; a list is drawn by one shell.      *)
FieldsServed ==
    /\ part = "fields" => /\ Fields!TypeOK /\ Fields!ServesTheFocus /\ Fields!AllAgree
                          /\ Fields!EngineFollows
    /\ part = "held keys" => HeldKeys!NoKeyStaysDown /\ HeldKeys!KeysInOrder
    /\ part = "engine stops" => EngineStops!NoKeyStaysDown /\ EngineStops!AllAgree
    /\ part = "emoji" => Emoji!SearchIsOpen /\ Emoji!EngineFollows
    /\ part = "sources" => Cycled!TypeOK /\ Cycled!GoesBack /\ Cycled!OrderOfUse
    /\ part = "source lists" => Listed!TypeOK
    /\ part = "candidates" => Drawn!TypeOK /\ Drawn!DrawnOnce /\ Drawn!DrawnIfAny

(* The client's library and the compositor agree: the focused client knows *)
(* what the clipboard offers, and a paste is given what was offered; a     *)
(* field holds what it was told, and its changes are whole and its own; a  *)
(* frame shown is whole, though only its damage was drawn into a buffer    *)
(* drawn frames before, and a buffer nobody reads is free.                 *)
ClientsAgree ==
    /\ part = "offers" => Offers!TypeOK /\ Offers!FocusedKnows
    /\ part = "pastes" => Pastes!OwnContent
    /\ part = "texts" => Told!TypeOK /\ Told!HoldsTold
    /\ part = "text changes" => TextChanges!Whole /\ TextChanges!ForThisField
    /\ part = "frames" => Frames!TypeOK /\ Frames!Whole
    /\ part = "sizes" => SizesChange!Whole /\ SizesChange!IdleIsFree
    /\ part = "mixed" => Mixed!Whole
=============================================================================
