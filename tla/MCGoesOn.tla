----------------------------- MODULE MCGoesOn -----------------------------
(***************************************************************************)
(* The components that promise an end, beside each other, each with the    *)
(* fairness its own module states.  A behaviour runs one of them, named by *)
(* part, and leaves the others where                                       *)
(* they start; a component with several instances is run with each one's   *)
(* constants.                                                              *)
(***************************************************************************)
EXTENDS Integers, Sequences

CONSTANTS RunParts, \* the components the run is of
          None

VARIABLES
    part, \* the component that runs
    \* GpuSync
    gpuClient, surfaces, frames, stage, acquired, signalled, buffers,
    destroyed, releases, after, fenced, orphans, gpu, kept, direct,
    planes,
    \* ScanoutDamage
    scanoutSurfaces, order, screen, targets, display, lit, flip, away,
    changes, losses,
    \* Displays
    shown, dark, displaysLit, trial, displaysKept, arranged,
    confirmed, displayChanges, plugs,
    \* Candidates
    candidates, view, candidatesAsked, engine, killed, used,
    \* Clipboard
    selection, emitted, peers, up, down, lib, pipes, spent,
    \* SessionLock
    phase, locked, locks, lockSurfaces, receiving, accounts,
    submitted, checking, asked, thread, owed, unlocked, screens,
    lockAway, queue, events, machine, held, sleeping, drawn,
    \* AccountPlatform
    oxyPassword, issued, live, file, user, verifier, calls,
    onlineCalls, accountMachine, cached, made, faults, refused, stray,
    \* Registrations
    pid, born, launches, running, connected, retry, todo,
    registrarThread, registrarUp, stops, serving, registrations,
    places, registrarPeers,
    \* Installer
    record, entry, trees, pinned, installerHeld, installerLocked,
    call, released, installerCandidates, installerConfirmed, crashes,
    \* InstallChecks
    checksRunning, generation, failed, records, checksThread, joined,
    watchers, telling, told, watching,
    \* TufClient
    storeReleases, roots, expired, storeKept, client, at,
    storeCrashes,
    \* Network
    heard, answers, wakes, run, queuing, given, aborted,
    \* RemoteImages
    load, imagesCall, flights, imagesThread, memory, imagesAnswers,
    imagesGiven, clears

(* Displays: a panel and two monitors, whose other mode is half as wide.   *)
PixelsOf(these) == [d \in these |->
               CASE d = "panel" -> <<<<4, 4>>, <<2, 4>>>>
                 [] d = "left"  -> <<<<4, 8>>, <<4, 4>>>>
                 [] OTHER       -> <<<<6, 2>>, <<2, 2>>>>]

-----------------------------------------------------------------------------
(* The instances' constants.                                              *)
GpuGoesOnSurfaces == {"s1"}
GpuGoesOnBuffers == {"b1", "b2"}
GpuGoesOnSyncs == {{"acquire", "release"}}
DisplayShownSurfaces == {"s1", "s2"}
DisplayShownWide == {"s2"}
TriedCard == <<"panel", "left">>
TriedInternal == {"panel"}
TriedModes == {1, 2}
TriedPixels == PixelsOf({"panel", "left"})
TriedWanted == {<<1, 9>>}
ChosenOutputs == {"left", "right"}
PasteEndingClients == {"a", "b"}
PasteEndingTypes == {"text"}
LockingDisplays == {"d1"}
LockingSeatEvents == {"sleep"}
CallsThreads == {"t1", "t2"}
CallsKinds == {"check", "remove", "setup"}
CallsPasswords == {"p1"}
RegistersLaunched == {"a1", "a2"}
RegistersStrangers == {}
RegistersPids == {"n1", "n2"}
StagedAccounts == {"a1"}
StagedThreads == {"t1"}
StagedDeclaring == {2}
StagedRequests == {"update", "exited", "consent"}
ChecksEndWatchers == {"w1"}
CatchesUpRotated == {"timestamp", "snapshot"}
RequestsEndIds == {"i1"}
ImagesEndImages == {"x"}
ImagesEndLoads == {"l1", "l2"}

GpuGoesOn == INSTANCE GpuSync WITH
    Surfaces <- GpuGoesOnSurfaces, Buffers <- GpuGoesOnBuffers, MaxFrames <- 2,
    SyncFiles <- TRUE, Syncs <- GpuGoesOnSyncs, Destroys <- FALSE, Transitions <- FALSE,
    OverDirect <- FALSE, client <- gpuClient
DisplayShown == INSTANCE ScanoutDamage WITH
    Surfaces <- DisplayShownSurfaces, Wide <- DisplayShownWide,
    Plain <- GpuGoesOnSurfaces, MaxFrames <- 1, MaxChanges <- 1, MaxLosses <- 1,
    Refuses <- FALSE, SameSize <- FALSE, surfaces <- scanoutSurfaces
Tried == INSTANCE Displays WITH
    MIN_SHARED <- 2, ALIGN <- 1, Card <- TriedCard, Internal <- TriedInternal,
    Modes <- TriedModes, Pixels <- TriedPixels, Scales <- TriedModes,
    Wanted <- TriedWanted, MaxChanges <- 3, MaxPlugs <- 2, CardHolds <- TRUE,
    lit <- displaysLit, kept <- displaysKept, changes <- displayChanges
Chosen == INSTANCE Candidates WITH
    Outputs <- ChosenOutputs, MaxCount <- 2, Prompts <- FALSE, Chooses <- TRUE,
    MaxLists <- 2, MaxMoves <- 0, MaxGone <- 1, MaxFields <- 1, MaxChoices <- 1,
    sc <- candidates, asked <- candidatesAsked
PasteEnding == INSTANCE Clipboard WITH
    Clients <- PasteEndingClients, Shell <- "b", Types <- PasteEndingTypes,
    OFFERS_KEPT <- 2, RECENT_INPUTS <- 2, MaxInputs <- 1, MaxCopies <- 1, MaxPastes <- 1,
    MaxFocus <- 2, scene <- selection
Locking == INSTANCE SessionLock WITH
    LockSurfaces <- GpuGoesOnSurfaces, Displays <- LockingDisplays, Parts <- 1,
    Chunks <- 1, SeatEvents <- LockingSeatEvents, MaxLocks <- 0, MaxFrames <- 0,
    MaxEvents <- 1, surfaces <- lockSurfaces, away <- lockAway
Calls == INSTANCE AccountPlatform WITH
    Threads <- CallsThreads, Kinds <- CallsKinds, Passwords <- CallsPasswords,
    MaxIssued <- 2, MaxCalls <- 3, MaxFaults <- 1, machine <- accountMachine
Registers == INSTANCE Registrations WITH
    Launched <- RegistersLaunched, Strangers <- RegistersStrangers,
    Pids <- RegistersPids, Peers <- RegistersStrangers, MaxPlaces <- 1, Retries <- 3,
    MaxStops <- 2, thread <- registrarThread, up <- registrarUp, peers <- registrarPeers
Staged == INSTANCE Installer WITH
    Accounts <- StagedAccounts, Sessions <- DisplayShownSurfaces,
    Threads <- StagedThreads, MaxCode <- 2, NewKeyFrom <- 3, Declaring <- StagedDeclaring,
    UnshownExits <- 2, MaxExits <- 2, MaxCrashes <- 0, Requests <- StagedRequests,
    Overlap <- FALSE, held <- installerHeld, locked <- installerLocked,
    candidates <- installerCandidates, confirmed <- installerConfirmed
ChecksEnd == INSTANCE InstallChecks WITH
    Threads <- CallsThreads, Watchers <- ChecksEndWatchers, MaxChecks <- 2,
    MaxChanges <- 1, LateWatch <- TRUE, running <- checksRunning, thread <- checksThread
CatchesUp == INSTANCE TufClient WITH
    MaxReleases <- 3, MaxRoots <- 2, Rotated <- CatchesUpRotated, Anchor <- 1,
    MaxCrashes <- 1, Faults <- RegistersStrangers, releases <- storeReleases,
    kept <- storeKept, crashes <- storeCrashes
RequestsEnd == INSTANCE Network WITH
    Ids <- RequestsEndIds, MaxRedirects <- 1, MaxRetries <- 1, MaxParts <- 1
ImagesEnd == INSTANCE RemoteImages WITH
    Images <- ImagesEndImages, Loads <- ImagesEndLoads, MaxFlights <- 3,
    MaxParts <- 1, MaxClears <- 0, Again <- FALSE, CancelsLate <- FALSE,
    call <- imagesCall, thread <- imagesThread, answers <- imagesAnswers,
    given <- imagesGiven

ASSUME GpuGoesOn!BoundAssumption
ASSUME GpuGoesOn!FlagAssumption
ASSUME GpuGoesOn!SyncAssumption
ASSUME DisplayShown!SurfacesAssumption
ASSUME DisplayShown!BoundsAssumption
ASSUME DisplayShown!ChoicesAssumption
ASSUME Tried!CardAssumption
ASSUME Tried!SizesAssumption
ASSUME Tried!LimitsAssumption
ASSUME Chosen!BoundsAssumption
ASSUME PasteEnding!ShellAssumption
ASSUME PasteEnding!LimitsAssumption
ASSUME PasteEnding!BoundsAssumption
ASSUME Calls!AccountBounds
ASSUME Registers!RegistrationBounds
ASSUME Staged!InstallBounds
ASSUME ChecksEnd!CheckBounds
ASSUME ChecksEnd!NoReading
ASSUME CatchesUp!TufBounds
ASSUME CatchesUp!NoneAssumption
ASSUME RequestsEnd!NetworkBounds
ASSUME ImagesEnd!ImageBounds

gpuVars == <<gpuClient, surfaces, frames, stage, acquired, signalled, buffers, destroyed,
             releases, after, fenced, orphans, gpu, kept, direct, planes>>
scanoutVars == <<scanoutSurfaces, order, screen, targets, display, lit, flip, away,
                 changes, losses>>
displaysVars == <<shown, dark, displaysLit, trial, displaysKept, arranged, confirmed,
                  displayChanges, plugs>>
candidatesVars == <<candidates, view, candidatesAsked, engine, killed, used>>
clipboardVars == <<selection, emitted, peers, up, down, lib, pipes, spent>>
lockVars == <<phase, locked, locks, lockSurfaces, receiving, accounts, submitted,
              checking, asked, thread, owed, unlocked, screens, lockAway, queue, events,
              machine, held, sleeping, drawn>>
accountVars == <<oxyPassword, issued, live, file, user, verifier, calls, onlineCalls,
                 accountMachine, cached, made, faults, refused, stray>>
registrarVars == <<pid, born, launches, running, connected, retry, todo, registrarThread,
                   registrarUp, stops, serving, registrations, places, registrarPeers>>
installerVars == <<record, entry, trees, pinned, installerHeld, installerLocked, call,
                   released, installerCandidates, installerConfirmed, crashes>>
checksVars == <<checksRunning, generation, failed, records, checksThread, joined,
                watchers, telling, told, watching>>
storeVars == <<storeReleases, roots, expired, storeKept, client, at, storeCrashes>>
networkVars == <<heard, answers, wakes, run, queuing, given, aborted>>
imagesVars == <<load, imagesCall, flights, imagesThread, memory, imagesAnswers, imagesGiven, clears>>
vars == <<part, gpuVars, scanoutVars, displaysVars, candidatesVars, clipboardVars,
          lockVars, accountVars, registrarVars, installerVars, checksVars, storeVars,
          networkVars, imagesVars>>

(* The component that runs starts as it does; the others rest where they   *)
(* start.                                                                  *)
Init ==
    /\ part \in RunParts
    /\ GpuGoesOn!Init
    /\ DisplayShown!Init
    /\ part # "display shows" => order = <<"s1", "s2">>
    /\ Tried!Init
    /\ Chosen!Init
    /\ PasteEnding!Init
    /\ Locking!Init
    /\ Calls!Init
    /\ part # "calls" => oxyPassword = "p1" /\ issued = 0
    /\ Registers!Init
    /\ part # "registers" => registrarUp = None
    /\ Staged!Init
    /\ ChecksEnd!Init
    /\ CatchesUp!Init
    /\ RequestsEnd!Init
    /\ ImagesEnd!Init

GpuGoes ==
    /\ part = "gpu goes on" /\ GpuGoesOn!Next
    /\ UNCHANGED <<part, scanoutVars, displaysVars, candidatesVars, clipboardVars,
                   lockVars, accountVars, registrarVars, installerVars, checksVars,
                   storeVars, networkVars, imagesVars>>
ScanoutGoes ==
    /\ part = "display shows" /\ DisplayShown!Next
    /\ UNCHANGED <<part, gpuVars, displaysVars, candidatesVars, clipboardVars, lockVars,
                   accountVars, registrarVars, installerVars, checksVars, storeVars,
                   networkVars, imagesVars>>
DisplaysGoes ==
    /\ part = "trials" /\ Tried!Next
    /\ UNCHANGED <<part, gpuVars, scanoutVars, candidatesVars, clipboardVars, lockVars,
                   accountVars, registrarVars, installerVars, checksVars, storeVars,
                   networkVars, imagesVars>>
CandidatesGoes ==
    /\ part = "chosen" /\ Chosen!Next
    /\ UNCHANGED <<part, gpuVars, scanoutVars, displaysVars, clipboardVars, lockVars,
                   accountVars, registrarVars, installerVars, checksVars, storeVars,
                   networkVars, imagesVars>>
ClipboardGoes ==
    /\ part = "paste ends" /\ PasteEnding!Next
    /\ UNCHANGED <<part, gpuVars, scanoutVars, displaysVars, candidatesVars, lockVars,
                   accountVars, registrarVars, installerVars, checksVars, storeVars,
                   networkVars, imagesVars>>
LockGoes ==
    /\ part = "lock" /\ Locking!Next
    /\ UNCHANGED <<part, gpuVars, scanoutVars, displaysVars, candidatesVars,
                   clipboardVars, accountVars, registrarVars, installerVars,
                   checksVars, storeVars, networkVars, imagesVars>>
AccountGoes ==
    /\ part = "calls" /\ Calls!Next
    /\ UNCHANGED <<part, gpuVars, scanoutVars, displaysVars, candidatesVars,
                   clipboardVars, lockVars, registrarVars, installerVars, checksVars,
                   storeVars, networkVars, imagesVars>>
RegistrarGoes ==
    /\ part = "registers" /\ Registers!Next
    /\ UNCHANGED <<part, gpuVars, scanoutVars, displaysVars, candidatesVars,
                   clipboardVars, lockVars, accountVars, installerVars, checksVars,
                   storeVars, networkVars, imagesVars>>
InstallerGoes ==
    /\ part = "staged" /\ Staged!Next
    /\ UNCHANGED <<part, gpuVars, scanoutVars, displaysVars, candidatesVars,
                   clipboardVars, lockVars, accountVars, registrarVars, checksVars,
                   storeVars, networkVars, imagesVars>>
ChecksGoes ==
    /\ part = "checks end" /\ ChecksEnd!Next
    /\ UNCHANGED <<part, gpuVars, scanoutVars, displaysVars, candidatesVars,
                   clipboardVars, lockVars, accountVars, registrarVars, installerVars,
                   storeVars, networkVars, imagesVars>>
StoreGoes ==
    /\ part = "catches up" /\ CatchesUp!Next
    /\ UNCHANGED <<part, gpuVars, scanoutVars, displaysVars, candidatesVars,
                   clipboardVars, lockVars, accountVars, registrarVars, installerVars,
                   checksVars, networkVars, imagesVars>>
NetworkGoes ==
    /\ part = "requests end" /\ RequestsEnd!Next
    /\ UNCHANGED <<part, gpuVars, scanoutVars, displaysVars, candidatesVars,
                   clipboardVars, lockVars, accountVars, registrarVars, installerVars,
                   checksVars, storeVars, imagesVars>>
ImagesGoes ==
    /\ part = "images end" /\ ImagesEnd!Next
    /\ UNCHANGED <<part, gpuVars, scanoutVars, displaysVars, candidatesVars,
                   clipboardVars, lockVars, accountVars, registrarVars, installerVars,
                   checksVars, storeVars, networkVars>>

Next == \/ GpuGoes \/ ScanoutGoes \/ DisplaysGoes \/ CandidatesGoes
        \/ ClipboardGoes \/ LockGoes \/ AccountGoes \/ RegistrarGoes
        \/ InstallerGoes \/ ChecksGoes \/ StoreGoes \/ NetworkGoes \/ ImagesGoes

Spec == Init /\ [][Next]_vars

(* What each component's own fairness says, of the component that runs.    *)
GpuFairness ==
    /\ WF_gpuVars(part = "gpu goes on" /\ GpuGoesOn!FollowWaiting)
    /\ WF_gpuVars(part = "gpu goes on" /\ GpuGoesOn!FollowReleases)
    /\ WF_gpuVars(part = "gpu goes on" /\ GpuGoesOn!Flush)
    /\ WF_gpuVars(part = "gpu goes on" /\ GpuGoesOn!FollowDirect)
    /\ WF_gpuVars(part = "gpu goes on" /\ GpuGoesOn!GpuDone)
    /\ WF_gpuVars(part = "gpu goes on" /\ GpuGoesOn!EndTransitions)
    /\ WF_gpuVars(part = "gpu goes on"
                    /\ \E mode \in GpuGoesOn!Modes, b \in {"b1", "b2", None} : GpuGoesOn!Present(mode, b))
(* A flip is told in the end, however often it cannot be meanwhile.        *)
FlipsFairness ==
    SF_gpuVars(part = "gpu goes on" /\ (GpuGoesOn!CompleteFlip("shown") \/ GpuGoesOn!CompleteFlip("lost")))
CompositorFairness ==
    /\ GpuFairness /\ FlipsFairness
    /\ WF_scanoutVars(part = "display shows" /\ DisplayShown!Compose)
    /\ WF_scanoutVars(part = "display shows" /\ (DisplayShown!FlipShown \/ DisplayShown!FlipFails))
    /\ WF_displaysVars(part = "trials" /\ Tried!GoBack)
    /\ \A o \in {"left", "right"} : WF_candidatesVars(part = "chosen" /\ Chosen!ShellHears(o))
    /\ \A c \in {"a", "b"} :
         /\ WF_clipboardVars(part = "paste ends" /\ PasteEnding!Turn(c))
         /\ WF_clipboardVars(part = "paste ends" /\ PasteEnding!Poll(c))
    /\ WF_clipboardVars(part = "paste ends" /\ PasteEnding!Flush)
    /\ \A p \in PasteEnding!Pastes : WF_clipboardVars(part = "paste ends" /\ PasteEnding!Written(p))
LockFairness ==
    /\ WF_lockVars(part = "lock" /\ machine # "asleep" /\ Locking!Turn)
    /\ WF_lockVars(part = "lock" /\ machine # "asleep" /\ Locking!ThreadAnswers)
    /\ SF_lockVars(part = "lock" /\ machine # "asleep" /\ Locking!CompleteFlip("d1"))
    /\ WF_lockVars(part = "lock" /\ Locking!MachineSleeps)
    /\ WF_lockVars(part = "lock" /\ Locking!MachineWakes)
ServicesFairness ==
    /\ \A t \in {"t1", "t2"} : WF_accountVars(part = "calls" /\ Calls!Steps(t))
    /\ WF_registrarVars(part = "registers" /\ Registers!Thread)
    /\ WF_registrarVars(part = "registers" /\ Registers!Starts)
    /\ WF_installerVars(part = "staged" /\ Staged!Writing)
    /\ \A t \in {"t1", "t2"} :
         /\ WF_checksVars(part = "checks end" /\ ChecksEnd!Join(t))
         /\ WF_checksVars(part = "checks end" /\ ChecksEnd!RunCheck(t))
         /\ WF_checksVars(part = "checks end" /\ ChecksEnd!Notify(t))
         /\ SF_checksVars(part = "checks end" /\ ChecksEnd!NotifyReads(t))
    /\ WF_storeVars(part = "catches up" /\ CatchesUp!Refreshing)
    /\ WF_networkVars(part = "requests end" /\ RequestsEnd!Take)
    /\ WF_networkVars(part = "requests end" /\ RequestsEnd!Wake)
    /\ WF_networkVars(part = "requests end" /\ RequestsEnd!Thread_("i1"))
    /\ SF_networkVars(part = "requests end" /\ RequestsEnd!Queue("i1"))
    /\ WF_imagesVars(part = "images end" /\ (ImagesEnd!Join \/ ImagesEnd!Drop))
    /\ SF_imagesVars(part = "images end" /\ ImagesEnd!Take)
    /\ \A n \in 1..5 : 
         WF_imagesVars(part = "images end" /\ n \in DOMAIN imagesThread
                         /\ (ImagesEnd!Arrive(n) \/ ImagesEnd!Keep(n) \/ ImagesEnd!Answers(n)))

LiveSpec == Spec /\ CompositorFairness /\ LockFairness /\ ServicesFairness

-----------------------------------------------------------------------------
(* Properties.                                                             *)

(* What is begun ends: a frame submitted is told, a point is signalled, a  *)
(* display there shows the session, a mode's trial ends, a password is     *)
(* answered and sleep is let go, keys held are given, a list is hidden     *)
(* with its field, and a paste ends.                                       *)
CompositorGoesOn ==
    /\ part = "gpu goes on" => GpuGoesOn!EveryFrameTold /\ GpuGoesOn!EveryPointSignalled
    /\ part = "display shows" => DisplayShown!DisplayShows
    /\ part = "trials" => Tried!TrialEnds
    /\ part = "chosen" => Chosen!Hidden
    /\ part = "paste ends" => PasteEnding!PasteEnds
    /\ part = "lock" => Locking!EveryPasswordAnswered /\ Locking!SleepLetGo

(* What is asked of the services ends: every call, every check and every   *)
(* load is answered, a process launched is registered, a version staged is *)
(* switched to, and the store's newest release is reached.                 *)
ServicesAnswer ==
    /\ part = "calls" => Calls!CallsEnd
    /\ part = "registers" => Registers!RegisteredInTheEnd
    /\ part = "staged" => Staged!StagedSwitches
    /\ part = "checks end" => ChecksEnd!ChecksAnswered
    /\ part = "catches up" => CatchesUp!Catches
    /\ part = "requests end" => RequestsEnd!Ends
    /\ part = "images end" => ImagesEnd!Ends
=============================================================================
