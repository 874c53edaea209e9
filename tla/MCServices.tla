---------------------------- MODULE MCServices ----------------------------
(***************************************************************************)
(* The services beside each other: the account service, the installer, and *)
(* the network libraries' requests, cache and images.  A behaviour runs    *)
(* one of them, named by part, and leaves the others where they start; a   *)
(* component with several instances is run with each one's constants.      *)
(***************************************************************************)
EXTENDS Naturals, Sequences

CONSTANTS RunParts, \* the components the run is of
          None,
          \* the account service's threads, passwords and bounds
          RemovalsThreads, RemovalsIssued, RemovalsCalls, RemovalsFaults,
          SetUpsThreads, SetUpsIssued, SetUpsCalls, SetUpsFaults,
          AccountPasswords,
          \* its sessions: subscribers, processes and their connections
          SnapshotsSubscribers, SnapshotsAgainSubscribers, SnapshotsChanges,
          RegisteredLaunched, RegisteredStrangers, RegisteredPids, RegisteredPeers,
          RegisteredPlaces, RegisteredRetries, RegisteredStops,
          \* the installer's accounts, sessions, connections and releases
          RequestedAccounts, CrashingAccounts, InstallerSessions,
          RequestedThreads, PlannedThreads, MaxCode, NewKeyFrom, Declaring,
          UnshownExits, RequestedExits, CrashingExits, CrashingCrashes,
          \* the requests through the cache: what the server gives, and bounds
          FetchCallers, FetchedVariants, FetchedLifetimes, FetchedAge, FetchedTime,
          VariedVariants, VariedLifetimes, VariedAge, VariedTime,
          FetchAsks, VariedLosses,
          \* the requests answered and the images loaded, and bounds
          AnsweredIds, AnsweredRedirects, AnsweredRetries, AnsweredParts,
          LoadedImages, LoadedLoads, LoadedFlights, LoadedParts, LoadedClears

VARIABLES
    part, \* the component that runs
    \* AccountPlatform
    oxyPassword, issued, live, file, user, verifier, calls,
    onlineCalls, machine, cached, made, faults, refused, stray,
    \* AccountSnapshots
    snapshotsFile, profile, online, counter, revision, identity,
    caller, woken, at, read, sent, changes,
    \* Registrations
    pid, born, launches, running, connected, retry, todo, thread, up,
    stops, serving, registrations, places, peers,
    \* Installer
    record, entry, trees, pinned, held, locked, call, released,
    candidates, confirmed, crashes,
    \* HttpCache
    meta, files, index, total, order, mutex, op, written, spent, left,
    \* CachedFetch
    offers, now, current, history, stored, request, last, fetchSpent,
    \* Network
    heard, answers, wakes, run, queuing, given, aborted,
    \* RemoteImages
    load, imagesCall, flights, imagesThread, memory, imagesAnswers,
    imagesGiven, clears


-----------------------------------------------------------------------------
(* What is asked of each instance, and the sets of those that have no      *)
(* constants of their own.                                                 *)
RemovalsKinds == {"check", "token", "remove"}
SetUpsKinds == {"check", "token", "setup"}
RequestedRequests == {"update", "uninstall", "consent", "exited", "decide"}
PlannedRequests == {"uninstall", "exited"}
EntriesKeys == {"k1", "k2"}
EntriesProcesses == {"p1"}
EntriesTwoProcesses == {"p1", "p2"}
EntriesSlots == {"s1"}
EntriesTwoSlots == {"s1", "s2"}
EntriesSizes == {1, 2}

(* The parts of a component with several instances, and what each gives    *)
(* its constants.                                                          *)
AccountParts == {"removals", "setups"}
SnapshotParts == {"snapshots", "snapshots again"}
InstallParts == {"requests", "crashes", "plans"}
CacheParts == {"entries", "cache threads", "cache processes"}
FetchParts == {"fetches", "variants"}

AccountThreads(p) == IF p = "removals" THEN RemovalsThreads ELSE SetUpsThreads
AccountKinds(p) == IF p = "removals" THEN RemovalsKinds ELSE SetUpsKinds
AccountIssued(p) == IF p = "removals" THEN RemovalsIssued ELSE SetUpsIssued
AccountCalls(p) == IF p = "removals" THEN RemovalsCalls ELSE SetUpsCalls
AccountFaults(p) == IF p = "removals" THEN RemovalsFaults ELSE SetUpsFaults
Account(p) == INSTANCE AccountPlatform WITH
    Threads <- AccountThreads(p), Kinds <- AccountKinds(p), Passwords <- AccountPasswords,
    MaxIssued <- AccountIssued(p), MaxCalls <- AccountCalls(p),
    MaxFaults <- AccountFaults(p)

Subscribing(p) == IF p = "snapshots" THEN SnapshotsSubscribers ELSE SnapshotsAgainSubscribers
Snapshots(p) == INSTANCE AccountSnapshots WITH
    Subscribers <- Subscribing(p), MaxChanges <- SnapshotsChanges,
    SetUpAgain <- (p = "snapshots again"), file <- snapshotsFile

Registered == INSTANCE Registrations WITH
    Launched <- RegisteredLaunched, Strangers <- RegisteredStrangers,
    Pids <- RegisteredPids, Peers <- RegisteredPeers, MaxPlaces <- RegisteredPlaces,
    Retries <- RegisteredRetries, MaxStops <- RegisteredStops

InstallAccounts(p) == IF p = "crashes" THEN CrashingAccounts ELSE RequestedAccounts
InstallThreads(p) == IF p = "plans" THEN PlannedThreads ELSE RequestedThreads
InstallExits(p) == IF p = "crashes" THEN CrashingExits ELSE RequestedExits
InstallCrashes(p) == IF p = "crashes" THEN CrashingCrashes ELSE 0
InstallRequests(p) == IF p = "plans" THEN PlannedRequests ELSE RequestedRequests
Install(p) == INSTANCE Installer WITH
    Accounts <- InstallAccounts(p), Sessions <- InstallerSessions,
    Threads <- InstallThreads(p), MaxExits <- InstallExits(p),
    MaxCrashes <- InstallCrashes(p), Requests <- InstallRequests(p), Overlap <- FALSE

FetchVariants(p) == IF p = "fetches" THEN FetchedVariants ELSE VariedVariants
FetchLifetimes(p) == IF p = "fetches" THEN FetchedLifetimes ELSE VariedLifetimes
FetchAge(p) == IF p = "fetches" THEN FetchedAge ELSE VariedAge
FetchTime(p) == IF p = "fetches" THEN FetchedTime ELSE VariedTime
FetchLosses(p) == IF p = "fetches" THEN 0 ELSE VariedLosses
Fetch(p) == INSTANCE CachedFetch WITH
    Callers <- FetchCallers, Variants <- FetchVariants(p), Lifetimes <- FetchLifetimes(p),
    MaxAge <- FetchAge(p), MaxTime <- FetchTime(p), MaxAsks <- FetchAsks,
    MaxLosses <- FetchLosses(p), spent <- fetchSpent

CacheProcesses(p) == IF p = "cache processes" THEN EntriesTwoProcesses ELSE EntriesProcesses
CacheSlots(p) == IF p = "cache threads" THEN EntriesTwoSlots ELSE EntriesSlots
CacheBodies(p) == IF p = "entries" THEN 4 ELSE 3
CacheReads(p) == IF p = "entries" THEN 2 ELSE 1
CacheCrashes(p) == IF p = "entries" THEN 1 ELSE 0
Cache(p) == INSTANCE HttpCache WITH
    Keys <- EntriesKeys, Processes <- CacheProcesses(p), Slots <- CacheSlots(p),
    Limit <- 2, Share <- 1, Sizes <- EntriesSizes, MaxBodies <- CacheBodies(p),
    MaxReads <- CacheReads(p), MaxCrashes <- CacheCrashes(p)

Answered == INSTANCE Network WITH
    Ids <- AnsweredIds, MaxRedirects <- AnsweredRedirects,
    MaxRetries <- AnsweredRetries, MaxParts <- AnsweredParts
Loaded == INSTANCE RemoteImages WITH
    Images <- LoadedImages, Loads <- LoadedLoads, MaxFlights <- LoadedFlights,
    MaxParts <- LoadedParts, MaxClears <- LoadedClears, Again <- FALSE, CancelsLate <- FALSE,
    call <- imagesCall, thread <- imagesThread, answers <- imagesAnswers,
    given <- imagesGiven

(* What the theorems assume of the constants.                              *)
ASSUME AccountsBounds == \A p \in AccountParts : Account(p)!AccountBounds
ASSUME SnapshotsBounds == \A p \in SnapshotParts : Snapshots(p)!SnapshotBounds
ASSUME RegisteredBounds == Registered!RegistrationBounds
ASSUME InstallsBounds == \A p \in InstallParts : Install(p)!InstallBounds
ASSUME FetchesBounds == \A p \in FetchParts : Fetch(p)!FetchBounds
ASSUME AnsweredBounds == Answered!NetworkBounds
ASSUME LoadedBounds == Loaded!ImageBounds
ASSUME CachesBounds == \A p \in CacheParts : Cache(p)!CacheBounds

accountVars == <<oxyPassword, issued, live, file, user, verifier, calls, onlineCalls,
                 machine, cached, made, faults, refused, stray>>
snapshotsVars == <<snapshotsFile, profile, online, counter, revision, identity, caller,
                   woken, at, read, sent, changes>>
registrarVars == <<pid, born, launches, running, connected, retry, todo, thread, up,
                   stops, serving, registrations, places, peers>>
installerVars == <<record, entry, trees, pinned, held, locked, call, released, candidates,
                   confirmed, crashes>>
cacheVars == <<meta, files, index, total, order, mutex, op, written, spent, left>>
fetchVars == <<offers, now, current, history, stored, request, last, fetchSpent>>
networkVars == <<heard, answers, wakes, run, queuing, given, aborted>>
imagesVars == <<load, imagesCall, flights, imagesThread, memory, imagesAnswers,
                imagesGiven, clears>>
vars == <<part, accountVars, snapshotsVars, registrarVars, installerVars, cacheVars,
          fetchVars, networkVars, imagesVars>>

(* The component that runs starts as it does; the others rest where they   *)
(* start.                                                                  *)
Init ==
    /\ part \in RunParts
    /\ IF part = "removals" THEN Account("removals")!Init ELSE Account("setups")!Init
    /\ part \notin {"removals", "setups"} =>
         oxyPassword = (CHOOSE p \in AccountPasswords : TRUE) /\ issued = 0
    /\ IF part = "snapshots" THEN Snapshots("snapshots")!Init
                             ELSE Snapshots("snapshots again")!Init
    /\ Registered!Init
    /\ part # "registrations" => up = None
    /\ CASE part = "requests" -> Install("requests")!Init
         [] part = "crashes" -> Install("crashes")!Init
         [] OTHER -> Install("plans")!Init
    /\ CASE part = "entries" -> Cache("entries")!Init
         [] part = "cache threads" -> Cache("cache threads")!Init
         [] OTHER -> Cache("cache processes")!Init
    /\ IF part = "fetches" THEN Fetch("fetches")!Init ELSE Fetch("variants")!Init
    /\ part \notin {"fetches", "variants"} =>
         offers = [lifetime |-> 0, validator |-> FALSE, storable |-> FALSE]
    /\ Answered!Init
    /\ Loaded!Init

AccountGoes ==
    /\ \E p \in AccountParts : part = p /\ Account(p)!Next
    /\ UNCHANGED <<part, snapshotsVars, registrarVars, installerVars, cacheVars,
                   fetchVars, networkVars, imagesVars>>
SnapshotsGoes ==
    /\ \E p \in SnapshotParts : part = p /\ Snapshots(p)!Next
    /\ UNCHANGED <<part, accountVars, registrarVars, installerVars, cacheVars, fetchVars,
                   networkVars, imagesVars>>
RegistrarGoes ==
    /\ part = "registrations" /\ Registered!Next
    /\ UNCHANGED <<part, accountVars, snapshotsVars, installerVars, cacheVars, fetchVars,
                   networkVars, imagesVars>>
InstallerGoes ==
    /\ \E p \in InstallParts : part = p /\ Install(p)!Next
    /\ UNCHANGED <<part, accountVars, snapshotsVars, registrarVars, cacheVars, fetchVars,
                   networkVars, imagesVars>>
CacheGoes ==
    /\ \E p \in CacheParts : part = p /\ Cache(p)!Next
    /\ UNCHANGED <<part, accountVars, snapshotsVars, registrarVars, installerVars,
                   fetchVars, networkVars, imagesVars>>
FetchGoes ==
    /\ \E p \in FetchParts : part = p /\ Fetch(p)!Next
    /\ UNCHANGED <<part, accountVars, snapshotsVars, registrarVars, installerVars,
                   cacheVars, networkVars, imagesVars>>
NetworkGoes ==
    /\ part = "network" /\ Answered!Next
    /\ UNCHANGED <<part, accountVars, snapshotsVars, registrarVars, installerVars,
                   cacheVars, fetchVars, imagesVars>>
ImagesGoes ==
    /\ part = "images" /\ Loaded!Next
    /\ UNCHANGED <<part, accountVars, snapshotsVars, registrarVars, installerVars,
                   cacheVars, fetchVars, networkVars>>

Next == \/ AccountGoes \/ SnapshotsGoes \/ RegistrarGoes \/ InstallerGoes
        \/ CacheGoes \/ FetchGoes \/ NetworkGoes \/ ImagesGoes

Spec == Init /\ [][Next]_vars

-----------------------------------------------------------------------------
(* Properties.                                                             *)

(* The machine's credential: no device is left signed in at Oxy with no    *)
(* machine to hold it, a call never costs the machine its live credential, *)
(* a kept token is of the credential held, and an account whose calls are  *)
(* over can be set up again (platform.rs: check, token, set_up, remove).   *)
CredentialsKept ==
    /\ \A p \in AccountParts : part = p =>
         /\ Account(p)!TypeOK
         /\ Account(p)!NoStrayDevice /\ Account(p)!HeldIsLive /\ Account(p)!SetUpAgain
    /\ part = "removals" => Account("removals")!TokenOfHeld

(* A subscriber with nothing to hear has been told what the account's file *)
(* says (session.rs), and the session's thread and the service agree on    *)
(* what is registered: only a process launched and registered is served as *)
(* its application, and every one that runs is registered again after the  *)
(* service comes back (service.rs, registrar.rs).                          *)
SessionsToldAndServed ==
    /\ \A p \in SnapshotParts : part = p => Snapshots(p)!TypeOK
    /\ part = "snapshots" => Snapshots("snapshots")!ToldLatest
    /\ part = "registrations" =>
         /\ Registered!TypeOK /\ Registered!ServedIsRegistered /\ Registered!RegistrationsServed
         /\ Registered!PlacesCounted /\ Registered!ConnectedRegistered

(* What the machine's records and registry name is there, whatever account *)
(* collects, rolls back or uninstalls meanwhile and wherever the service   *)
(* stops; a version rolled back does not come back; and an account runs    *)
(* only what it agreed to (install.rs).                                    *)
VersionsKept ==
    /\ \A p \in InstallParts \ {"plans"} : part = p =>
         /\ Install(p)!TypeOK /\ Install(p)!NamedAreThere /\ Install(p)!EntryFollows
         /\ Install(p)!NotBadAgain /\ Install(p)!Agreed
    /\ part = "plans" => Install("plans")!HeldAreThere /\ Install("plans")!EntryHasRecord

(* Nothing goes back: an application is never told an older account, what  *)
(* an account denied stays denied, no update takes a version a session     *)
(* holds, and nothing is said of a request once it is aborted or of a load *)
(* once it is cancelled.                                                   *)
NeverBack ==
    [][/\ \A p \in SnapshotParts : part = p => Snapshots(p)!RevisionTells
       /\ \A p \in InstallParts : part = p =>
            Install(p)!SwitchedUnheld /\ (p # "plans" => Install(p)!DeniedStays)
       /\ part = "network" => Answered!Silent
       /\ part = "images" => Loaded!Silent]_vars

(* The cache on disk: a body read stays the one stored under its key, no   *)
(* file is left that the index does not count, and the total is bounded,   *)
(* through threads, processes and restarts (oxyos-http's cache.rs).        *)
CacheWhole ==
    /\ \A p \in CacheParts : part = p => Cache(p)!NothingLost
    /\ part = "entries" => Cache("entries")!TypeOK
    /\ \A p \in CacheParts \ {"cache threads"} : part = p => Cache(p)!BodyStays
    /\ \A p \in CacheParts \ {"cache processes"} : part = p => Cache(p)!Bounded

(* A response given from the cache is the variant asked for, no older than *)
(* its lifetime and the request allow, and one the server gave.            *)
FreshEnough ==
    /\ part = "fetches" => /\ Fetch("fetches")!TypeOK /\ Fetch("fetches")!NotTooOld
                            /\ Fetch("fetches")!AsTheServer
    /\ part = "variants" => Fetch("variants")!OwnVariant

(* An application hears its request's answers in their order, the wake's   *)
(* descriptor is readable while any wait, and loads of one image share one *)
(* fetch that goes on while any of them wants it and answers each once.    *)
AnswersInOrder ==
    /\ part = "network" => Answered!TypeOK /\ Answered!InOrder /\ Answered!Readable
    /\ part = "images" => /\ Loaded!TypeOK /\ Loaded!OneFetch /\ Loaded!Unwanted /\ Loaded!AnsweredOnce
=============================================================================
