-------------------------- MODULE ServicesProofs --------------------------
(***************************************************************************)
(* Proofs about the services beside each other, for any values of the      *)
(* instances' constants: what MCServices.tla checks of the machine's       *)
(* credential, of what a session is told and whom it serves, of what the   *)
(* cache answers, of the versions the machine's accounts run, and of what  *)
(* the network's requests and images are answered.                         *)
(*                                                                         *)
(* The part of a behaviour never changes, so a behaviour whose part is a   *)
(* component's is one of that component's.                                 *)
(***************************************************************************)
EXTENDS MCServices, Queues, FiniteSets, FiniteSetTheorems, WellFoundedInduction,
        SequenceTheorems, TLAPS

-----------------------------------------------------------------------------
(* A behaviour runs one part.                                                *)

\* The part that runs is the same throughout.
LEMMA Part_Stays == [Next]_vars => part' = part
BY DEF vars, Next, AccountGoes, SnapshotsGoes, RegistrarGoes, InstallerGoes, CacheGoes,
       FetchGoes, NetworkGoes, ImagesGoes

-----------------------------------------------------------------------------
(* What a session's applications are told of their account.                  *)

Snaps(p) == Snapshots(p)!Snapshot
Reads == [file: {"ready", "out"}, profile: {0, 1}]

\* Type correctness, and: the account's file is there while anyone subscribes, so none
\* reads that it is gone, and who waits has been told something.
SnapsTyped(p) ==
    /\ Snapshots(p)!TypeOK
    /\ read \in [Subscribing(p) -> Reads \cup {None}]
    /\ \A s \in Subscribing(p) :
         /\ at[s] # "gone" => snapshotsFile # "none"
         /\ at[s] = "telling" => read[s] \in Reads
         /\ at[s] = "waiting" => sent[s] \in Snaps(p)

\* A subscriber's snapshot is no newer than the account's revision, and of its identity
\* when it is as new.
SnapsOrdered(p) ==
    /\ revision # None => revision <= counter
    /\ \A s \in Subscribing(p) : at[s] # "gone" /\ sent[s] # None =>
         /\ revision # None /\ sent[s].revision <= revision
         /\ sent[s].revision = revision => identity = sent[s].status

\* While no change is being made, a subscriber not woken again has read, or was told,
\* what the file says.
SnapsToldNow(p) ==
    caller = "idle" => \A s \in Subscribing(p) : s \notin woken =>
        /\ at[s] = "telling" =>
             read[s].file = snapshotsFile /\ (snapshotsFile = "ready" => read[s].profile = profile)
        /\ at[s] = "waiting" =>
             /\ sent[s].status = Snapshots(p)!Status(snapshotsFile) /\ sent[s].online = online
             /\ snapshotsFile = "ready" => sent[s].profile = profile

\* What a subscriber is told, and what that does to the account's revision.
LEMMA Tell_Does ==
    ASSUME NEW CONSTANT p \in SnapshotParts, SnapsTyped(p),
           NEW s \in Subscribing(p), Snapshots(p)!Tell(s)
    PROVE  /\ at[s] = "telling" /\ read[s] \in Reads
           /\ Snapshots(p)!Identified(Snapshots(p)!Status(read[s].file))
           /\ at' = [at EXCEPT ![s] = "waiting"]
           /\ sent' = [sent EXCEPT ![s] =
                [status |-> Snapshots(p)!Status(read[s].file), online |-> online,
                 revision |-> revision',
                 profile |-> IF read[s].file = "ready" THEN read[s].profile ELSE None]]
           /\ UNCHANGED <<snapshotsFile, profile, online, caller, woken, read, changes>>
<1>1. at[s] = "telling" /\ read[s] \in Reads /\ read[s].file # "none"
  BY DEF SnapsTyped, Reads, Snapshots!Tell
<1> QED BY <1>1 DEF Snapshots!Tell

\* The revision given is a number, and no lower than the one before.
LEMMA Identified_Is ==
    ASSUME NEW CONSTANT p \in SnapshotParts, SnapsTyped(p),
           NEW status \in {"signed_in", "signed_out"}, Snapshots(p)!Identified(status)
    PROVE  /\ identity' = status /\ counter' \in Nat /\ revision' \in Nat
           /\ counter' = IF identity \notin {None, status} THEN counter + 1 ELSE counter
           /\ revision' = IF identity \notin {None, status} THEN counter + 1
                          ELSE IF revision = None THEN counter ELSE revision
BY DEF SnapsTyped, Snapshots!TypeOK, Snapshots!Identified

\* What holds where the sessions start.
LEMMA Snapshots_Init ==
    ASSUME NEW CONSTANT p \in SnapshotParts, Snapshots(p)!Init
    PROVE  SnapsTyped(p) /\ SnapsOrdered(p) /\ SnapsToldNow(p)
<1>0. Snapshots(p)!SnapshotBounds
  BY SnapshotsBounds
<1>1. \A s \in Subscribing(p) : at[s] = "gone"
  BY DEF Snapshots!Init
<1>2. Snapshots(p)!TypeOK
  <2>1. changes \in 0..SnapshotsChanges
    BY <1>0 DEF Snapshots!SnapshotBounds, Snapshots!Init
  <2>2. /\ snapshotsFile \in {"none", "ready", "out"} /\ profile \in {0, 1}
        /\ online \in BOOLEAN /\ counter \in Nat /\ revision \in Nat \cup {None}
        /\ identity \in {"signed_in", "signed_out", None}
        /\ caller \in {"idle", "switching", "waking"} /\ woken = {}
        /\ at \in [Subscribing(p) -> {"gone", "reading", "telling", "waiting"}]
        /\ sent \in [Subscribing(p) -> Snaps(p) \cup {None}]
    BY DEF Snapshots!Init
  <2> QED BY <2>1, <2>2 DEF Snapshots!TypeOK, Snaps
<1>3. read \in [Subscribing(p) -> Reads \cup {None}] /\ revision = None
  BY DEF Snapshots!Init
<1> QED BY <1>1, <1>2, <1>3 DEF SnapsTyped, SnapsOrdered, SnapsToldNow

\* Every step keeps the types.
LEMMA Snapshots_Typed ==
    ASSUME NEW CONSTANT p \in SnapshotParts, SnapsTyped(p), [Snapshots(p)!Next]_(Snapshots(p)!vars)
    PROVE  SnapsTyped(p)'
<1> USE DEF SnapsTyped, Snapshots!TypeOK, Snapshots!Watching
<1>0. SnapshotsChanges \in Nat /\ None \notin Nat
  BY SnapshotsBounds DEF Snapshots!SnapshotBounds
<1>1. CASE Snapshots(p)!Forget
  BY <1>0, <1>1 DEF Snapshots!Forget, Snapshots!Change, Snapshots!changeVars, Snapshots!toldVars
<1>2. CASE Snapshots(p)!Switched
  BY <1>0, <1>2 DEF Snapshots!Switched, Snapshots!toldVars
<1>3. CASE Snapshots(p)!UpdateProfile
  BY <1>0, <1>3 DEF Snapshots!UpdateProfile, Snapshots!Change, Snapshots!changeVars, Snapshots!toldVars
<1>4. CASE Snapshots(p)!Reached
  BY <1>0, <1>4 DEF Snapshots!Reached, Snapshots!Change, Snapshots!changeVars, Snapshots!toldVars
<1>5. CASE Snapshots(p)!Changed
  BY <1>0, <1>5 DEF Snapshots!Changed, Snapshots!changeVars
<1>6. CASE Snapshots(p)!SetUp
  <2>1. changes < SnapshotsChanges /\ changes' = changes + 1
    BY Zenon, <1>6 DEF Snapshots!SetUp
  <2>2. /\ snapshotsFile' = "ready" /\ profile' \in {0, 1}
        /\ UNCHANGED <<online, counter, revision, identity, caller, woken, at, read, sent>>
    BY Zenon, <1>6 DEF Snapshots!SetUp, Snapshots!changeVars, Snapshots!toldVars
  <2>3. changes' \in 0..SnapshotsChanges
    BY <1>0, <2>1
  <2> QED BY <2>2, <2>3 DEF Snaps
<1>7. CASE Snapshots(p)!FinishRemoval
  BY <1>0, <1>7 DEF Snapshots!FinishRemoval, Snapshots!Change, Snapshots!toldVars
<1>8. ASSUME NEW s \in Subscribing(p), Snapshots(p)!Subscribe(s)
      PROVE  SnapsTyped(p)'
  BY <1>0, <1>8 DEF Snapshots!Subscribe, Snapshots!changeVars
<1>9. ASSUME NEW s \in Subscribing(p), Snapshots(p)!ReadFile(s)
      PROVE  SnapsTyped(p)'
  BY <1>0, <1>9 DEF Snapshots!ReadFile, Snapshots!changeVars, Reads
<1>10. ASSUME NEW s \in Subscribing(p), Snapshots(p)!Tell(s)
      PROVE  SnapsTyped(p)'
  BY <1>0, <1>10, Tell_Does, Identified_Is DEF Reads, Snaps, Snapshots!Snapshot, Snapshots!Status
<1>11. ASSUME NEW s \in Subscribing(p), Snapshots(p)!Wake(s)
      PROVE  SnapsTyped(p)'
  BY <1>0, <1>11 DEF Snapshots!Wake, Snapshots!changeVars
<1>12. ASSUME NEW s \in Subscribing(p), Snapshots(p)!Ended(s)
      PROVE  SnapsTyped(p)'
  BY <1>0, <1>12 DEF Snapshots!Ended, Snapshots!changeVars
<1>13. CASE UNCHANGED Snapshots(p)!vars
  BY <1>13 DEF Snapshots!vars, Snapshots!changeVars, Snapshots!toldVars, Snaps
<1> QED BY <1>1, <1>2, <1>3, <1>4, <1>5, <1>6, <1>7, <1>8, <1>9, <1>10, <1>11, <1>12, <1>13
        DEF Snapshots!Next, Snapshots!Telling
\* Every step keeps the revisions in their order.
LEMMA Snapshots_Ordered ==
    ASSUME NEW CONSTANT p \in SnapshotParts, SnapsTyped(p), SnapsOrdered(p),
           [Snapshots(p)!Next]_(Snapshots(p)!vars)
    PROVE  SnapsOrdered(p)'
<1>0. None \notin Nat \cup {"signed_in", "signed_out"}
  BY SnapshotsBounds DEF Snapshots!SnapshotBounds
<1>1. /\ counter \in Nat /\ revision \in Nat \cup {None}
      /\ at \in [Subscribing(p) -> {"gone", "reading", "telling", "waiting"}]
      /\ sent \in [Subscribing(p) -> Snaps(p) \cup {None}]
  BY DEF SnapsTyped, Snapshots!TypeOK, Snaps
<1>2. \A s \in Subscribing(p) : sent[s] \in Snaps(p) \cup {None}
  BY <1>1
<1>3. \A n \in Snaps(p) : n.revision \in Nat /\ n.status # None
  BY <1>0 DEF Snaps, Snapshots!Snapshot
<1>4. ASSUME UNCHANGED <<counter, revision, identity, sent>>,
             \A s \in Subscribing(p) : at'[s] # "gone" => at[s] # "gone"
      PROVE  SnapsOrdered(p)'
  BY <1>4 DEF SnapsOrdered
<1>5. ASSUME Snapshots(p)!Forget \/ Snapshots(p)!UpdateProfile \/ Snapshots(p)!Reached
               \/ Snapshots(p)!Changed \/ Snapshots(p)!SetUp
      PROVE  SnapsOrdered(p)'
  BY <1>4, <1>5 DEF Snapshots!Forget, Snapshots!UpdateProfile, Snapshots!Reached,
     Snapshots!Changed, Snapshots!SetUp, Snapshots!changeVars, Snapshots!toldVars
<1>6. CASE Snapshots(p)!Switched
  <2>1. /\ revision' = counter + 1 /\ counter' = counter + 1 /\ UNCHANGED <<at, sent>>
    BY <1>6 DEF Snapshots!Switched, Snapshots!toldVars
  <2> QED BY <1>0, <1>1, <1>2, <1>3, <2>1 DEF SnapsOrdered
<1>7. CASE Snapshots(p)!FinishRemoval
  <2>1. /\ revision' = None /\ UNCHANGED <<at, sent>>
        /\ \A s \in Subscribing(p) : at[s] = "gone"
    BY <1>7 DEF Snapshots!FinishRemoval, Snapshots!Watching, Snapshots!toldVars
  <2> QED BY <2>1 DEF SnapsOrdered
<1>8. ASSUME NEW s \in Subscribing(p), Snapshots(p)!Subscribe(s)
      PROVE  SnapsOrdered(p)'
  <2>1. /\ UNCHANGED <<counter, revision, identity>> /\ sent' = [sent EXCEPT ![s] = None]
        /\ \A t \in Subscribing(p) \ {s} : at'[t] = at[t]
    BY <1>1, <1>8 DEF Snapshots!Subscribe, Snapshots!changeVars
  <2> QED BY <1>1, <2>1 DEF SnapsOrdered
<1>9. ASSUME NEW s \in Subscribing(p),
             Snapshots(p)!ReadFile(s) \/ Snapshots(p)!Wake(s) \/ Snapshots(p)!Ended(s)
      PROVE  SnapsOrdered(p)'
  <2>1. /\ UNCHANGED <<counter, revision, identity, sent>>
        /\ at[s] # "gone" /\ \A t \in Subscribing(p) \ {s} : at'[t] = at[t]
    BY <1>1, <1>9 DEF Snapshots!ReadFile, Snapshots!Wake, Snapshots!Ended, Snapshots!changeVars
  <2> QED BY <1>4, <2>1
<1>10. ASSUME NEW s \in Subscribing(p), Snapshots(p)!Tell(s)
       PROVE  SnapsOrdered(p)'
  <2> DEFINE status == Snapshots(p)!Status(read[s].file)
  <2>1. /\ at[s] = "telling" /\ Snapshots(p)!Identified(status)
        /\ \A t \in Subscribing(p) : at'[t] # "gone" => at[t] # "gone"
        /\ sent'[s].status = status /\ sent'[s].revision = revision'
        /\ \A t \in Subscribing(p) \ {s} : sent'[t] = sent[t]
    BY <1>1, <1>10, Tell_Does
  <2>2. status \in {"signed_in", "signed_out"}
    BY DEF Snapshots!Status
  <2> HIDE DEF status
  <2>3. /\ identity' = status /\ counter' \in Nat /\ revision' \in Nat
        /\ counter' = IF identity \notin {None, status} THEN counter + 1 ELSE counter
        /\ revision' = IF identity \notin {None, status} THEN counter + 1
                       ELSE IF revision = None THEN counter ELSE revision
    BY <2>1, <2>2, Identified_Is
  <2>4. revision' # None /\ revision' <= counter'
    BY <1>0, <1>1, <2>3 DEF SnapsOrdered
  <2>5. ASSUME NEW t \in Subscribing(p) \ {s}, at[t] # "gone", sent[t] # None
        PROVE  /\ sent[t].revision <= revision'
               /\ sent[t].revision = revision' => identity' = sent[t].status
    <3>1. /\ sent[t].revision \in Nat /\ sent[t].status # None
          /\ revision # None /\ sent[t].revision <= revision /\ revision <= counter
          /\ sent[t].revision = revision => identity = sent[t].status
      BY <1>2, <1>3, <2>5 DEF SnapsOrdered
    <3> QED BY <1>1, <2>3, <3>1
  <2> QED BY <2>1, <2>3, <2>4, <2>5 DEF SnapsOrdered
<1>11. CASE UNCHANGED Snapshots(p)!vars
  BY <1>4, <1>11 DEF Snapshots!vars, Snapshots!changeVars, Snapshots!toldVars
<1> QED BY <1>5, <1>6, <1>7, <1>8, <1>9, <1>10, <1>11 DEF Snapshots!Next, Snapshots!Telling

\* Only what comes after a change tells another status: by a higher revision.
LEMMA Snapshots_Tell ==
    ASSUME NEW CONSTANT p \in SnapshotParts, SnapsTyped(p), SnapsOrdered(p),
           [Snapshots(p)!Next]_(Snapshots(p)!vars)
    PROVE  Snapshots(p)!RevisionTells
<1>0. None \notin Nat \cup {"signed_in", "signed_out"}
  BY SnapshotsBounds DEF Snapshots!SnapshotBounds
<1>1. /\ counter \in Nat /\ revision \in Nat \cup {None}
      /\ sent \in [Subscribing(p) -> Snaps(p) \cup {None}]
  BY DEF SnapsTyped, Snapshots!TypeOK, Snaps
<1>2. \A n \in Snaps(p) : n.revision \in Nat /\ n.status # None
  BY <1>0 DEF Snaps, Snapshots!Snapshot
<1>3. ASSUME NEW s \in Subscribing(p), Snapshots(p)!Tell(s)
      PROVE  Snapshots(p)!RevisionTells
  <2> DEFINE status == Snapshots(p)!Status(read[s].file)
  <2>1. /\ at[s] = "telling" /\ Snapshots(p)!Identified(status)
        /\ sent'[s].status = status /\ sent'[s].revision = revision'
        /\ \A t \in Subscribing(p) \ {s} : sent'[t] = sent[t]
    BY <1>1, <1>3, Tell_Does
  <2>2. status \in {"signed_in", "signed_out"}
    BY DEF Snapshots!Status
  <2> HIDE DEF status
  <2>3. revision' = IF identity \notin {None, status} THEN counter + 1
                    ELSE IF revision = None THEN counter ELSE revision
    BY <2>1, <2>2, Identified_Is
  <2>4. ASSUME sent[s] # None, status # sent[s].status
        PROVE  revision' > sent[s].revision
    <3>1. /\ sent[s].revision \in Nat /\ sent[s].status # None
          /\ revision # None /\ sent[s].revision <= revision /\ revision <= counter
          /\ sent[s].revision = revision => identity = sent[s].status
      BY <1>1, <1>2, <2>1, <2>4 DEF SnapsOrdered
    <3> QED BY <1>1, <2>3, <2>4, <3>1
  <2> QED BY <2>1, <2>4 DEF Snapshots!RevisionTells
<1>4. ASSUME NEW s \in Subscribing(p), Snapshots(p)!Subscribe(s)
      PROVE  Snapshots(p)!RevisionTells
  BY <1>1, <1>4 DEF Snapshots!Subscribe, Snapshots!RevisionTells
<1>5. ASSUME sent' = sent
      PROVE  Snapshots(p)!RevisionTells
  BY <1>5 DEF Snapshots!RevisionTells
<1> QED BY <1>3, <1>4, <1>5 DEF Snapshots!Next, Snapshots!Telling, Snapshots!Forget,
        Snapshots!Switched, Snapshots!UpdateProfile, Snapshots!Reached, Snapshots!Changed,
        Snapshots!SetUp, Snapshots!FinishRemoval, Snapshots!ReadFile, Snapshots!Wake,
        Snapshots!Ended, Snapshots!toldVars, Snapshots!vars

\* Every step keeps what a subscriber that is not woken has read or was told, where
\* an account is not set up again while its sessions run.
LEMMA Snapshots_ToldNow ==
    ASSUME SnapsTyped("snapshots"), SnapsToldNow("snapshots"),
           [Snapshots("snapshots")!Next]_(Snapshots("snapshots")!vars)
    PROVE  SnapsToldNow("snapshots")'
<1> DEFINE S == Subscribing("snapshots")
<1>0. "snapshots" \in SnapshotParts
  BY DEF SnapshotParts
<1>1. /\ at \in [S -> {"gone", "reading", "telling", "waiting"}]
      /\ sent \in [S -> Snaps("snapshots") \cup {None}]
      /\ read \in [S -> Reads \cup {None}]
      /\ \A s \in S : at[s] = "gone" => s \notin woken
  BY DEF SnapsTyped, Snapshots!TypeOK, Snapshots!Watching, Snaps
<1>2. CASE Snapshots("snapshots")!Forget
  BY <1>2 DEF Snapshots!Forget, SnapsToldNow
<1>3. CASE Snapshots("snapshots")!Switched \/ Snapshots("snapshots")!UpdateProfile
             \/ Snapshots("snapshots")!Reached
  BY <1>3 DEF Snapshots!Switched, Snapshots!UpdateProfile, Snapshots!Reached, SnapsToldNow
<1>4. CASE Snapshots("snapshots")!Changed
  BY <1>4 DEF Snapshots!Changed, Snapshots!Watching, SnapsToldNow
<1>5. CASE Snapshots("snapshots")!SetUp
  BY <1>5 DEF Snapshots!SetUp
<1>6. CASE Snapshots("snapshots")!FinishRemoval
  BY <1>6 DEF Snapshots!FinishRemoval, Snapshots!Watching, Snapshots!toldVars, SnapsToldNow
<1>7. ASSUME NEW s \in S,
             Snapshots("snapshots")!Subscribe(s) \/ Snapshots("snapshots")!Wake(s)
               \/ Snapshots("snapshots")!Ended(s)
      PROVE  SnapsToldNow("snapshots")'
  <2>1. /\ UNCHANGED <<snapshotsFile, profile, online, caller, read>>
        /\ at' = [at EXCEPT ![s] = at'[s]] /\ at'[s] \in {"reading", "gone"}
        /\ sent' = [sent EXCEPT ![s] = sent'[s]] /\ woken' = woken \ {s}
    BY <1>1, <1>7 DEF Snapshots!Subscribe, Snapshots!Wake, Snapshots!Ended
  <2> QED BY <1>1, <2>1 DEF SnapsToldNow, Snapshots!Status
<1>8. ASSUME NEW s \in S, Snapshots("snapshots")!ReadFile(s)
      PROVE  SnapsToldNow("snapshots")'
  BY <1>1, <1>8 DEF Snapshots!ReadFile, SnapsToldNow, Snapshots!Status
<1>9. ASSUME NEW s \in S, Snapshots("snapshots")!Tell(s)
      PROVE  SnapsToldNow("snapshots")'
  BY <1>0, <1>1, <1>9, Tell_Does DEF SnapsToldNow, Snapshots!Status
<1>10. CASE UNCHANGED Snapshots("snapshots")!vars
  BY <1>10 DEF Snapshots!vars, Snapshots!toldVars, SnapsToldNow, Snapshots!Status
<1> QED BY <1>2, <1>3, <1>4, <1>5, <1>6, <1>7, <1>8, <1>9, <1>10
        DEF Snapshots!Next, Snapshots!Telling

-----------------------------------------------------------------------------
(* Which processes are served as a session's applications.                   *)

\* Type correctness, and: a process is a launched or a registered one once it ran, its
\* registrations are of the pid it has while it lives, and no two live ones share a pid.
RegTyped ==
    /\ Registered!TypeOK
    /\ thread # "registering" => todo = {}
    /\ \A p \in Registered!Processes : Registered!Alive(p) =>
         /\ p \in born
         /\ \A q \in Registered!Processes : pid[q] = pid[p] => q = p
    /\ launches \subseteq born /\ running \subseteq born
    /\ \A r \in registrations : r.process \in born
         /\ (Registered!Alive(r.process) => pid[r.process] = r.pid)

\* A peer's pid, and its registration's, are what its process, and the registration's, has
\* while it lives; a peer that is served is the process of its registration.
RegPeers ==
    \A c \in RegisteredPeers :
      /\ peers[c].at # "none" =>
           /\ peers[c].process \in born
           /\ Registered!Alive(peers[c].process) => pid[peers[c].process] = peers[c].pid
      /\ peers[c].at \in {"found", "served"} =>
           /\ peers[c].found \in Registered!Registration
           /\ peers[c].found.process \in born /\ peers[c].found.pid = peers[c].pid
           /\ Registered!Alive(peers[c].found.process) =>
                pid[peers[c].found.process] = peers[c].pid
      /\ peers[c].at = "served" => peers[c].process = peers[c].found.process

\* The service's run is a new one each time it starts, and a registrar connected to it is
\* served; what the thread has registered on a connection stays registered.
RegConnected ==
    /\ up # None => up = stops
    /\ connected # None => connected <= stops /\ (up = None => connected < stops)
    /\ Registered!Connected => serving
    /\ registrations # {} => serving
    /\ Registered!Connected => \A p \in running \ todo : Registered!Alive(p) =>
         \E r \in registrations : r.process = p

\* The standard module's operators are the instance's.
LEMMA Registered_Sizes ==
    ASSUME NEW S
    PROVE  /\ Registered!IsFiniteSet(S) <=> IsFiniteSet(S)
           /\ Registered!Cardinality(S) = Cardinality(S)
BY Zenon DEF Registered!IsFiniteSet, IsFiniteSet, Registered!Cardinality, Cardinality

\* What is assumed of the constants.
LEMMA Registered_Bounds ==
    /\ RegisteredPlaces \in Nat \ {0} /\ RegisteredRetries \in Nat \ {0} /\ RegisteredStops \in Nat
    /\ RegisteredLaunched \cap RegisteredStrangers = {}
    /\ None \notin RegisteredLaunched \cup RegisteredStrangers
    /\ None \notin RegisteredPids /\ None \notin Nat
    /\ IsFiniteSet(RegisteredLaunched) /\ IsFiniteSet(RegisteredPeers)
BY Zenon, RegisteredBounds, Registered_Sizes DEF Registered!RegistrationBounds

\* What holds where the registrations start.
LEMMA Registered_Init ==
    ASSUME Registered!Init
    PROVE  RegTyped /\ RegPeers /\ RegConnected
<1>1. \A p \in Registered!Processes : ~Registered!Alive(p)
  BY DEF Registered!Init, Registered!Alive
<1>2. /\ registrations = {} /\ running = {} /\ launches = {} /\ todo = {} /\ connected = None
      /\ up # None => up = stops
      /\ \A c \in RegisteredPeers : peers[c] = Registered!NoPeer
  BY Registered_Bounds DEF Registered!Init
<1>3. Registered!TypeOK
  <2>1. /\ connected \in 0..RegisteredStops \cup {None} /\ up \in 0..RegisteredStops \cup {None}
        /\ retry \in 0..(RegisteredRetries - 1) \cup {None} /\ stops \in 0..RegisteredStops
    BY Registered_Bounds DEF Registered!Init
  <2>2. peers \in [RegisteredPeers -> [process: Registered!Processes \cup {None},
                      at: {"none", "read", "found", "served"}, pid: RegisteredPids \cup {None},
                      found: Registered!Registration \cup {None}]]
    BY DEF Registered!Init, Registered!NoPeer
  <2> QED BY <2>1, <2>2 DEF Registered!Init, Registered!TypeOK
<1>4. RegPeers
  BY <1>2 DEF RegPeers, Registered!NoPeer
<1>5. RegConnected
  BY <1>2 DEF RegConnected, Registered!Connected
<1> QED BY <1>1, <1>2, <1>3, <1>4, <1>5 DEF RegTyped

\* What registering a process does: its registrations are of the pids they are of, and none
\* of a process that lives is lost.
LEMMA Registered_Registers ==
    ASSUME RegTyped, NEW p \in RegisteredLaunched, p \in born
    PROVE  /\ Registered!Registered(p) \subseteq Registered!Registration
           /\ \A r \in Registered!Registered(p) : r.process \in born
                /\ (Registered!Alive(r.process) => pid[r.process] = r.pid)
           /\ Registered!Alive(p) => \E r \in Registered!Registered(p) : r.process = p
           /\ \A q \in RegisteredLaunched : Registered!Alive(q) /\ (\E r \in registrations : r.process = q)
                => \E r \in Registered!Registered(p) : r.process = q
<1> DEFINE new == [process |-> p, pid |-> pid[p]]
<1>1. /\ registrations \subseteq Registered!Registration
      /\ RegisteredLaunched \subseteq Registered!Processes
      /\ pid \in [Registered!Processes -> RegisteredPids \cup {None}]
  BY DEF RegTyped, Registered!TypeOK, Registered!Processes
<1>2. CASE ~Registered!Alive(p)
  BY <1>1, <1>2 DEF Registered!Registered, RegTyped
<1>3. CASE Registered!Alive(p)
  <2>1. pid[p] \in RegisteredPids
    BY <1>1, <1>3 DEF Registered!Alive
  <2>2. Registered!Registered(p) = {r \in registrations : r.pid # pid[p]} \cup {new}
    BY <1>3 DEF Registered!Registered
  <2>3. new.process = p /\ new.pid = pid[p] /\ new \in Registered!Registration
    BY <2>1 DEF Registered!Registration
  <2> HIDE DEF new
  <2>4. new \in Registered!Registered(p)
    BY <2>2
  <2>5. ASSUME NEW q \in RegisteredLaunched, Registered!Alive(q),
               NEW r \in registrations, r.process = q
        PROVE  \E n \in Registered!Registered(p) : n.process = q
    <3>1. CASE r.pid = pid[p]
      <4>1. pid[q] = pid[p]
        BY <2>5, <3>1 DEF RegTyped
      <4>2. q = p
        BY <1>1, <1>3, <2>5, <4>1 DEF RegTyped
      <4> QED BY <2>3, <2>4, <4>2
    <3>2. CASE r.pid # pid[p]
      BY <2>2, <2>5, <3>2
    <3> QED BY <3>1, <3>2
  <2>6. \A r \in Registered!Registered(p) : r \in registrations \/ r = new
    BY <2>2
  <2>7. \A r \in registrations : r.process \in born
           /\ (Registered!Alive(r.process) => pid[r.process] = r.pid)
    BY DEF RegTyped
  <2> QED BY <1>1, <2>3, <2>4, <2>5, <2>6, <2>7
<1> QED BY <1>2, <1>3

\* A process that runs is a new one, with a pid none has.
LEMMA Registered_Runs ==
    ASSUME RegTyped, NEW p \in Registered!Processes, Registered!Runs(p)
    PROVE  /\ p \notin born /\ born' = born \cup {p}
           /\ pid' \in [Registered!Processes -> RegisteredPids \cup {None}]
           /\ pid'[p] # None /\ \A q \in Registered!Processes \ {p} : pid'[q] = pid[q]
           /\ \A q \in Registered!Processes \ {p} : pid[q] # pid'[p]
<1>1. pid \in [Registered!Processes -> RegisteredPids \cup {None}]
  BY DEF RegTyped, Registered!TypeOK
<1>2. PICK n \in Registered!FreePids : pid' = [pid EXCEPT ![p] = n]
  BY DEF Registered!Runs
<1>3. n \in RegisteredPids /\ n # None /\ \A q \in Registered!Processes : pid[q] # n
  BY Registered_Bounds DEF Registered!FreePids
<1> QED BY <1>1, <1>2, <1>3 DEF Registered!Runs

\* What the session's thread does to its own state and to the registrations.
LEMMA Registered_Typed ==
    ASSUME RegTyped, [Registered!Next]_(Registered!vars)
    PROVE  RegTyped'
<1>0. /\ RegisteredPlaces \in Nat \ {0} /\ RegisteredRetries \in Nat \ {0}
      /\ RegisteredStops \in Nat /\ None \notin Nat /\ None \notin RegisteredPids
  BY Registered_Bounds
<1> USE DEF Registered!TypeOK
<1>a. ASSUME UNCHANGED <<pid, born, launches, running, todo, thread, registrations>>,
             Registered!TypeOK'
      PROVE  RegTyped'
  BY <1>a DEF RegTyped, Registered!Alive
<1>1. ASSUME NEW p \in Registered!Processes, Registered!Launch(p)
      PROVE  RegTyped'
  <2>1. /\ p \notin born /\ born' = born \cup {p}
        /\ pid' \in [Registered!Processes -> RegisteredPids \cup {None}]
        /\ pid'[p] # None /\ \A q \in Registered!Processes \ {p} : pid'[q] = pid[q]
        /\ \A q \in Registered!Processes \ {p} : pid[q] # pid'[p]
    BY <1>1, Registered_Runs DEF Registered!Launch
  <2>2. /\ p \in RegisteredLaunched /\ launches' = launches \cup {p}
        /\ UNCHANGED <<running, connected, retry, todo, thread, up, stops, serving,
                       registrations, places, peers>>
    BY <1>1 DEF Registered!Launch, Registered!serviceVars
  <2>3. Registered!TypeOK'
    BY <2>1, <2>2 DEF RegTyped, Registered!Registration
  <2>4. \A q \in Registered!Processes : Registered!Alive(q)' =>
           /\ q \in born'
           /\ \A m \in Registered!Processes : pid'[m] = pid'[q] => m = q
    BY <2>1 DEF RegTyped, Registered!Alive
  <2>5. \A r \in registrations' : r.process \in born'
           /\ (Registered!Alive(r.process)' => pid'[r.process] = r.pid)
    BY <2>1, <2>2 DEF RegTyped, Registered!Alive
  <2> QED BY <2>1, <2>2, <2>3, <2>4, <2>5 DEF RegTyped
<1>2. ASSUME NEW p \in Registered!Processes, Registered!StrangerRuns(p)
      PROVE  RegTyped'
  <2>1. /\ p \notin born /\ born' = born \cup {p}
        /\ pid' \in [Registered!Processes -> RegisteredPids \cup {None}]
        /\ pid'[p] # None /\ \A q \in Registered!Processes \ {p} : pid'[q] = pid[q]
        /\ \A q \in Registered!Processes \ {p} : pid[q] # pid'[p]
    BY <1>2, Registered_Runs DEF Registered!StrangerRuns
  <2>2. UNCHANGED <<launches, running, connected, retry, todo, thread, up, stops, serving,
                    registrations, places, peers>>
    BY <1>2 DEF Registered!StrangerRuns, Registered!sessionVars, Registered!serviceVars
  <2>3. Registered!TypeOK'
    BY <2>1, <2>2 DEF RegTyped, Registered!Registration
  <2>4. \A q \in Registered!Processes : Registered!Alive(q)' =>
           /\ q \in born'
           /\ \A m \in Registered!Processes : pid'[m] = pid'[q] => m = q
    BY <2>1 DEF RegTyped, Registered!Alive
  <2>5. \A r \in registrations' : r.process \in born'
           /\ (Registered!Alive(r.process)' => pid'[r.process] = r.pid)
    BY <2>1, <2>2 DEF RegTyped, Registered!Alive
  <2> QED BY <2>1, <2>2, <2>3, <2>4, <2>5 DEF RegTyped
<1>3. ASSUME NEW p \in Registered!Processes, Registered!Exits(p)
      PROVE  RegTyped'
  <2>1. /\ pid' = [pid EXCEPT ![p] = None]
        /\ UNCHANGED <<born, launches, running, connected, retry, todo, thread, up, stops,
                       serving, registrations, places, peers>>
    BY <1>3 DEF Registered!Exits, Registered!sessionVars, Registered!serviceVars
  <2> QED BY <2>1 DEF RegTyped, Registered!Alive, Registered!Registration, Registered!Processes
<1>4. ASSUME NEW c \in RegisteredPeers, NEW p \in Registered!Processes,
             Registered!ReadPid(c, p)
      PROVE  RegTyped'
  <2>1. Registered!TypeOK'
    BY <1>4 DEF RegTyped, Registered!ReadPid, Registered!Becomes, Registered!sessionVars,
       Registered!serviceVars, Registered!Alive, Registered!Registration
  <2> QED BY <1>a, <1>4, <2>1 DEF Registered!ReadPid, Registered!sessionVars, Registered!serviceVars
<1>5. CASE Registered!Lost
  <2>1. Registered!TypeOK'
    BY <1>0, <1>5 DEF RegTyped, Registered!Lost, Registered!serviceVars, Registered!Registration
  <2> QED BY <1>a, <1>5, <2>1 DEF Registered!Lost, Registered!serviceVars
<1>6. CASE Registered!Forget
  BY <1>6 DEF RegTyped, Registered!Forget, Registered!serviceVars, Registered!Alive,
     Registered!Registration
<1>7. CASE Registered!Received
  BY <1>7 DEF RegTyped, Registered!Received, Registered!serviceVars, Registered!Alive,
     Registered!Registration
<1>8. CASE Registered!Retry
  BY <1>8 DEF RegTyped, Registered!Retry, Registered!serviceVars, Registered!Alive,
     Registered!Registration
<1>b. ASSUME Registered!TriesAgain
      PROVE  /\ retry' \in 0..(RegisteredRetries - 1) \cup {None} /\ connected' = None
             /\ todo' = {} /\ thread' = "poll"
  BY <1>0, <1>b DEF RegTyped, Registered!TriesAgain
<1>9. CASE Registered!Connect
  BY <1>9, <1>b DEF RegTyped, Registered!Connect, Registered!Alive, Registered!Registration
<1>10. CASE Registered!RegisterAgain
  <2>1. CASE /\ todo # {} /\ \E p \in todo : todo' = todo \ {p} /\ registrations' = Registered!Registered(p)
             /\ UNCHANGED <<connected, retry, thread>>
    <3>1. PICK p \in todo : todo' = todo \ {p} /\ registrations' = Registered!Registered(p)
      BY <2>1
    <3>2. /\ thread = "registering" /\ p \in running /\ p \in RegisteredLaunched /\ p \in born
          /\ UNCHANGED <<pid, born, launches, running, up, stops, serving, places, peers>>
      BY <1>10 DEF RegTyped, Registered!RegisterAgain
    <3>3. /\ registrations' \subseteq Registered!Registration
          /\ \A r \in registrations' : r.process \in born
               /\ (Registered!Alive(r.process) => pid[r.process] = r.pid)
      BY <3>1, <3>2, Registered_Registers
    <3> QED BY <2>1, <3>1, <3>2, <3>3 DEF RegTyped, Registered!Alive, Registered!Registration
  <2>2. CASE /\ todo = {} /\ thread' = "poll" /\ retry' = None
             /\ UNCHANGED <<connected, todo, registrations>>
    BY <1>10, <2>2 DEF RegTyped, Registered!RegisterAgain, Registered!Alive, Registered!Registration
  <2>3. CASE Registered!TriesAgain /\ UNCHANGED registrations
    BY <1>10, <1>b, <2>3 DEF RegTyped, Registered!RegisterAgain, Registered!Alive,
       Registered!Registration
  <2> QED BY <1>10, <2>1, <2>2, <2>3 DEF Registered!RegisterAgain
<1>11. ASSUME NEW p \in RegisteredLaunched, Registered!Receive(p)
       PROVE  RegTyped'
  <2>1. /\ thread # "registering" /\ thread' = "receiving" /\ p \in launches
        /\ launches' = launches \ {p} /\ running' = running \cup {p}
        /\ UNCHANGED <<pid, born, todo, up, stops, serving, places, peers>>
    BY <1>11 DEF Registered!Receive
  <2>2. p \in born
    BY <2>1 DEF RegTyped
  <2>3. /\ registrations' \subseteq Registered!Registration
        /\ \A r \in registrations' : r.process \in born
             /\ (Registered!Alive(r.process) => pid[r.process] = r.pid)
    <3>1. CASE registrations' = registrations
      BY <3>1 DEF RegTyped
    <3>2. CASE registrations' = Registered!Registered(p)
      BY <2>2, <3>2, Registered_Registers
    <3> QED BY <1>11, <3>1, <3>2 DEF Registered!Receive
  <2>4. connected' \in 0..RegisteredStops \cup {None} /\ retry' \in 0..(RegisteredRetries - 1) \cup {None}
    BY <1>0, <1>11 DEF RegTyped, Registered!Receive
  <2> QED BY <2>1, <2>2, <2>3, <2>4 DEF RegTyped, Registered!Alive, Registered!Registration
<1>12. CASE Registered!SessionEnds
  BY <1>12 DEF RegTyped, Registered!SessionEnds, Registered!serviceVars, Registered!Alive,
     Registered!Registration
<1>13. CASE Registered!DropExited
  BY <1>13 DEF RegTyped, Registered!DropExited, Registered!sessionVars, Registered!Alive,
     Registered!Registration
<1>14. CASE Registered!DropRegistrar
  BY <1>14 DEF RegTyped, Registered!DropRegistrar, Registered!sessionVars, Registered!Alive,
     Registered!Registration
<1>15. ASSUME NEW c \in RegisteredPeers,
              Registered!Find(c) \/ Registered!Classify(c) \/ Registered!Close(c)
       PROVE  RegTyped'
  <2>1. UNCHANGED <<pid, born, launches, running, connected, retry, todo, thread, up, stops,
                    serving, registrations>>
    BY <1>15 DEF Registered!Find, Registered!Classify, Registered!Close,
       Registered!sessionVars, Registered!serviceVars
  <2>2. peers' \in [RegisteredPeers -> [process: Registered!Processes \cup {None},
                      at: {"none", "read", "found", "served"}, pid: RegisteredPids \cup {None},
                      found: Registered!Registration \cup {None}]]
    <3> DEFINE Peer == [process: Registered!Processes \cup {None},
                        at: {"none", "read", "found", "served"}, pid: RegisteredPids \cup {None},
                        found: Registered!Registration \cup {None}]
    <3>1. peers[c] \in Peer /\ registrations \subseteq Registered!Registration
      BY DEF RegTyped
    <3>2. Registered!NoPeer \in Peer
      BY DEF Registered!NoPeer
    <3>3. \A a \in {"found", "served"} : [peers[c] EXCEPT !.at = a] \in Peer
      BY <3>1
    <3>4. \A r \in registrations : [peers[c] EXCEPT !.at = "found", !.found = r] \in Peer
      BY <3>1
    <3>5. \E n \in Peer : peers' = [peers EXCEPT ![c] = n]
      BY <1>15, <3>2, <3>3, <3>4 DEF Registered!Find, Registered!Classify, Registered!Close,
         Registered!Becomes
    <3> QED BY <3>5 DEF RegTyped
  <2>3. Registered!TypeOK'
    BY <2>1, <2>2 DEF RegTyped, Registered!Registration
  <2> QED BY <1>a, <2>1, <2>3
<1>16. CASE Registered!Stops
  <2>1. peers' \in [RegisteredPeers -> [process: Registered!Processes \cup {None},
                      at: {"none", "read", "found", "served"}, pid: RegisteredPids \cup {None},
                      found: Registered!Registration \cup {None}]]
    BY <1>16 DEF Registered!Stops, Registered!NoPeer
  <2>2. /\ up' = None /\ stops' \in 0..RegisteredStops /\ serving' = FALSE /\ registrations' = {}
        /\ UNCHANGED <<pid, born, launches, running, connected, retry, todo, thread>>
    BY <1>0, <1>16 DEF RegTyped, Registered!Stops, Registered!sessionVars
  <2> QED BY <2>1, <2>2 DEF RegTyped, Registered!Alive, Registered!Registration
<1>17. CASE Registered!Starts
  BY <1>17 DEF RegTyped, Registered!Starts, Registered!sessionVars, Registered!Alive,
     Registered!Registration
<1>18. CASE UNCHANGED Registered!vars
  BY <1>18 DEF RegTyped, Registered!vars, Registered!sessionVars, Registered!serviceVars,
     Registered!Alive, Registered!Registration
<1> QED BY <1>1, <1>2, <1>3, <1>4, <1>5, <1>6, <1>7, <1>8, <1>9, <1>10, <1>11, <1>12, <1>13,
        <1>14, <1>15, <1>16, <1>17, <1>18 DEF Registered!Next, Registered!Thread, Registered!Service

\* What a step does to the processes and their pids: one that ran keeps its own.
LEMMA Registered_Pids ==
    ASSUME RegTyped, [Registered!Next]_(Registered!vars)
    PROVE  /\ born \subseteq born'
           /\ \A p \in born : Registered!Alive(p)' => Registered!Alive(p) /\ pid'[p] = pid[p]
<1>1. born \subseteq Registered!Processes /\ pid \in [Registered!Processes -> RegisteredPids \cup {None}]
  BY DEF RegTyped, Registered!TypeOK
<1>2. ASSUME UNCHANGED <<pid, born>>
      PROVE  /\ born \subseteq born'
             /\ \A p \in born : Registered!Alive(p)' => Registered!Alive(p) /\ pid'[p] = pid[p]
  BY <1>2 DEF Registered!Alive
<1>3. ASSUME NEW p \in Registered!Processes, Registered!Launch(p) \/ Registered!StrangerRuns(p)
      PROVE  /\ born \subseteq born'
             /\ \A q \in born : Registered!Alive(q)' => Registered!Alive(q) /\ pid'[q] = pid[q]
  BY <1>1, <1>3, Registered_Runs DEF Registered!Alive, Registered!Launch, Registered!StrangerRuns
<1>4. ASSUME NEW p \in Registered!Processes, Registered!Exits(p)
      PROVE  /\ born \subseteq born'
             /\ \A q \in born : Registered!Alive(q)' => Registered!Alive(q) /\ pid'[q] = pid[q]
  BY <1>1, <1>4 DEF Registered!Exits, Registered!Alive
<1>5. ASSUME \/ Registered!Thread \/ Registered!SessionEnds \/ Registered!Service
             \/ Registered!Stops \/ Registered!Starts
             \/ \E c \in RegisteredPeers, p \in Registered!Processes : Registered!ReadPid(c, p)
      PROVE  UNCHANGED <<pid, born>>
  BY <1>5 DEF Registered!Thread, Registered!SessionEnds, Registered!Service, Registered!Stops,
     Registered!Starts, Registered!ReadPid, Registered!Lost, Registered!Forget,
     Registered!Received, Registered!Retry, Registered!Connect, Registered!RegisterAgain,
     Registered!Receive, Registered!DropExited, Registered!DropRegistrar, Registered!Find,
     Registered!Classify, Registered!Close
<1> QED BY <1>2, <1>3, <1>4, <1>5 DEF Registered!Next, Registered!vars

\* A step that makes nothing of a connection but what it was, or lets it go, keeps its pids.
LEMMA Registered_Peers ==
    ASSUME RegTyped, RegPeers, [Registered!Next]_(Registered!vars)
    PROVE  RegPeers'
<1> DEFINE Right(c, P) ==
      /\ P.at # "none" =>
           /\ P.process \in born
           /\ Registered!Alive(P.process) => pid[P.process] = P.pid
      /\ P.at \in {"found", "served"} =>
           /\ P.found \in Registered!Registration
           /\ P.found.process \in born /\ P.found.pid = P.pid
           /\ Registered!Alive(P.found.process) => pid[P.found.process] = P.pid
      /\ P.at = "served" => P.process = P.found.process
<1>0. /\ born \subseteq born'
      /\ \A p \in born : Registered!Alive(p)' => Registered!Alive(p) /\ pid'[p] = pid[p]
  BY Registered_Pids
<1>1. \A c \in RegisteredPeers : Right(c, peers[c])
  BY DEF RegPeers
<1>2. SUFFICES ASSUME NEW c \in RegisteredPeers PROVE Right(c, peers'[c])
  <2>1. \A c \in RegisteredPeers : Right(c, peers'[c])
    BY <1>2
  <2> QED BY <1>0, <2>1 DEF RegPeers, Registered!Registration
<1>3. /\ peers \in [RegisteredPeers -> [process: Registered!Processes \cup {None},
                      at: {"none", "read", "found", "served"}, pid: RegisteredPids \cup {None},
                      found: Registered!Registration \cup {None}]]
      /\ registrations \subseteq Registered!Registration
  BY DEF RegTyped, Registered!TypeOK
<1>4. CASE peers'[c] = peers[c]
  BY <1>1, <1>4
<1>5. CASE peers'[c] = Registered!NoPeer
  BY <1>5 DEF Registered!NoPeer
<1>6. ASSUME NEW p \in Registered!Processes, Registered!ReadPid(c, p)
      PROVE  Right(c, peers'[c])
  <2>1. /\ p \in born
        /\ peers'[c] = [process |-> p, at |-> "read", pid |-> pid[p], found |-> None]
    BY <1>3, <1>6 DEF RegTyped, Registered!ReadPid, Registered!Becomes
  <2> QED BY <2>1
<1>7. CASE Registered!Find(c)
  <2>1. ASSUME NEW r \in registrations, r.pid = peers[c].pid, peers[c].at = "read",
               peers'[c] = [peers[c] EXCEPT !.at = "found", !.found = r]
        PROVE  Right(c, peers'[c])
    <3>1. /\ peers'[c].at = "found" /\ peers'[c].found = r
          /\ peers'[c].process = peers[c].process /\ peers'[c].pid = peers[c].pid
      BY <1>3, <2>1
    <3>2. /\ r \in Registered!Registration /\ r.process \in born
          /\ Registered!Alive(r.process) => pid[r.process] = r.pid
      BY <1>3 DEF RegTyped
    <3> QED BY <1>1, <2>1, <3>1, <3>2
  <2> QED BY <1>3, <1>5, <1>7, <2>1 DEF Registered!Find, Registered!Becomes
<1>8. CASE Registered!Classify(c)
  <2>1. ASSUME peers[c].at = "found", peers'[c] = [peers[c] EXCEPT !.at = "served"],
               Registered!SameProcess(c)
        PROVE  Right(c, peers'[c])
    <3>1. /\ peers'[c].at = "served" /\ peers'[c].found = peers[c].found
          /\ peers'[c].process = peers[c].process /\ peers'[c].pid = peers[c].pid
      BY <1>3, <2>1
    <3>2. pid[peers[c].process] = pid[peers[c].found.process]
      BY <1>1, <2>1 DEF Registered!SameProcess
    <3>3. peers[c].process \in Registered!Processes /\ peers[c].found.process \in Registered!Processes
      BY <1>1, <2>1 DEF RegTyped, Registered!TypeOK
    <3>4. peers[c].process = peers[c].found.process
      BY <2>1, <3>2, <3>3 DEF RegTyped, Registered!SameProcess
    <3> QED BY <1>1, <2>1, <3>1, <3>4
  <2> QED BY <1>3, <1>5, <1>8, <2>1 DEF Registered!Classify, Registered!Becomes
<1>9. \/ peers'[c] = peers[c] \/ peers'[c] = Registered!NoPeer
      \/ \E p \in Registered!Processes : Registered!ReadPid(c, p)
      \/ Registered!Find(c) \/ Registered!Classify(c)
  <2>1. ASSUME NEW d \in RegisteredPeers, d # c, NEW P, Registered!Becomes(d, P)
        PROVE  peers'[c] = peers[c]
    BY <1>3, <2>1 DEF Registered!Becomes
  <2>2. ASSUME NEW d \in RegisteredPeers,
               \/ \E p \in Registered!Processes : Registered!ReadPid(d, p)
               \/ Registered!Find(d) \/ Registered!Classify(d)
        PROVE  d = c \/ peers'[c] = peers[c]
    <3>1. \E P : Registered!Becomes(d, P)
      BY <2>2 DEF Registered!ReadPid, Registered!Find, Registered!Classify
    <3> QED BY <2>1, <3>1
  <2>3. ASSUME NEW d \in RegisteredPeers, Registered!Close(d)
        PROVE  peers'[c] = Registered!NoPeer \/ peers'[c] = peers[c]
    BY <1>3, <2>3 DEF Registered!Close, Registered!Becomes
  <2>4. ASSUME Registered!Stops
        PROVE  peers'[c] = Registered!NoPeer
    BY <2>4 DEF Registered!Stops
  <2>5. ASSUME \/ Registered!Thread \/ Registered!SessionEnds \/ Registered!Starts
               \/ Registered!DropExited \/ Registered!DropRegistrar
               \/ \E p \in Registered!Processes :
                    Registered!Launch(p) \/ Registered!StrangerRuns(p) \/ Registered!Exits(p)
               \/ UNCHANGED Registered!vars
        PROVE  peers' = peers
    BY <2>5 DEF Registered!Thread, Registered!SessionEnds, Registered!Starts,
       Registered!Launch, Registered!StrangerRuns, Registered!Exits, Registered!Lost,
       Registered!Forget, Registered!Received, Registered!Retry, Registered!Connect,
       Registered!RegisterAgain, Registered!Receive, Registered!DropExited,
       Registered!DropRegistrar, Registered!vars
  <2> QED BY <2>2, <2>3, <2>4, <2>5 DEF Registered!Next, Registered!Service
<1> QED BY <1>4, <1>5, <1>6, <1>7, <1>8, <1>9

\* Every step keeps what is registered of the connected thread's processes.
LEMMA Registered_Connected ==
    ASSUME RegTyped, RegConnected, [Registered!Next]_(Registered!vars)
    PROVE  RegConnected'
<1> DEFINE Known(p) == \E r \in registrations : r.process = p
<1>0. /\ None \notin Nat /\ RegisteredStops \in Nat
      /\ connected \in 0..RegisteredStops \cup {None} /\ up \in 0..RegisteredStops \cup {None}
      /\ stops \in 0..RegisteredStops
      /\ running \subseteq RegisteredLaunched /\ todo \subseteq running
      /\ RegisteredLaunched \subseteq Registered!Processes
  BY Registered_Bounds DEF RegTyped, Registered!TypeOK, Registered!Processes
<1>1. /\ born \subseteq born'
      /\ \A p \in born : Registered!Alive(p)' => Registered!Alive(p)
      /\ running \subseteq born /\ launches \subseteq born
  BY Registered_Pids DEF RegTyped
<1>2. ASSUME UNCHANGED <<connected, up, stops, serving>>, running' \ todo' \subseteq running \ todo,
             \A p \in running' : Registered!Alive(p)' /\ Known(p) => Known(p)',
             registrations' # {} => registrations # {}
      PROVE  RegConnected'
  BY <1>1, <1>2 DEF RegConnected, Registered!Connected
<1>3. ASSUME UNCHANGED <<connected, up, stops, serving, running, todo, registrations>>
      PROVE  RegConnected'
  BY <1>2, <1>3
<1>4. ASSUME connected' = None, UNCHANGED <<up, stops, serving, registrations>>
      PROVE  RegConnected'
  BY <1>4 DEF RegConnected, Registered!Connected
<1>5. ASSUME \/ \E p \in Registered!Processes :
                  Registered!Launch(p) \/ Registered!StrangerRuns(p) \/ Registered!Exits(p)
             \/ \E c \in RegisteredPeers, p \in Registered!Processes : Registered!ReadPid(c, p)
             \/ \E c \in RegisteredPeers :
                  Registered!Find(c) \/ Registered!Classify(c) \/ Registered!Close(c)
             \/ Registered!Received \/ Registered!Retry \/ UNCHANGED Registered!vars
      PROVE  RegConnected'
  <2>1. UNCHANGED <<connected, up, stops, serving, running, todo, registrations>>
    BY <1>5 DEF Registered!Launch, Registered!StrangerRuns, Registered!Exits,
       Registered!ReadPid, Registered!Find, Registered!Classify, Registered!Close,
       Registered!Received, Registered!Retry, Registered!vars, Registered!sessionVars,
       Registered!serviceVars
  <2> QED BY <1>3, <2>1
<1>6. CASE Registered!Lost \/ Registered!SessionEnds
  BY <1>4, <1>6 DEF Registered!Lost, Registered!SessionEnds, Registered!serviceVars
<1>7. CASE Registered!Forget
  BY <1>2, <1>7 DEF Registered!Forget, Registered!serviceVars
<1>8. ASSUME NEW p \in RegisteredLaunched, Registered!Receive(p)
      PROVE  RegConnected'
  <2>1. /\ p \in born /\ todo' = todo /\ running' = running \cup {p}
        /\ UNCHANGED <<up, stops, serving, pid>>
    BY <1>1, <1>8 DEF Registered!Receive
  <2>2. CASE Registered!Connected
    <3>1. /\ connected' = connected /\ registrations' = Registered!Registered(p)
      BY <1>8, <2>2 DEF Registered!Receive
    <3>2. /\ Registered!Alive(p) => Known(p)'
          /\ \A q \in RegisteredLaunched : Registered!Alive(q) /\ Known(q) => Known(q)'
      BY <2>1, <3>1, Registered_Registers
    <3>3. \A q \in running' \ todo' : Registered!Alive(q)' => Known(q)'
      BY <1>0, <1>1, <2>1, <2>2, <3>2 DEF RegConnected
    <3> HIDE DEF Known
    <3>4. serving /\ connected' = up
      BY <2>2, <3>1 DEF RegConnected, Registered!Connected
    <3> QED BY <2>1, <3>1, <3>3, <3>4 DEF RegConnected, Registered!Connected, Known
  <2>3. CASE ~Registered!Connected
    BY <1>4, <1>8, <2>1, <2>3 DEF Registered!Receive
  <2> QED BY <2>2, <2>3
<1>9. CASE Registered!Connect
  <2>1. CASE up # None
    <3>1. connected' = up /\ serving' = TRUE /\ todo' = running /\ running' = running
          /\ UNCHANGED <<up, stops, registrations>>
      BY <1>9, <2>1 DEF Registered!Connect
    <3> QED BY <1>0, <2>1, <3>1 DEF RegConnected, Registered!Connected
  <2>2. CASE up = None
    BY <1>4, <1>9, <2>2 DEF Registered!Connect, Registered!TriesAgain
  <2> QED BY <2>1, <2>2
<1>10. CASE Registered!RegisterAgain
  <2>0. UNCHANGED <<running, up, stops, serving, pid>>
    BY <1>10 DEF Registered!RegisterAgain
  <2>1. ASSUME NEW p \in todo, Registered!Connected, todo' = todo \ {p},
               registrations' = Registered!Registered(p), connected' = connected
        PROVE  RegConnected'
    <3>1. p \in born /\ p \in RegisteredLaunched
      BY <1>0, <1>1
    <3>2. /\ Registered!Alive(p) => Known(p)'
          /\ \A q \in RegisteredLaunched : Registered!Alive(q) /\ Known(q) => Known(q)'
      BY <2>1, <3>1, Registered_Registers
    <3>3. \A q \in running' \ todo' : Registered!Alive(q)' => Known(q)'
      BY <1>0, <1>1, <2>0, <2>1, <3>2 DEF RegConnected
    <3> HIDE DEF Known
    <3>4. serving /\ connected' = up
      BY <2>1 DEF RegConnected, Registered!Connected
    <3> QED BY <2>0, <2>1, <3>3, <3>4 DEF RegConnected, Registered!Connected, Known
  <2>2. CASE todo = {} /\ UNCHANGED <<connected, todo, registrations>>
    BY <1>3, <2>0, <2>2
  <2>3. CASE Registered!TriesAgain /\ UNCHANGED registrations
    BY <1>4, <2>0, <2>3 DEF Registered!TriesAgain
  <2> QED BY <1>10, <2>1, <2>2, <2>3 DEF Registered!RegisterAgain
<1>11. CASE Registered!DropExited
  <2>1. PICK r \in registrations : ~Registered!Alive(r.process) /\ registrations' = registrations \ {r}
    BY <1>11 DEF Registered!DropExited
  <2>2. UNCHANGED <<connected, up, stops, serving, running, todo, pid>>
    BY <1>11 DEF Registered!DropExited, Registered!sessionVars
  <2>3. \A p \in running' : Registered!Alive(p)' /\ Known(p) => Known(p)'
    BY <2>1, <2>2 DEF Registered!Alive
  <2> HIDE DEF Known
  <2> QED BY <1>2, <2>1, <2>2, <2>3
<1>12. CASE Registered!DropRegistrar
  BY <1>12 DEF Registered!DropRegistrar, Registered!sessionVars, RegConnected, Registered!Connected
<1>13. CASE Registered!Stops
  <2>1. /\ up # None /\ up' = None /\ stops' = stops + 1 /\ registrations' = {}
        /\ connected' = connected
    BY <1>13 DEF Registered!Stops, Registered!sessionVars
  <2> QED BY <1>0, <2>1 DEF RegConnected, Registered!Connected
<1>14. CASE Registered!Starts
  <2>1. /\ up = None /\ up' = stops /\ UNCHANGED <<stops, registrations, serving, connected>>
    BY <1>14 DEF Registered!Starts, Registered!sessionVars
  <2>2. ~(connected # None /\ connected = stops)
    BY <1>0, <2>1 DEF RegConnected
  <2> QED BY <1>0, <2>1, <2>2 DEF RegConnected, Registered!Connected
<1> QED BY <1>5, <1>6, <1>7, <1>8, <1>9, <1>10, <1>11, <1>12, <1>13, <1>14
        DEF Registered!Next, Registered!Thread, Registered!Service

\* Every step keeps the count of the places.
LEMMA Registered_Places ==
    ASSUME RegTyped, Registered!PlacesCounted, [Registered!Next]_(Registered!vars)
    PROVE  Registered!PlacesCounted'
<1> DEFINE Served == {c \in RegisteredPeers : peers[c].at = "served"}
<1>1. IsFiniteSet(RegisteredPeers) /\ Served \subseteq RegisteredPeers
  BY Registered_Bounds
<1>2. IsFiniteSet(Served)
  BY <1>1, FS_Subset
<1>3. /\ Registered!PlacesCounted <=> places = Cardinality(Served)
      /\ Registered!PlacesCounted' <=> places' = Cardinality(Served')
  BY Zenon, Registered_Sizes DEF Registered!PlacesCounted
<1>4. places = Cardinality(Served)
  BY <1>3
<1>5. peers \in [RegisteredPeers -> [process: Registered!Processes \cup {None},
                   at: {"none", "read", "found", "served"}, pid: RegisteredPids \cup {None},
                   found: Registered!Registration \cup {None}]]
  BY DEF RegTyped, Registered!TypeOK
<1>6. ASSUME places' = places, \A c \in RegisteredPeers : peers'[c].at = "served" <=> peers[c].at = "served"
      PROVE  places' = Cardinality(Served')
  <2>1. Served' = Served
    BY <1>6
  <2> QED BY <1>4, <1>6, <2>1
<1>7. ASSUME NEW c \in RegisteredPeers, NEW p \in Registered!Processes, Registered!ReadPid(c, p)
      PROVE  places' = Cardinality(Served')
  BY <1>5, <1>6, <1>7 DEF Registered!ReadPid, Registered!Becomes, Registered!NoPeer,
     Registered!serviceVars
<1>8. ASSUME NEW c \in RegisteredPeers, Registered!Find(c)
      PROVE  places' = Cardinality(Served')
  <2>1. places' = places /\ peers[c].at = "read"
    BY <1>8 DEF Registered!Find, Registered!serviceVars
  <2>2. PICK n : n.at # "served" /\ peers' = [peers EXCEPT ![c] = n]
    BY <1>5, <1>8 DEF Registered!Find, Registered!Becomes, Registered!NoPeer
  <2> QED BY <1>5, <1>6, <2>1, <2>2
<1>9. ASSUME NEW c \in RegisteredPeers, Registered!Classify(c)
      PROVE  places' = Cardinality(Served')
  <2>1. CASE /\ Registered!Becomes(c, [peers[c] EXCEPT !.at = "served"]) /\ places' = places + 1
    <3>1. /\ c \notin Served /\ Served' = Served \cup {c}
      BY <1>5, <1>9, <2>1 DEF Registered!Classify, Registered!Becomes
    <3>2. Cardinality(Served \cup {c}) = Cardinality(Served) + 1
      BY <1>2, <3>1, FS_AddElement
    <3> HIDE DEF Served
    <3> QED BY <1>4, <2>1, <3>1, <3>2
  <2>2. CASE Registered!Becomes(c, Registered!NoPeer) /\ UNCHANGED places
    BY <1>5, <1>6, <1>9, <2>2 DEF Registered!Classify, Registered!Becomes, Registered!NoPeer
  <2> QED BY <1>9, <2>1, <2>2 DEF Registered!Classify
<1>10. ASSUME NEW c \in RegisteredPeers, Registered!Close(c)
       PROVE  places' = Cardinality(Served')
  <2>1. places' = places - 1 /\ c \in Served /\ Served' = Served \ {c}
    BY <1>5, <1>10 DEF Registered!Close, Registered!Becomes, Registered!NoPeer
  <2>2. Cardinality(Served \ {c}) = Cardinality(Served) - 1
    BY <1>2, <2>1, FS_RemoveElement
  <2> HIDE DEF Served
  <2> QED BY <1>4, <2>1, <2>2
<1>11. ASSUME Registered!Stops
       PROVE  places' = Cardinality(Served')
  <2>1. places' = 0 /\ Served' = {}
    BY <1>11 DEF Registered!Stops, Registered!NoPeer
  <2> HIDE DEF Served
  <2> QED BY <2>1, FS_EmptySet
<1>12. ASSUME \/ Registered!Thread \/ Registered!SessionEnds \/ Registered!Starts
              \/ Registered!DropExited \/ Registered!DropRegistrar
              \/ \E p \in Registered!Processes :
                   Registered!Launch(p) \/ Registered!StrangerRuns(p) \/ Registered!Exits(p)
              \/ UNCHANGED Registered!vars
       PROVE  places' = Cardinality(Served')
  <2>1. UNCHANGED <<places, peers>>
    BY <1>12 DEF Registered!Thread, Registered!SessionEnds, Registered!Starts,
       Registered!Launch, Registered!StrangerRuns, Registered!Exits, Registered!Lost,
       Registered!Forget, Registered!Received, Registered!Retry, Registered!Connect,
       Registered!RegisterAgain, Registered!Receive, Registered!DropExited,
       Registered!DropRegistrar, Registered!vars, Registered!serviceVars
  <2> QED BY <1>6, <2>1
<1> HIDE DEF Served
<1>13. places' = Cardinality(Served')
  BY <1>7, <1>8, <1>9, <1>10, <1>11, <1>12 DEF Registered!Next, Registered!Service
<1> QED BY <1>3, <1>13 DEF Served

-----------------------------------------------------------------------------
(* What a session is told, and which of its processes are served.            *)

\* What holds of the sessions of whichever part runs.
SessionsInv ==
    /\ \A p \in SnapshotParts : part = p => SnapsTyped(p) /\ SnapsOrdered(p)
    /\ part = "snapshots" => SnapsToldNow("snapshots")
    /\ part = "registrations" =>
         RegTyped /\ RegPeers /\ RegConnected /\ Registered!PlacesCounted

\* A step is one of the part that runs, or changes nothing of its.
LEMMA Sessions_Steps ==
    ASSUME [Next]_vars
    PROVE  /\ \A p \in SnapshotParts : part = p => [Snapshots(p)!Next]_(Snapshots(p)!vars)
           /\ part = "registrations" => [Registered!Next]_(Registered!vars)
<1>1. ASSUME NEW p \in SnapshotParts, part = p
      PROVE  [Snapshots(p)!Next]_(Snapshots(p)!vars)
  <2>1. CASE SnapshotsGoes
    BY <1>1, <2>1 DEF SnapshotsGoes
  <2>2. CASE UNCHANGED snapshotsVars
    BY <2>2 DEF snapshotsVars, Snapshots!vars, Snapshots!changeVars, Snapshots!toldVars
  <2> QED BY <2>1, <2>2 DEF Next, vars, AccountGoes, RegistrarGoes, InstallerGoes,
          CacheGoes, FetchGoes, NetworkGoes, ImagesGoes
<1>2. ASSUME part = "registrations"
      PROVE  [Registered!Next]_(Registered!vars)
  <2>1. CASE RegistrarGoes
    BY <2>1 DEF RegistrarGoes
  <2>2. CASE UNCHANGED registrarVars
    BY <2>2 DEF registrarVars, Registered!vars, Registered!sessionVars, Registered!serviceVars
  <2> QED BY <2>1, <2>2 DEF Next, vars, AccountGoes, SnapshotsGoes, InstallerGoes,
          CacheGoes, FetchGoes, NetworkGoes, ImagesGoes
<1> QED BY <1>1, <1>2

\* The sessions' invariant holds throughout.
LEMMA Services_SessionsInv == Spec => []SessionsInv
<1>1. Init => SessionsInv
  <2>1. ASSUME Init, NEW p \in SnapshotParts, part = p
        PROVE  SnapsTyped(p) /\ SnapsOrdered(p) /\ SnapsToldNow(p)
    <3>1. Snapshots(p)!Init
      BY <2>1 DEF Init, SnapshotParts
    <3> QED BY <3>1, Snapshots_Init
  <2>2. ASSUME Init
        PROVE  RegTyped /\ RegPeers /\ RegConnected /\ Registered!PlacesCounted
    <3>1. Registered!Init
      BY <2>2 DEF Init
    <3>2. places = 0 /\ {c \in RegisteredPeers : peers[c].at = "served"} = {}
      BY <3>1 DEF Registered!Init, Registered!NoPeer
    <3>3. Registered!PlacesCounted
      BY Zenon, <3>2, FS_EmptySet, Registered_Sizes DEF Registered!PlacesCounted
    <3> QED BY <3>1, <3>3, Registered_Init
  <2> QED BY <2>1, <2>2 DEF SessionsInv, SnapshotParts
<1>2. SessionsInv /\ [Next]_vars => SessionsInv'
  <2> SUFFICES ASSUME SessionsInv, [Next]_vars PROVE SessionsInv'
    OBVIOUS
  <2>1. part' = part
    BY Part_Stays
  <2>2. ASSUME NEW p \in SnapshotParts, part = p
        PROVE  SnapsTyped(p)' /\ SnapsOrdered(p)'
    BY <2>2, Sessions_Steps, Snapshots_Typed, Snapshots_Ordered DEF SessionsInv
  <2>3. ASSUME part = "snapshots"
        PROVE  SnapsToldNow("snapshots")'
    BY <2>3, Sessions_Steps, Snapshots_ToldNow DEF SessionsInv, SnapshotParts
  <2>4. ASSUME part = "registrations"
        PROVE  (RegTyped /\ RegPeers /\ RegConnected /\ Registered!PlacesCounted)'
    BY <2>4, Sessions_Steps, Registered_Typed, Registered_Peers, Registered_Connected,
       Registered_Places DEF SessionsInv
  <2> QED BY <2>1, <2>2, <2>3, <2>4 DEF SessionsInv
<1> QED BY <1>1, <1>2, PTL DEF Spec

(* SessionsToldAndServed, for any subscribers, processes, pids, connections *)
(* and bounds.                                                              *)
THEOREM Services_SessionsToldAndServed == Spec => []SessionsToldAndServed
<1>1. SessionsInv => SessionsToldAndServed
  <2> SUFFICES ASSUME SessionsInv PROVE SessionsToldAndServed
    OBVIOUS
  <2>1. \A p \in SnapshotParts : part = p => Snapshots(p)!TypeOK
    BY DEF SessionsInv, SnapsTyped
  <2>2. part = "snapshots" => Snapshots("snapshots")!ToldLatest
    BY DEF SessionsInv, SnapsToldNow, Snapshots!ToldLatest
  <2>3. part = "registrations" => Registered!TypeOK /\ Registered!PlacesCounted
    BY DEF SessionsInv, RegTyped
  <2>4. part = "registrations" => Registered!ServedIsRegistered
    BY DEF SessionsInv, RegPeers, Registered!ServedIsRegistered
  <2>5. part = "registrations" => Registered!RegistrationsServed /\ Registered!ConnectedRegistered
    BY DEF SessionsInv, RegConnected, RegTyped, Registered!RegistrationsServed,
       Registered!ConnectedRegistered
  <2> QED BY <2>1, <2>2, <2>3, <2>4, <2>5 DEF SessionsToldAndServed
<1> QED BY <1>1, Services_SessionsInv, PTL

-----------------------------------------------------------------------------
(* What is answered from the cache.                                          *)

\* What the server answers, and a request the network was asked.
Answers(p) == [same: BOOLEAN, version: Fetch(p)!Version, age: 0..FetchAge(p),
               lifetime: FetchLifetimes(p), validator: BOOLEAN]
Pending(p) == [at: {"sent", "answered"}, policy: Fetch(p)!Policies, again: BOOLEAN,
               variant: FetchVariants(p), since: Fetch(p)!Version,
               with: Fetch(p)!Entry \cup {None}, answer: Answers(p) \cup {None}]

\* The server had this since then, or as long before as its age.
Had(version, since, age) == \E t \in 0..now : version \in history[t] /\ t + age >= since

\* Type correctness.
FetchTyped(p) ==
    /\ offers \in [lifetime: FetchLifetimes(p), validator: BOOLEAN, storable: BOOLEAN]
    /\ now \in Fetch(p)!Version /\ current \in 0..now
    /\ history \in [Fetch(p)!Version -> SUBSET Fetch(p)!Version]
    /\ stored \in Fetch(p)!Entry \cup {None}
    /\ request \in [FetchCallers -> {[at |-> "none"]} \cup Pending(p)]

\* What is stored, what the network answers and what is given are what the server had, at
\* the times they are of; an entry a request is sent with is of its variant.
FetchHad(p) ==
    /\ stored # None =>
         /\ stored.requested <= stored.received /\ stored.received <= now
         /\ Had(stored.version, stored.requested, stored.age)
    /\ \A r \in FetchCallers :
         /\ request[r].at # "none" =>
              /\ request[r].since <= now
              /\ request[r].with # None => request[r].with.variant = request[r].variant
         /\ request[r].at = "answered" =>
              /\ request[r].answer \in Answers(p)
              /\ Had(request[r].answer.version, request[r].since, request[r].answer.age)
              /\ request[r].answer.same =>
                   request[r].with # None /\ request[r].with.version = request[r].answer.version
    /\ last # None =>
         /\ last.variant = last.wanted
         /\ \/ last.source = "network" /\ Had(last.version, last.since, last.span)
            \/ /\ last.source = "cache" /\ last.policy # "reload"
               /\ last.policy = "default" =>
                    ~last.again /\ \E t \in 0..now :
                                     last.version \in history[t] /\ t + last.span > last.since

\* What is assumed of the constants.
LEMMA Fetch_Bounds ==
    ASSUME NEW CONSTANT p \in FetchParts
    PROVE  /\ FetchLifetimes(p) \subseteq Nat /\ FetchAge(p) \in Nat /\ FetchTime(p) \in Nat
           /\ Fetch(p)!Version = 0..FetchTime(p)
<1>1. Fetch(p)!FetchBounds
  BY FetchesBounds
<1> QED BY <1>1 DEF Fetch!FetchBounds, Fetch!Version

\* What holds where the requests start.
LEMMA Fetch_Init ==
    ASSUME NEW CONSTANT p \in FetchParts, Fetch(p)!Init
    PROVE  FetchTyped(p) /\ FetchHad(p)
BY Fetch_Bounds DEF Fetch!Init, FetchTyped, FetchHad

\* What the server had stays so: the clock goes on, and only its tick is added to.
LEMMA Had_Stays ==
    ASSUME NEW CONSTANT p \in FetchParts, FetchTyped(p), [Fetch(p)!Next]_(Fetch(p)!vars)
    PROVE  /\ now' \in Nat /\ now <= now' /\ \A t \in 0..now : history[t] \subseteq history'[t]
           /\ \A version, since, age : Had(version, since, age) => Had(version, since, age)'
<1>1. now' \in Nat /\ now <= now' /\ \A t \in 0..now : history[t] \subseteq history'[t]
  <2>1. /\ now \in 0..FetchTime(p) /\ FetchTime(p) \in Nat
        /\ history \in [0..FetchTime(p) -> SUBSET Fetch(p)!Version]
    BY Fetch_Bounds DEF FetchTyped
  <2>2. CASE Fetch(p)!Tick
    BY <2>1, <2>2, Fetch_Bounds DEF Fetch!Tick
  <2>3. CASE Fetch(p)!Change
    BY <2>1, <2>3 DEF Fetch!Change
  <2>4. ASSUME UNCHANGED <<now, history>>
        PROVE  now' \in Nat /\ now <= now' /\ \A t \in 0..now : history[t] \subseteq history'[t]
    BY <2>1, <2>4
  <2> QED BY <2>2, <2>3, <2>4 DEF Fetch!Next, Fetch!Lose, Fetch!Ask, Fetch!ServerAnswers,
          Fetch!Receive, Fetch!Break, Fetch!vars
<1>2. ASSUME NEW version, NEW since, NEW age, Had(version, since, age)
      PROVE  Had(version, since, age)'
  <2>1. PICK t \in 0..now : version \in history[t] /\ t + age >= since
    BY <1>2 DEF Had
  <2>2. t \in 0..now' /\ version \in history'[t]
    BY <1>1, <2>1, Fetch_Bounds DEF FetchTyped
  <2> QED BY <2>1, <2>2 DEF Had
<1> QED BY <1>1, <1>2

\* The entry an answer makes is of the request's variant, and what the server had.
LEMMA Answered_Is ==
    ASSUME NEW CONSTANT p \in FetchParts, FetchTyped(p), FetchHad(p),
           NEW r \in FetchCallers, request[r].at = "answered"
    PROVE  LET gained == Fetch(p)!Answered(r) IN
           /\ gained \in Fetch(p)!Entry
           /\ gained.requested = request[r].since /\ gained.received = now
           /\ gained.version = request[r].answer.version /\ gained.variant = request[r].variant
           /\ Had(gained.version, request[r].since, gained.age)
<1> DEFINE asked == request[r]
           answer == request[r].answer
           with == request[r].with
<1>1. /\ asked \in Pending(p) /\ answer \in Answers(p) /\ asked.since <= now
      /\ Had(answer.version, asked.since, answer.age)
      /\ answer.same => with # None /\ with.version = answer.version /\ with.variant = asked.variant
      /\ with \in Fetch(p)!Entry \cup {None}
  <2>1. request[r] \in {[at |-> "none"]} \cup Pending(p)
    BY DEF FetchTyped
  <2>2. request[r] \in Pending(p)
    BY <2>1
  <2> QED BY <2>2 DEF FetchHad, Pending
<1>2. now \in Fetch(p)!Version /\ now \in Nat
  BY Fetch_Bounds DEF FetchTyped
<1>3. CASE answer.same
  <2>1. with \in Fetch(p)!Entry /\ with.version = answer.version /\ with.variant = asked.variant
    BY <1>1, <1>3
  <2>2. Fetch(p)!Answered(r) = Fetch(p)!Refreshed(with, answer, asked.since, now)
    BY <1>3 DEF Fetch!Answered
  <2> DEFINE age == IF answer.age = 0 THEN with.age ELSE answer.age
  <2>3. Fetch(p)!Answered(r) = [with EXCEPT !.lifetime = answer.lifetime, !.age = age,
                                  !.requested = asked.since, !.received = now]
    BY <2>2 DEF Fetch!Refreshed
  <2>4. age \in 0..FetchAge(p) /\ age >= answer.age /\ age \in Nat /\ answer.age \in Nat
    BY <1>1, <2>1, Fetch_Bounds DEF Fetch!Entry, Answers
  <2>5. Had(answer.version, asked.since, age)
    <3>1. asked.since \in Nat
      BY <1>1, Fetch_Bounds DEF Pending
    <3>2. PICK t \in 0..now : answer.version \in history[t] /\ t + answer.age >= asked.since
      BY <1>1 DEF Had
    <3>3. t + age >= asked.since
      BY <2>4, <3>1, <3>2
    <3> QED BY <3>2, <3>3 DEF Had
  <2> DEFINE gained == [with EXCEPT !.lifetime = answer.lifetime, !.age = age,
                         !.requested = asked.since, !.received = now]
  <2> HIDE DEF age
  <2>6. /\ asked.since \in Fetch(p)!Version /\ answer.lifetime \in FetchLifetimes(p)
    BY <1>1 DEF Answers, Pending
  <2>7. /\ gained \in Fetch(p)!Entry /\ gained.requested = asked.since /\ gained.received = now
        /\ gained.version = with.version /\ gained.variant = with.variant /\ gained.age = age
    BY <1>2, <2>1, <2>4, <2>6 DEF Fetch!Entry
  <2> HIDE DEF gained
  <2> QED BY <2>1, <2>3, <2>5, <2>7 DEF gained
<1>4. CASE ~answer.same
  <2>1. Fetch(p)!Answered(r) =
          [version |-> answer.version, variant |-> asked.variant, lifetime |-> answer.lifetime,
           age |-> answer.age, validator |-> answer.validator,
           requested |-> asked.since, received |-> now]
    BY <1>4 DEF Fetch!Answered
  <2> QED BY <1>1, <1>2, <2>1 DEF Fetch!Entry, Answers, Pending
<1> QED BY <1>3, <1>4

\* Every step of the requests keeps their types.
LEMMA Fetch_Typed ==
    ASSUME NEW CONSTANT p \in FetchParts, FetchTyped(p), FetchHad(p),
           [Fetch(p)!Next]_(Fetch(p)!vars)
    PROVE  FetchTyped(p)'
<1> DEFINE Request == {[at |-> "none"]} \cup Pending(p)
<1>0. /\ FetchTime(p) \in Nat /\ Fetch(p)!Version = 0..FetchTime(p)
      /\ now \in 0..FetchTime(p) /\ current \in 0..now
      /\ history \in [Fetch(p)!Version -> SUBSET Fetch(p)!Version]
      /\ \A r \in FetchCallers : request[r] \in Request
  BY Fetch_Bounds DEF FetchTyped
<1>1. CASE Fetch(p)!Tick
  BY <1>0, <1>1 DEF Fetch!Tick, FetchTyped, Fetch!Entry, Pending, Answers
<1>2. CASE Fetch(p)!Change
  BY <1>0, <1>2 DEF Fetch!Change, FetchTyped, Fetch!Entry, Pending, Answers
<1>3. CASE Fetch(p)!Lose
  BY <1>3 DEF Fetch!Lose, FetchTyped
<1>4. ASSUME NEW r \in FetchCallers, NEW next \in Request, Fetch(p)!Goes(r, next),
             stored' \in Fetch(p)!Entry \cup {None}, UNCHANGED <<offers, now, current, history>>
      PROVE  FetchTyped(p)'
  BY <1>4 DEF FetchTyped, Fetch!Goes
<1>5. ASSUME NEW r \in FetchCallers, NEW policy \in Fetch(p)!Policies, NEW again \in BOOLEAN,
             NEW variant \in FetchVariants(p), Fetch(p)!Ask(r, policy, again, variant)
      PROVE  FetchTyped(p)'
  <2> DEFINE usable == policy # "reload" /\ stored # None
             found == IF usable THEN IF Fetch(p)!Serves(stored, variant) THEN stored ELSE None
                              ELSE None
             asked == [at |-> "sent", policy |-> policy, again |-> again, variant |-> variant,
                       since |-> now, with |-> found, answer |-> None]
  <2>1. found \in Fetch(p)!Entry \cup {None}
    BY DEF FetchTyped
  <2>2. asked \in Pending(p)
    <3> HIDE DEF found
    <3> QED BY <1>0, <1>5, <2>1 DEF Pending
  <2>3. Fetch(p)!Goes(r, [at |-> "none"]) \/ Fetch(p)!Goes(r, asked)
    BY Zenon, <1>5 DEF Fetch!Ask, Fetch!Gives
  <2>4. UNCHANGED <<offers, now, current, history, stored>>
    BY <1>5 DEF Fetch!Ask
  <2> HIDE DEF asked
  <2> QED BY <1>4, <2>2, <2>3, <2>4 DEF FetchTyped
<1>6. ASSUME NEW r \in FetchCallers, NEW age \in 0..FetchAge(p), Fetch(p)!ServerAnswers(r, age)
      PROVE  FetchTyped(p)'
  <2>1. PICK version \in history[now - age], same \in BOOLEAN :
          Fetch(p)!Goes(r, [request[r] EXCEPT !.at = "answered",
            !.answer = [same |-> same, version |-> version, age |-> age,
                        lifetime |-> offers.lifetime, validator |-> offers.validator]])
    BY <1>6 DEF Fetch!ServerAnswers
  <2>2. /\ now - age \in Fetch(p)!Version /\ request[r] \in Pending(p)
        /\ UNCHANGED <<offers, now, current, history, stored>>
    BY <1>0, <1>6, Fetch_Bounds DEF Fetch!ServerAnswers
  <2>3. version \in Fetch(p)!Version
    BY <1>0, <2>1, <2>2
  <2>4. [same |-> same, version |-> version, age |-> age, lifetime |-> offers.lifetime,
         validator |-> offers.validator] \in Answers(p)
    BY <1>6, <2>3 DEF Answers, FetchTyped
  <2>5. [request[r] EXCEPT !.at = "answered",
           !.answer = [same |-> same, version |-> version, age |-> age,
                       lifetime |-> offers.lifetime, validator |-> offers.validator]]
        \in Pending(p)
    BY <2>2, <2>4 DEF Pending
  <2> QED BY <1>4, <2>1, <2>2, <2>5 DEF FetchTyped
<1>7. ASSUME NEW r \in FetchCallers, Fetch(p)!Receive(r)
      PROVE  FetchTyped(p)'
  <2>1. /\ request[r].at = "answered" /\ Fetch(p)!Goes(r, [at |-> "none"])
        /\ stored' = Fetch(p)!Answered(r) \/ stored' = stored
        /\ UNCHANGED <<offers, now, current, history>>
    BY <1>7 DEF Fetch!Receive, Fetch!Gives
  <2>2. stored' \in Fetch(p)!Entry \cup {None}
    BY <2>1, Answered_Is DEF FetchTyped
  <2> QED BY <1>4, <2>1, <2>2
<1>8. ASSUME NEW r \in FetchCallers, Fetch(p)!Break(r)
      PROVE  FetchTyped(p)'
  BY <1>4, <1>8 DEF Fetch!Break, FetchTyped
<1>9. CASE UNCHANGED Fetch(p)!vars
  BY <1>9 DEF Fetch!vars, FetchTyped, Fetch!Entry, Pending, Answers
<1> QED BY <1>1, <1>2, <1>3, <1>5, <1>6, <1>7, <1>8, <1>9 DEF Fetch!Next

\* Every step keeps what is stored, answered and given what the server had.
LEMMA Fetch_Had ==
    ASSUME NEW CONSTANT p \in FetchParts, FetchTyped(p), FetchHad(p),
           [Fetch(p)!Next]_(Fetch(p)!vars)
    PROVE  FetchHad(p)'
<1> DEFINE StoredHad ==
             stored # None =>
               /\ stored.requested <= stored.received /\ stored.received <= now
               /\ Had(stored.version, stored.requested, stored.age)
           AskedHad(r) ==
             /\ request[r].at # "none" =>
                  /\ request[r].since <= now
                  /\ request[r].with # None => request[r].with.variant = request[r].variant
             /\ request[r].at = "answered" =>
                  /\ request[r].answer \in Answers(p)
                  /\ Had(request[r].answer.version, request[r].since, request[r].answer.age)
                  /\ request[r].answer.same =>
                       /\ request[r].with # None
                       /\ request[r].with.version = request[r].answer.version
           GivenHad ==
             last # None =>
               /\ last.variant = last.wanted
               /\ \/ last.source = "network" /\ Had(last.version, last.since, last.span)
                  \/ /\ last.source = "cache" /\ last.policy # "reload"
                     /\ last.policy = "default" =>
                          ~last.again /\ \E t \in 0..now :
                            last.version \in history[t] /\ t + last.span > last.since
<1>0. FetchHad(p) <=> StoredHad /\ (\A r \in FetchCallers : AskedHad(r)) /\ GivenHad
  BY DEF FetchHad
<1>1. FetchHad(p)' <=> StoredHad' /\ (\A r \in FetchCallers : AskedHad(r)') /\ GivenHad'
  BY DEF FetchHad
<1>2. /\ now \in Nat /\ now' \in Nat /\ now <= now' /\ \A t \in 0..now : history[t] \subseteq history'[t]
      /\ \A version, since, age : Had(version, since, age) => Had(version, since, age)'
  BY Had_Stays, Fetch_Bounds DEF FetchTyped
<1>3. /\ stored \in Fetch(p)!Entry \cup {None}
      /\ request \in [FetchCallers -> {[at |-> "none"]} \cup Pending(p)]
      /\ \A r \in FetchCallers : request[r].at # "none" =>
           request[r] \in Pending(p) /\ request[r].since \in Nat
      /\ stored # None => stored \in Fetch(p)!Entry /\ stored.received \in Nat
           /\ stored.requested \in Nat /\ stored.age \in Nat /\ stored.lifetime \in Nat
  BY Fetch_Bounds DEF FetchTyped, Pending, Fetch!Entry
<1>4. ASSUME stored' = stored
      PROVE  StoredHad'
  BY <1>0, <1>2, <1>3, <1>4
<1>5. ASSUME NEW r \in FetchCallers, request'[r] = request[r]
      PROVE  AskedHad(r)'
  <2>1. AskedHad(r) /\ (request[r].at # "none" => request[r].since \in Nat)
    BY <1>0, <1>3
  <2> QED BY <1>2, <1>5, <2>1
<1>6. ASSUME last' = last
      PROVE  GivenHad'
  <2>1. GivenHad
    BY <1>0
  <2>2. \A t \in 0..now : t \in 0..now'
    BY <1>2
  <2> QED BY <1>2, <1>6, <2>1, <2>2
<1>7. ASSUME NEW r \in FetchCallers, NEW next, Fetch(p)!Goes(r, next)
      PROVE  /\ request'[r] = next
             /\ \A c \in FetchCallers \ {r} : request'[c] = request[c]
  BY <1>3, <1>7 DEF Fetch!Goes
<1> HIDE DEF StoredHad, AskedHad, GivenHad
<1>8. ASSUME UNCHANGED <<request, last>>, stored' = None \/ stored' = stored
      PROVE  FetchHad(p)'
  <2>1. StoredHad'
    BY <1>4, <1>8 DEF StoredHad
  <2> QED BY <1>1, <1>5, <1>6, <1>8, <2>1
<1>9. ASSUME NEW r \in FetchCallers, NEW policy \in Fetch(p)!Policies, NEW again \in BOOLEAN,
             NEW variant \in FetchVariants(p), Fetch(p)!Ask(r, policy, again, variant)
      PROVE  FetchHad(p)'
  <2> DEFINE usable == policy # "reload" /\ stored # None
             found == IF usable THEN IF Fetch(p)!Serves(stored, variant) THEN stored ELSE None
                              ELSE None
             asked == [at |-> "sent", policy |-> policy, again |-> again, variant |-> variant,
                       since |-> now, with |-> found, answer |-> None]
  <2>1. UNCHANGED <<offers, now, current, history, stored>>
    BY <1>9 DEF Fetch!Ask
  <2>2. found # None => /\ found = stored /\ stored # None /\ policy # "reload"
                        /\ stored.variant = variant
    BY DEF Fetch!Serves
  <2>3. CASE Fetch(p)!Usable(found, policy, again)
    <3>1. Fetch(p)!Gives(r, asked, found.version, found.variant, "cache", found.lifetime)
      BY Zenon, <1>9, <2>3 DEF Fetch!Ask
    <3>2. /\ found = stored /\ stored # None /\ policy # "reload" /\ stored.variant = variant
          /\ policy = "default" => ~again /\ Fetch(p)!Fresh(stored, now)
      BY <2>2, <2>3 DEF Fetch!Usable
    <3>3. Fetch(p)!Goes(r, [at |-> "none"])
      BY <3>1 DEF Fetch!Gives
    <3>4. last' = [policy |-> policy, again |-> again, wanted |-> variant, since |-> now,
                   version |-> stored.version, variant |-> variant, source |-> "cache",
                   span |-> stored.lifetime]
      <4>1. last' = [policy |-> asked.policy, again |-> asked.again, wanted |-> asked.variant,
                     since |-> asked.since, version |-> found.version, variant |-> found.variant,
                     source |-> "cache", span |-> found.lifetime]
        BY Zenon, <3>1 DEF Fetch!Gives
      <4>2. asked.policy = policy /\ asked.again = again /\ asked.variant = variant /\ asked.since = now
        BY DEF asked
      <4> HIDE DEF asked, found
      <4> QED BY Zenon, <3>2, <4>1, <4>2
    <3>5. ASSUME Fetch(p)!Fresh(stored, now)
          PROVE  \E t \in 0..now : stored.version \in history[t] /\ t + stored.lifetime > now
      <4>1. /\ stored.requested <= stored.received /\ stored.received <= now
            /\ Had(stored.version, stored.requested, stored.age)
        BY <1>0, <3>2 DEF StoredHad
      <4>2. PICK t \in 0..now : stored.version \in history[t] /\ t + stored.age >= stored.requested
        BY <4>1 DEF Had
      <4>3. (stored.age + (stored.received - stored.requested)) + (now - stored.received)
              < stored.lifetime
        BY <3>5 DEF Fetch!Fresh, Fetch!Age
      <4>4. t + stored.lifetime > now
        BY <1>2, <1>3, <3>2, <4>1, <4>2, <4>3
      <4> QED BY <4>2, <4>4
    <3>6. GivenHad'
      BY <2>1, <3>2, <3>4, <3>5 DEF GivenHad
    <3>7. AskedHad(r)'
      BY <1>7, <3>3 DEF AskedHad
    <3> QED BY <1>1, <1>4, <1>5, <1>7, <2>1, <3>3, <3>6, <3>7
  <2>4. CASE ~Fetch(p)!Usable(found, policy, again)
    <3>1. /\ last' = None
          /\ Fetch(p)!Goes(r, [at |-> "none"]) \/ Fetch(p)!Goes(r, asked)
      BY Zenon, <1>9, <2>4 DEF Fetch!Ask
    <3>2. GivenHad'
      BY <3>1 DEF GivenHad
    <3>3. AskedHad(r)'
      <4>1. CASE Fetch(p)!Goes(r, [at |-> "none"])
        BY <1>7, <4>1 DEF AskedHad
      <4>2. CASE Fetch(p)!Goes(r, asked)
        <5>1. request'[r] = asked
          BY <1>7, <4>2
        <5>2. /\ asked.at = "sent" /\ asked.since = now /\ asked.variant = variant
              /\ asked.with = found
          BY DEF asked
        <5>3. found # None => found.variant = variant
          BY <2>2
        <5> HIDE DEF asked, found
        <5> QED BY <1>2, <2>1, <5>1, <5>2, <5>3 DEF AskedHad
      <4> QED BY <3>1, <4>1, <4>2
    <3>4. \A c \in FetchCallers \ {r} : request'[c] = request[c]
      BY <1>7, <3>1
    <3> QED BY <1>1, <1>4, <1>5, <2>1, <3>2, <3>3, <3>4
  <2> QED BY <2>3, <2>4
<1>10. ASSUME NEW r \in FetchCallers, NEW age \in 0..FetchAge(p), Fetch(p)!ServerAnswers(r, age)
       PROVE  FetchHad(p)'
  <2>0. /\ request[r].at = "sent" /\ age <= now
        /\ UNCHANGED <<offers, now, current, history, stored, last>>
    BY <1>10 DEF Fetch!ServerAnswers
  <2>1. PICK version \in history[now - age], same \in BOOLEAN :
          /\ Fetch(p)!Goes(r, [request[r] EXCEPT !.at = "answered",
               !.answer = [same |-> same, version |-> version, age |-> age,
                           lifetime |-> offers.lifetime, validator |-> offers.validator]])
          /\ same => request[r].with # None /\ request[r].with.version = version
    <3>1. PICK version \in history[now - age] :
            LET with == request[r].with
                known == IF with = None THEN FALSE ELSE with.validator /\ with.version = version
            IN  Fetch(p)!Goes(r, [request[r] EXCEPT !.at = "answered",
                  !.answer = [same |-> offers.validator /\ known, version |-> version,
                              age |-> age, lifetime |-> offers.lifetime,
                              validator |-> offers.validator]])
      BY <1>10 DEF Fetch!ServerAnswers
    <3> DEFINE same == offers.validator /\ (IF request[r].with = None THEN FALSE
                         ELSE request[r].with.validator /\ request[r].with.version = version)
    <3>2. same \in BOOLEAN /\ (same => request[r].with # None /\ request[r].with.version = version)
      OBVIOUS
    <3>3. Fetch(p)!Goes(r, [request[r] EXCEPT !.at = "answered",
            !.answer = [same |-> same, version |-> version, age |-> age,
                        lifetime |-> offers.lifetime, validator |-> offers.validator]])
      BY <3>1
    <3> HIDE DEF same
    <3> QED BY <3>2, <3>3
  <2> DEFINE answer == [same |-> same, version |-> version, age |-> age,
                        lifetime |-> offers.lifetime, validator |-> offers.validator]
  <2>2. request[r] \in Pending(p) /\ AskedHad(r)
    BY <1>0, <1>3, <2>0
  <2>3. FetchTyped(p)'
    BY Fetch_Typed
  <2>4. request'[r] = [request[r] EXCEPT !.at = "answered", !.answer = answer]
        /\ \A c \in FetchCallers \ {r} : request'[c] = request[c]
    BY <1>7, <2>1
  <2>5. /\ answer.same = same /\ answer.version = version /\ answer.age = age
    OBVIOUS
  <2>6. answer \in Answers(p)
    <3>1. now - age \in Fetch(p)!Version
      BY <1>2, <2>0, Fetch_Bounds DEF FetchTyped
    <3>2. version \in Fetch(p)!Version
      BY <2>1, <3>1 DEF FetchTyped
    <3> QED BY <3>2 DEF FetchTyped, Answers
  <2> HIDE DEF answer
  <2>7. /\ request'[r].at = "answered" /\ request'[r].answer = answer
        /\ request'[r].since = request[r].since /\ request'[r].with = request[r].with
        /\ request'[r].variant = request[r].variant
    BY <2>2, <2>4 DEF Pending
  <2>8. Had(version, request[r].since, age)'
    <3>1. now - age \in 0..now /\ (now - age) + age >= request[r].since /\ version \in history[now - age]
      BY <1>2, <1>3, <2>0, <2>1, <2>2 DEF AskedHad
    <3>2. Had(version, request[r].since, age)
      BY <3>1 DEF Had
    <3> QED BY <1>2, <2>0, <2>7, <3>2
  <2>9. AskedHad(r)'
    BY <2>0, <2>1, <2>2, <2>5, <2>6, <2>7, <2>8 DEF AskedHad
  <2> QED BY <1>1, <1>4, <1>5, <1>6, <2>0, <2>4, <2>9
<1>11. ASSUME NEW r \in FetchCallers, Fetch(p)!Receive(r)
       PROVE  FetchHad(p)'
  <2> DEFINE gained == Fetch(p)!Answered(r)
  <2>1. /\ request[r].at = "answered"
        /\ stored' = gained \/ stored' = stored
        /\ Fetch(p)!Gives(r, request[r], gained.version, gained.variant, "network",
                          request[r].answer.age)
        /\ UNCHANGED <<offers, now, current, history>>
    BY <1>11 DEF Fetch!Receive
  <2>2. /\ gained \in Fetch(p)!Entry
        /\ gained.requested = request[r].since /\ gained.received = now
        /\ gained.version = request[r].answer.version /\ gained.variant = request[r].variant
        /\ Had(gained.version, request[r].since, gained.age)
    BY <2>1, Answered_Is
  <2> HIDE DEF gained
  <2>3. Had(gained.version, request[r].since, request[r].answer.age) /\ request[r].since <= now
    BY <1>0, <2>1, <2>2 DEF AskedHad
  <2>4. StoredHad'
    <3>1. CASE stored' = gained
      BY <1>2, <2>1, <2>2, <2>3, <3>1 DEF StoredHad
    <3> QED BY <1>4, <2>1, <3>1
  <2>5. GivenHad'
    <3>1. /\ last'.variant = gained.variant /\ last'.wanted = request[r].variant
          /\ last'.source = "network" /\ last'.version = gained.version
          /\ last'.since = request[r].since /\ last'.span = request[r].answer.age
      BY <2>1 DEF Fetch!Gives
    <3> QED BY <1>2, <2>2, <2>3, <3>1 DEF GivenHad
  <2>6. AskedHad(r)' /\ \A c \in FetchCallers \ {r} : request'[c] = request[c]
    BY <1>7, <2>1 DEF Fetch!Gives, AskedHad
  <2> QED BY <1>1, <1>5, <2>4, <2>5, <2>6
<1>12. ASSUME NEW r \in FetchCallers, Fetch(p)!Break(r)
       PROVE  FetchHad(p)'
  <2>1. /\ Fetch(p)!Goes(r, [at |-> "none"]) /\ UNCHANGED <<stored, last>>
    BY <1>12 DEF Fetch!Break
  <2>2. AskedHad(r)' /\ \A c \in FetchCallers \ {r} : request'[c] = request[c]
    BY <1>7, <2>1 DEF AskedHad
  <2> QED BY <1>1, <1>4, <1>5, <1>6, <2>1, <2>2
<1>13. CASE Fetch(p)!Tick \/ Fetch(p)!Change \/ Fetch(p)!Lose \/ UNCHANGED Fetch(p)!vars
  BY <1>8, <1>13 DEF Fetch!Tick, Fetch!Change, Fetch!Lose, Fetch!vars
<1> QED BY <1>9, <1>10, <1>11, <1>12, <1>13 DEF Fetch!Next

(* FreshEnough, for any callers, variants, lifetimes, ages and bounds.      *)
THEOREM Services_FreshEnough == Spec => []FreshEnough
<1> DEFINE FetchInv == \A p \in FetchParts : part = p => FetchTyped(p) /\ FetchHad(p)
<1>1. Init => FetchInv
  <2>1. ASSUME Init, NEW p \in FetchParts, part = p
        PROVE  FetchTyped(p) /\ FetchHad(p)
    <3>1. Fetch(p)!Init
      BY <2>1 DEF Init, FetchParts
    <3> QED BY <3>1, Fetch_Init
  <2> QED BY <2>1
<1>2. FetchInv /\ [Next]_vars => FetchInv'
  <2>1. ASSUME FetchInv, [Next]_vars, NEW p \in FetchParts, part = p
        PROVE  FetchTyped(p)' /\ FetchHad(p)'
    <3>1. [Fetch(p)!Next]_(Fetch(p)!vars)
      <4>1. CASE FetchGoes
        BY <2>1, <4>1 DEF FetchGoes
      <4>2. CASE UNCHANGED fetchVars
        BY <4>2 DEF fetchVars, Fetch!vars
      <4> QED BY <2>1, <4>1, <4>2 DEF Next, vars, AccountGoes, SnapshotsGoes, RegistrarGoes,
              InstallerGoes, CacheGoes, NetworkGoes, ImagesGoes
    <3> QED BY <2>1, <3>1, Fetch_Typed, Fetch_Had
  <2> QED BY <2>1, Part_Stays
<1>3. FetchInv => FreshEnough
  <2>1. ASSUME NEW p \in FetchParts, FetchTyped(p), FetchHad(p)
        PROVE  /\ Fetch(p)!TypeOK /\ Fetch(p)!NotTooOld /\ Fetch(p)!AsTheServer
               /\ Fetch(p)!OwnVariant
    <3>1. now \in Fetch(p)!Version /\ \A t \in 0..now : t \in Fetch(p)!Version
      BY <2>1, Fetch_Bounds DEF FetchTyped
    <3>2. Fetch(p)!TypeOK
      <4>1. \A r \in FetchCallers : request[r].at \in {"none", "sent", "answered", "done", "failed"}
        BY <2>1 DEF FetchTyped, Pending
      <4> QED BY <2>1, <4>1 DEF FetchTyped, FetchHad, Fetch!TypeOK
    <3>3. Fetch(p)!OwnVariant
      BY <2>1 DEF FetchHad, Fetch!OwnVariant
    <3>4. Fetch(p)!NotTooOld
      BY <2>1, <3>1 DEF FetchHad, Fetch!NotTooOld
    <3>5. Fetch(p)!AsTheServer
      BY <2>1, <3>1 DEF FetchHad, Had, Fetch!AsTheServer
    <3> QED BY <3>2, <3>3, <3>4, <3>5
  <2> QED BY <2>1 DEF FreshEnough, FetchParts
<1> HIDE DEF FetchInv
<1> QED BY <1>1, <1>2, <1>3, PTL DEF Spec

-----------------------------------------------------------------------------
(* What the machine's records and registry name.                             *)

\* What the lock's holder has yet to write: a record and what follows it, the entry of the
\* record written, a removal.
Before == {<<"pin", "record", "entry", "collect">>, <<"record", "entry", "collect">>,
           <<"record", "entry">>}
After == {<<"entry", "collect">>, <<"entry">>}
Removes == {<<"entry", "record", "collect">>, <<"record", "collect">>}
Others == {<<"collect">>, <<"pin">>}

\* What is written next, and what is left then.
LEMMA Todos_Are ==
    ASSUME NEW CONSTANT p \in InstallParts, NEW ahead \in Install(p)!Todos
    PROVE  /\ ahead \in Before \cup After \cup Removes \cup Others
           /\ Head(ahead) = "pin" => \/ ahead = <<"pin">> /\ Len(ahead) = 1
                                     \/ /\ ahead \in Before /\ Len(ahead) # 1
                                        /\ Tail(ahead) = <<"record", "entry", "collect">>
           /\ Head(ahead) = "record" =>
                /\ Len(ahead) # 1
                /\ \/ ahead \in Before /\ Tail(ahead) \in After
                   \/ ahead = <<"record", "collect">> /\ Tail(ahead) = <<"collect">>
           /\ Head(ahead) = "entry" =>
                \/ ahead = <<"entry">> /\ Len(ahead) = 1
                \/ ahead = <<"entry", "collect">> /\ Len(ahead) # 1 /\ Tail(ahead) = <<"collect">>
                \/ /\ ahead = <<"entry", "record", "collect">> /\ Len(ahead) # 1
                   /\ Tail(ahead) = <<"record", "collect">>
           /\ Head(ahead) = "collect" => ahead = <<"collect">> /\ Len(ahead) = 1
           /\ Head(ahead) \in {"pin", "record", "entry", "collect"}
<1> USE DEF Before, After, Removes, Others
<1>1. CASE ahead = <<"pin", "record", "entry", "collect">>
  BY <1>1
<1>2. CASE ahead = <<"record", "entry", "collect">>
  BY <1>2
<1>3. CASE ahead = <<"entry", "record", "collect">>
  BY <1>3
<1>4. CASE ahead = <<"record", "collect">>
  BY <1>4
<1>5. CASE ahead = <<"entry", "collect">>
  BY <1>5
<1>6. CASE ahead = <<"record", "entry">>
  BY <1>6
<1>7. CASE ahead \in {<<"entry">>, <<"collect">>, <<"pin">>}
  BY <1>7
<1> QED BY <1>1, <1>2, <1>3, <1>4, <1>5, <1>6, <1>7 DEF Install!Todos

\* The kinds of what is left are apart.
LEMMA Todos_Apart ==
    /\ Before \cap (After \cup Removes \cup Others) = {}
    /\ After \cap (Removes \cup Others) = {}
    /\ Removes \cap Others = {}
    /\ <<"entry", "record", "collect">> # <<"record", "collect">> /\ <<"pin">> # <<"collect">>
    /\ \A ahead \in Before \cup After \cup Removes \cup Others :
         Head(ahead) = "pin" <=> ahead \in {<<"pin">>, <<"pin", "record", "entry", "collect">>}
BY DEF Before, After, Removes, Others

\* What is to hold of an account's record, among the versions there are and what it agreed
\* to: the versions it names are there, in their order, none rolled back, all agreed to.
Right(p, m, there, agreed) ==
    /\ m \in Install(p)!Records
    /\ Install(p)!Names(m) \subseteq there /\ Install(p)!Names(m) \cap m.bad = {}
    /\ Install(p)!Shown(m.current) \subseteq agreed
    /\ m.previous # None =>
         m.previous < m.current /\ Install(p)!Shown(m.previous) \subseteq agreed
    /\ m.staged # None =>
         /\ m.current < m.staged.code
         /\ ~m.staged.consent => Install(p)!Shown(m.staged.code) \subseteq agreed

\* What is assumed of the constants.
LEMMA Install_Bounds ==
    ASSUME NEW CONSTANT p \in InstallParts
    PROVE  /\ MaxCode \in Nat \ {0} /\ UnshownExits \in Nat /\ InstallExits(p) \in Nat
           /\ NewKeyFrom \in Nat /\ Declaring \subseteq 1..MaxCode
           /\ Install(p)!Codes = 1..MaxCode
           /\ None \notin Nat /\ None # "granted" /\ None # "denied"
           /\ None \notin Install(p)!Staged /\ None \notin Install(p)!Records
           /\ None \notin Install(p)!Holds /\ None \notin Install(p)!Calls
           /\ None \notin Install(p)!Locks
<1>1. Install(p)!InstallBounds
  BY InstallsBounds
<1> QED BY <1>1 DEF Install!InstallBounds, Install!Codes

\* The versions a record names.
LEMMA Names_Are ==
    ASSUME NEW CONSTANT p \in InstallParts, NEW m \in Install(p)!Records
    PROVE  /\ m.current \in Nat /\ m.current # None /\ m.current \in Install(p)!Names(m)
           /\ m.previous # None => m.previous \in Install(p)!Names(m) /\ m.previous \in Nat
           /\ m.staged # None => /\ m.staged \in Install(p)!Staged /\ m.staged.code \in Nat
                                 /\ m.staged.code \in Install(p)!Names(m)
           /\ \A code \in Install(p)!Names(m) :
                \/ code = m.current \/ (code = m.previous /\ m.previous # None)
                \/ (m.staged # None /\ code = m.staged.code)
<1>1. /\ m.current \in 1..MaxCode /\ m.previous \in (1..MaxCode) \cup {None}
      /\ m.staged \in Install(p)!Staged \cup {None}
  BY Install_Bounds DEF Install!Records
<1>2. \A staging \in Install(p)!Staged : staging.code \in 1..MaxCode
  BY Install_Bounds DEF Install!Staged
<1>3. \A code : code \in Install(p)!Names(m) <=>
        /\ code # None
        /\ \/ code = m.current \/ code = m.previous
           \/ code = IF m.staged = None THEN None ELSE m.staged.code
  BY DEF Install!Names
<1>4. m.current \in Nat /\ m.current # None
  BY <1>1, Install_Bounds
<1>5. m.previous # None => m.previous \in Nat
  BY <1>1, Install_Bounds
<1>6. m.staged # None => m.staged \in Install(p)!Staged /\ m.staged.code \in Nat /\ m.staged.code # None
  BY <1>1, <1>2, Install_Bounds
<1> QED BY <1>3, <1>4, <1>5, <1>6

\* A record stays right among more versions, and with more agreed to.
LEMMA Right_Stays ==
    ASSUME NEW CONSTANT p \in InstallParts, NEW m, NEW there, NEW agreed, NEW there2, NEW agreed2,
           Right(p, m, there, agreed), Install(p)!Names(m) \subseteq there2, agreed \subseteq agreed2
    PROVE  Right(p, m, there2, agreed2)
BY DEF Right

\* What the decision on a capability changes: nothing but itself, and nothing denied.
LEMMA Right_Decided ==
    ASSUME NEW CONSTANT p \in InstallParts, NEW m, NEW there, NEW agreed, NEW code,
           Right(p, m, there, agreed)
    PROVE  LET n == Install(p)!DecideCapabilities(m, code) IN
           /\ Right(p, n, there, agreed) /\ n.current = m.current
           /\ m.decision = "denied" => n.decision = "denied"
<1> DEFINE n == Install(p)!DecideCapabilities(m, code)
<1>1. m \in Install(p)!Records
  BY DEF Right
<1>2. PICK d \in {None, "granted", "denied"} :
        n = [m EXCEPT !.decision = d] /\ (m.decision = "denied" => d = "denied")
  <2>1. n = [m EXCEPT !.decision = IF code \in Declaring /\ m.decision = None THEN "granted"
                                   ELSE m.decision]
    BY DEF Install!DecideCapabilities
  <2>2. m.decision \in {None, "granted", "denied"}
    BY <1>1 DEF Install!Records
  <2> QED BY <2>1, <2>2, Install_Bounds
<1> HIDE DEF n
<1>3. /\ n \in Install(p)!Records /\ n.current = m.current /\ n.previous = m.previous
      /\ n.staged = m.staged /\ n.bad = m.bad /\ n.decision = d
  BY <1>1, <1>2 DEF Install!Records
<1>4. Install(p)!Names(n) = Install(p)!Names(m)
  BY <1>3 DEF Install!Names
<1>5. Right(p, n, there, agreed)
  BY <1>3, <1>4 DEF Right
<1> QED BY <1>2, <1>3, <1>5 DEF n

\* The record of an application installed.
LEMMA Right_Fresh ==
    ASSUME NEW CONSTANT p \in InstallParts, NEW code \in Install(p)!Codes, NEW there, NEW agreed,
           code \in there, Install(p)!Shown(code) \subseteq agreed
    PROVE  Right(p, Install(p)!Fresh(code), there, agreed)
<1> DEFINE n == Install(p)!Fresh(code)
<1>1. /\ n.current = code /\ n.previous = None /\ n.staged = None /\ n.bad = {}
      /\ n \in Install(p)!Records
  BY Install_Bounds DEF Install!Fresh, Install!Records
<1> HIDE DEF n
<1>2. \A c \in Install(p)!Names(n) : c = code
  BY <1>1, Names_Are
<1> QED BY <1>1, <1>2 DEF Right, n

\* A version staged is newer than the account's, and waits for consent if it asks for more
\* than the account agreed to.
LEMMA Right_StagedFor ==
    ASSUME NEW CONSTANT p \in InstallParts, NEW m, NEW there, NEW agreed,
           Right(p, m, there, agreed), NEW c \in Install(p)!Calls,
           c.code > m.current, c.code \notin m.bad, c.code \in there,
           c.consented => Install(p)!Shown(c.code) \subseteq agreed
    PROVE  LET n == Install(p)!StagedFor(m, c) IN
           /\ Right(p, n, there, agreed) /\ n.current = m.current /\ n.decision = m.decision
           /\ n.staged # None /\ n.staged.code = c.code
<1> DEFINE n == Install(p)!StagedFor(m, c)
<1>0. /\ m \in Install(p)!Records /\ m.current \in Nat
      /\ c.code \in Install(p)!Codes /\ c.consented \in BOOLEAN
  BY Names_Are DEF Right, Install!Calls
<1>1. PICK waits \in BOOLEAN :
        /\ n = [m EXCEPT !.staged = [code |-> c.code, consent |-> waits]]
        /\ waits <=> ~c.consented /\ Install(p)!ConsentNeeded(m.current, c.code)
  <2> DEFINE waits == ~c.consented /\ Install(p)!ConsentNeeded(m.current, c.code)
  <2>1. n = [m EXCEPT !.staged = [code |-> c.code, consent |-> waits]] /\ waits \in BOOLEAN
    BY DEF Install!StagedFor
  <2> HIDE DEF n
  <2> QED BY <2>1
<1> HIDE DEF n
<1> DEFINE staging == [code |-> c.code, consent |-> waits]
<1>2. /\ staging \in Install(p)!Staged /\ staging.code = c.code /\ staging.consent = waits
      /\ staging # None
  BY <1>0, Install_Bounds DEF Install!Staged
<1>3. n = [m EXCEPT !.staged = staging]
  BY <1>1
<1> HIDE DEF staging
<1>4. /\ n \in Install(p)!Records /\ n.current = m.current /\ n.previous = m.previous
      /\ n.staged = staging /\ n.bad = m.bad /\ n.decision = m.decision
  BY <1>0, <1>2, <1>3 DEF Install!Records
<1>5. \A code \in Install(p)!Names(n) : code \in Install(p)!Names(m) \/ code = c.code
  <2>1. m.current \in Install(p)!Names(m) /\ (m.previous # None => m.previous \in Install(p)!Names(m))
    BY <1>0, Names_Are
  <2> QED BY <1>2, <1>4, <2>1, Names_Are
<1>6. ~waits => Install(p)!Shown(c.code) \subseteq agreed
  <2>1. ASSUME ~c.consented, ~Install(p)!ConsentNeeded(m.current, c.code)
        PROVE  Install(p)!Shown(c.code) \subseteq Install(p)!Shown(m.current)
    BY <2>1 DEF Install!ConsentNeeded, Install!Shown
  <2> QED BY <1>1, <2>1 DEF Right
<1>7. Right(p, n, there, agreed)
  <2>1. Install(p)!Names(n) \subseteq there /\ Install(p)!Names(n) \cap n.bad = {}
    BY <1>4, <1>5 DEF Right
  <2> QED BY <1>0, <1>2, <1>4, <1>6, <2>1 DEF Right
<1> QED BY <1>2, <1>4, <1>7 DEF n

\* Switching to the version staged.
LEMMA Right_Switched ==
    ASSUME NEW CONSTANT p \in InstallParts, NEW m, NEW there, NEW agreed,
           Right(p, m, there, agreed), m.staged # None, ~m.staged.consent
    PROVE  LET n == Install(p)!Switched(m) IN
           /\ Right(p, n, there, agreed) /\ n.current = m.staged.code
           /\ m.decision = "denied" => n.decision = "denied"
<1> DEFINE s == [m EXCEPT !.previous = m.current, !.current = m.staged.code, !.shown = FALSE,
                          !.exits = 0, !.staged = None]
<1>0. /\ m \in Install(p)!Records /\ m.current \in Nat /\ m.staged.code \in Nat
      /\ m.current \in Install(p)!Names(m) /\ m.staged.code \in Install(p)!Names(m)
      /\ m.current < m.staged.code
  BY Names_Are DEF Right
<1>1. /\ s \in Install(p)!Records /\ s.current = m.staged.code /\ s.previous = m.current
      /\ s.staged = None /\ s.bad = m.bad /\ s.decision = m.decision
  <2>1. m.current \in Install(p)!Codes /\ m.staged.code \in Install(p)!Codes
    BY <1>0 DEF Install!Records, Install!Staged, Right
  <2>2. 0 \in 0..InstallExits(p)
    BY Install_Bounds
  <2> QED BY <1>0, <2>1, <2>2 DEF Install!Records
<1> HIDE DEF s
<1>2. \A code \in Install(p)!Names(s) : code \in Install(p)!Names(m)
  BY <1>0, <1>1, Names_Are
<1>3. Right(p, s, there, agreed)
  BY <1>0, <1>1, <1>2 DEF Right
<1>4. Install(p)!Switched(m) = Install(p)!DecideCapabilities(s, m.staged.code)
  BY DEF Install!Switched, s
<1> QED BY <1>1, <1>3, <1>4, Right_Decided

\* The account consents to the version staged.
LEMMA Right_Consented ==
    ASSUME NEW CONSTANT p \in InstallParts, NEW m, NEW there, NEW agreed,
           Right(p, m, there, agreed), m.staged # None,
           Install(p)!Shown(m.staged.code) \subseteq agreed
    PROVE  LET n == [m EXCEPT !.staged.consent = FALSE] IN
           /\ Right(p, n, there, agreed) /\ n.current = m.current /\ n.decision = m.decision
           /\ n.staged # None /\ n.staged.code = m.staged.code /\ ~n.staged.consent
<1> DEFINE n == [m EXCEPT !.staged.consent = FALSE]
           staging == [m.staged EXCEPT !.consent = FALSE]
<1>0. m \in Install(p)!Records /\ m.staged \in Install(p)!Staged
  BY Names_Are DEF Right
<1>1. /\ staging \in Install(p)!Staged /\ staging.code = m.staged.code /\ staging.consent = FALSE
      /\ staging # None
  BY <1>0, Install_Bounds DEF Install!Staged
<1>2. n = [m EXCEPT !.staged = staging]
  BY <1>0 DEF Install!Records
<1> HIDE DEF n, staging
<1>3. /\ n \in Install(p)!Records /\ n.current = m.current /\ n.previous = m.previous
      /\ n.staged = staging /\ n.bad = m.bad /\ n.decision = m.decision
  BY <1>0, <1>1, <1>2 DEF Install!Records
<1>4. Install(p)!Names(n) = Install(p)!Names(m)
  BY <1>1, <1>3 DEF Install!Names
<1>5. Right(p, n, there, agreed)
  BY <1>1, <1>3, <1>4 DEF Right
<1> QED BY <1>1, <1>3, <1>5 DEF n

\* The version before, of one that never showed a window.
LEMMA Right_RolledBack ==
    ASSUME NEW CONSTANT p \in InstallParts, NEW m, NEW there, NEW agreed,
           Right(p, m, there, agreed), m.previous # None
    PROVE  LET n == Install(p)!RolledBack(m) IN
           Right(p, n, there, agreed) /\ n.current < m.current /\ n.decision = m.decision
<1> DEFINE n == Install(p)!RolledBack(m)
<1>0. /\ m \in Install(p)!Records /\ m.current \in Nat /\ m.previous \in Nat
      /\ m.previous \in Install(p)!Names(m) /\ m.current \in Install(p)!Codes
      /\ m.previous < m.current /\ m.previous \in Install(p)!Codes
  BY Names_Are DEF Right, Install!Records
<1>1. /\ n.current = m.previous /\ n.previous = None /\ n.staged = m.staged
      /\ n.bad = m.bad \cup {m.current} /\ n.decision = m.decision
      /\ n \in Install(p)!Records
  <2>1. 0 \in 0..InstallExits(p) /\ m.bad \cup {m.current} \in SUBSET Install(p)!Codes
    BY <1>0, Install_Bounds DEF Install!Records
  <2>2. n = [m EXCEPT !.bad = m.bad \cup {m.current}, !.current = m.previous,
                      !.previous = None, !.shown = TRUE, !.exits = 0]
    BY DEF Install!RolledBack
  <2> HIDE DEF n
  <2> QED BY <1>0, <2>1, <2>2 DEF Install!Records
<1> HIDE DEF n
<1>2. \A code \in Install(p)!Names(n) : code \in Install(p)!Names(m) /\ code # m.current
  <2>1. m.staged # None => m.staged.code \in Install(p)!Names(m) /\ m.current < m.staged.code
                           /\ m.staged.code \in Nat
    BY <1>0, Names_Are DEF Right
  <2> QED BY <1>0, <1>1, <2>1, Names_Are
<1>3. /\ Install(p)!Names(n) \subseteq there /\ Install(p)!Names(n) \cap n.bad = {}
  BY <1>1, <1>2 DEF Right
<1>4. m.staged # None => m.previous < m.staged.code
  BY <1>0, Names_Are DEF Right
<1>5. Right(p, n, there, agreed)
  BY <1>0, <1>1, <1>3, <1>4 DEF Right
<1> QED BY <1>0, <1>1, <1>5 DEF n

\* What is counted, decided or forgotten of a version that stays.
LEMMA Right_Kept ==
    ASSUME NEW CONSTANT p \in InstallParts, NEW m, NEW there, NEW agreed,
           Right(p, m, there, agreed), NEW n \in Install(p)!Records,
           n.current = m.current, n.previous \in {m.previous, None}, n.staged = m.staged, n.bad = m.bad
    PROVE  Right(p, n, there, agreed)
<1>1. \A code \in Install(p)!Names(n) : code \in Install(p)!Names(m)
  BY DEF Install!Names
<1> QED BY <1>1 DEF Right

\* The newest of some releases is one of them.
LEMMA Newest_Is ==
    ASSUME NEW CONSTANT p \in InstallParts, NEW n \in Nat, NEW S \in SUBSET (1..n), S # {}
    PROVE  Install(p)!Max(S) \in S
<1> DEFINE Apart == {n - c : c \in S}
           R == OpToRel(<, Nat)
<1>1. Apart \subseteq Nat /\ Apart # {}
  OBVIOUS
<1>2. PICK x \in Apart : \A y \in Apart : ~(<<y, x>> \in R)
  <2> HIDE DEF Apart, R
  <2>1. IsWellFoundedOn(R, Nat)
    BY NatLessThanWellFounded DEF R
  <2> QED BY <1>1, <2>1, WFMin
<1>3. PICK c \in S : x = n - c
  BY <1>2
<1>4. \A d \in S : c >= d
  <2> SUFFICES ASSUME NEW d \in S, ~(c >= d) PROVE FALSE
    OBVIOUS
  <2>1. n - d \in Apart /\ n - d \in Nat /\ x \in Nat /\ n - d < x
    BY <1>3
  <2>2. <<n - d, x>> \in R
    BY <2>1 DEF OpToRel
  <2> QED BY <1>2, <2>1, <2>2
<1>5. \E m \in S : \A d \in S : m >= d
  BY <1>4
<1> QED BY <1>5 DEF Install!Max

-----------------------------------------------------------------------------
(* What holds between the installer's steps.                                 *)

\* A release is being applied.
Active(t) == call[t] # None /\ call[t].stage # "planned"

\* A record may be written after another: an update only if no session holds the version
\* before, and nothing denied is granted but by a decision.
Follows(p, m, l) ==
    /\ l.next.current > m.current => Install(p)!Holders(l.account, m.current) = {}
    /\ m.decision = "denied" /\ l.by # "decide" => l.next.decision = "denied"

\* What the accounts' records name is there, and agreed to.
InstRecords(p) ==
    \A a \in InstallAccounts(p) : record[a] # None => Right(p, record[a], trees, confirmed[a])

\* No release is applied while the lock's holder writes; the record it writes, or has
\* written and not listed yet, is one to be written, that takes the account from no version
\* its sessions hold, and from nothing it denied.
InstLocked(p) == locked # None =>
    /\ \A t \in InstallThreads(p) : ~Active(t)
    /\ Head(locked.todo) = "pin" => locked.key # None
    /\ locked.next # None => Right(p, locked.next, trees, confirmed[locked.account])
    /\ locked.todo \in Before =>
         /\ locked.next # None
         /\ record[locked.account] # None => Follows(p, record[locked.account], locked)
    /\ locked.todo \in After => locked.next # None /\ record[locked.account] = locked.next
    /\ locked.todo \in Removes => locked.next = None
    /\ locked.todo = <<"record", "collect">> => entry[locked.account] = None

\* The registry lists what the records say, but for what the lock's holder has yet to write.
InstEntries(p) ==
    \A a \in InstallAccounts(p) :
      /\ record[a] = None => entry[a] = None
      /\ record[a] # None /\ entry[a] # record[a].current =>
           /\ locked # None /\ locked.account = a
           /\ locked.todo \in After \cup {<<"record", "collect">>}

\* At most one release is applied: one the account's record does not refuse, whose version
\* is there or in hand, and without its consent only if it has the application.
InstCalls(p) ==
    /\ \A t, u \in InstallThreads(p) : Active(t) /\ Active(u) => t = u
    /\ \A t \in InstallThreads(p) : call[t] # None =>
         /\ ~call[t].consented => Active(t) /\ record[call[t].account] # None
         /\ call[t].stage \in {"checked", "assembling", "ready"} /\ record[call[t].account] # None =>
              /\ call[t].code >= record[call[t].account].current
              /\ call[t].code \notin record[call[t].account].bad
         /\ call[t].stage = "ready" => call[t].tree \/ call[t].code \in trees

\* What sessions hold is there.
InstHeld(p) == \A s \in InstallerSessions : held[s] # None => held[s].code \in trees

InstTyped(p) ==
    /\ record \in [InstallAccounts(p) -> Install(p)!Records \cup {None}]
    /\ entry \in [InstallAccounts(p) -> (1..MaxCode) \cup {None}]
    /\ trees \subseteq 1..MaxCode /\ pinned \in {None, 1, 2} /\ released \in 1..MaxCode
    /\ candidates = None \/ candidates \subseteq 1..MaxCode
    /\ held \in [InstallerSessions -> Install(p)!Holds \cup {None}]
    /\ call \in [InstallThreads(p) -> Install(p)!Calls \cup {None}]
    /\ locked \in Install(p)!Locks \cup {None}
    /\ confirmed \in [InstallAccounts(p) -> SUBSET ({"key", "capability"} \X {1, 2})]

InstInv(p) == /\ InstTyped(p) /\ InstRecords(p) /\ InstLocked(p) /\ InstEntries(p)
              /\ InstCalls(p) /\ InstHeld(p)

\* The types are the installer's.
LEMMA Install_Types ==
    ASSUME NEW CONSTANT p \in InstallParts
    PROVE  Install(p)!TypeOK <=> InstTyped(p)
BY DEF Install!TypeOK, Install!Codes, InstTyped

\* What a lock's holder writes, and for whom.
LEMMA Locks_Are ==
    ASSUME NEW CONSTANT p \in InstallParts, NEW l \in Install(p)!Locks
    PROVE  /\ l.account \in InstallAccounts(p) /\ l.next \in Install(p)!Records \cup {None}
           /\ l.todo \in Install(p)!Todos /\ l.key \in {None, 1, 2}
BY DEF Install!Locks

\* What is left of the lock's holder's writing.
LEMMA Wrote_Is ==
    ASSUME NEW CONSTANT p \in InstallParts, locked \in Install(p)!Locks, Install(p)!Wrote
    PROVE  /\ Len(locked.todo) = 1 => locked' = None
           /\ Len(locked.todo) # 1 /\ Tail(locked.todo) \in Install(p)!Todos =>
                /\ locked' \in Install(p)!Locks /\ locked' # None
                /\ locked'.todo = Tail(locked.todo) /\ locked'.account = locked.account
                /\ locked'.next = locked.next /\ locked'.key = locked.key
                /\ locked'.by = locked.by
<1>1. CASE Len(locked.todo) = 1
  BY <1>1 DEF Install!Wrote
<1>2. ASSUME Len(locked.todo) # 1, NEW ahead \in Install(p)!Todos, ahead = Tail(locked.todo)
      PROVE  /\ locked' \in Install(p)!Locks /\ locked' # None
             /\ locked'.todo = ahead /\ locked'.account = locked.account
             /\ locked'.next = locked.next /\ locked'.key = locked.key
             /\ locked'.by = locked.by
  <2>1. locked' = [locked EXCEPT !.todo = ahead]
    BY <1>2 DEF Install!Wrote
  <2> QED BY <2>1, Install_Bounds DEF Install!Locks
<1> QED BY <1>1, <1>2

\* What the accounts' records name.
LEMMA Named_Are ==
    ASSUME NEW CONSTANT p \in InstallParts, NEW a \in InstallAccounts(p), record[a] # None
    PROVE  Install(p)!Names(record[a]) \subseteq Install(p)!Named
<1>1. a \in {b \in InstallAccounts(p) : Install(p)!Has(b)}
  BY DEF Install!Has
<1> QED BY <1>1 DEF Install!Named

\* Collecting takes nothing that a record names or a session holds.
LEMMA Collect_Keeps ==
    ASSUME NEW CONSTANT p \in InstallParts, InstRecords(p), InstHeld(p),
           Install(p)!CollectFiles
    PROVE  /\ trees' \subseteq trees /\ pinned' \in {pinned, None}
           /\ \A a \in InstallAccounts(p) : record[a] # None =>
                Install(p)!Names(record[a]) \subseteq trees'
           /\ \A s \in InstallerSessions : held[s] # None => held[s].code \in trees'
<1>1. /\ trees' = trees \cap Install(p)!Kept /\ pinned' \in {pinned, None}
      /\ Install(p)!Named \subseteq Install(p)!Kept
  <2>1. CASE \E a \in InstallAccounts(p) : Install(p)!Has(a)
    BY <2>1 DEF Install!CollectFiles, Install!Kept
  <2>2. CASE ~\E a \in InstallAccounts(p) : Install(p)!Has(a)
    BY <2>2 DEF Install!CollectFiles, Install!Kept
  <2> QED BY <2>1, <2>2
<1>2. ASSUME NEW a \in InstallAccounts(p), record[a] # None
      PROVE  Install(p)!Names(record[a]) \subseteq trees'
  <2>1. Install(p)!Names(record[a]) \subseteq trees
    BY <1>2 DEF InstRecords, Right
  <2> QED BY <1>1, <1>2, <2>1, Named_Are
<1>3. ASSUME NEW s \in InstallerSessions, held[s] # None
      PROVE  held[s].code \in trees'
  <2> DEFINE Ones == {held[z].code : z \in {y \in InstallerSessions : held[y] # None}}
  <2>1. held[s].code \in trees
    BY <1>3 DEF InstHeld
  <2>2. held[s].code \in Ones
    BY <1>3
  <2>3. Install(p)!Kept = Install(p)!Named \cup Ones
    BY DEF Install!Kept
  <2> HIDE DEF Ones
  <2> QED BY <1>1, <2>1, <2>2, <2>3
<1> QED BY <1>1, <1>2, <1>3

\* What a request that takes the lock leaves to be written.
LEMMA Writes_Is ==
    ASSUME NEW CONSTANT p \in InstallParts, NEW a \in InstallAccounts(p),
           NEW m \in Install(p)!Records \cup {None}, NEW ahead \in Install(p)!Todos, NEW key \in {None, 1, 2},
           NEW by \in {"apply", "uninstall", "consent", "decide", "release", "shown", "exited"},
           locked' = [account |-> a, next |-> m, todo |-> ahead, key |-> key, by |-> by]
    PROVE  /\ locked' \in Install(p)!Locks /\ locked' # None
           /\ locked'.account = a /\ locked'.next = m /\ locked'.todo = ahead
           /\ locked'.key = key /\ locked'.by = by
<1> DEFINE l == [account |-> a, next |-> m, todo |-> ahead, key |-> key, by |-> by]
<1>1. l \in Install(p)!Locks
  BY DEF Install!Locks
<1>2. l # None
  BY <1>1, Install_Bounds
<1> QED BY <1>1, <1>2

\* No release is applied while a request is taken.
LEMMA Quiet_Is ==
    ASSUME NEW CONSTANT p \in InstallParts, Install(p)!Quiet
    PROVE  locked = None /\ \A t \in InstallThreads(p) : ~Active(t)
BY DEF Install!Quiet, Install!Free, Active

\* The lock is taken: what was right stays so, if what is to be written is.
LEMMA Locks_For ==
    ASSUME NEW CONSTANT p \in InstallParts, InstInv(p), locked = None,
           locked' \in Install(p)!Locks, locked' # None,
           UNCHANGED <<record, entry, pinned, released, candidates>>,
           trees \subseteq trees', trees' \subseteq 1..MaxCode,
           confirmed' \in [InstallAccounts(p) -> SUBSET ({"key", "capability"} \X {1, 2})],
           \A a \in InstallAccounts(p) : confirmed[a] \subseteq confirmed'[a],
           call' \in [InstallThreads(p) -> Install(p)!Calls \cup {None}],
           \A t \in InstallThreads(p) : call'[t] \in {call[t], None} /\ ~Active(t)',
           held' \in [InstallerSessions -> Install(p)!Holds \cup {None}],
           \A s \in InstallerSessions :
             held'[s] # None => held[s] # None /\ held'[s].code = held[s].code,
           Head(locked'.todo) = "pin" => locked'.key # None,
           locked'.next # None =>
             Right(p, locked'.next, trees', confirmed'[locked'.account]),
           locked'.todo \in Before =>
             /\ locked'.next # None
             /\ record[locked'.account] # None => Follows(p, record[locked.account], locked)',
           locked'.todo \in Removes => locked'.next = None,
           locked'.todo \notin After, locked'.todo # <<"record", "collect">>
    PROVE  InstInv(p)'
<1> USE DEF InstInv
<1>1. InstTyped(p)'
  BY DEF InstTyped
<1>2. InstRecords(p)'
  <2> SUFFICES ASSUME NEW a \in InstallAccounts(p), record[a] # None
               PROVE  Right(p, record[a], trees', confirmed'[a])
    BY DEF InstRecords
  <2>1. Right(p, record[a], trees, confirmed[a])
    BY DEF InstRecords
  <2>2. Install(p)!Names(record[a]) \subseteq trees'
    BY <2>1 DEF Right
  <2> QED BY <2>1, <2>2, Right_Stays
<1>3. InstLocked(p)'
  BY DEF InstLocked
<1>4. InstEntries(p)'
  BY DEF InstEntries
<1>5. InstCalls(p)'
  <2>1. ASSUME NEW t \in InstallThreads(p), call'[t] # None
        PROVE  call'[t] = call[t] /\ ~Active(t)
    BY <2>1 DEF Active
  <2>2. ASSUME NEW t \in InstallThreads(p), call'[t] # None
        PROVE  call'[t].stage = "planned" /\ call'[t].consented
    BY <2>1, <2>2 DEF Active, InstCalls
  <2> QED BY <2>2 DEF InstCalls
<1>6. InstHeld(p)'
  BY DEF InstHeld
<1> QED BY <1>1, <1>2, <1>3, <1>4, <1>5, <1>6

\* Nothing is applied while the lock's holder writes: what was planned was consented to.
LEMMA Calls_Planned ==
    ASSUME NEW CONSTANT p \in InstallParts, InstInv(p), \A t \in InstallThreads(p) : ~Active(t),
           UNCHANGED call
    PROVE  InstCalls(p)'
<1>1. ASSUME NEW t \in InstallThreads(p), call[t] # None
      PROVE  call[t].stage = "planned" /\ call[t].consented
  BY <1>1 DEF Active, InstCalls, InstInv
<1> QED BY <1>1 DEF InstCalls, Active

\* The machine's key is written.
LEMMA Inst_WriteInstalled ==
    ASSUME NEW CONSTANT p \in InstallParts, InstInv(p), Install(p)!WriteInstalled
    PROVE  InstInv(p)'
<1> DEFINE ahead == locked.todo
<1>1. /\ locked # None /\ locked \in Install(p)!Locks /\ Head(ahead) = "pin"
      /\ pinned' = locked.key /\ Install(p)!Wrote
      /\ UNCHANGED <<record, entry, trees, held, call, released, candidates, confirmed>>
  BY DEF Install!WriteInstalled, Install!Due, InstInv, InstTyped
<1>2. ahead \in Install(p)!Todos /\ locked.key \in {1, 2} /\ \A t \in InstallThreads(p) : ~Active(t)
  BY <1>1, Locks_Are DEF InstInv, InstLocked
<1>3. \/ locked' = None
      \/ /\ ahead \in Before /\ locked' \in Install(p)!Locks /\ locked' # None
         /\ locked'.todo = <<"record", "entry", "collect">> /\ locked'.account = locked.account
         /\ locked'.next = locked.next /\ locked'.by = locked.by
  <2>1. <<"record", "entry", "collect">> \in Install(p)!Todos
    BY DEF Install!Todos
  <2> QED BY <1>1, <1>2, <2>1, Todos_Are, Wrote_Is
<1>4. InstTyped(p)'
  BY <1>1, <1>2, <1>3 DEF InstInv, InstTyped
<1>5. InstRecords(p)' /\ InstHeld(p)'
  BY <1>1 DEF InstInv, InstRecords, InstHeld
<1>6. InstLocked(p)'
  <2> SUFFICES ASSUME locked' # None PROVE InstLocked(p)'
    BY DEF InstLocked
  <2>1. /\ locked.next # None /\ Right(p, locked.next, trees, confirmed[locked.account])
        /\ record[locked.account] # None => Follows(p, record[locked.account], locked)
    BY <1>1, <1>3 DEF InstInv, InstLocked
  <2>2. record[locked.account] # None => Follows(p, record[locked.account], locked)'
    BY <1>1, <1>3, <2>1 DEF Follows, Install!Holders
  <2>3. /\ <<"record", "entry", "collect">> \notin After \cup Removes
        /\ Head(<<"record", "entry", "collect">>) # "pin"
        /\ <<"record", "entry", "collect">> # <<"record", "collect">>
    BY DEF After, Removes
  <2>4. \A t \in InstallThreads(p) : ~Active(t)'
    BY <1>1, <1>2 DEF Active
  <2> QED BY <1>1, <1>3, <2>1, <2>2, <2>3, <2>4 DEF InstLocked
<1>7. InstEntries(p)'
  <2> SUFFICES ASSUME NEW a \in InstallAccounts(p), record[a] # None, entry[a] # record[a].current
               PROVE  FALSE
    BY <1>1 DEF InstEntries, InstInv
  <2>1. ahead \in After \cup {<<"record", "collect">>}
    BY DEF InstInv, InstEntries
  <2> QED BY <1>1, <2>1 DEF After
<1>8. InstCalls(p)'
  BY <1>1, <1>2, Calls_Planned
<1> QED BY <1>4, <1>5, <1>6, <1>7, <1>8 DEF InstInv

\* An account's record is written, or removed.
LEMMA Inst_WriteRecord ==
    ASSUME NEW CONSTANT p \in InstallParts, InstInv(p), Install(p)!WriteRecord
    PROVE  InstInv(p)'
<1> DEFINE ahead == locked.todo
           a == locked.account
<1>1. /\ locked # None /\ locked \in Install(p)!Locks /\ Head(ahead) = "record"
      /\ record' = [record EXCEPT ![a] = locked.next] /\ Install(p)!Wrote
      /\ confirmed' = IF locked.next = None THEN [confirmed EXCEPT ![a] = {}] ELSE confirmed
      /\ UNCHANGED <<entry, trees, pinned, held, call, released, candidates>>
  BY DEF Install!WriteRecord, Install!Due, InstInv, InstTyped
<1>2. /\ ahead \in Install(p)!Todos /\ a \in InstallAccounts(p)
      /\ locked.next \in Install(p)!Records \cup {None}
      /\ \A t \in InstallThreads(p) : ~Active(t)
  BY <1>1, Locks_Are DEF InstInv, InstLocked
<1>3. /\ locked' \in Install(p)!Locks /\ locked' # None /\ locked'.account = a
      /\ locked'.next = locked.next
      /\ \/ ahead \in Before /\ locked'.todo \in After
         \/ ahead = <<"record", "collect">> /\ locked'.todo = <<"collect">>
  <2>1. After \cup {<<"collect">>} \subseteq Install(p)!Todos
    BY DEF Install!Todos, After
  <2>2. /\ Len(ahead) # 1
        /\ \/ ahead \in Before /\ Tail(ahead) \in After
           \/ ahead = <<"record", "collect">> /\ Tail(ahead) = <<"collect">>
    BY <1>1, <1>2, Todos_Are
  <2>3. Tail(ahead) \in Install(p)!Todos
    BY <2>1, <2>2
  <2> QED BY <1>1, <2>2, <2>3, Wrote_Is
<1>4. /\ <<"record", "collect">> \in Removes
      /\ \A next \in After \cup {<<"collect">>} : next \notin Before \cup Removes /\ Head(next) # "pin"
                                                  /\ next # <<"record", "collect">>
      /\ <<"collect">> \notin After
  BY DEF After, Before, Removes
<1>5. InstTyped(p)'
  BY <1>1, <1>2, <1>3 DEF InstInv, InstTyped
<1>6. \/ /\ ahead \in Before /\ locked.next # None /\ confirmed' = confirmed
         /\ Right(p, locked.next, trees, confirmed[a])
      \/ ahead = <<"record", "collect">> /\ locked.next = None /\ entry[a] = None
  BY <1>1, <1>3, <1>4 DEF InstInv, InstLocked
<1>7. record'[a] = locked.next /\ \A b \in InstallAccounts(p) \ {a} :
                                    record'[b] = record[b] /\ confirmed'[b] = confirmed[b]
  BY <1>1, <1>2 DEF InstInv, InstTyped
<1>8. InstRecords(p)'
  <2> SUFFICES ASSUME NEW b \in InstallAccounts(p), record'[b] # None
               PROVE  Right(p, record'[b], trees, confirmed'[b])
    BY <1>1 DEF InstRecords
  <2>1. CASE b = a
    BY <1>6, <1>7, <2>1
  <2>2. CASE b # a
    BY <1>7, <2>2 DEF InstInv, InstRecords
  <2> QED BY <2>1, <2>2
<1>9. InstLocked(p)'
  <2>1. \A t \in InstallThreads(p) : ~Active(t)'
    BY <1>1, <1>2 DEF Active
  <2>2. CASE locked'.todo \in After
    <3>1. locked.next # None /\ confirmed' = confirmed /\ Right(p, locked.next, trees, confirmed[a])
      BY <1>3, <1>4, <1>6, <2>2, Todos_Apart
    <3> QED BY <1>1, <1>3, <1>4, <1>7, <2>1, <2>2, <3>1 DEF InstLocked
  <2>3. CASE locked'.todo = <<"collect">>
    <3>1. locked.next = None
      BY <1>3, <1>4, <1>6, <2>3, Todos_Apart
    <3> QED BY <1>1, <1>3, <1>4, <2>1, <2>3, <3>1 DEF InstLocked
  <2> QED BY <1>3, <2>2, <2>3
<1>10. InstEntries(p)'
  <2> SUFFICES ASSUME NEW b \in InstallAccounts(p)
               PROVE  /\ record'[b] = None => entry[b] = None
                      /\ record'[b] # None /\ entry[b] # record'[b].current =>
                           b = a /\ locked'.todo \in After
    BY <1>1, <1>3 DEF InstEntries
  <2>1. CASE b = a
    BY <1>3, <1>4, <1>6, <1>7, <2>1, Todos_Apart
  <2>2. CASE b # a
    BY <1>7, <2>2 DEF InstInv, InstEntries
  <2> QED BY <2>1, <2>2
<1>11. InstCalls(p)'
  <2>1. ASSUME NEW t \in InstallThreads(p), call[t] # None
        PROVE  call[t].stage = "planned" /\ call[t].consented
    BY <1>2, <2>1 DEF Active, InstCalls, InstInv
  <2> QED BY <1>1, <2>1 DEF InstCalls, Active
<1>12. InstHeld(p)'
  BY <1>1 DEF InstInv, InstHeld
<1> QED BY <1>5, <1>8, <1>9, <1>10, <1>11, <1>12 DEF InstInv

\* The registry's entry is written, or removed.
LEMMA Inst_WriteEntry ==
    ASSUME NEW CONSTANT p \in InstallParts, InstInv(p), Install(p)!WriteEntry
    PROVE  InstInv(p)'
<1> DEFINE ahead == locked.todo
           a == locked.account
<1>1. /\ locked # None /\ locked \in Install(p)!Locks /\ Head(ahead) = "entry"
      /\ UNCHANGED <<record, trees, pinned, held, call, released, candidates, confirmed>>
  BY DEF Install!WriteEntry, Install!Due, InstInv, InstTyped
<1>2. /\ ahead \in Install(p)!Todos /\ a \in InstallAccounts(p)
      /\ locked.next \in Install(p)!Records \cup {None}
      /\ \A t \in InstallThreads(p) : ~Active(t)
  BY <1>1, Locks_Are DEF InstInv, InstLocked
<1>3. /\ \A next \in {<<"collect">>, <<"record", "collect">>} :
           next \notin After \cup Before /\ Head(next) # "pin" /\ next \in Install(p)!Todos
      /\ <<"entry", "record", "collect">> \in Removes /\ <<"collect">> \notin Removes
      /\ <<"collect">> # <<"record", "collect">>
      /\ <<"entry">> \in After /\ <<"entry", "collect">> \in After
  BY DEF After, Before, Removes, Install!Todos
<1>4. \/ /\ ahead \in After /\ locked.next # None /\ record[a] = locked.next
         /\ locked.next.current \in trees /\ locked.next.current \in 1..MaxCode
      \/ ahead = <<"entry", "record", "collect">> /\ locked.next = None
  <2>1. ahead \in After \/ ahead = <<"entry", "record", "collect">>
    BY <1>1, <1>2, <1>3, Todos_Are
  <2>2. CASE ahead \in After
    <3>1. /\ locked.next # None /\ record[a] = locked.next
          /\ Right(p, locked.next, trees, confirmed[a])
      BY <1>1, <2>2 DEF InstInv, InstLocked
    <3>2. locked.next.current \in Install(p)!Names(locked.next)
      BY <3>1, Names_Are DEF Right
    <3> QED BY <2>2, <3>1, <3>2 DEF Right, InstInv, InstTyped
  <2>3. CASE ahead = <<"entry", "record", "collect">>
    BY <1>1, <1>3, <2>3 DEF InstInv, InstLocked
  <2> QED BY <2>1, <2>2, <2>3
<1>5. /\ Install(p)!Wrote
      /\ entry' = [entry EXCEPT ![a] = IF locked.next = None THEN None ELSE locked.next.current]
  BY <1>4 DEF Install!WriteEntry
<1>6. \/ locked' = None /\ ahead \in After
      \/ /\ locked' \in Install(p)!Locks /\ locked' # None /\ locked'.account = a
         /\ locked'.next = locked.next
         /\ \/ locked'.todo = <<"collect">> /\ ahead \in After
            \/ locked'.todo = <<"record", "collect">> /\ ahead = <<"entry", "record", "collect">>
  BY <1>1, <1>2, <1>3, <1>5, Todos_Are, Wrote_Is
<1>7. /\ entry'[a] = IF locked.next = None THEN None ELSE locked.next.current
      /\ \A b \in InstallAccounts(p) \ {a} : entry'[b] = entry[b]
  BY <1>2, <1>5 DEF InstInv, InstTyped
<1>8. InstTyped(p)'
  BY <1>1, <1>2, <1>4, <1>5, <1>6 DEF InstInv, InstTyped
<1>9. InstRecords(p)' /\ InstHeld(p)'
  BY <1>1 DEF InstInv, InstRecords, InstHeld
<1>10. InstLocked(p)'
  <2> SUFFICES ASSUME locked' # None PROVE InstLocked(p)'
    BY DEF InstLocked
  <2>1. \A t \in InstallThreads(p) : ~Active(t)'
    BY <1>1, <1>2 DEF Active
  <2>2. locked.next # None => Right(p, locked.next, trees, confirmed[a])
    BY <1>1 DEF InstInv, InstLocked
  <2>3. CASE locked'.todo = <<"collect">>
    BY <1>1, <1>3, <1>6, <2>1, <2>2, <2>3 DEF InstLocked
  <2>4. CASE locked'.todo = <<"record", "collect">>
    <3>1. locked.next = None /\ entry'[a] = None
      BY <1>3, <1>4, <1>6, <1>7, <2>4, Todos_Apart
    <3> QED BY <1>1, <1>3, <1>6, <2>1, <2>2, <2>4, <3>1 DEF InstLocked
  <2> QED BY <1>6, <2>3, <2>4
<1>11. InstEntries(p)'
  <2> SUFFICES ASSUME NEW b \in InstallAccounts(p)
               PROVE  /\ record[b] = None => entry'[b] = None
                      /\ record[b] # None /\ entry'[b] # record[b].current =>
                           locked' # None /\ b = a /\ locked'.todo = <<"record", "collect">>
    BY <1>1, <1>6 DEF InstEntries
  <2>1. CASE b = a
    BY <1>3, <1>4, <1>6, <1>7, <2>1, Todos_Apart
  <2>2. CASE b # a
    BY <1>7, <2>2 DEF InstInv, InstEntries
  <2> QED BY <2>1, <2>2
<1>12. InstCalls(p)'
  BY <1>1, <1>2, Calls_Planned
<1> QED BY <1>8, <1>9, <1>10, <1>11, <1>12 DEF InstInv

\* What is neither named nor held is collected.
LEMMA Inst_Collect ==
    ASSUME NEW CONSTANT p \in InstallParts, InstInv(p), Install(p)!Collect
    PROVE  InstInv(p)'
<1>1. /\ locked # None /\ locked \in Install(p)!Locks /\ Head(locked.todo) = "collect"
      /\ Install(p)!CollectFiles /\ Install(p)!Wrote
      /\ UNCHANGED <<record, entry, held, call, released, candidates, confirmed>>
  BY DEF Install!Collect, Install!Due, InstInv, InstTyped
<1>2. locked.todo = <<"collect">> /\ locked' = None /\ \A t \in InstallThreads(p) : ~Active(t)
  BY <1>1, Locks_Are, Todos_Are, Wrote_Is DEF InstInv, InstLocked
<1>3. /\ trees' \subseteq trees /\ pinned' \in {pinned, None}
      /\ \A a \in InstallAccounts(p) : record[a] # None =>
           Install(p)!Names(record[a]) \subseteq trees'
      /\ \A s \in InstallerSessions : held[s] # None => held[s].code \in trees'
  BY <1>1, Collect_Keeps DEF InstInv
<1>4. InstTyped(p)'
  BY <1>1, <1>2, <1>3 DEF InstInv, InstTyped
<1>5. InstRecords(p)'
  BY <1>1, <1>3, Right_Stays DEF InstInv, InstRecords
<1>6. InstLocked(p)'
  BY <1>2 DEF InstLocked
<1>7. InstEntries(p)'
  BY <1>1, <1>2 DEF InstInv, InstEntries, After
<1>8. InstCalls(p)'
  BY <1>1, <1>2, Calls_Planned
<1>9. InstHeld(p)'
  BY <1>1, <1>3 DEF InstHeld
<1> QED BY <1>4, <1>5, <1>6, <1>7, <1>8, <1>9 DEF InstInv

\* What the requests leave to be written.
LEMMA Todos_Asked ==
    ASSUME NEW CONSTANT p \in InstallParts
    PROVE  /\ \A ahead \in {<<"record", "entry", "collect">>, <<"record", "entry">>} :
                /\ ahead \in Install(p)!Todos /\ Head(ahead) # "pin"
                /\ ahead \in Before /\ ahead \notin After \cup Removes /\ ahead # <<"record", "collect">>
           /\ LET ahead == <<"pin", "record", "entry", "collect">> IN
                /\ ahead \in Install(p)!Todos
                /\ ahead \in Before /\ ahead \notin After \cup Removes /\ ahead # <<"record", "collect">>
           /\ LET ahead == <<"collect">> IN
                /\ ahead \in Install(p)!Todos /\ Head(ahead) # "pin"
                /\ ahead \notin Before \cup After \cup Removes /\ ahead # <<"record", "collect">>
           /\ LET ahead == <<"entry", "record", "collect">> IN
                /\ ahead \in Install(p)!Todos /\ Head(ahead) # "pin"
                /\ ahead \notin Before \cup After /\ ahead # <<"record", "collect">>
BY DEF Install!Todos, Before, After, Removes

\* A request that takes the lock while nothing is applied, and writes a record that may
\* follow the account's.
LEMMA Asks_For ==
    ASSUME NEW CONSTANT p \in InstallParts, InstInv(p), Install(p)!Quiet,
           NEW a \in InstallAccounts(p), NEW m \in Install(p)!Records, NEW ahead, NEW by,
           ahead \in {<<"record", "entry", "collect">>, <<"record", "entry">>},
           by \in {"consent", "decide", "release", "shown", "exited"},
           Install(p)!Writes(a, m, ahead, by),
           UNCHANGED <<record, entry, trees, pinned, call, released, candidates>>,
           confirmed' \in [InstallAccounts(p) -> SUBSET ({"key", "capability"} \X {1, 2})],
           \A b \in InstallAccounts(p) : confirmed[b] \subseteq confirmed'[b],
           held' \in [InstallerSessions -> Install(p)!Holds \cup {None}],
           \A s \in InstallerSessions :
             held'[s] # None => /\ held[s] # None /\ held'[s].code = held[s].code
                                /\ held'[s].account = held[s].account,
           record[a] # None, Right(p, m, trees, confirmed'[a]),
           m.current > record[a].current => Install(p)!Holders(a, record[a].current)' = {},
           record[a].decision = "denied" /\ by # "decide" => m.decision = "denied"
    PROVE  InstInv(p)'
<1>1. locked = None /\ \A t \in InstallThreads(p) : ~Active(t) /\ ~Active(t)'
  BY Quiet_Is DEF Active
<1>2. /\ ahead \in Install(p)!Todos /\ Head(ahead) # "pin"
      /\ ahead \in Before /\ ahead \notin After \cup Removes /\ ahead # <<"record", "collect">>
  BY Todos_Asked
<1>3. /\ locked' \in Install(p)!Locks /\ locked' # None
      /\ locked'.account = a /\ locked'.next = m /\ locked'.todo = ahead
      /\ locked'.by = by
  BY <1>2, Writes_Is DEF Install!Writes
<1>4. m # None
  BY Install_Bounds
<1>5. record[a] # None => Follows(p, record[locked.account], locked)'
  BY <1>3 DEF Follows, Install!Holders
<1>6. call' \in [InstallThreads(p) -> Install(p)!Calls \cup {None}] /\ trees \subseteq 1..MaxCode
  BY DEF InstInv, InstTyped
<1>7. /\ locked'.next # None => Right(p, locked'.next, trees', confirmed'[locked'.account])
      /\ record[locked'.account] # None => Follows(p, record[locked.account], locked)'
  BY <1>3, <1>5
<1> QED BY <1>1, <1>2, <1>3, <1>4, <1>6, <1>7, Locks_For

\* An account removes the application.
LEMMA Inst_Uninstall ==
    ASSUME NEW CONSTANT p \in InstallParts, InstInv(p), NEW a \in InstallAccounts(p),
           Install(p)!Uninstall(a)
    PROVE  InstInv(p)'
<1>1. /\ Install(p)!Quiet /\ Install(p)!Writes(a, None, <<"entry", "record", "collect">>, "uninstall")
      /\ UNCHANGED <<record, entry, trees, pinned, held, call, released, candidates, confirmed>>
  BY DEF Install!Uninstall, Install!Asked, Install!files
<1>2. locked = None /\ \A t \in InstallThreads(p) : ~Active(t) /\ ~Active(t)'
  BY <1>1, Quiet_Is DEF Active
<1>3. LET ahead == <<"entry", "record", "collect">> IN
      /\ ahead \in Install(p)!Todos /\ Head(ahead) # "pin"
      /\ ahead \notin Before \cup After /\ ahead # <<"record", "collect">>
  BY Todos_Asked
<1>4. /\ locked' \in Install(p)!Locks /\ locked' # None
      /\ locked'.next = None /\ locked'.todo = <<"entry", "record", "collect">>
  BY <1>1, <1>3, Writes_Is DEF Install!Writes
<1>5. InstTyped(p)
  BY DEF InstInv
<1> QED BY <1>1, <1>2, <1>3, <1>4, <1>5, Locks_For DEF InstTyped

\* What the account confirms with a version.
LEMMA Shown_Is ==
    ASSUME NEW CONSTANT p \in InstallParts, NEW code
    PROVE  Install(p)!Shown(code) \in SUBSET ({"key", "capability"} \X {1, 2})
BY DEF Install!Shown, Install!Key

\* An account consents to the version staged.
LEMMA Inst_Consent ==
    ASSUME NEW CONSTANT p \in InstallParts, InstInv(p), NEW a \in InstallAccounts(p),
           Install(p)!Consent(a)
    PROVE  InstInv(p)'
<1> DEFINE mine == [record[a] EXCEPT !.staged.consent = FALSE]
           users == Install(p)!Holders(a, mine.current)
           m == Install(p)!TrySwitch(mine, users)
           agreed == confirmed[a] \cup Install(p)!Shown(mine.staged.code)
<1>1. /\ Install(p)!Quiet /\ record[a] # None /\ record[a].staged # None
      /\ Install(p)!Writes(a, m, <<"record", "entry", "collect">>, "consent")
      /\ confirmed' = [confirmed EXCEPT ![a] = agreed]
      /\ UNCHANGED <<record, entry, trees, pinned, held, call, released, candidates>>
  BY DEF Install!Consent, Install!Asked, Install!Has, Install!files
<1>2. InstTyped(p) /\ Right(p, record[a], trees, confirmed[a])
  BY <1>1 DEF InstInv, InstRecords
<1>3. mine.staged.code = record[a].staged.code
  <2>1. record[a] \in Install(p)!Records /\ record[a].staged \in Install(p)!Staged
    BY <1>1, <1>2, Names_Are DEF Right
  <2> QED BY <2>1 DEF Install!Records, Install!Staged
<1>4. Right(p, record[a], trees, agreed) /\ Install(p)!Shown(record[a].staged.code) \subseteq agreed
  <2>1. Install(p)!Names(record[a]) \subseteq trees
    BY <1>2 DEF Right
  <2> QED BY <1>2, <1>3, <2>1, Right_Stays
<1>5. /\ Right(p, mine, trees, agreed) /\ mine.current = record[a].current
      /\ mine.decision = record[a].decision /\ mine.staged # None /\ ~mine.staged.consent
  BY <1>1, <1>4, Right_Consented
<1> HIDE DEF mine
<1>6. /\ Right(p, m, trees, agreed)
      /\ m.current > record[a].current => Install(p)!Holders(a, record[a].current) = {}
      /\ record[a].decision = "denied" => m.decision = "denied"
  <2>1. CASE Install(p)!Switches(mine, users)
    <3>1. m = Install(p)!Switched(mine) /\ users = {}
      BY <2>1 DEF Install!TrySwitch, Install!Switches
    <3>2. Right(p, Install(p)!Switched(mine), trees, agreed)
          /\ (mine.decision = "denied" => Install(p)!Switched(mine).decision = "denied")
      BY <1>5, Right_Switched
    <3> QED BY <1>5, <3>1, <3>2
  <2>2. CASE ~Install(p)!Switches(mine, users)
    <3>1. m = mine
      BY <2>2 DEF Install!TrySwitch
    <3>2. mine.current \in Nat
      BY <1>5, Names_Are DEF Right
    <3> QED BY <1>5, <3>1, <3>2
  <2> QED BY <2>1, <2>2
<1>7. m \in Install(p)!Records
  BY <1>6 DEF Right
<1> HIDE DEF m
<1>8. agreed \in SUBSET ({"key", "capability"} \X {1, 2})
  BY <1>2, Shown_Is DEF InstTyped
<1>9. /\ confirmed' \in [InstallAccounts(p) -> SUBSET ({"key", "capability"} \X {1, 2})]
      /\ \A b \in InstallAccounts(p) : confirmed[b] \subseteq confirmed'[b]
      /\ confirmed'[a] = agreed
  BY <1>1, <1>2, <1>8 DEF InstTyped
<1>10. Install(p)!Holders(a, record[a].current)' = Install(p)!Holders(a, record[a].current)
  BY <1>1 DEF Install!Holders
<1>11. held' \in [InstallerSessions -> Install(p)!Holds \cup {None}]
  BY <1>1, <1>2 DEF InstTyped
<1> HIDE DEF agreed
<1> QED BY <1>1, <1>6, <1>7, <1>9, <1>10, <1>11, Asks_For

\* An account decides on a capability.
LEMMA Inst_Decide ==
    ASSUME NEW CONSTANT p \in InstallParts, InstInv(p), NEW a \in InstallAccounts(p),
           Install(p)!Decide(a)
    PROVE  InstInv(p)'
<1>1. /\ Install(p)!Quiet /\ record[a] # None
      /\ UNCHANGED <<record, entry, trees, pinned, held, call, released, candidates, confirmed>>
  BY DEF Install!Decide, Install!Asked, Install!Has, Install!files
<1>2. PICK d \in {"granted", "denied"} :
        Install(p)!Writes(a, [record[a] EXCEPT !.decision = d], <<"record", "entry">>, "decide")
  BY DEF Install!Decide
<1> DEFINE m == [record[a] EXCEPT !.decision = d]
<1>3. InstTyped(p) /\ Right(p, record[a], trees, confirmed[a]) /\ record[a] \in Install(p)!Records
  BY <1>1 DEF InstInv, InstRecords, Right
<1>4. /\ m \in Install(p)!Records /\ m.current = record[a].current
      /\ m.previous = record[a].previous /\ m.staged = record[a].staged /\ m.bad = record[a].bad
  BY <1>3 DEF Install!Records
<1>5. Install(p)!Writes(a, m, <<"record", "entry">>, "decide")
  BY <1>2
<1> HIDE DEF m
<1>6. Right(p, m, trees, confirmed[a])
  BY <1>3, <1>4, Right_Kept
<1>7. ~(m.current > record[a].current)
  BY <1>3, <1>4, Names_Are
<1>8. /\ held' \in [InstallerSessions -> Install(p)!Holds \cup {None}]
      /\ confirmed' \in [InstallAccounts(p) -> SUBSET ({"key", "capability"} \X {1, 2})]
  BY <1>1, <1>3 DEF InstTyped
<1> QED BY <1>1, <1>3, <1>4, <1>5, <1>6, <1>7, <1>8, Asks_For

\* A version shows its first window.
LEMMA Inst_ShowsWindow ==
    ASSUME NEW CONSTANT p \in InstallParts, InstInv(p), NEW s \in InstallerSessions,
           Install(p)!ShowsWindow(s)
    PROVE  InstInv(p)'
<1> DEFINE a == held[s].account
           m == [record[a] EXCEPT !.shown = TRUE, !.previous = None]
<1>1. /\ Install(p)!Quiet /\ held[s] # None /\ record[a] # None
      /\ Install(p)!Writes(a, m, <<"record", "entry", "collect">>, "shown")
      /\ UNCHANGED <<record, entry, trees, pinned, held, call, released, candidates, confirmed>>
  BY DEF Install!ShowsWindow, Install!Asked, Install!Has, Install!files
<1>2. InstTyped(p) /\ a \in InstallAccounts(p)
  BY <1>1 DEF InstInv, InstTyped, Install!Holds
<1>3. Right(p, record[a], trees, confirmed[a]) /\ record[a] \in Install(p)!Records
  BY <1>1, <1>2 DEF InstInv, InstRecords, Right
<1> HIDE DEF a
<1>4. /\ m \in Install(p)!Records /\ m.current = record[a].current
      /\ m.previous = None /\ m.staged = record[a].staged /\ m.bad = record[a].bad
      /\ m.decision = record[a].decision
  BY <1>3 DEF Install!Records
<1> HIDE DEF m
<1>5. Right(p, m, trees, confirmed[a])
  BY <1>3, <1>4, Right_Kept
<1>6. ~(m.current > record[a].current)
  BY <1>3, <1>4, Names_Are
<1>7. /\ held' \in [InstallerSessions -> Install(p)!Holds \cup {None}]
      /\ confirmed' \in [InstallAccounts(p) -> SUBSET ({"key", "capability"} \X {1, 2})]
  BY <1>1, <1>2 DEF InstTyped
<1> QED BY <1>1, <1>2, <1>4, <1>5, <1>6, <1>7, Asks_For

\* A version exits before its first window.
LEMMA Inst_Exited ==
    ASSUME NEW CONSTANT p \in InstallParts, InstInv(p), NEW s \in InstallerSessions,
           Install(p)!Exited(s)
    PROVE  InstInv(p)'
<1> DEFINE a == held[s].account
           mine == [record[a] EXCEPT !.exits = @ + 1]
<1>1. /\ Install(p)!Quiet /\ held[s] # None /\ record[a] # None
      /\ held' = [held EXCEPT ![s].exited = TRUE] /\ mine.exits <= InstallExits(p)
      /\ IF mine.exits >= UnshownExits /\ mine.previous # None
           THEN Install(p)!Writes(a, Install(p)!RolledBack(mine), <<"record", "entry", "collect">>, "exited")
           ELSE Install(p)!Writes(a, mine, <<"record", "entry">>, "exited")
      /\ UNCHANGED <<record, entry, trees, pinned, call, released, candidates, confirmed>>
  BY DEF Install!Exited, Install!Asked, Install!Has, Install!files
<1>2. InstTyped(p) /\ a \in InstallAccounts(p) /\ held[s] \in Install(p)!Holds
  BY <1>1 DEF InstInv, InstTyped, Install!Holds
<1>3. Right(p, record[a], trees, confirmed[a]) /\ record[a] \in Install(p)!Records
  BY <1>1, <1>2 DEF InstInv, InstRecords, Right
<1>4. /\ held' \in [InstallerSessions -> Install(p)!Holds \cup {None}]
      /\ \A z \in InstallerSessions :
           held'[z] # None => /\ held[z] # None /\ held'[z].code = held[z].code
                              /\ held'[z].account = held[z].account
  <2> DEFINE hold == [held[s] EXCEPT !.exited = TRUE]
  <2>1. /\ hold \in Install(p)!Holds /\ hold.code = held[s].code /\ hold.account = held[s].account
        /\ held' = [held EXCEPT ![s] = hold]
    BY <1>1, <1>2 DEF Install!Holds
  <2> HIDE DEF hold
  <2> QED BY <1>1, <1>2, <2>1 DEF InstTyped
<1> HIDE DEF a
<1>5. /\ mine \in Install(p)!Records /\ mine.current = record[a].current
      /\ mine.previous = record[a].previous /\ mine.staged = record[a].staged
      /\ mine.bad = record[a].bad /\ mine.decision = record[a].decision
  <2>1. record[a].exits \in Nat /\ mine.exits = record[a].exits + 1
    BY <1>3, Install_Bounds DEF Install!Records
  <2>2. record[a].exits + 1 \in 0..InstallExits(p)
    BY <1>1, <2>1, Install_Bounds
  <2> QED BY <1>3, <2>2 DEF Install!Records
<1> HIDE DEF mine
<1>6. Right(p, mine, trees, confirmed[a])
  BY <1>3, <1>5, Right_Kept
<1>7. PICK m \in {mine, Install(p)!RolledBack(mine)}, ahead \in {<<"record", "entry", "collect">>, <<"record", "entry">>} :
        /\ Install(p)!Writes(a, m, ahead, "exited")
        /\ m # mine => mine.previous # None
  BY <1>1
<1>8. /\ Right(p, m, trees, confirmed[a]) /\ ~(m.current > record[a].current)
      /\ m.decision = record[a].decision
  <2>1. mine.previous # None => LET n == Install(p)!RolledBack(mine) IN
          Right(p, n, trees, confirmed[a]) /\ n.current < mine.current /\ n.decision = mine.decision
    BY <1>6, Right_RolledBack
  <2>2. mine.current \in Nat
    BY <1>5, Names_Are
  <2>3. mine.previous # None => Install(p)!RolledBack(mine).current \in Nat
    BY <2>1, Names_Are DEF Right
  <2> QED BY <1>5, <1>6, <1>7, <2>1, <2>2, <2>3
<1>9. m \in Install(p)!Records /\ confirmed' \in [InstallAccounts(p) -> SUBSET ({"key", "capability"} \X {1, 2})]
  BY <1>1, <1>2, <1>8 DEF InstTyped, Right
<1>10. /\ Install(p)!Quiet /\ record[a] # None
       /\ UNCHANGED <<record, entry, trees, pinned, call, released, candidates>>
       /\ \A b \in InstallAccounts(p) : confirmed[b] \subseteq confirmed'[b]
       /\ Right(p, m, trees, confirmed'[a])
       /\ ~(m.current > record[a].current)
       /\ record[a].decision = "denied" => m.decision = "denied"
  BY <1>1, <1>8
<1>11. Install(p)!Writes(a, m, ahead, "exited")
  BY <1>7
<1> QED BY <1>2, <1>4, <1>9, <1>10, <1>11, Asks_For

\* A session releases the version it holds.
LEMMA Inst_Release ==
    ASSUME NEW CONSTANT p \in InstallParts, InstInv(p), NEW s \in InstallerSessions,
           Install(p)!Release(s)
    PROVE  InstInv(p)'
<1>1. /\ Install(p)!Quiet /\ held[s] # None /\ held' = [held EXCEPT ![s] = None]
      /\ UNCHANGED <<record, entry, trees, pinned, call, released, candidates, confirmed>>
  BY DEF Install!Release, Install!files
<1>2. InstTyped(p) /\ held[s] \in Install(p)!Holds
  BY <1>1 DEF InstInv, InstTyped
<1>3. PICK a \in InstallAccounts(p) : a = held[s].account
  BY <1>2 DEF Install!Holds
<1> DEFINE mine == record[a]
           due == /\ mine # None /\ mine.staged # None
                  /\ Install(p)!Switches(mine, Install(p)!Holders(a, mine.current) \ {s})
<1>4. IF ~due THEN Install(p)!Writes(a, None, <<"collect">>, "release")
      ELSE IF mine.staged.code \in trees
        THEN Install(p)!Writes(a, Install(p)!Switched(mine), <<"record", "entry", "collect">>, "release")
        ELSE UNCHANGED locked
  BY <1>3 DEF Install!Release, Install!Has
<1>5. /\ held' \in [InstallerSessions -> Install(p)!Holds \cup {None}]
      /\ \A z \in InstallerSessions : held'[z] = IF z = s THEN None ELSE held[z]
      /\ confirmed' \in [InstallAccounts(p) -> SUBSET ({"key", "capability"} \X {1, 2})]
  BY <1>1, <1>2 DEF InstTyped
<1>6. CASE ~due
  <2> DEFINE ahead == <<"collect">>
  <2>1. /\ ahead \in Install(p)!Todos /\ Head(ahead) # "pin"
        /\ ahead \notin Before \cup After \cup Removes /\ ahead # <<"record", "collect">>
    BY Todos_Asked
  <2>2. /\ locked' \in Install(p)!Locks /\ locked' # None
        /\ locked'.next = None /\ locked'.todo = ahead
    BY <1>4, <1>6, <2>1, Writes_Is DEF Install!Writes
  <2>3. locked = None /\ \A t \in InstallThreads(p) : ~Active(t) /\ ~Active(t)'
    BY <1>1, Quiet_Is DEF Active
  <2>4. call \in [InstallThreads(p) -> Install(p)!Calls \cup {None}] /\ trees \subseteq 1..MaxCode
    BY <1>2 DEF InstTyped
  <2> HIDE DEF ahead
  <2> QED BY <1>1, <1>5, <2>1, <2>2, <2>3, <2>4, Locks_For
<1>7. CASE due
  <2> DEFINE m == Install(p)!Switched(mine)
  <2>1. Right(p, mine, trees, confirmed[a]) /\ ~mine.staged.consent
    BY <1>7 DEF InstInv, InstRecords, Install!Switches
  <2>2. mine.staged.code \in trees
    BY <1>7, <2>1, Names_Are DEF Right
  <2>3. Install(p)!Writes(a, m, <<"record", "entry", "collect">>, "release")
    BY <1>4, <1>7, <2>2
  <2>4. /\ Right(p, m, trees, confirmed[a]) /\ m \in Install(p)!Records
        /\ mine.decision = "denied" => m.decision = "denied"
    BY <1>7, <2>1, Right_Switched DEF Right
  <2>5. Install(p)!Holders(a, mine.current) \ {s} = {}
    BY <1>7 DEF Install!Switches
  <2>6. Install(p)!Holders(a, record[a].current)' = {}
    <3> SUFFICES ASSUME NEW z \in Install(p)!Holders(a, record[a].current)' PROVE FALSE
      OBVIOUS
    <3>1. /\ z \in InstallerSessions /\ held'[z] # None /\ held'[z].account = a
          /\ held'[z].code = mine.current
      BY <1>1 DEF Install!Holders
    <3>2. z # s /\ z \in Install(p)!Holders(a, mine.current)
      BY <1>5, <3>1 DEF Install!Holders
    <3> QED BY <2>5, <3>2
  <2>7. /\ record[a] # None
        /\ record[a].decision = "denied" => m.decision = "denied"
    BY <1>7, <2>4
  <2> HIDE DEF m
  <2> QED BY <1>1, <1>5, <2>3, <2>4, <2>6, <2>7, Asks_For
<1> QED BY <1>6, <1>7

\* One more before three others.
LEMMA One_First ==
    ASSUME NEW S, NEW a \in S, NEW b \in S, NEW c \in S, NEW d \in S
    PROVE  <<a>> \o <<b, c, d>> = <<a, b, c, d>>
<1> DEFINE q == <<a>>
           r == <<b, c, d>>
           w == <<a, b, c, d>>
           s == q \o r
<1>1. q \in Seq(S) /\ r \in Seq(S) /\ w \in Seq(S)
  OBVIOUS
<1>2. Len(q) = 1 /\ Len(r) = 3 /\ Len(w) = 4
  OBVIOUS
<1>3. /\ q[1] = a /\ r[1] = b /\ r[2] = c /\ r[3] = d
      /\ w[1] = a /\ w[2] = b /\ w[3] = c /\ w[4] = d
  OBVIOUS
<1> HIDE DEF q, r, w
<1>4. /\ s \in Seq(S) /\ Len(s) = Len(q) + Len(r)
      /\ \A i \in 1 .. Len(q) + Len(r) : s[i] = IF i <= Len(q) THEN q[i] ELSE r[i - Len(q)]
  BY <1>1, ConcatProperties, Zenon
<1> HIDE DEF s
<1>5. Len(s) = 4 /\ s[1] = a /\ s[2] = b /\ s[3] = c /\ s[4] = d
  BY <1>2, <1>3, <1>4
<1>6. \A i \in 1..Len(s) : s[i] = w[i]
  <2> SUFFICES ASSUME NEW i \in 1..4 PROVE s[i] = w[i]
    BY <1>5
  <2>1. i = 1 \/ i = 2 \/ i = 3 \/ i = 4
    OBVIOUS
  <2> QED BY <1>3, <1>5, <2>1
<1>7. s = w
  BY <1>1, <1>2, <1>4, <1>5, <1>6, SeqEqual
<1> QED BY <1>7 DEF s, q, r, w

\* The sequence the lock's holder starts with, when the machine's key is written first.
LEMMA Pin_First ==
    /\ <<"pin">> \o <<"record", "entry", "collect">> = <<"pin", "record", "entry", "collect">>
    /\ <<>> \o <<"record", "entry", "collect">> = <<"record", "entry", "collect">>
<1> DEFINE S == {"pin", "record", "entry", "collect"}
<1>1. "pin" \in S /\ "record" \in S /\ "entry" \in S /\ "collect" \in S
  OBVIOUS
<1> HIDE DEF S
<1>2. <<"pin">> \o <<"record", "entry", "collect">> = <<"pin", "record", "entry", "collect">>
  BY <1>1, One_First, Zenon
<1>3. <<>> \o <<"record", "entry", "collect">> = <<"record", "entry", "collect">>
  OBVIOUS
<1> QED BY <1>2, <1>3, Zenon

\* The rest of a release applied: placed, and switched to or staged.
LEMMA Inst_ApplyTakes ==
    ASSUME NEW CONSTANT p \in InstallParts, InstInv(p), NEW t \in InstallThreads(p),
           Install(p)!ApplyTakes(t)
    PROVE  InstInv(p)'
<1> DEFINE c == call[t]
<1>1. /\ c # None /\ c.stage = "ready" /\ locked = None
      /\ trees' = IF c.tree THEN trees \cup {c.code} ELSE trees
      /\ confirmed' = IF c.consented
                        THEN [confirmed EXCEPT ![c.account] = @ \cup Install(p)!Shown(c.code)]
                        ELSE confirmed
      /\ call' = [call EXCEPT ![t] = None]
      /\ UNCHANGED <<record, entry, pinned, held, released, candidates>>
  BY DEF Install!ApplyTakes, Install!At, Install!Free
<1>2. InstTyped(p) /\ c \in Install(p)!Calls /\ c.account \in InstallAccounts(p) /\ c.code \in 1..MaxCode
  BY <1>1, Install_Bounds DEF InstInv, InstTyped, Install!Calls
<1>3. /\ ~c.consented => record[c.account] # None
      /\ record[c.account] # None =>
           c.code >= record[c.account].current /\ c.code \notin record[c.account].bad
      /\ c.tree \/ c.code \in trees
      /\ \A u \in InstallThreads(p) \ {t} : ~Active(u)
  BY <1>1 DEF InstInv, InstCalls, Active
<1>4. PICK a \in InstallAccounts(p) : a = c.account
  BY <1>2
<1>5. /\ trees \subseteq trees' /\ trees' \subseteq 1..MaxCode /\ c.code \in trees'
  BY <1>1, <1>2, <1>3 DEF InstTyped
<1>6. /\ confirmed' \in [InstallAccounts(p) -> SUBSET ({"key", "capability"} \X {1, 2})]
      /\ \A b \in InstallAccounts(p) : confirmed[b] \subseteq confirmed'[b]
      /\ c.consented => Install(p)!Shown(c.code) \subseteq confirmed'[a]
  <2>1. Install(p)!Shown(c.code) \in SUBSET ({"key", "capability"} \X {1, 2})
    BY Shown_Is
  <2>2. CASE c.consented
    <3>1. confirmed' = [confirmed EXCEPT ![a] = confirmed[a] \cup Install(p)!Shown(c.code)]
      BY <1>1, <1>4, <2>2
    <3>2. confirmed[a] \cup Install(p)!Shown(c.code) \in SUBSET ({"key", "capability"} \X {1, 2})
      BY <1>2, <2>1 DEF InstTyped
    <3> QED BY <1>2, <3>1, <3>2 DEF InstTyped
  <2>3. CASE ~c.consented
    BY <1>1, <1>2, <2>3 DEF InstTyped
  <2> QED BY <2>2, <2>3
<1>7. /\ call' \in [InstallThreads(p) -> Install(p)!Calls \cup {None}]
      /\ \A u \in InstallThreads(p) : call'[u] \in {call[u], None} /\ ~Active(u)'
  <2>1. \A u \in InstallThreads(p) : call'[u] = IF u = t THEN None ELSE call[u]
    BY <1>1, <1>2 DEF InstTyped
  <2>2. call' \in [InstallThreads(p) -> Install(p)!Calls \cup {None}]
    BY <1>1, <1>2 DEF InstTyped
  <2>3. \A u \in InstallThreads(p) : ~Active(u)'
    BY <1>3, <2>1 DEF Active
  <2> QED BY <2>1, <2>2, <2>3
<1> DEFINE ahead == (IF pinned = Install(p)!Key(c.code) THEN <<>> ELSE <<"pin">>)
                    \o <<"record", "entry", "collect">>
           Write(m) == locked' = [account |-> a, next |-> m, todo |-> ahead,
                                  key |-> Install(p)!Key(c.code), by |-> "apply"]
           mine == Install(p)!StagedFor(record[a], c)
           users == Install(p)!Holders(a, record[a].current)
<1>8. /\ record[a] = None =>
           Write(Install(p)!DecideCapabilities(Install(p)!Fresh(c.code), c.code))
      /\ record[a] # None /\ record[a].current = c.code =>
           Write(Install(p)!DecideCapabilities(record[a], c.code))
      /\ /\ record[a] # None /\ record[a].current # c.code
         /\ record[a].current \in trees'
         => Write(Install(p)!TrySwitch(mine, users))
  <2>1. Install(p)!Switches(mine, users) => c.code \in trees'
    BY <1>5
  <2> QED BY <1>4, <2>1 DEF Install!ApplyTakes, Install!Has
<1>9. record[a] # None => Right(p, record[a], trees', confirmed'[a])
  <2> SUFFICES ASSUME record[a] # None PROVE Right(p, record[a], trees', confirmed'[a])
    OBVIOUS
  <2>1. Right(p, record[a], trees, confirmed[a])
    BY DEF InstInv, InstRecords
  <2> QED BY <1>5, <1>6, <2>1, Right_Stays DEF Right
<1> HIDE DEF c
<1>10. \E m \in Install(p)!Records :
         /\ Write(m) /\ Right(p, m, trees', confirmed'[a])
         /\ record[a] # None =>
              /\ m.current > record[a].current => users = {}
              /\ record[a].decision = "denied" => m.decision = "denied"
  <2>1. CASE record[a] = None
    <3> DEFINE f == Install(p)!Fresh(c.code)  m == Install(p)!DecideCapabilities(f, c.code)
    <3>1. Right(p, f, trees', confirmed'[a])
      BY <1>2, <1>3, <1>4, <1>5, <1>6, <2>1, Install_Bounds, Right_Fresh
    <3>2. Right(p, m, trees', confirmed'[a])
      BY <3>1, Right_Decided
    <3> QED BY <1>8, <2>1, <3>2 DEF Right
  <2>2. CASE record[a] # None /\ record[a].current = c.code
    <3> DEFINE m == Install(p)!DecideCapabilities(record[a], c.code)
    <3>1. /\ Right(p, m, trees', confirmed'[a]) /\ m.current = record[a].current
          /\ record[a].decision = "denied" => m.decision = "denied"
      BY <1>9, <2>2, Right_Decided
    <3>2. m.current \in Nat /\ m \in Install(p)!Records
      BY <3>1, Names_Are DEF Right
    <3>3. Write(m)
      BY <1>8, <2>2
    <3> HIDE DEF m, Write
    <3> QED BY <3>1, <3>2, <3>3
  <2>3. CASE record[a] # None /\ record[a].current # c.code
    <3>1. /\ record[a].current \in Nat /\ record[a].current \in trees'
      BY <1>9, <2>3, Names_Are DEF Right
    <3>2. c.code > record[a].current /\ c.code \notin record[a].bad
      BY <1>2, <1>3, <1>4, <2>3, <3>1
    <3>3. /\ Right(p, mine, trees', confirmed'[a]) /\ mine.current = record[a].current
          /\ mine.decision = record[a].decision /\ mine.staged # None
      BY <1>2, <1>5, <1>6, <1>9, <2>3, <3>2, Right_StagedFor
    <3> DEFINE m == Install(p)!TrySwitch(mine, users)
    <3>4. Write(m)
      BY <1>8, <2>3, <3>1
    <3> HIDE DEF mine
    <3>5. CASE Install(p)!Switches(mine, users)
      <4>1. m = Install(p)!Switched(mine) /\ ~mine.staged.consent /\ users = {}
        BY <3>5 DEF Install!TrySwitch, Install!Switches
      <4>2. /\ Right(p, m, trees', confirmed'[a])
            /\ mine.decision = "denied" => m.decision = "denied"
        BY <3>3, <4>1, Right_Switched
      <4> HIDE DEF m, Write
      <4> QED BY <3>3, <3>4, <4>1, <4>2 DEF Right
    <3>6. CASE ~Install(p)!Switches(mine, users)
      <4>1. m = mine
        BY <3>6 DEF Install!TrySwitch
      <4> HIDE DEF m, Write
      <4> QED BY <3>1, <3>3, <3>4, <4>1 DEF Right
    <3> QED BY <3>5, <3>6
  <2> QED BY <2>1, <2>2, <2>3
<1>11. PICK m \in Install(p)!Records :
         /\ Write(m) /\ Right(p, m, trees', confirmed'[a])
         /\ record[a] # None =>
              /\ m.current > record[a].current => users = {}
              /\ record[a].decision = "denied" => m.decision = "denied"
  BY <1>10
<1>12. /\ ahead \in Install(p)!Todos
       /\ ahead \in Before /\ ahead \notin After \cup Removes /\ ahead # <<"record", "collect">>
  BY Pin_First, Todos_Asked
<1>13. Install(p)!Key(c.code) \in {1, 2} /\ Install(p)!Key(c.code) # None
  BY Install_Bounds DEF Install!Key
<1> HIDE DEF ahead
<1>14. /\ locked' \in Install(p)!Locks /\ locked' # None
       /\ locked'.account = a /\ locked'.next = m /\ locked'.todo = ahead
       /\ locked'.key = Install(p)!Key(c.code) /\ locked'.by = "apply"
  BY <1>11, <1>12, <1>13, Writes_Is
<1>15. record[a] # None => Follows(p, record[locked.account], locked)'
  BY <1>1, <1>11, <1>14 DEF Follows, Install!Holders
<1>16. /\ held' \in [InstallerSessions -> Install(p)!Holds \cup {None}]
       /\ \A s \in InstallerSessions :
            held'[s] # None => held[s] # None /\ held'[s].code = held[s].code
  BY <1>1, <1>2 DEF InstTyped
<1>17. m # None
  BY Install_Bounds
<1> QED BY <1>1, <1>5, <1>6, <1>7, <1>11, <1>12, <1>13, <1>14, <1>15, <1>16, <1>17, Locks_For

\* Only one connection's call changes, or nothing the lock's holder or a record reads does.
LEMMA Calls_For ==
    ASSUME NEW CONSTANT p \in InstallParts, InstInv(p),
           UNCHANGED <<record, entry, trees, pinned, held, locked, released, confirmed>>,
           candidates' = None \/ candidates' \subseteq 1..MaxCode,
           call' \in [InstallThreads(p) -> Install(p)!Calls \cup {None}],
           locked # None => \A t \in InstallThreads(p) : ~Active(t)',
           InstCalls(p)'
    PROVE  InstInv(p)'
<1>1. InstTyped(p)'
  BY DEF InstInv, InstTyped
<1>2. InstRecords(p)' /\ InstEntries(p)' /\ InstHeld(p)'
  BY DEF InstInv, InstRecords, InstEntries, InstHeld
<1>3. InstLocked(p)'
  <2> SUFFICES ASSUME locked # None PROVE InstLocked(p)'
    BY DEF InstLocked
  <2>1. Follows(p, record[locked.account], locked)' <=> Follows(p, record[locked.account], locked)
    BY DEF Follows, Install!Holders
  <2> QED BY <2>1 DEF InstInv, InstLocked
<1> QED BY <1>1, <1>2, <1>3 DEF InstInv

\* A call of one connection changes.
LEMMA Starts_Is ==
    ASSUME NEW CONSTANT p \in InstallParts, NEW t \in InstallThreads(p),
           NEW a \in InstallAccounts(p), NEW code \in 1..MaxCode, NEW consented \in BOOLEAN,
           NEW stage \in {"planned", "asked"}, InstTyped(p),
           Install(p)!Starts(t, a, code, consented, stage)
    PROVE  /\ call' \in [InstallThreads(p) -> Install(p)!Calls \cup {None}]
           /\ call'[t] # None /\ call'[t].account = a /\ call'[t].code = code
           /\ call'[t].consented = consented /\ call'[t].stage = stage
           /\ \A u \in InstallThreads(p) \ {t} : call'[u] = call[u]
<1> DEFINE c == [account |-> a, code |-> code, consented |-> consented, stage |-> stage,
                 tree |-> FALSE]
<1>1. c \in Install(p)!Calls /\ c # None
  <2>1. code \in Install(p)!Codes /\ None \notin Install(p)!Calls
    BY Install_Bounds
  <2>2. FALSE \in BOOLEAN /\ stage \in {"planned", "asked", "checked", "assembling", "ready"}
    OBVIOUS
  <2>3. c \in Install(p)!Calls
    BY <2>1, <2>2 DEF Install!Calls
  <2> QED BY <2>1, <2>3
<1>2. call' = [call EXCEPT ![t] = c]
  BY DEF Install!Starts
<1>3. /\ c.account = a /\ c.code = code /\ c.consented = consented /\ c.stage = stage
  OBVIOUS
<1> HIDE DEF c
<1> QED BY <1>1, <1>2, <1>3 DEF InstTyped

\* A call goes on to its next stage.
LEMMA Stage_Is ==
    ASSUME NEW CONSTANT p \in InstallParts, NEW t \in InstallThreads(p), InstTyped(p), call[t] # None,
           NEW stage \in {"planned", "asked", "checked", "assembling", "ready"}, NEW tree \in BOOLEAN,
           \/ call' = [call EXCEPT ![t].stage = stage] /\ tree = call[t].tree
           \/ call' = [call EXCEPT ![t].stage = stage, ![t].tree = tree]
    PROVE  /\ call' \in [InstallThreads(p) -> Install(p)!Calls \cup {None}]
           /\ call'[t] # None /\ call'[t].account = call[t].account /\ call'[t].code = call[t].code
           /\ call'[t].consented = call[t].consented /\ call'[t].stage = stage
           /\ call'[t].tree = tree
           /\ \A u \in InstallThreads(p) \ {t} : call'[u] = call[u]
<1> DEFINE c == [call[t] EXCEPT !.stage = stage, !.tree = tree]
<1>0. call[t] \in Install(p)!Calls
  BY DEF InstTyped
<1>1. /\ c \in Install(p)!Calls /\ c # None
      /\ c.account = call[t].account /\ c.code = call[t].code
      /\ c.consented = call[t].consented /\ c.stage = stage /\ c.tree = tree
  BY <1>0, Install_Bounds DEF Install!Calls
<1>2. call' = [call EXCEPT ![t] = c]
  <2>1. CASE call' = [call EXCEPT ![t].stage = stage] /\ tree = call[t].tree
    <3>1. [call[t] EXCEPT !.stage = stage] = c
      BY <1>0, <2>1 DEF Install!Calls
    <3>2. call' = [call EXCEPT ![t] = [call[t] EXCEPT !.stage = stage]]
      BY <2>1 DEF InstTyped
    <3> QED BY <3>1, <3>2
  <2>2. CASE call' = [call EXCEPT ![t].stage = stage, ![t].tree = tree]
    BY <2>2 DEF InstTyped
  <2> QED BY <2>1, <2>2
<1> HIDE DEF c
<1> QED BY <1>1, <1>2 DEF InstTyped

\* The newest of some of the releases there are.
LEMMA Newest_Code ==
    ASSUME NEW CONSTANT p \in InstallParts, NEW S \in SUBSET (1..MaxCode), S # {}
    PROVE  Install(p)!Max(S) \in S
BY Newest_Is, Install_Bounds

\* A release is planned.
LEMMA Inst_Prepare ==
    ASSUME NEW CONSTANT p \in InstallParts, InstInv(p), NEW t \in InstallThreads(p),
           NEW a \in InstallAccounts(p), Install(p)!Prepare(t, a)
    PROVE  InstInv(p)'
<1> DEFINE offered == (1..released) \ (IF Install(p)!Has(a) THEN record[a].bad ELSE {})
           code == Install(p)!Max(offered)
<1>1. /\ Install(p)!Quiet /\ offered # {} /\ Install(p)!Starts(t, a, code, TRUE, "planned")
      /\ UNCHANGED <<record, entry, trees, pinned, held, locked, released, candidates, confirmed>>
  BY DEF Install!Prepare, Install!files
<1>2. InstTyped(p)
  BY DEF InstInv
<1>3. code \in 1..MaxCode
  <2>1. offered \in SUBSET (1..MaxCode)
    BY <1>2, Install_Bounds DEF InstTyped
  <2> HIDE DEF offered
  <2>2. code \in offered
    BY <1>1, <2>1, Newest_Code
  <2> QED BY <2>1, <2>2
<1> HIDE DEF code
<1>4. locked = None /\ \A u \in InstallThreads(p) : ~Active(u)
  BY <1>1, Quiet_Is
<1>5. /\ call' \in [InstallThreads(p) -> Install(p)!Calls \cup {None}]
      /\ call'[t] # None /\ call'[t].consented = TRUE /\ call'[t].stage = "planned"
      /\ \A u \in InstallThreads(p) \ {t} : call'[u] = call[u]
  BY <1>1, <1>2, <1>3, Starts_Is
<1>6. ASSUME NEW u \in InstallThreads(p), call'[u] # None
      PROVE  call'[u].stage = "planned" /\ call'[u].consented
  BY <1>4, <1>5, <1>6 DEF InstInv, InstCalls, Active
<1>7. InstCalls(p)'
  BY <1>6 DEF InstCalls, Active
<1> QED BY <1>1, <1>2, <1>4, <1>5, <1>7, Calls_For DEF InstTyped

\* The release planned is applied.
LEMMA Inst_Commit ==
    ASSUME NEW CONSTANT p \in InstallParts, InstInv(p), NEW t \in InstallThreads(p),
           Install(p)!Commit(t)
    PROVE  InstInv(p)'
<1>1. /\ Install(p)!Quiet /\ call[t] # None /\ call[t].stage = "planned"
      /\ call' = [call EXCEPT ![t].stage = "asked"]
      /\ UNCHANGED <<record, entry, trees, pinned, held, locked, released, candidates, confirmed>>
  BY DEF Install!Commit, Install!files
<1>2. InstTyped(p)
  BY DEF InstInv
<1>3. locked = None /\ \A u \in InstallThreads(p) : ~Active(u)
  BY <1>1, Quiet_Is
<1>4. /\ call' \in [InstallThreads(p) -> Install(p)!Calls \cup {None}]
      /\ call'[t] # None /\ call'[t].consented = call[t].consented /\ call'[t].stage = "asked"
      /\ \A u \in InstallThreads(p) \ {t} : call'[u] = call[u]
  <2> DEFINE c == [call[t] EXCEPT !.stage = "asked"]
  <2>1. call[t] \in Install(p)!Calls
    BY <1>1, <1>2 DEF InstTyped
  <2>2. /\ c \in Install(p)!Calls /\ c # None
        /\ c.consented = call[t].consented /\ c.stage = "asked"
    BY <2>1, Install_Bounds DEF Install!Calls
  <2>3. call' = [call EXCEPT ![t] = c]
    BY <1>1, <1>2 DEF InstTyped
  <2> HIDE DEF c
  <2> QED BY <1>2, <2>2, <2>3 DEF InstTyped
<1>5. ASSUME NEW u \in InstallThreads(p), call'[u] # None
      PROVE  /\ call'[u].stage = IF u = t THEN "asked" ELSE "planned"
             /\ call'[u].consented
  BY <1>1, <1>3, <1>4, <1>5 DEF InstInv, InstCalls, Active
<1>6. InstCalls(p)'
  BY <1>5 DEF InstCalls, Active
<1> QED BY <1>1, <1>2, <1>3, <1>4, <1>6, Calls_For DEF InstTyped

\* A release is applied unasked.
LEMMA Inst_Update ==
    ASSUME NEW CONSTANT p \in InstallParts, InstInv(p), NEW t \in InstallThreads(p),
           NEW a \in InstallAccounts(p), Install(p)!Update(t, a)
    PROVE  InstInv(p)'
<1> DEFINE newer == {c \in candidates : c > record[a].current /\ c \notin record[a].bad}
           code == Install(p)!Max(newer)
<1>1. /\ Install(p)!Quiet /\ record[a] # None /\ candidates # None /\ newer # {}
      /\ Install(p)!Starts(t, a, code, FALSE, "asked")
      /\ UNCHANGED <<record, entry, trees, pinned, held, locked, released, candidates, confirmed>>
  BY DEF Install!Update, Install!files, Install!Has
<1>2. InstTyped(p)
  BY DEF InstInv
<1>3. code \in 1..MaxCode
  <2>1. newer \in SUBSET (1..MaxCode)
    BY <1>1, <1>2 DEF InstTyped
  <2> HIDE DEF newer
  <2>2. code \in newer
    BY <1>1, <2>1, Newest_Code
  <2> QED BY <2>1, <2>2
<1> HIDE DEF code
<1>4. locked = None /\ \A u \in InstallThreads(p) : ~Active(u)
  BY <1>1, Quiet_Is
<1>5. /\ call' \in [InstallThreads(p) -> Install(p)!Calls \cup {None}]
      /\ call'[t] # None /\ call'[t].account = a /\ call'[t].stage = "asked"
      /\ \A u \in InstallThreads(p) \ {t} : call'[u] = call[u]
  <2> DEFINE c == [account |-> a, code |-> code, consented |-> FALSE, stage |-> "asked",
                   tree |-> FALSE]
  <2>1. call' = [call EXCEPT ![t] = c]
    BY <1>1 DEF Install!Starts
  <2>2. c \in Install(p)!Calls /\ c # None
    <3>1. code \in Install(p)!Codes /\ None \notin Install(p)!Calls
      BY <1>3, Install_Bounds DEF Install!Codes
    <3>2. c \in Install(p)!Calls
      BY <3>1 DEF Install!Calls
    <3> QED BY <3>1, <3>2
  <2>3. c.account = a /\ c.stage = "asked"
    OBVIOUS
  <2> HIDE DEF c
  <2> QED BY <1>2, <2>1, <2>2, <2>3 DEF InstTyped
<1>6. ASSUME NEW u \in InstallThreads(p) \ {t}, call'[u] # None
      PROVE  call'[u].stage = "planned" /\ call'[u].consented
  BY <1>4, <1>5, <1>6 DEF InstInv, InstCalls, Active
<1>7. InstCalls(p)'
  BY <1>1, <1>5, <1>6 DEF InstCalls, Active
<1> QED BY <1>1, <1>2, <1>4, <1>5, <1>7, Calls_For DEF InstTyped

\* The store is read.
LEMMA Inst_Check ==
    ASSUME NEW CONSTANT p \in InstallParts, InstInv(p), Install(p)!Check
    PROVE  InstInv(p)'
<1>1. /\ Install(p)!Quiet /\ candidates' \subseteq 1..released
      /\ UNCHANGED <<record, entry, trees, pinned, held, locked, call, released, confirmed>>
  BY DEF Install!Check, Install!files
<1>2. InstTyped(p) /\ 1..released \subseteq 1..MaxCode
  BY Install_Bounds DEF InstInv, InstTyped
<1>3. locked = None /\ InstCalls(p)'
  BY <1>1, Quiet_Is, Calls_Planned
<1> QED BY <1>1, <1>2, <1>3, Calls_For DEF InstTyped

\* The release applied is looked at against the account's record.
LEMMA Inst_ApplyChecks ==
    ASSUME NEW CONSTANT p \in InstallParts, InstInv(p), NEW t \in InstallThreads(p),
           Install(p)!ApplyChecks(t)
    PROVE  InstInv(p)'
<1> DEFINE a == call[t].account
           code == call[t].code
           unwanted == record[a] # None /\ (code < record[a].current \/ code \in record[a].bad)
<1>1. /\ call[t] # None /\ call[t].stage = "asked" /\ locked = None
      /\ IF unwanted THEN call' = [call EXCEPT ![t] = None]
                    ELSE call' = [call EXCEPT ![t].stage = "checked"]
      /\ UNCHANGED <<record, entry, trees, pinned, held, locked, released, candidates, confirmed>>
  BY DEF Install!ApplyChecks, Install!At, Install!Free, Install!Has, Install!files
<1>2. InstTyped(p) /\ call[t] \in Install(p)!Calls /\ call[t].tree \in BOOLEAN
  BY <1>1 DEF InstInv, InstTyped, Install!Calls
<1>3. /\ \A u \in InstallThreads(p) \ {t} : ~Active(u)
      /\ ~call[t].consented => record[a] # None
  BY <1>1 DEF InstInv, InstCalls, Active
<1>4. \A u \in InstallThreads(p) \ {t} : call[u] # None =>
        call[u].stage = "planned" /\ call[u].consented
  BY <1>3 DEF InstInv, InstCalls, Active
<1>5. CASE unwanted
  <2>1. /\ call' \in [InstallThreads(p) -> Install(p)!Calls \cup {None}]
        /\ call'[t] = None /\ \A u \in InstallThreads(p) \ {t} : call'[u] = call[u]
    BY <1>1, <1>2, <1>5 DEF InstTyped
  <2>2. InstCalls(p)'
    BY <1>4, <2>1 DEF InstCalls, Active
  <2> QED BY <1>1, <1>2, <2>1, <2>2, Calls_For DEF InstTyped
<1>6. CASE ~unwanted
  <2>1. /\ call' \in [InstallThreads(p) -> Install(p)!Calls \cup {None}]
        /\ call'[t] # None /\ call'[t].account = a /\ call'[t].code = code
        /\ call'[t].consented = call[t].consented /\ call'[t].stage = "checked"
        /\ \A u \in InstallThreads(p) \ {t} : call'[u] = call[u]
    BY <1>1, <1>2, <1>6, Stage_Is
  <2>2. record[a] # None => code >= record[a].current /\ code \notin record[a].bad
    <3> SUFFICES ASSUME record[a] # None
                 PROVE  code >= record[a].current /\ code \notin record[a].bad
      OBVIOUS
    <3>1. a \in InstallAccounts(p) /\ code \in 1..MaxCode
      BY <1>2, Install_Bounds DEF Install!Calls
    <3>2. record[a].current \in Nat
      BY <1>2, <3>1, Names_Are DEF InstTyped
    <3> QED BY <1>6, <3>1, <3>2
  <2>3. InstCalls(p)'
    BY <1>1, <1>3, <1>4, <2>1, <2>2 DEF InstCalls, Active
  <2> QED BY <1>1, <1>2, <2>1, <2>3, Calls_For DEF InstTyped
<1> QED BY <1>5, <1>6

\* A release applied goes on to whether its version is there, or to its files in hand.
LEMMA Inst_ApplyGoesOn ==
    ASSUME NEW CONSTANT p \in InstallParts, InstInv(p), NEW t \in InstallThreads(p),
           Install(p)!ApplyLooks(t) \/ Install(p)!Assemble(t)
    PROVE  InstInv(p)'
<1>1. /\ call[t] # None /\ call[t].stage \in {"checked", "assembling"}
      /\ UNCHANGED <<record, entry, trees, pinned, held, locked, released, candidates, confirmed>>
  BY DEF Install!ApplyLooks, Install!Assemble, Install!At, Install!files
<1>2. PICK stage \in {"assembling", "ready"}, tree \in BOOLEAN :
        /\ \/ call' = [call EXCEPT ![t].stage = stage] /\ tree = call[t].tree
           \/ call' = [call EXCEPT ![t].stage = stage, ![t].tree = tree]
        /\ stage = "ready" => tree \/ call[t].code \in trees
  <2>1. call[t].tree \in BOOLEAN
    BY <1>1 DEF InstInv, InstTyped, Install!Calls
  <2>2. CASE Install(p)!Assemble(t)
    BY <2>2 DEF Install!Assemble
  <2>3. CASE Install(p)!ApplyLooks(t)
    BY <2>1, <2>3 DEF Install!ApplyLooks
  <2> QED BY <2>2, <2>3
<1>3. InstTyped(p)
  BY DEF InstInv
<1>4. /\ call' \in [InstallThreads(p) -> Install(p)!Calls \cup {None}]
      /\ call'[t] # None /\ call'[t].account = call[t].account /\ call'[t].code = call[t].code
      /\ call'[t].consented = call[t].consented /\ call'[t].stage = stage /\ call'[t].tree = tree
      /\ \A u \in InstallThreads(p) \ {t} : call'[u] = call[u]
  <2>1. stage \in {"planned", "asked", "checked", "assembling", "ready"} /\ call[t] # None
    BY <1>1
  <2>2. CASE call' = [call EXCEPT ![t].stage = stage] /\ tree = call[t].tree
    BY <1>3, <2>1, <2>2, Stage_Is
  <2>3. CASE call' = [call EXCEPT ![t].stage = stage, ![t].tree = tree]
    BY <1>3, <2>1, <2>3, Stage_Is
  <2> QED BY <1>2, <2>2, <2>3
<1>5. /\ locked = None
      /\ \A u \in InstallThreads(p) \ {t} : ~Active(u)
      /\ ~call[t].consented => record[call[t].account] # None
      /\ record[call[t].account] # None =>
           /\ call[t].code >= record[call[t].account].current
           /\ call[t].code \notin record[call[t].account].bad
  <2>1. Active(t)
    BY <1>1 DEF Active
  <2> QED BY <1>1, <2>1 DEF InstInv, InstLocked, InstCalls
<1>6. \A u \in InstallThreads(p) \ {t} : call[u] # None =>
        call[u].stage = "planned" /\ call[u].consented
  BY <1>5 DEF InstInv, InstCalls, Active
<1>7. InstCalls(p)'
  BY <1>1, <1>2, <1>4, <1>5, <1>6 DEF InstCalls, Active
<1> QED BY <1>1, <1>3, <1>4, <1>5, <1>7, Calls_For DEF InstTyped

\* A version that cannot be assembled, and what nothing names collected.
LEMMA Inst_AssembleFails ==
    ASSUME NEW CONSTANT p \in InstallParts, InstInv(p), NEW t \in InstallThreads(p),
           Install(p)!AssembleFails(t)
    PROVE  InstInv(p)'
<1>1. /\ call[t] # None /\ call[t].stage = "assembling" /\ locked = None
      /\ call' = [call EXCEPT ![t] = None] /\ Install(p)!CollectFiles
      /\ UNCHANGED <<record, entry, held, locked, released, candidates, confirmed>>
  BY DEF Install!AssembleFails, Install!At, Install!Free
<1>2. InstTyped(p)
  BY DEF InstInv
<1>3. \A u \in InstallThreads(p) \ {t} : call[u] # None =>
        call[u].stage = "planned" /\ call[u].consented
  BY <1>1 DEF InstInv, InstCalls, Active
<1>4. /\ call' \in [InstallThreads(p) -> Install(p)!Calls \cup {None}]
      /\ call'[t] = None /\ \A u \in InstallThreads(p) \ {t} : call'[u] = call[u]
  BY <1>1, <1>2 DEF InstTyped
<1>5. /\ trees' \subseteq trees /\ pinned' \in {pinned, None}
      /\ \A a \in InstallAccounts(p) : record[a] # None =>
           Install(p)!Names(record[a]) \subseteq trees'
      /\ \A s \in InstallerSessions : held[s] # None => held[s].code \in trees'
  BY <1>1, Collect_Keeps DEF InstInv
<1>6. InstTyped(p)'
  BY <1>1, <1>2, <1>4, <1>5 DEF InstTyped
<1>7. InstRecords(p)'
  BY <1>1, <1>5, Right_Stays DEF InstInv, InstRecords
<1>8. InstLocked(p)' /\ InstEntries(p)' /\ InstHeld(p)'
  BY <1>1, <1>5 DEF InstInv, InstLocked, InstEntries, InstHeld
<1>9. InstCalls(p)'
  BY <1>3, <1>4 DEF InstCalls, Active
<1> QED BY <1>6, <1>7, <1>8, <1>9 DEF InstInv

\* A release comes to the store.
LEMMA Inst_Publish ==
    ASSUME NEW CONSTANT p \in InstallParts, InstInv(p), Install(p)!Publish
    PROVE  InstInv(p)'
<1>1. /\ released < MaxCode /\ released' = released + 1
      /\ UNCHANGED <<record, entry, trees, pinned, held, locked, call, candidates, confirmed>>
  BY DEF Install!Publish, Install!files
<1>2. InstTyped(p)'
  BY <1>1, Install_Bounds DEF InstInv, InstTyped
<1>3. InstRecords(p)' /\ InstEntries(p)' /\ InstHeld(p)'
  BY <1>1 DEF InstInv, InstRecords, InstEntries, InstHeld
<1>4. InstLocked(p)' /\ InstCalls(p)'
  <2>1. \A t \in InstallThreads(p) : Active(t)' <=> Active(t)
    BY <1>1 DEF Active
  <2>2. locked # None => (Follows(p, record[locked.account], locked)' <=> Follows(p, record[locked.account], locked))
    BY <1>1 DEF Follows, Install!Holders
  <2> QED BY <1>1, <2>1, <2>2 DEF InstInv, InstLocked, InstCalls
<1> QED BY <1>2, <1>3, <1>4 DEF InstInv

\* A session holds a version its account's record names.
LEMMA Inst_Hold ==
    ASSUME NEW CONSTANT p \in InstallParts, InstInv(p), NEW s \in InstallerSessions,
           NEW a \in InstallAccounts(p), Install(p)!Hold(s, a)
    PROVE  InstInv(p)'
<1>1. /\ locked = None /\ Install(p)!Quiet
      /\ UNCHANGED <<record, entry, trees, pinned, locked, call, released, candidates, confirmed>>
  BY DEF Install!Hold, Install!Free, Install!files
<1>2. PICK code \in Install(p)!Names(record[a]) \cap trees :
        held' = [held EXCEPT ![s] = [account |-> a, code |-> code, exited |-> FALSE]]
  BY DEF Install!Hold
<1> DEFINE hold == [account |-> a, code |-> code, exited |-> FALSE]
<1>3. InstTyped(p) /\ code \in trees /\ code \in Install(p)!Codes
  BY <1>2, Install_Bounds DEF InstInv, InstTyped
<1>4. hold \in Install(p)!Holds /\ hold.code = code
  BY <1>3 DEF Install!Holds
<1>5. held' = [held EXCEPT ![s] = hold]
  BY <1>2
<1> HIDE DEF hold
<1>6. InstTyped(p)'
  BY <1>1, <1>3, <1>4, <1>5 DEF InstTyped
<1>7. InstHeld(p)'
  BY <1>1, <1>3, <1>4, <1>5 DEF InstInv, InstHeld, InstTyped
<1>8. InstRecords(p)' /\ InstLocked(p)' /\ InstEntries(p)'
  BY <1>1 DEF InstInv, InstRecords, InstLocked, InstEntries
<1>9. InstCalls(p)'
  BY <1>1, Quiet_Is, Calls_Planned
<1> QED BY <1>6, <1>7, <1>8, <1>9 DEF InstInv

\* The service stops and recovers.
LEMMA Inst_Restart ==
    ASSUME NEW CONSTANT p \in InstallParts, InstInv(p), Install(p)!Restart
    PROVE  InstInv(p)'
<1>1. /\ locked' = None /\ call' = [t \in InstallThreads(p) |-> None]
      /\ held' = [s \in InstallerSessions |-> None] /\ candidates' = None
      /\ entry' = [a \in InstallAccounts(p) |->
                     IF record[a] # None /\ record[a].current \in trees THEN record[a].current
                     ELSE IF record[a] # None THEN None ELSE entry[a]]
      /\ trees' = trees \cap Install(p)!Named
      /\ UNCHANGED <<record, released, confirmed>>
  BY DEF Install!Restart, Install!Has
<1>2. pinned' \in {pinned, None}
  <2>1. CASE \E a \in InstallAccounts(p) : Install(p)!Has(a)
    BY <2>1 DEF Install!Restart
  <2>2. CASE ~\E a \in InstallAccounts(p) : Install(p)!Has(a)
    BY <2>2 DEF Install!Restart
  <2> QED BY <2>1, <2>2
<1>3. InstTyped(p)
  BY DEF InstInv
<1>4. ASSUME NEW a \in InstallAccounts(p), record[a] # None
      PROVE  /\ Right(p, record[a], trees, confirmed[a])
             /\ Install(p)!Names(record[a]) \subseteq trees' /\ record[a].current \in trees
             /\ entry'[a] = record[a].current
  <2>1. Right(p, record[a], trees, confirmed[a])
    BY <1>4 DEF InstInv, InstRecords
  <2>2. Install(p)!Names(record[a]) \subseteq trees /\ record[a].current \in Install(p)!Names(record[a])
    BY <2>1, Names_Are DEF Right
  <2>3. Install(p)!Names(record[a]) \subseteq trees'
    BY <1>1, <1>4, <2>2, Named_Are
  <2> QED BY <1>1, <1>4, <2>1, <2>2, <2>3
<1>5. ASSUME NEW a \in InstallAccounts(p), record[a] = None
      PROVE  entry'[a] = None
  BY <1>1, <1>5 DEF InstInv, InstEntries
<1>6. InstTyped(p)'
  <2>1. \A a \in InstallAccounts(p) : entry'[a] \in (1..MaxCode) \cup {None}
    BY <1>3, <1>4, <1>5 DEF InstTyped
  <2>2. entry' \in [InstallAccounts(p) -> (1..MaxCode) \cup {None}]
    BY <1>1, <2>1
  <2> QED BY <1>1, <1>2, <1>3, <2>2 DEF InstTyped
<1>7. InstRecords(p)'
  BY <1>1, <1>4, Right_Stays DEF InstRecords
<1>8. InstLocked(p)' /\ InstCalls(p)' /\ InstHeld(p)'
  BY <1>1 DEF InstLocked, InstCalls, InstHeld, Active
<1>9. InstEntries(p)'
  BY <1>1, <1>4, <1>5 DEF InstEntries
<1> QED BY <1>6, <1>7, <1>8, <1>9 DEF InstInv

\* What holds where the installer starts.
LEMMA Install_Init ==
    ASSUME NEW CONSTANT p \in InstallParts, Install(p)!Init
    PROVE  InstInv(p)
<1> USE DEF Install!Init
<1>1. InstTyped(p)
  BY Install_Bounds DEF InstTyped
<1>2. InstRecords(p) /\ InstLocked(p) /\ InstEntries(p) /\ InstCalls(p) /\ InstHeld(p)
  BY DEF InstRecords, InstLocked, InstEntries, InstCalls, InstHeld, Active
<1> QED BY <1>1, <1>2 DEF InstInv

\* What holds between the installer's steps, whichever it takes.
LEMMA Install_Inv ==
    ASSUME NEW CONSTANT p \in InstallParts, InstInv(p), [Install(p)!Next]_(Install(p)!vars)
    PROVE  InstInv(p)'
<1>1. CASE Install(p)!Writing
  BY <1>1, Inst_WriteInstalled, Inst_WriteRecord, Inst_WriteEntry, Inst_Collect DEF Install!Writing
<1>2. CASE Install(p)!Publish \/ Install(p)!Check \/ Install(p)!Restart
  BY <1>2, Inst_Publish, Inst_Check, Inst_Restart
<1>3. ASSUME NEW t \in InstallThreads(p), Install(p)!Commit(t) \/ Install(p)!Applying(t)
      PROVE  InstInv(p)'
  BY <1>3, Inst_Commit, Inst_ApplyChecks, Inst_ApplyGoesOn, Inst_AssembleFails, Inst_ApplyTakes
     DEF Install!Applying
<1>4. ASSUME NEW t \in InstallThreads(p), NEW a \in InstallAccounts(p),
             Install(p)!Prepare(t, a) \/ Install(p)!Update(t, a)
      PROVE  InstInv(p)'
  BY <1>4, Inst_Prepare, Inst_Update
<1>5. ASSUME NEW a \in InstallAccounts(p),
             Install(p)!Uninstall(a) \/ Install(p)!Consent(a) \/ Install(p)!Decide(a)
      PROVE  InstInv(p)'
  BY <1>5, Inst_Uninstall, Inst_Consent, Inst_Decide
<1>6. ASSUME NEW s \in InstallerSessions,
             Install(p)!Release(s) \/ Install(p)!ShowsWindow(s) \/ Install(p)!Exited(s)
      PROVE  InstInv(p)'
  BY <1>6, Inst_Release, Inst_ShowsWindow, Inst_Exited
<1>7. ASSUME NEW s \in InstallerSessions, NEW a \in InstallAccounts(p), Install(p)!Hold(s, a)
      PROVE  InstInv(p)'
  BY <1>7, Inst_Hold
<1>8. CASE UNCHANGED Install(p)!vars
  <2>1. UNCHANGED <<record, entry, trees, pinned, held, locked, call, released, candidates,
                    confirmed>>
    BY <1>8 DEF Install!vars, Install!files
  <2>2. InstTyped(p)' /\ InstRecords(p)' /\ InstEntries(p)' /\ InstHeld(p)'
    BY <2>1 DEF InstInv, InstTyped, InstRecords, InstEntries, InstHeld
  <2>3. InstCalls(p)' /\ InstLocked(p)'
    <3>1. \A t \in InstallThreads(p) : Active(t)' <=> Active(t)
      BY <2>1 DEF Active
    <3>2. Follows(p, record[locked.account], locked)' <=> Follows(p, record[locked.account], locked)
      BY <2>1 DEF Follows, Install!Holders
    <3> QED BY <2>1, <3>1, <3>2 DEF InstInv, InstCalls, InstLocked
  <2> QED BY <2>2, <2>3 DEF InstInv
<1> QED BY <1>1, <1>2, <1>3, <1>4, <1>5, <1>6, <1>7, <1>8 DEF Install!Next

\* What a part's behaviour does is a step of its installer.
LEMMA Installer_Steps ==
    ASSUME NEW CONSTANT p \in InstallParts, part = p, [Next]_vars
    PROVE  [Install(p)!Next]_(Install(p)!vars)
<1>1. CASE InstallerGoes
  BY <1>1 DEF InstallerGoes
<1>2. CASE UNCHANGED installerVars
  BY <1>2 DEF installerVars, Install!vars, Install!files
<1> QED BY <1>1, <1>2 DEF Next, vars, AccountGoes, SnapshotsGoes, RegistrarGoes, CacheGoes,
        FetchGoes, NetworkGoes, ImagesGoes

InstallsInv == \A p \in InstallParts : part = p => InstInv(p)

\* The installer's invariant holds throughout.
LEMMA Services_InstallsInv == Spec => []InstallsInv
<1>1. Init => InstallsInv
  <2>1. ASSUME Init, NEW p \in InstallParts, part = p
        PROVE  InstInv(p)
    <3>1. Install(p)!Init
      BY <2>1 DEF Init, InstallParts
    <3> QED BY <3>1, Install_Init
  <2> QED BY <2>1 DEF InstallsInv
<1>2. InstallsInv /\ [Next]_vars => InstallsInv'
  <2>1. ASSUME InstallsInv, [Next]_vars, NEW p \in InstallParts, part = p
        PROVE  InstInv(p)'
    BY <2>1, Installer_Steps, Install_Inv DEF InstallsInv
  <2> QED BY <2>1, Part_Stays DEF InstallsInv
<1> QED BY <1>1, <1>2, PTL DEF Spec

(* VersionsKept, for any accounts, sessions, connections and releases: the *)
(* versions named are there and agreed to, the registry follows the records, *)
(* and what a session holds is there.                                      *)
THEOREM Services_VersionsKept == Spec => []VersionsKept
<1>1. InstallsInv => VersionsKept
  <2>1. ASSUME NEW p \in InstallParts, InstInv(p)
        PROVE  /\ Install(p)!TypeOK /\ Install(p)!NamedAreThere /\ Install(p)!EntryFollows
               /\ Install(p)!NotBadAgain /\ Install(p)!Agreed
               /\ Install(p)!HeldAreThere /\ Install(p)!EntryHasRecord
    <3>1. Install(p)!TypeOK /\ Install(p)!HeldAreThere
      BY <2>1, Install_Types DEF InstInv, InstHeld, Install!HeldAreThere
    <3>2. Install(p)!NamedAreThere /\ Install(p)!Agreed
      BY <2>1 DEF InstInv, InstRecords, Right, Install!NamedAreThere, Install!Agreed, Install!Has
    <3>3. Install(p)!EntryFollows /\ Install(p)!EntryHasRecord
      BY <2>1 DEF InstInv, InstEntries, Install!EntryFollows, Install!EntryHasRecord, Install!Free,
         Install!Has
    <3>4. Install(p)!NotBadAgain
      <4>1. ASSUME NEW a \in InstallAccounts(p), record[a] # None
            PROVE  /\ record[a].current \notin record[a].bad
                   /\ record[a].staged # None => record[a].staged.code \notin record[a].bad
        <5>1. Right(p, record[a], trees, confirmed[a])
          BY <2>1, <4>1 DEF InstInv, InstRecords
        <5> QED BY <5>1, Names_Are DEF Right
      <4> QED BY <4>1 DEF Install!NotBadAgain, Install!Has
    <3> QED BY <3>1, <3>2, <3>3, <3>4
  <2> QED BY <2>1 DEF InstallsInv, VersionsKept, InstallParts
<1> QED BY <1>1, Services_InstallsInv, PTL

\* An account's record is changed only by the lock's holder, to one that may follow it.
LEMMA Install_NeverBack ==
    ASSUME NEW CONSTANT p \in InstallParts, InstInv(p), [Install(p)!Next]_(Install(p)!vars)
    PROVE  Install(p)!SwitchedUnheld /\ Install(p)!DeniedStays
<1>1. ASSUME record' = record
      PROVE  Install(p)!SwitchedUnheld /\ Install(p)!DeniedStays
  <2>1. ASSUME NEW a \in InstallAccounts(p), record[a] # None
        PROVE  ~(record'[a].current > record[a].current)
    <3>1. record[a].current \in Nat
      BY <2>1, Names_Are DEF InstInv, InstTyped
    <3> QED BY <1>1, <3>1
  <2> QED BY <1>1, <2>1 DEF Install!SwitchedUnheld, Install!DeniedStays, Install!Has
<1>2. ASSUME Install(p)!WriteRecord
      PROVE  Install(p)!SwitchedUnheld /\ Install(p)!DeniedStays
  <2>1. /\ locked # None /\ locked \in Install(p)!Locks /\ Head(locked.todo) = "record"
        /\ record' = [record EXCEPT ![locked.account] = locked.next]
    BY <1>2 DEF Install!WriteRecord, Install!Due, InstInv, InstTyped
  <2>2. locked.account \in InstallAccounts(p) /\ locked.todo \in Install(p)!Todos
    BY <2>1, Locks_Are
  <2>3. /\ record'[locked.account] = locked.next
        /\ \A a \in InstallAccounts(p) \ {locked.account} : record'[a] = record[a]
    BY <2>1, <2>2 DEF InstInv, InstTyped
  <2>4. /\ record[locked.account] # None /\ locked.next # None
        => Follows(p, record[locked.account], locked)
    <3>1. locked.todo \in Before \/ locked.todo \in Removes
      BY <2>1, <2>2, Todos_Are DEF Removes
    <3> QED BY <2>1, <3>1 DEF InstInv, InstLocked
  <2>5. ASSUME NEW a \in InstallAccounts(p), record[a] # None, record'[a] # None
        PROVE  /\ record'[a].current > record[a].current =>
                    Install(p)!Holders(a, record[a].current) = {}
               /\ record[a].decision = "denied" /\ record'[a].decision # "denied" =>
                    locked.by = "decide"
    <3>1. record[a].current \in Nat
      BY <2>5, Names_Are DEF InstInv, InstTyped
    <3>2. CASE a = locked.account
      BY <2>3, <2>4, <2>5, <3>2 DEF Follows
    <3>3. CASE a # locked.account
      BY <2>3, <3>1, <3>3
    <3> QED BY <3>2, <3>3
  <2> QED BY <2>5 DEF Install!SwitchedUnheld, Install!DeniedStays, Install!Has
<1>3. record' = record \/ Install(p)!WriteRecord
  <2>1. CASE Install(p)!Writing
    BY <2>1 DEF Install!Writing, Install!WriteInstalled, Install!WriteEntry, Install!Collect
  <2>2. CASE Install(p)!Publish \/ Install(p)!Check \/ Install(p)!Restart
    BY <2>2 DEF Install!Publish, Install!Check, Install!Restart, Install!files
  <2>3. ASSUME NEW t \in InstallThreads(p), Install(p)!Commit(t) \/ Install(p)!Applying(t)
        PROVE  record' = record
    BY <2>3 DEF Install!Commit, Install!Applying, Install!ApplyChecks, Install!ApplyLooks,
       Install!Assemble, Install!AssembleFails, Install!ApplyTakes, Install!files
  <2>4. ASSUME NEW t \in InstallThreads(p), NEW a \in InstallAccounts(p),
               Install(p)!Prepare(t, a) \/ Install(p)!Update(t, a)
        PROVE  record' = record
    BY <2>4 DEF Install!Prepare, Install!Update, Install!files
  <2>5. ASSUME NEW a \in InstallAccounts(p),
               Install(p)!Uninstall(a) \/ Install(p)!Consent(a) \/ Install(p)!Decide(a)
        PROVE  record' = record
    BY <2>5 DEF Install!Uninstall, Install!Consent, Install!Decide, Install!files
  <2>6. ASSUME NEW s \in InstallerSessions,
               Install(p)!Release(s) \/ Install(p)!ShowsWindow(s) \/ Install(p)!Exited(s)
               \/ \E a \in InstallAccounts(p) : Install(p)!Hold(s, a)
        PROVE  record' = record
    BY <2>6 DEF Install!Release, Install!ShowsWindow, Install!Exited, Install!Hold, Install!files
  <2>7. CASE UNCHANGED Install(p)!vars
    BY <2>7 DEF Install!vars, Install!files
  <2> QED BY <2>1, <2>2, <2>3, <2>4, <2>5, <2>6, <2>7 DEF Install!Next
<1> QED BY <1>1, <1>2, <1>3

-----------------------------------------------------------------------------
(* What stays of a queue.                                                    *)

\* The smallest of some numbers.
LEMMA Least_Is ==
    ASSUME NEW S \in SUBSET Nat, S # {}
    PROVE  \E x \in S : \A y \in S : x <= y
<1> DEFINE R == OpToRel(<, Nat)
<1>1. PICK x \in S : \A y \in S : ~(<<y, x>> \in R)
  <2> HIDE DEF R
  <2>1. IsWellFoundedOn(R, Nat)
    BY NatLessThanWellFounded DEF R
  <2> QED BY <2>1, WFMin
<1>2. \A y \in S : x <= y
  <2> SUFFICES ASSUME NEW y \in S, ~(x <= y) PROVE FALSE
    OBVIOUS
  <2>1. <<y, x>> \in R
    BY DEF OpToRel
  <2> QED BY <1>1, <2>1
<1> QED BY <1>2

\* How many of some positions are up to one: one more where it is one of them, none more
\* where it is not.
LEMMA UpTo_Counts ==
    ASSUME NEW L \in Nat, NEW K \in SUBSET (1..L)
    PROVE  /\ Cardinality(K) \in Nat
           /\ \A n \in 0..L : Cardinality({m \in K : m <= n}) \in Nat
           /\ \A n \in 1..L : Cardinality({m \in K : m <= n}) =
                IF n \in K THEN Cardinality({m \in K : m <= n - 1}) + 1
                ELSE Cardinality({m \in K : m <= n - 1})
           /\ \A n \in 0..L, o \in 0..L : n <= o =>
                Cardinality({m \in K : m <= n}) <= Cardinality({m \in K : m <= o})
           /\ Cardinality({m \in K : m <= 0}) = 0
           /\ Cardinality({m \in K : m <= L}) = Cardinality(K)
<1> DEFINE Up(n) == {m \in K : m <= n}
<1>0. \A m \in K : m \in Nat /\ 1 <= m /\ m <= L
  OBVIOUS
<1>1. IsFiniteSet(K)
  <2>1. IsFiniteSet(1..L)
    BY FS_Interval
  <2> QED BY <2>1, FS_Subset
<1>2. \A n \in 0..L : IsFiniteSet(Up(n)) /\ Cardinality(Up(n)) \in Nat
  BY <1>1, FS_Subset, FS_CardinalityType
<1>3. ASSUME NEW n \in 1..L
      PROVE  Cardinality(Up(n)) = IF n \in K THEN Cardinality(Up(n - 1)) + 1
                                  ELSE Cardinality(Up(n - 1))
  <2>1. n \notin Up(n - 1) /\ n - 1 \in 0..L
    OBVIOUS
  <2>2. IsFiniteSet(Up(n - 1))
    BY <1>2, <2>1
  <2>3. CASE n \in K
    <3>1. \A m \in K : m <= n <=> m <= n - 1 \/ m = n
      BY <1>0
    <3>2. Up(n) = Up(n - 1) \cup {n}
      BY Zenon, <2>3, <3>1
    <3> HIDE DEF Up
    <3> QED BY <2>1, <2>2, <2>3, <3>2, FS_AddElement
  <2>4. CASE n \notin K
    <3>1. \A m \in K : m <= n <=> m <= n - 1
      BY <1>0, <2>4
    <3>2. Up(n) = Up(n - 1)
      BY Zenon, <3>1
    <3> QED BY <2>4, <3>2
  <2> QED BY <2>3, <2>4
<1>4. ASSUME NEW n \in 0..L, NEW o \in 0..L, n <= o
      PROVE  Cardinality(Up(n)) <= Cardinality(Up(o))
  <2>0. \A m \in K : m <= n => m <= o
    BY <1>0, <1>4
  <2>1. Up(n) \in SUBSET Up(o)
    BY Zenon, <2>0
  <2>2. IsFiniteSet(Up(o))
    BY <1>2
  <2> HIDE DEF Up
  <2> QED BY <2>1, <2>2, FS_Subset
<1>5. Up(0) = {} /\ Up(L) = K
  <2>1. \A m \in K : ~(m <= 0) /\ m <= L
    BY <1>0
  <2>2. Up(0) = {}
    BY <2>1
  <2>3. Up(L) = K
    BY <2>1
  <2> QED BY <2>2, <2>3
<1>6. Cardinality(Up(0)) = 0
  BY <1>5, FS_EmptySet
<1> QED BY <1>1, <1>2, <1>3, <1>4, <1>5, <1>6, FS_CardinalityType

\* The k-th of some positions is one of them, and they come in their order.
LEMMA Kth_Is ==
    ASSUME NEW L \in Nat, NEW K \in SUBSET (1..L)
    PROVE  /\ Cardinality(K) \in Nat
           /\ \A k \in 1..Cardinality(K) : Kth(K, k) \in K
           /\ \A j, k \in 1..Cardinality(K) : j < k => Kth(K, j) < Kth(K, k)
<1> DEFINE Up(n) == Cardinality({m \in K : m <= n})
<1>1. /\ Cardinality(K) \in Nat
      /\ \A n \in 0..L : Up(n) \in Nat
      /\ \A n \in 1..L : Up(n) = IF n \in K THEN Up(n - 1) + 1 ELSE Up(n - 1)
      /\ \A n \in 0..L, o \in 0..L : n <= o => Up(n) <= Up(o)
      /\ Up(0) = 0 /\ Up(L) = Cardinality(K)
  BY UpTo_Counts
<1>2. ASSUME NEW k \in 1..Cardinality(K)
      PROVE  Kth(K, k) \in K /\ Up(Kth(K, k)) = k
  <2> DEFINE S == {n \in 0..L : k <= Up(n)}
  <2> HIDE DEF Up
  <2>1. L \in S /\ S \in SUBSET Nat
    BY <1>1
  <2>2. PICK n \in S : \A o \in S : n <= o
    <3> HIDE DEF S
    <3> QED BY <2>1, Least_Is
  <2>3. n \in 1..L
    BY <1>1, <2>2
  <2>4. n - 1 \in 0..L /\ n - 1 \notin S /\ Up(n - 1) \in Nat
    BY <1>1, <2>2, <2>3
  <2>5. ~(k <= Up(n - 1))
    BY <2>4
  <2>6. Up(n) = k /\ n \in K
    BY <1>1, <2>2, <2>3, <2>4, <2>5
  <2>7. \E o \in K : Up(o) = k
    BY <2>6
  <2> USE DEF Up
  <2> QED BY <2>7 DEF Kth
<1>3. ASSUME NEW j \in 1..Cardinality(K), NEW k \in 1..Cardinality(K), j < k
      PROVE  Kth(K, j) < Kth(K, k)
  <2> HIDE DEF Up
  <2>1. Kth(K, j) \in 1..L /\ Kth(K, k) \in 1..L
    BY <1>2
  <2>2. Up(Kth(K, j)) = j /\ Up(Kth(K, k)) = k
    BY <1>2
  <2>3. Kth(K, k) <= Kth(K, j) => k <= j
    BY <1>1, <2>1, <2>2
  <2> QED BY <1>3, <2>1, <2>3
<1> QED BY <1>1, <1>2, <1>3

\* A queue at some of its positions is of its elements, in their order.
LEMMA AtThose_Is ==
    ASSUME NEW S, NEW queue \in Seq(S), NEW K \in SUBSET DOMAIN queue
    PROVE  /\ AtThose(queue, K) \in Seq(S)
           /\ \A k \in DOMAIN AtThose(queue, K) :
                Kth(K, k) \in K /\ AtThose(queue, K)[k] = queue[Kth(K, k)]
           /\ \A j, k \in DOMAIN AtThose(queue, K) : j < k => Kth(K, j) < Kth(K, k)
<1>1. DOMAIN queue = 1..Len(queue) /\ Len(queue) \in Nat
  OBVIOUS
<1>2. /\ Cardinality(K) \in Nat
      /\ \A k \in 1..Cardinality(K) : Kth(K, k) \in K
      /\ \A j, k \in 1..Cardinality(K) : j < k => Kth(K, j) < Kth(K, k)
  BY <1>1, Kth_Is
<1>3. DOMAIN AtThose(queue, K) = 1..Cardinality(K)
  BY DEF AtThose
<1>4. \A k \in 1..Cardinality(K) : AtThose(queue, K)[k] = queue[Kth(K, k)]
  BY DEF AtThose
<1>5. \A k \in 1..Cardinality(K) : queue[Kth(K, k)] \in S
  BY <1>1, <1>2
<1>6. AtThose(queue, K) \in Seq(S)
  BY <1>2, <1>5, IsASeq DEF AtThose
<1> QED BY <1>2, <1>3, <1>4, <1>6

\* A queue with one more.
LEMMA Appended_Is ==
    ASSUME NEW S, NEW queue \in Seq(S), NEW e \in S
    PROVE  /\ Append(queue, e) \in Seq(S) /\ Len(queue) \in Nat
           /\ DOMAIN queue = 1..Len(queue)
           /\ DOMAIN Append(queue, e) = 1..(Len(queue) + 1)
           /\ \A n \in DOMAIN queue : Append(queue, e)[n] = queue[n]
           /\ Append(queue, e)[Len(queue) + 1] = e
           /\ Append(queue, e) # queue
<1>1. PICK longer : longer = Append(queue, e)
  OBVIOUS
<1>2. /\ longer \in Seq(S) /\ Len(longer) = Len(queue) + 1 /\ Len(queue) \in Nat
      /\ \A n \in 1..Len(queue) : longer[n] = queue[n]
      /\ longer[Len(queue) + 1] = e
  BY <1>1, AppendProperties
<1>3. longer # queue
  <2> SUFFICES ASSUME longer = queue PROVE FALSE
    OBVIOUS
  <2>1. Len(longer) = Len(queue)
    OBVIOUS
  <2> QED BY <1>2, <2>1
<1>4. DOMAIN longer = 1..(Len(queue) + 1) /\ DOMAIN queue = 1..Len(queue)
  BY <1>2
<1> QED BY <1>1, <1>2, <1>3, <1>4

-----------------------------------------------------------------------------
(* What an application is answered of its requests.                          *)

\* The kinds of answers a request's thread may have given, by where it is.
Told(r) ==
    CASE r.at = "none" -> {}
      [] r.at \in {"asks", "waits"} -> {"sent"}
      [] r.at \in {"body", "failed"} -> {"sent", "response", "chunk"}
      [] r.at = "done" -> {"sent", "response", "chunk", "data"}
      [] r.at = "ended" -> Answered!Kinds
      [] r.at = "says" ->
           CASE r.says \in {"sent", "response"} -> {"sent"}
             [] r.says \in {"chunk", "data"} -> {"sent", "response", "chunk"}
             [] OTHER -> Answered!Kinds \ {"complete"}

\* What a thread says, and where it goes on from there.
Saying == {<<"sent", "waits">>, <<"response", "body">>, <<"chunk", "body">>,
           <<"data", "done">>, <<"complete", "ended">>}

\* What was answered of a request, taken or not, is of a kind its thread may have given,
\* and nothing is queued of one that is aborted, which is not heard again.
NetTold ==
    /\ \A i \in AnsweredIds :
         /\ run[i].at = "says" => <<run[i].says, run[i].then>> \in Saying
         /\ \A n \in DOMAIN given[i] : given[i][n] \in Told(run[i])
         /\ i \in aborted => i \notin heard /\ run[i].at # "none"
    /\ \A n \in DOMAIN answers :
         answers[n].kind \in Told(run[answers[n].id]) /\ answers[n].id \notin aborted

NetInv == Answered!TypeOK /\ NetTold /\ Answered!InOrder /\ Answered!Readable

\* The instance's operators are the standard modules' and those of queues.
LEMMA Answered_Sizes ==
    /\ \A S : Answered!Cardinality(S) = Cardinality(S)
    /\ \A queue, K : Answered!AtThose(queue, K) = AtThose(queue, K)
<1>1. ASSUME NEW S
      PROVE  Answered!Cardinality(S) = Cardinality(S)
  BY Zenon DEF Answered!Cardinality, Cardinality
<1>2. ASSUME NEW queue, NEW K
      PROVE  Answered!AtThose(queue, K) = AtThose(queue, K)
  <2>1. ASSUME NEW k
        PROVE  Answered!Kth(K, k) = Kth(K, k)
    <3>1. \A n : Answered!Cardinality({m \in K : m <= n}) = k
                 <=> Cardinality({m \in K : m <= n}) = k
      BY Zenon, <1>1
    <3> QED BY Zenon, <3>1 DEF Answered!Kth, Kth
  <2>2. Answered!Cardinality(K) = Cardinality(K)
    BY <1>1
  <2>3. [k \in 1..Cardinality(K) |-> queue[Answered!Kth(K, k)]]
        = [k \in 1..Cardinality(K) |-> queue[Kth(K, k)]]
    BY Zenon, <2>1
  <2> QED BY Zenon, <2>2, <2>3 DEF Answered!AtThose, AtThose
<1> QED BY <1>1, <1>2

\* What is assumed of the requests' bounds.
LEMMA Answered_Bounds ==
    /\ AnsweredRedirects \in Nat /\ AnsweredRetries \in Nat /\ AnsweredParts \in Nat
    /\ None \notin AnsweredIds
BY AnsweredBounds DEF Answered!NetworkBounds

\* What holds where the requests start.
LEMMA Answered_Init == Answered!Init => NetInv
<1> SUFFICES ASSUME Answered!Init PROVE NetInv
  OBVIOUS
<1>1. Answered!TypeOK
  BY Answered_Bounds DEF Answered!Init, Answered!TypeOK, Answered!Thread, Answered!Threads,
     Answered!Kinds
<1>2. NetTold
  BY DEF Answered!Init, NetTold, Answered!Thread
<1>3. Answered!InOrder /\ Answered!Readable
  BY DEF Answered!Init, Answered!InOrder, Answered!Readable
<1> QED BY <1>1, <1>2, <1>3 DEF NetInv

\* A step of a request's thread, other than an answer, is to where it may have told what it
\* told.
LEMMA Answered_Turns ==
    ASSUME Answered!TypeOK, NetTold, NEW i \in AnsweredIds,
           \/ Answered!Attempt(i) \/ Answered!Progress(i) \/ Answered!Lost(i)
           \/ Answered!Fails(i) \/ Answered!Redirect(i) \/ Answered!Respond(i)
           \/ Answered!Body(i) \/ Answered!Completes(i)
    PROVE  /\ \E r \in Answered!Threads :
                /\ run' = [run EXCEPT ![i] = r]
                /\ r.at # "none" /\ Told(run[i]) \subseteq Told(r)
                /\ r.at = "says" => <<r.says, r.then>> \in Saying
           /\ UNCHANGED <<heard, answers, wakes, queuing, given, aborted>>
<1> DEFINE Turns(r) == /\ r \in Answered!Threads
                       /\ run' = [run EXCEPT ![i] = r]
                       /\ r.at # "none" /\ Told(run[i]) \subseteq Told(r)
                       /\ r.at = "says" => <<r.says, r.then>> \in Saying
<1>0. run[i] \in Answered!Threads
  BY DEF Answered!TypeOK
<1> SUFFICES \E r : Turns(r)
  BY DEF Answered!Attempt, Answered!Progress, Answered!Lost, Answered!Fails,
     Answered!Redirect, Answered!Respond, Answered!Body, Answered!Completes
<1>s. ASSUME NEW kind, NEW then, Answered!Says(i, kind, then), <<kind, then>> \in Saying,
             run[i].at \in {"waits", "body", "failed", "done"},
             run[i].at = "waits" => kind # "complete" /\ then = "waits",
             run[i].at = "body" => kind \in {"chunk", "data", "complete"},
             run[i].at \in {"failed", "done"} => kind = "complete"
      PROVE  \E r : Turns(r)
  <2> DEFINE r == [run[i] EXCEPT !.at = "says", !.says = kind, !.then = then]
  <2>1. r \in Answered!Threads /\ r.at = "says" /\ r.says = kind /\ r.then = then
    BY <1>0, <1>s DEF Answered!Threads, Answered!Kinds, Saying
  <2>2. run' = [run EXCEPT ![i] = r]
    BY <1>s DEF Answered!Says, Answered!Becomes
  <2>3. Told(run[i]) \subseteq Told(r)
    <3> HIDE DEF r
    <3> QED BY <1>s, <2>1 DEF Told, Saying, Answered!Kinds
  <2>4. Turns(r)
    <3> HIDE DEF r
    <3> QED BY <1>s, <2>1, <2>2, <2>3
  <2> HIDE DEF Turns, r
  <2> QED BY <2>4
<1>b. ASSUME NEW r \in Answered!Threads, Answered!Becomes(i, r), r.at \in {"asks", "failed", "waits"},
             run[i].at \in {"asks", "waits", "body"},
             run[i].at = "body" => r.at = "failed"
      PROVE  \E q : Turns(q)
  <2>1. Told(run[i]) \subseteq Told(r)
    BY <1>b DEF Told
  <2>2. Turns(r)
    BY <1>b, <2>1 DEF Answered!Becomes
  <2> HIDE DEF Turns
  <2> QED BY <2>2
<1> HIDE DEF Turns
<1>1. CASE Answered!Attempt(i)
  <2> DEFINE r == [run[i] EXCEPT !.at = IF run[i].cancel THEN "failed" ELSE "waits"]
  <2>1. r \in Answered!Threads /\ r.at \in {"failed", "waits"}
    BY <1>0 DEF Answered!Threads
  <2> HIDE DEF r
  <2> QED BY <1>1, <1>b, <2>1 DEF Answered!Attempt, r
<1>2. CASE Answered!Progress(i)
  BY <1>2, <1>s DEF Answered!Progress, Saying
<1>3. CASE Answered!Lost(i)
  <2>1. run[i].at = "waits"
    BY <1>3 DEF Answered!Lost
  <2>2. CASE run[i].retries < AnsweredRetries
    <3> DEFINE r == [run[i] EXCEPT !.at = "asks", !.retries = @ + 1, !.parts = 0]
    <3>0. run[i].retries + 1 \in 0..AnsweredRetries
      BY <1>0, <2>2, Answered_Bounds DEF Answered!Threads
    <3>1. r \in Answered!Threads /\ r.at = "asks"
      BY <1>0, <3>0 DEF Answered!Threads
    <3>2. Answered!Becomes(i, r)
      BY <1>3, <2>2 DEF Answered!Lost
    <3> HIDE DEF r
    <3> QED BY <1>b, <2>1, <3>1, <3>2
  <2>3. CASE ~(run[i].retries < AnsweredRetries)
    <3> DEFINE r == [run[i] EXCEPT !.at = "failed"]
    <3>1. r \in Answered!Threads /\ r.at = "failed"
      BY <1>0 DEF Answered!Threads
    <3>2. Answered!Becomes(i, r)
      BY <1>3, <2>3 DEF Answered!Lost
    <3> HIDE DEF r
    <3> QED BY <1>b, <2>1, <3>1, <3>2
  <2> QED BY <2>2, <2>3
<1>4. CASE Answered!Fails(i)
  <2> DEFINE r == [run[i] EXCEPT !.at = "failed"]
  <2>1. r \in Answered!Threads /\ r.at = "failed"
    BY <1>0 DEF Answered!Threads
  <2>2. Answered!Becomes(i, r)
    BY <1>4 DEF Answered!Fails
  <2> HIDE DEF r
  <2> QED BY <1>4, <1>b, <2>1, <2>2 DEF Answered!Fails
<1>5. CASE Answered!Redirect(i)
  <2>1. run[i].at = "waits"
    BY <1>5 DEF Answered!Redirect
  <2>2. CASE run[i].redirects # AnsweredRedirects
    <3> DEFINE r == [run[i] EXCEPT !.at = "asks", !.redirects = @ + 1, !.retries = 0, !.parts = 0]
    <3>0. run[i].redirects + 1 \in 0..AnsweredRedirects /\ 0 \in 0..AnsweredRetries
      BY <1>0, <2>2, Answered_Bounds DEF Answered!Threads
    <3>1. r \in Answered!Threads /\ r.at = "asks"
      BY <1>0, <3>0 DEF Answered!Threads
    <3>2. Answered!Becomes(i, r)
      BY <1>5, <2>2 DEF Answered!Redirect
    <3> HIDE DEF r
    <3> QED BY <1>b, <2>1, <3>1, <3>2
  <2>3. CASE run[i].redirects = AnsweredRedirects
    <3> DEFINE r == [run[i] EXCEPT !.at = "failed"]
    <3>1. r \in Answered!Threads /\ r.at = "failed"
      BY <1>0 DEF Answered!Threads
    <3>2. Answered!Becomes(i, r)
      BY <1>5, <2>3 DEF Answered!Redirect
    <3> HIDE DEF r
    <3> QED BY <1>b, <2>1, <3>1, <3>2
  <2> QED BY <2>2, <2>3
<1>6. CASE Answered!Respond(i)
  <2> DEFINE r == [run[i] EXCEPT !.at = "says", !.says = "response", !.then = "body", !.parts = 0]
  <2>1. run[i].at = "waits" /\ run' = [run EXCEPT ![i] = r]
    BY <1>6 DEF Answered!Respond, Answered!Becomes
  <2>2. r \in Answered!Threads /\ r.at = "says" /\ r.says = "response" /\ r.then = "body"
    BY <1>0 DEF Answered!Threads, Answered!Kinds
  <2> HIDE DEF r
  <2>3. Told(run[i]) \subseteq Told(r)
    BY <2>1, <2>2 DEF Told
  <2>4. Turns(r)
    BY <2>1, <2>2, <2>3 DEF Turns, Saying
  <2> QED BY <2>4
<1>7. CASE Answered!Body(i)
  <2>1. run[i].at = "body"
    BY <1>7 DEF Answered!Body
  <2>2. CASE run[i].cancel
    <3> DEFINE r == [run[i] EXCEPT !.at = "failed"]
    <3>1. r \in Answered!Threads /\ r.at = "failed"
      BY <1>0 DEF Answered!Threads
    <3>2. Answered!Becomes(i, r)
      BY <1>7, <2>2 DEF Answered!Body
    <3> HIDE DEF r
    <3> QED BY <1>b, <2>1, <3>1, <3>2
  <2>3. CASE ~run[i].cancel
    <3>1. \/ Answered!Says(i, "chunk", "body") \/ Answered!Says(i, "complete", "ended")
          \/ Answered!Says(i, "data", "done")
      BY <1>7, <2>3 DEF Answered!Body
    <3> QED BY <1>s, <2>1, <3>1 DEF Saying
  <2> QED BY <2>2, <2>3
<1>8. CASE Answered!Completes(i)
  BY <1>8, <1>s DEF Answered!Completes, Saying
<1> QED BY <1>1, <1>2, <1>3, <1>4, <1>5, <1>6, <1>7, <1>8

\* What Shared::answer does: what a thread says comes after all it told.
LEMMA Answered_Queues ==
    ASSUME Answered!TypeOK, NetTold, NEW i \in AnsweredIds, Answered!Queue(i)
    PROVE  /\ \E r \in Answered!Threads :
                /\ run' = [run EXCEPT ![i] = r]
                /\ r.at \notin {"none", "says"}
                /\ Told(run[i]) \cup {run[i].says} \subseteq Told(r)
           /\ run[i].says \in Answered!Kinds /\ run[i].at # "none"
           /\ \A kind \in Told(run[i]) : Answered!Precedes(kind, run[i].says)
<1> DEFINE next == [run[i] EXCEPT !.at = run[i].then,
                        !.parts = IF run[i].says \in {"chunk", "sent"} THEN @ + 1 ELSE @]
           r == [next EXCEPT !.says = None, !.then = "none"]
<1>1. /\ run[i] \in Answered!Threads /\ run[i].at = "says"
      /\ <<run[i].says, run[i].then>> \in Saying
  BY DEF Answered!TypeOK, NetTold, Answered!Queue
<1>2. run' = [run EXCEPT ![i] = r]
  BY DEF Answered!Queue, Answered!Becomes
<1>3. r \in Answered!Threads /\ r.at = run[i].then
  <2>1. /\ run[i].then \in {"waits", "body", "done", "ended"}
        /\ run[i].parts \in Nat /\ run[i].parts + 1 \in Nat
    BY <1>1 DEF Saying, Answered!Threads
  <2>2. next \in Answered!Threads /\ next.at = run[i].then
    BY <1>1, <2>1 DEF Answered!Threads
  <2> HIDE DEF next
  <2> QED BY <2>2 DEF Answered!Threads
<1> HIDE DEF next, r
<1>4. Told(run[i]) \cup {run[i].says} \subseteq Told(r)
  BY <1>1, <1>3 DEF Saying, Told, Answered!Kinds
<1>5. r.at \notin {"none", "says"} /\ run[i].says \in Answered!Kinds
  BY <1>1, <1>3 DEF Saying, Answered!Kinds
<1>6. /\ Answered!Rank["sent"] = 1 /\ Answered!Rank["response"] = 2
      /\ Answered!Rank["chunk"] = 3 /\ Answered!Rank["data"] = 3
      /\ Answered!Rank["complete"] = 4
  BY DEF Answered!Rank, Answered!Kinds
<1>7. ASSUME NEW kind \in Told(run[i])
      PROVE  Answered!Precedes(kind, run[i].says)
  <2>1. CASE run[i].says = "sent"
    BY <1>1, <1>6, <1>7, <2>1 DEF Told, Answered!Precedes
  <2>2. CASE run[i].says = "response"
    BY <1>1, <1>6, <1>7, <2>2 DEF Told, Answered!Precedes
  <2>3. CASE run[i].says = "chunk"
    BY <1>1, <1>6, <1>7, <2>3 DEF Told, Answered!Precedes
  <2>4. CASE run[i].says = "data"
    BY <1>1, <1>6, <1>7, <2>4 DEF Told, Answered!Precedes
  <2>5. CASE run[i].says = "complete"
    <3>1. kind \in {"sent", "response", "chunk", "data"}
      BY <1>1, <1>7, <2>5 DEF Told, Answered!Kinds
    <3> QED BY <1>6, <2>5, <3>1 DEF Answered!Precedes
  <2> QED BY <1>1, <2>1, <2>2, <2>3, <2>4, <2>5 DEF Saying
<1> QED BY <1>1, <1>2, <1>3, <1>4, <1>5, <1>7

\* What is queued is an answer.
LEMMA Answered_Of ==
    ASSUME Answered!TypeOK
    PROVE  \A n \in DOMAIN answers :
             /\ answers[n] \in [id : AnsweredIds, kind : Answered!Kinds]
             /\ answers[n].id \in AnsweredIds
<1>1. answers \in Seq([id : AnsweredIds, kind : Answered!Kinds])
  BY DEF Answered!TypeOK
<1>2. \A n \in DOMAIN answers : answers[n] \in [id : AnsweredIds, kind : Answered!Kinds]
  <2> DEFINE S == [id : AnsweredIds, kind : Answered!Kinds]
  <2> HIDE DEF S
  <2> QED BY <1>1, ElementOfSeq, LenProperties
<1> QED BY <1>2

\* A thread goes on without an answer, or an answer is heard of nothing new: what was told
\* stays in its order.
LEMMA Answered_Runs ==
    ASSUME NetInv, NEW i \in AnsweredIds, NEW r \in Answered!Threads,
           run' = [run EXCEPT ![i] = r], r.at # "none",
           Told(run[i]) \subseteq Told(r), r.at = "says" => <<r.says, r.then>> \in Saying,
           heard' \subseteq heard, UNCHANGED <<answers, wakes, queuing, given, aborted>>
    PROVE  NetInv' /\ Answered!Silent
<1>1. run \in [AnsweredIds -> Answered!Threads] /\ run' \in [AnsweredIds -> Answered!Threads]
  BY DEF NetInv, Answered!TypeOK
<1>2. Answered!TypeOK'
  BY <1>1 DEF NetInv, Answered!TypeOK
<1>3. /\ run'[i] = r /\ \A j \in AnsweredIds \ {i} : run'[j] = run[j]
      /\ \A j \in AnsweredIds : Told(run[j]) \subseteq Told(run'[j])
  BY <1>1
<1>4. \A j \in AnsweredIds :
        /\ run'[j].at = "says" => <<run'[j].says, run'[j].then>> \in Saying
        /\ \A n \in DOMAIN given[j] : given[j][n] \in Told(run'[j])
        /\ j \in aborted => j \notin heard' /\ run'[j].at # "none"
  BY <1>3 DEF NetInv, NetTold
<1>5. \A n \in DOMAIN answers : answers[n].id \in AnsweredIds
  BY Answered_Of DEF NetInv
<1>6. \A n \in DOMAIN answers :
        answers[n].kind \in Told(run'[answers[n].id]) /\ answers[n].id \notin aborted
  BY <1>3, <1>5 DEF NetInv, NetTold
<1>7. NetTold'
  BY <1>4, <1>6 DEF NetTold, Told, Answered!Kinds
<1>8. Answered!InOrder' /\ Answered!Readable'
  BY DEF NetInv, Answered!InOrder, Answered!Readable, Answered!Precedes, Answered!Rank,
     Answered!Kinds
<1> QED BY <1>2, <1>7, <1>8 DEF NetInv, Answered!Silent

\* Network::send.
LEMMA Answered_Sends ==
    ASSUME NetInv, NEW i \in AnsweredIds, NEW incremental \in BOOLEAN,
           Answered!Send(i, incremental)
    PROVE  NetInv' /\ Answered!Silent
<1>1. PICK place \in {"asks", "failed"} :
        run' = [run EXCEPT ![i] = [Answered!Thread(place) EXCEPT !.incremental = incremental]]
  BY DEF Answered!Send, Answered!Becomes
<1> DEFINE r == [Answered!Thread(place) EXCEPT !.incremental = incremental]
<1>2. /\ run[i].at = "none" /\ heard' = heard \cup {i}
      /\ UNCHANGED <<answers, wakes, queuing, given, aborted>>
  BY DEF Answered!Send
<1>3. r \in Answered!Threads /\ r.at = place
  <2>1. /\ 0 \in 0..AnsweredRetries /\ 0 \in 0..AnsweredRedirects
        /\ place \in {"none", "asks", "waits", "body", "failed", "done", "says", "ended"}
    BY Answered_Bounds
  <2> DEFINE q == Answered!Thread(place)
  <2>2. q \in Answered!Threads /\ q.at = place
    BY <2>1 DEF Answered!Thread, Answered!Threads
  <2> HIDE DEF q
  <2>3. [q EXCEPT !.incremental = incremental] \in Answered!Threads
        /\ [q EXCEPT !.incremental = incremental].at = place
    BY <2>2 DEF Answered!Threads
  <2> QED BY <2>3 DEF q
<1>4. run' = [run EXCEPT ![i] = r]
  BY <1>1
<1> HIDE DEF r
<1>5. run' \in [AnsweredIds -> Answered!Threads] /\ run'[i] = r
      /\ \A j \in AnsweredIds \ {i} : run'[j] = run[j]
  BY <1>3, <1>4 DEF NetInv, Answered!TypeOK
<1>6. Answered!TypeOK'
  BY <1>2, <1>5 DEF NetInv, Answered!TypeOK
<1>7. \A j \in AnsweredIds : Told(run[j]) \subseteq Told(run'[j])
  <2>1. Told(run[i]) = {}
    BY <1>2 DEF Told
  <2> QED BY <1>5, <2>1
<1>8. \A j \in AnsweredIds :
        /\ run'[j].at = "says" => <<run'[j].says, run'[j].then>> \in Saying
        /\ \A n \in DOMAIN given[j] : given[j][n] \in Told(run'[j])
        /\ j \in aborted => j \notin heard' /\ run'[j].at # "none"
  BY <1>2, <1>3, <1>5, <1>7 DEF NetInv, NetTold
<1>9. \A n \in DOMAIN answers :
        answers[n].kind \in Told(run'[answers[n].id]) /\ answers[n].id \notin aborted
  <2>1. \A n \in DOMAIN answers : answers[n].id \in AnsweredIds
    BY Answered_Of DEF NetInv
  <2> QED BY <1>7, <2>1 DEF NetInv, NetTold
<1>10. NetTold'
  BY <1>2, <1>8, <1>9 DEF NetTold, Told, Answered!Kinds
<1>11. Answered!InOrder' /\ Answered!Readable'
  BY <1>2 DEF NetInv, Answered!InOrder, Answered!Readable, Answered!Precedes, Answered!Rank,
     Answered!Kinds
<1> QED BY <1>2, <1>6, <1>10, <1>11 DEF NetInv, Answered!Silent

\* Network::abort: what is queued of others stays, in its order.
LEMMA Answered_Aborts ==
    ASSUME NetInv, NEW i \in AnsweredIds, Answered!Abort(i)
    PROVE  NetInv' /\ Answered!Silent
<1> DEFINE K == {n \in DOMAIN answers : answers[n].id # i}
<1>0. PICK b \in BOOLEAN : b <=> i \in heard
  <2>1. CASE i \in heard
    BY Zenon, <2>1
  <2> QED BY Zenon, <2>1
<1> DEFINE r == [run[i] EXCEPT !.cancel = b]
<1>1. /\ run[i].at # "none" /\ run' = [run EXCEPT ![i] = r] /\ queuing = None
      /\ heard' = heard \ {i} /\ aborted' = aborted \cup {i}
      /\ answers' = AtThose(answers, K)
      /\ UNCHANGED <<wakes, queuing, given>>
  <2>1. [run[i] EXCEPT !.cancel = i \in heard] = r
    BY Zenon, <1>0
  <2>2. run' = [run EXCEPT ![i] = r]
    BY Zenon, <2>1 DEF Answered!Abort, Answered!Becomes
  <2> QED BY <2>2, Answered_Sizes DEF Answered!Abort
<1>2. run[i] \in Answered!Threads /\ answers \in Seq([id : AnsweredIds, kind : Answered!Kinds])
  BY DEF NetInv, Answered!TypeOK
<1>3. /\ answers' \in Seq([id : AnsweredIds, kind : Answered!Kinds])
      /\ \A k \in DOMAIN answers' : Kth(K, k) \in K /\ answers'[k] = answers[Kth(K, k)]
      /\ \A j, k \in DOMAIN answers' : j < k => Kth(K, j) < Kth(K, k)
  <2>1. K \in SUBSET DOMAIN answers
    OBVIOUS
  <2> HIDE DEF K
  <2> QED BY <1>1, <1>2, <2>1, AtThose_Is
<1>4. /\ r \in Answered!Threads /\ r.at = run[i].at /\ r.says = run[i].says
      /\ r.then = run[i].then
  BY <1>2 DEF Answered!Threads
<1>5. Told(r) = Told(run[i])
  BY <1>4 DEF Told
<1> HIDE DEF r
<1>6. /\ run' \in [AnsweredIds -> Answered!Threads] /\ run'[i] = r
      /\ \A j \in AnsweredIds \ {i} : run'[j] = run[j]
  BY <1>1, <1>4 DEF NetInv, Answered!TypeOK
<1>7. \A j \in AnsweredIds : Told(run'[j]) = Told(run[j])
  BY <1>5, <1>6
<1>8. Answered!TypeOK'
  BY <1>1, <1>3, <1>6 DEF NetInv, Answered!TypeOK
<1>9. \A j \in AnsweredIds :
        /\ run'[j].at = "says" => <<run'[j].says, run'[j].then>> \in Saying
        /\ \A n \in DOMAIN given[j] : given[j][n] \in Told(run'[j])
        /\ j \in aborted' => j \notin heard' /\ run'[j].at # "none"
  BY <1>1, <1>4, <1>6, <1>7 DEF NetInv, NetTold
<1>10. \A n \in DOMAIN answers' :
         answers'[n].kind \in Told(run'[answers'[n].id]) /\ answers'[n].id \notin aborted'
  <2> SUFFICES ASSUME NEW n \in DOMAIN answers'
               PROVE  answers'[n].kind \in Told(run'[answers'[n].id])
                      /\ answers'[n].id \notin aborted'
    OBVIOUS
  <2>1. PICK k \in DOMAIN answers : answers'[n] = answers[k] /\ answers[k].id # i
    BY <1>3
  <2>2. answers[k].id \in AnsweredIds
    BY Answered_Of DEF NetInv
  <2> QED BY <1>1, <1>7, <2>1, <2>2 DEF NetInv, NetTold
<1>11. NetTold'
  BY <1>1, <1>9, <1>10 DEF NetTold, Told, Answered!Kinds
<1>12. Answered!InOrder'
  <2>1. ASSUME NEW j \in AnsweredIds, NEW n \in DOMAIN answers', answers'[n].id = j
        PROVE  /\ \A m \in DOMAIN given[j] : Answered!Precedes(given[j][m], answers'[n].kind)
               /\ \A m \in 1..(n - 1) : answers'[m].id = j =>
                    Answered!Precedes(answers'[m].kind, answers'[n].kind)
    <3>1. /\ Kth(K, n) \in DOMAIN answers /\ answers'[n] = answers[Kth(K, n)]
      BY <1>3, <2>1
    <3>2. ASSUME NEW m \in 1..(n - 1), answers'[m].id = j
          PROVE  Answered!Precedes(answers'[m].kind, answers'[n].kind)
      <4>1. m \in DOMAIN answers' /\ m < n
        BY <1>3, <2>1, <3>2
      <4>2. /\ Kth(K, m) \in DOMAIN answers /\ answers'[m] = answers[Kth(K, m)]
            /\ Kth(K, m) < Kth(K, n)
        BY <1>3, <2>1, <4>1
      <4>3. Kth(K, m) \in 1..(Kth(K, n) - 1)
        BY <1>2, <3>1, <4>2
      <4> QED BY <2>1, <3>1, <3>2, <4>2, <4>3 DEF NetInv, Answered!InOrder
    <3> QED BY <2>1, <3>1, <3>2 DEF NetInv, Answered!InOrder
  <2>2. \A j \in AnsweredIds : \A m, n \in DOMAIN given[j] :
          m < n => Answered!Precedes(given[j][m], given[j][n])
    BY DEF NetInv, Answered!InOrder
  <2> QED BY <1>1, <2>1, <2>2 DEF Answered!InOrder
<1>13. Answered!Readable'
  <2>1. answers' # <<>> => answers # <<>>
    <3> SUFFICES ASSUME answers' # <<>> PROVE answers # <<>>
      OBVIOUS
    <3>1. 1 \in DOMAIN answers'
      BY <1>3
    <3>2. Kth(K, 1) \in DOMAIN answers
      BY <1>3, <3>1
    <3> QED BY <3>2
  <2> QED BY <1>1, <2>1 DEF NetInv, Answered!Readable
<1> QED BY <1>1, <1>8, <1>11, <1>12, <1>13 DEF NetInv, Answered!Silent

\* Network::answer: the first answer is given after what was given.
LEMMA Answered_Takes ==
    ASSUME NetInv, Answered!Take
    PROVE  NetInv' /\ Answered!Silent
<1>1. wakes > 0 /\ UNCHANGED <<heard, run, queuing, aborted>>
  BY DEF Answered!Take
<1>2. /\ answers \in Seq([id : AnsweredIds, kind : Answered!Kinds]) /\ wakes \in Nat
      /\ given \in [AnsweredIds -> Seq(Answered!Kinds)]
  BY DEF NetInv, Answered!TypeOK
<1>3. CASE answers = <<>>
  <2>1. answers' = answers /\ given' = given /\ wakes' = 0
    BY <1>3 DEF Answered!Take, Answered!Given
  <2>2. Answered!TypeOK'
    BY <1>1, <2>1 DEF NetInv, Answered!TypeOK
  <2>3. NetTold'
    BY <1>1, <2>1 DEF NetInv, NetTold, Told, Answered!Kinds
  <2>4. Answered!InOrder'
    BY <1>1, <2>1 DEF NetInv, Answered!InOrder
  <2>5. Answered!Readable' /\ Answered!Silent
    BY <1>3, <2>1 DEF Answered!Readable, Answered!Silent
  <2> QED BY <2>2, <2>3, <2>4, <2>5 DEF NetInv
<1>4. CASE answers # <<>>
  <2> DEFINE h == answers[1]
             d == h.id
  <2>1. /\ answers' = Tail(answers) /\ wakes' = (IF Len(answers) <= 1 THEN 0 ELSE wakes)
        /\ given' = [given EXCEPT ![Head(answers).id] = Append(@, Head(answers).kind)]
    BY <1>4 DEF Answered!Take, Answered!Given
  <2>2. /\ Head(answers) = h /\ 1 \in DOMAIN answers /\ Len(answers) \in Nat
        /\ DOMAIN answers = 1..Len(answers)
    BY <1>2, <1>4
  <2>3. h \in [id : AnsweredIds, kind : Answered!Kinds] /\ d \in AnsweredIds
        /\ h.kind \in Answered!Kinds
    BY <2>2, Answered_Of DEF NetInv
  <2>4. /\ answers' \in Seq([id : AnsweredIds, kind : Answered!Kinds])
        /\ DOMAIN answers' = 1..(Len(answers) - 1)
        /\ \A n \in DOMAIN answers' : n + 1 \in DOMAIN answers /\ answers'[n] = answers[n + 1]
    BY <1>2, <1>4, <2>1, <2>2, HeadTailProperties
  <2> HIDE DEF h
  <2>5. /\ given[d] \in Seq(Answered!Kinds) /\ given'[d] = Append(given[d], h.kind)
        /\ \A j \in AnsweredIds \ {d} : given'[j] = given[j]
    BY <1>2, <2>1, <2>2, <2>3
  <2>6. /\ given'[d] \in Seq(Answered!Kinds) /\ Len(given[d]) \in Nat
        /\ DOMAIN given[d] = 1..Len(given[d])
        /\ DOMAIN given'[d] = 1..(Len(given[d]) + 1)
        /\ \A n \in DOMAIN given[d] : given'[d][n] = given[d][n]
        /\ given'[d][Len(given[d]) + 1] = h.kind
    BY <2>3, <2>5, AppendProperties
  <2>7. Answered!TypeOK'
    <3>1. given' \in [AnsweredIds -> Seq(Answered!Kinds)]
      BY <1>2, <2>1, <2>2, <2>3, <2>5, <2>6
    <3>2. wakes' \in Nat
      BY <1>2, <2>1
    <3> QED BY <1>1, <2>4, <3>1, <3>2 DEF NetInv, Answered!TypeOK
  <2>8. h.kind \in Told(run[d]) /\ d \notin aborted
    BY <2>2 DEF NetInv, NetTold, h
  <2>9. NetTold'
    <3>1. \A j \in AnsweredIds :
            /\ run[j].at = "says" => <<run[j].says, run[j].then>> \in Saying
            /\ j \in aborted => j \notin heard /\ run[j].at # "none"
      BY DEF NetInv, NetTold
    <3>2. \A j \in AnsweredIds : \A n \in DOMAIN given'[j] : given'[j][n] \in Told(run[j])
      <4>1. \A n \in DOMAIN given'[d] : n \in DOMAIN given[d] \/ n = Len(given[d]) + 1
        BY <2>6
      <4>2. \A n \in DOMAIN given'[d] : given'[d][n] \in Told(run[d])
        BY <2>3, <2>6, <2>8, <4>1 DEF NetInv, NetTold
      <4> QED BY <2>5, <4>2 DEF NetInv, NetTold
    <3>3. \A n \in DOMAIN answers' :
            answers'[n].kind \in Told(run[answers'[n].id]) /\ answers'[n].id \notin aborted
      BY <2>4 DEF NetInv, NetTold
    <3> QED BY <1>1, <3>1, <3>2, <3>3 DEF NetTold, Told, Answered!Kinds
  <2>10. Answered!InOrder'
    <3>1. \A m \in DOMAIN given[d] : Answered!Precedes(given[d][m], h.kind)
      BY <2>2, <2>3 DEF NetInv, Answered!InOrder, h
    <3>2. ASSUME NEW j \in AnsweredIds, NEW m \in DOMAIN given'[j], NEW n \in DOMAIN given'[j],
                 m < n
          PROVE  Answered!Precedes(given'[j][m], given'[j][n])
      <4>1. CASE j # d
        BY <2>5, <3>2, <4>1 DEF NetInv, Answered!InOrder
      <4>2. CASE j = d
        <5>1. m \in DOMAIN given[d] /\ (n \in DOMAIN given[d] \/ n = Len(given[d]) + 1)
          <6>1. m \in 1..(Len(given[d]) + 1) /\ n \in 1..(Len(given[d]) + 1)
            BY <2>6, <4>2
          <6>2. m \in 1..Len(given[d]) /\ (n \in 1..Len(given[d]) \/ n = Len(given[d]) + 1)
            BY <2>6, <3>2, <6>1
          <6> QED BY <2>6, <6>2
        <5> QED BY <2>3, <2>6, <3>1, <3>2, <4>2, <5>1 DEF NetInv, Answered!InOrder
      <4> QED BY <4>1, <4>2
    <3>3. ASSUME NEW j \in AnsweredIds, NEW n \in DOMAIN answers', answers'[n].id = j
          PROVE  /\ \A m \in DOMAIN given'[j] : Answered!Precedes(given'[j][m], answers'[n].kind)
                 /\ \A m \in 1..(n - 1) : answers'[m].id = j =>
                      Answered!Precedes(answers'[m].kind, answers'[n].kind)
      <4>1. n + 1 \in DOMAIN answers /\ answers'[n] = answers[n + 1] /\ answers[n + 1].id = j
        BY <2>4, <3>3
      <4>2. ASSUME NEW m \in 1..(n - 1), answers'[m].id = j
            PROVE  Answered!Precedes(answers'[m].kind, answers'[n].kind)
        <5>1. m + 1 \in 1..n /\ answers'[m] = answers[m + 1]
          BY <2>2, <2>4, <3>3, <4>2
        <5>2. m + 1 \in 1..((n + 1) - 1)
          BY <2>2, <2>4, <3>3, <5>1
        <5> QED BY <4>1, <4>2, <5>1, <5>2 DEF NetInv, Answered!InOrder
      <4>3. ASSUME NEW m \in DOMAIN given'[j]
            PROVE  Answered!Precedes(given'[j][m], answers'[n].kind)
        <5>1. CASE m \in DOMAIN given[j] /\ given'[j][m] = given[j][m]
          BY <4>1, <5>1 DEF NetInv, Answered!InOrder
        <5>2. CASE j = d /\ given'[j][m] = h.kind
          <6>1. 1 \in 1..((n + 1) - 1) /\ h.id = j
            BY <2>2, <2>4, <3>3, <5>2
          <6> QED BY <4>1, <5>2, <6>1 DEF NetInv, Answered!InOrder, h
        <5> QED BY <2>5, <2>6, <4>3, <5>1, <5>2
      <4> QED BY <4>2, <4>3
    <3> QED BY <3>2, <3>3 DEF Answered!InOrder
  <2>11. Answered!Readable'
    <3>1. answers' # <<>> => Len(answers) > 1
      BY <1>2, <2>2, <2>4
    <3> QED BY <1>1, <1>2, <2>1, <2>2, <3>1 DEF Answered!Readable
  <2>12. Answered!Silent
    BY <2>5, <2>8 DEF Answered!Silent
  <2> QED BY <2>7, <2>9, <2>10, <2>11, <2>12 DEF NetInv
<1> QED BY <1>3, <1>4

\* Shared::answer: what a thread says is queued after what it told, if it is still heard.
LEMMA Answered_Says ==
    ASSUME NetInv, NEW i \in AnsweredIds, Answered!Queue(i)
    PROVE  NetInv' /\ Answered!Silent
<1> DEFINE kind == run[i].says
           a == [id |-> i, kind |-> kind]
<1>1. PICK r \in Answered!Threads :
        /\ run' = [run EXCEPT ![i] = r]
        /\ r.at \notin {"none", "says"}
        /\ Told(run[i]) \cup {kind} \subseteq Told(r)
  BY Answered_Queues DEF NetInv
<1>2. /\ kind \in Answered!Kinds /\ run[i].at # "none"
      /\ \A told \in Told(run[i]) : Answered!Precedes(told, kind)
  BY Answered_Queues DEF NetInv
<1>3. heard' \subseteq heard /\ UNCHANGED <<wakes, given, aborted>>
  BY DEF Answered!Queue
<1> HIDE DEF kind
<1>4. CASE i \notin heard
  <2>1. answers' = answers /\ queuing' = None /\ queuing = None
    BY <1>4 DEF Answered!Queue, Answered!Still
  <2> QED BY <1>1, <1>3, <2>1, Answered_Runs
<1>5. CASE i \in heard
  <2>1. answers' = Append(answers, a) /\ queuing' = i
    BY <1>5 DEF Answered!Queue, Answered!Still, kind
  <2>2. answers \in Seq([id : AnsweredIds, kind : Answered!Kinds])
    BY DEF NetInv, Answered!TypeOK
  <2>3. a \in [id : AnsweredIds, kind : Answered!Kinds] /\ a.id = i /\ a.kind = kind
    BY <1>2
  <2> HIDE DEF a
  <2>4. /\ answers' \in Seq([id : AnsweredIds, kind : Answered!Kinds]) /\ Len(answers) \in Nat
        /\ DOMAIN answers = 1..Len(answers)
        /\ DOMAIN answers' = 1..(Len(answers) + 1)
        /\ \A n \in DOMAIN answers : answers'[n] = answers[n]
        /\ answers'[Len(answers) + 1] = a
    BY <2>1, <2>2, <2>3, Appended_Is
  <2>5. /\ run' \in [AnsweredIds -> Answered!Threads] /\ run'[i] = r
        /\ \A j \in AnsweredIds \ {i} : run'[j] = run[j]
    BY <1>1 DEF NetInv, Answered!TypeOK
  <2>6. \A j \in AnsweredIds : Told(run[j]) \subseteq Told(run'[j])
    BY <1>1, <2>5
  <2>7. Answered!TypeOK'
    BY <1>3, <2>1, <2>4, <2>5 DEF NetInv, Answered!TypeOK
  <2>8. NetTold'
    <3>1. \A j \in AnsweredIds :
            /\ run'[j].at = "says" => <<run'[j].says, run'[j].then>> \in Saying
            /\ \A n \in DOMAIN given[j] : given[j][n] \in Told(run'[j])
            /\ j \in aborted => j \notin heard' /\ run'[j].at # "none"
      BY <1>1, <1>3, <2>5, <2>6 DEF NetInv, NetTold
    <3>2. \A n \in DOMAIN answers : answers[n].kind \in Told(run'[answers[n].id])
                                    /\ answers[n].id \notin aborted
      BY <2>6, Answered_Of DEF NetInv, NetTold
    <3>3. kind \in Told(run'[i]) /\ i \notin aborted
      BY <1>1, <1>5, <2>5 DEF NetInv, NetTold
    <3>4. \A n \in DOMAIN answers' : n \in DOMAIN answers \/ n = Len(answers) + 1
      BY <2>4
    <3>5. \A n \in DOMAIN answers' :
            answers'[n].kind \in Told(run'[answers'[n].id]) /\ answers'[n].id \notin aborted
      BY <2>3, <2>4, <3>2, <3>3, <3>4
    <3> QED BY <1>3, <3>1, <3>5 DEF NetTold, Told, Answered!Kinds
  <2>9. Answered!InOrder'
    <3>1. ASSUME NEW j \in AnsweredIds, NEW n \in DOMAIN answers', answers'[n].id = j
          PROVE  /\ \A m \in DOMAIN given[j] : Answered!Precedes(given[j][m], answers'[n].kind)
                 /\ \A m \in 1..(n - 1) : answers'[m].id = j =>
                      Answered!Precedes(answers'[m].kind, answers'[n].kind)
      <4>1. \A m \in 1..(n - 1) : m \in DOMAIN answers /\ answers'[m] = answers[m]
        BY <2>4, <3>1
      <4>2. CASE n \in DOMAIN answers
        BY <2>4, <3>1, <4>1, <4>2 DEF NetInv, Answered!InOrder
      <4>3. CASE n = Len(answers) + 1
        <5>1. j = i /\ answers'[n].kind = kind
          BY <2>3, <2>4, <3>1, <4>3
        <5>2. \A m \in DOMAIN given[i] : given[i][m] \in Told(run[i])
          BY DEF NetInv, NetTold
        <5>3. \A m \in 1..(n - 1) : answers'[m].id = i => answers'[m].kind \in Told(run[i])
          BY <4>1 DEF NetInv, NetTold
        <5> QED BY <1>2, <5>1, <5>2, <5>3
      <4> QED BY <2>4, <3>1, <4>2, <4>3
    <3>2. \A j \in AnsweredIds : \A m, n \in DOMAIN given[j] :
            m < n => Answered!Precedes(given[j][m], given[j][n])
      BY DEF NetInv, Answered!InOrder
    <3> QED BY <1>3, <3>1, <3>2 DEF Answered!InOrder
  <2>10. Answered!Readable' /\ Answered!Silent
    BY <1>3, <2>1, Answered_Bounds DEF Answered!Readable, Answered!Silent
  <2> QED BY <2>7, <2>8, <2>9, <2>10 DEF NetInv
<1> QED BY <1>4, <1>5

\* What holds between the steps of requests, and what no step does to an aborted one.
LEMMA Answered_Inv ==
    ASSUME NetInv, [Answered!Next]_(Answered!vars)
    PROVE  NetInv' /\ Answered!Silent
<1>1. ASSUME NEW i \in AnsweredIds, Answered!Thread_(i), ~Answered!Queue(i)
      PROVE  NetInv' /\ Answered!Silent
  <2>1. /\ \E r \in Answered!Threads :
             /\ run' = [run EXCEPT ![i] = r]
             /\ r.at # "none" /\ Told(run[i]) \subseteq Told(r)
             /\ r.at = "says" => <<r.says, r.then>> \in Saying
        /\ UNCHANGED <<heard, answers, wakes, queuing, given, aborted>>
    BY <1>1, Answered_Turns DEF NetInv, Answered!Thread_
  <2> QED BY <2>1, Answered_Runs
<1>2. CASE Answered!Wake
  <2>1. /\ wakes' = wakes + 1 /\ UNCHANGED <<heard, answers, run, given, aborted>>
        /\ queuing' = None
    BY <1>2 DEF Answered!Wake
  <2>2. Answered!TypeOK'
    BY <2>1 DEF NetInv, Answered!TypeOK
  <2>3. NetTold'
    BY <2>1 DEF NetInv, NetTold, Told, Answered!Kinds
  <2>4. Answered!InOrder'
    BY <2>1 DEF NetInv, Answered!InOrder
  <2>5. Answered!Readable' /\ Answered!Silent
    BY <2>1 DEF NetInv, Answered!TypeOK, Answered!Readable, Answered!Silent
  <2> QED BY <2>2, <2>3, <2>4, <2>5 DEF NetInv
<1>3. CASE UNCHANGED Answered!vars
  <2>1. UNCHANGED <<heard, answers, wakes, run, queuing, given, aborted>>
    BY <1>3 DEF Answered!vars
  <2>2. Answered!TypeOK'
    BY <2>1 DEF NetInv, Answered!TypeOK
  <2>3. NetTold'
    BY <2>1 DEF NetInv, NetTold, Told, Answered!Kinds
  <2>4. Answered!InOrder' /\ Answered!Readable' /\ Answered!Silent
    BY <2>1 DEF NetInv, Answered!InOrder, Answered!Readable, Answered!Silent
  <2> QED BY <2>2, <2>3, <2>4 DEF NetInv
<1>4. ASSUME NEW i \in AnsweredIds,
             \/ \E incremental \in BOOLEAN : Answered!Send(i, incremental)
             \/ Answered!Abort(i) \/ Answered!Queue(i)
      PROVE  NetInv' /\ Answered!Silent
  BY <1>4, Answered_Sends, Answered_Aborts, Answered_Says
<1> QED BY <1>1, <1>2, <1>3, <1>4, Answered_Takes DEF Answered!Next

-----------------------------------------------------------------------------
(* What an application is answered of its images.                            *)

\* A fetch on its way is its image's, and not cancelled; one that is cancelled is forgotten,
\* and no load joins its image until it ended.
ImgFlights ==
    /\ \A i \in LoadedImages : flights[i] # None =>
         /\ imagesThread[flights[i].by].image = i
         /\ imagesThread[flights[i].by].at = "fetches" /\ ~imagesThread[flights[i].by].cancel
    /\ \A n \in DOMAIN imagesThread :
         imagesThread[n].cancel /\ imagesThread[n].at # "ended" =>
           /\ flights[imagesThread[n].image] = None
           /\ imagesCall # None =>
                (imagesCall.does = "joins" => imagesCall.image # imagesThread[n].image)
    /\ Loaded!Unwanted

\* Where a load waits: for its call, for a fetch on its way, or for one that ended.
Joining(l) == imagesCall # None /\ imagesCall.load = l /\ imagesCall.does = "joins"
Flying(l, i) == flights[i] # None /\ l \in flights[i].waiting
Landed(l, n) == l \in imagesThread[n].waiting
Waits(l) == \/ Joining(l) \/ (\E i \in LoadedImages : Flying(l, i))
            \/ (\E n \in DOMAIN imagesThread : Landed(l, n))

\* A load waits in one place.
ImgWaits ==
    \A l \in LoadedLoads :
      /\ Joining(l) => /\ \A i \in LoadedImages : ~Flying(l, i)
                       /\ \A n \in DOMAIN imagesThread : ~Landed(l, n)
      /\ \A i \in LoadedImages : Flying(l, i) =>
           /\ \A j \in LoadedImages : Flying(l, j) => j = i
           /\ \A n \in DOMAIN imagesThread : ~Landed(l, n)
      /\ \A m, n \in DOMAIN imagesThread : Landed(l, m) /\ Landed(l, n) => m = n

\* A load that waits was loaded, and neither cancelled nor answered to its end; one that was
\* not loaded was answered nothing, and nothing is queued of one that is cancelled.
Over(l) == \/ \E n \in DOMAIN imagesGiven[l] : imagesGiven[l][n]
           \/ \E n \in DOMAIN imagesAnswers : imagesAnswers[n].load = l /\ imagesAnswers[n].ends
Dropping(l) == imagesCall # None /\ imagesCall.load = l /\ imagesCall.does = "cancels"

ImgAnswered ==
    \A l \in LoadedLoads :
      /\ Waits(l) => load[l] # None /\ ~load[l].cancelled /\ ~Over(l)
      /\ load[l] = None => imagesGiven[l] = <<>>

ImgQueued ==
    \A l \in LoadedLoads, n \in DOMAIN imagesAnswers : imagesAnswers[n].load = l =>
      /\ load[l] # None /\ (load[l].cancelled => Dropping(l))
      /\ \A m \in DOMAIN imagesGiven[l] : ~imagesGiven[l][m]
      /\ \A m \in 1..(n - 1) : imagesAnswers[m].load = l => ~imagesAnswers[m].ends

ImgInv == /\ Loaded!TypeOK /\ ImgFlights /\ ImgWaits /\ ImgAnswered /\ ImgQueued
          /\ Loaded!AnsweredOnce

\* The instance's operators are the standard modules' and those of queues.
LEMMA Loaded_Sizes ==
    /\ \A S : (Loaded!IsFiniteSet(S) <=> IsFiniteSet(S)) /\ Loaded!Cardinality(S) = Cardinality(S)
    /\ \A queue, K : Loaded!AtThose(queue, K) = AtThose(queue, K)
<1>1. ASSUME NEW S
      PROVE  /\ Loaded!IsFiniteSet(S) <=> IsFiniteSet(S)
             /\ Loaded!Cardinality(S) = Cardinality(S)
  BY Zenon DEF Loaded!IsFiniteSet, IsFiniteSet, Loaded!Cardinality, Cardinality
<1>2. ASSUME NEW queue, NEW K
      PROVE  Loaded!AtThose(queue, K) = AtThose(queue, K)
  <2>1. ASSUME NEW k
        PROVE  Loaded!Kth(K, k) = Kth(K, k)
    <3>1. \A n : Loaded!Cardinality({m \in K : m <= n}) = k
                 <=> Cardinality({m \in K : m <= n}) = k
      BY Zenon, <1>1
    <3> QED BY Zenon, <3>1 DEF Loaded!Kth, Kth
  <2>2. Loaded!Cardinality(K) = Cardinality(K)
    BY <1>1
  <2>3. [k \in 1..Cardinality(K) |-> queue[Loaded!Kth(K, k)]]
        = [k \in 1..Cardinality(K) |-> queue[Kth(K, k)]]
    BY Zenon, <2>1
  <2> QED BY Zenon, <2>2, <2>3 DEF Loaded!AtThose, AtThose
<1> QED BY <1>1, <1>2

\* What is assumed of the images' bounds.
LEMMA Loaded_Bounds ==
    /\ LoadedFlights \in Nat /\ LoadedParts \in Nat /\ LoadedClears \in Nat
    /\ IsFiniteSet(LoadedLoads)
    /\ None \notin Loaded!LoadsAt /\ None \notin Loaded!Calls /\ None \notin Loaded!Flights
<1>1. Loaded!IsFiniteSet(LoadedLoads)
  BY LoadedBounds DEF Loaded!ImageBounds
<1>2. IsFiniteSet(LoadedLoads)
  BY Zenon, <1>1, Loaded_Sizes
<1> QED BY <1>2, LoadedBounds DEF Loaded!ImageBounds

\* What is of which type.
LEMMA Images_Of ==
    ASSUME Loaded!TypeOK
    PROVE  /\ \A n \in DOMAIN imagesThread :
                /\ imagesThread[n] \in Loaded!Threads
                /\ imagesThread[n].image \in LoadedImages
                /\ imagesThread[n].waiting \subseteq LoadedLoads
           /\ \A n \in DOMAIN imagesAnswers :
                /\ imagesAnswers[n] \in [load : LoadedLoads, ends : BOOLEAN]
                /\ imagesAnswers[n].load \in LoadedLoads /\ imagesAnswers[n].ends \in BOOLEAN
           /\ \A i \in LoadedImages : flights[i] # None =>
                /\ flights[i] \in Loaded!Flights
                /\ flights[i].waiting \subseteq LoadedLoads /\ flights[i].waiting # {}
                /\ flights[i].by \in DOMAIN imagesThread
           /\ \A l \in LoadedLoads : load[l] # None => load[l] \in Loaded!LoadsAt
           /\ imagesCall # None => imagesCall \in Loaded!Calls /\ imagesCall.load \in LoadedLoads
           /\ DOMAIN imagesThread = 1..Len(imagesThread) /\ Len(imagesThread) \in Nat
           /\ DOMAIN imagesAnswers = 1..Len(imagesAnswers) /\ Len(imagesAnswers) \in Nat
<1>1. /\ imagesThread \in Seq(Loaded!Threads)
      /\ imagesAnswers \in Seq([load : LoadedLoads, ends : BOOLEAN])
      /\ flights \in [LoadedImages -> Loaded!Flights \cup {None}]
      /\ load \in [LoadedLoads -> Loaded!LoadsAt \cup {None}]
      /\ imagesCall \in Loaded!Calls \cup {None}
  BY DEF Loaded!TypeOK
<1>2. \A n \in DOMAIN imagesThread : imagesThread[n] \in Loaded!Threads
  BY <1>1, ElementOfSeq, LenProperties
<1>3. \A n \in DOMAIN imagesAnswers :
        imagesAnswers[n] \in [load : LoadedLoads, ends : BOOLEAN]
  <2> DEFINE S == [load : LoadedLoads, ends : BOOLEAN]
  <2> HIDE DEF S
  <2> QED BY <1>1, ElementOfSeq, LenProperties
<1>4. /\ DOMAIN imagesThread = 1..Len(imagesThread) /\ Len(imagesThread) \in Nat
      /\ DOMAIN imagesAnswers = 1..Len(imagesAnswers) /\ Len(imagesAnswers) \in Nat
  BY <1>1
<1>5. \A n \in DOMAIN imagesThread :
        /\ imagesThread[n].image \in LoadedImages
        /\ imagesThread[n].waiting \subseteq LoadedLoads
  BY <1>2 DEF Loaded!Threads
<1>6. \A n \in DOMAIN imagesAnswers :
        imagesAnswers[n].load \in LoadedLoads /\ imagesAnswers[n].ends \in BOOLEAN
  BY <1>3
<1>7. \A i \in LoadedImages : flights[i] # None =>
        /\ flights[i] \in Loaded!Flights
        /\ flights[i].waiting \subseteq LoadedLoads /\ flights[i].waiting # {}
        /\ flights[i].by \in DOMAIN imagesThread
  BY <1>1 DEF Loaded!TypeOK, Loaded!Flights
<1>8. imagesCall # None => imagesCall \in Loaded!Calls /\ imagesCall.load \in LoadedLoads
  BY <1>1 DEF Loaded!Calls
<1> QED BY <1>1, <1>2, <1>3, <1>4, <1>5, <1>6, <1>7, <1>8

\* What holds where the images start.
LEMMA Images_Init == Loaded!Init => ImgInv
<1> SUFFICES ASSUME Loaded!Init PROVE ImgInv
  OBVIOUS
<1>1. Loaded!TypeOK
  BY DEF Loaded!Init, Loaded!TypeOK
<1>2. ImgFlights
  BY DEF Loaded!Init, ImgFlights, Loaded!Unwanted
<1>3. \A l \in LoadedLoads : ~Waits(l)
  BY DEF Loaded!Init, Waits, Joining, Flying, Landed
<1>4. ImgWaits
  BY <1>3 DEF ImgWaits, Waits
<1>5. ImgAnswered /\ ImgQueued
  BY <1>3 DEF Loaded!Init, ImgAnswered, ImgQueued
<1>6. Loaded!AnsweredOnce
  BY DEF Loaded!Init, Loaded!AnsweredOnce
<1> QED BY <1>1, <1>2, <1>4, <1>5, <1>6 DEF ImgInv

\* Where no more loads wait, and none is answered or given more, what was said of them holds.
LEMMA Images_Stay ==
    ASSUME ImgInv, UNCHANGED <<load, imagesAnswers, imagesGiven>>,
           \A l \in LoadedLoads : (Dropping(l) => Dropping(l)') /\ (Waits(l)' => Waits(l))
    PROVE  ImgAnswered' /\ ImgQueued' /\ Loaded!AnsweredOnce' /\ Loaded!Silent
<1>1. ImgAnswered'
  BY DEF ImgInv, ImgAnswered, Over
<1>2. ImgQueued'
  BY DEF ImgInv, ImgQueued
<1>3. Loaded!AnsweredOnce' /\ Loaded!Silent
  BY DEF ImgInv, Loaded!AnsweredOnce, Loaded!Silent
<1> QED BY <1>1, <1>2, <1>3

\* Answers that are queued of loads that wait come after none that ends them.
LEMMA Images_Adds ==
    ASSUME ImgInv, NEW S \in SUBSET LoadedLoads, NEW k \in Nat,
           DOMAIN imagesAnswers' = 1..(Len(imagesAnswers) + k),
           \A n \in DOMAIN imagesAnswers : imagesAnswers'[n] = imagesAnswers[n],
           \A n \in (Len(imagesAnswers) + 1)..(Len(imagesAnswers) + k) :
             /\ imagesAnswers'[n].load \in S
             /\ imagesAnswers'[n].ends => k = 1,
           \A l \in LoadedLoads : Waits(l)' =>
             \A n \in (Len(imagesAnswers) + 1)..(Len(imagesAnswers) + k) :
               imagesAnswers'[n].load = l => ~imagesAnswers'[n].ends,
           \A l \in S : Waits(l),
           \A l \in LoadedLoads : (Dropping(l) => Dropping(l)') /\ (Waits(l)' => Waits(l)),
           UNCHANGED <<load, imagesGiven>>
    PROVE  ImgAnswered' /\ ImgQueued' /\ Loaded!AnsweredOnce' /\ Loaded!Silent
<1> DEFINE L == Len(imagesAnswers)
<1>0. L \in Nat /\ DOMAIN imagesAnswers = 1..L
  BY Images_Of DEF ImgInv
<1> HIDE DEF L
<1>1. \A n \in DOMAIN imagesAnswers' : n \in DOMAIN imagesAnswers \/ n \in (L + 1)..(L + k)
  BY <1>0 DEF L
<1>2. \A l \in S : load[l] # None /\ ~load[l].cancelled /\ ~Over(l)
  BY DEF ImgInv, ImgAnswered
<1>3. ImgAnswered'
  <2>1. ASSUME NEW l \in LoadedLoads, Waits(l)', Over(l)'
        PROVE  Over(l)
    <3>1. CASE \E n \in DOMAIN imagesGiven[l] : imagesGiven[l][n]
      BY <3>1 DEF Over
    <3>2. CASE \E n \in DOMAIN imagesAnswers' :
                 imagesAnswers'[n].load = l /\ imagesAnswers'[n].ends
      <4>1. PICK n \in DOMAIN imagesAnswers' :
              imagesAnswers'[n].load = l /\ imagesAnswers'[n].ends
        BY <3>2
      <4>2. n \in DOMAIN imagesAnswers
        <5> SUFFICES ASSUME n \in (L + 1)..(L + k) PROVE FALSE
          BY <1>1
        <5> QED BY <2>1, <4>1 DEF L
      <4>3. imagesAnswers[n].load = l /\ imagesAnswers[n].ends
        BY <4>1, <4>2
      <4> QED BY <4>2, <4>3 DEF Over
    <3> QED BY <2>1, <3>1, <3>2 DEF Over
  <2>2. ASSUME NEW l \in LoadedLoads
        PROVE  (Waits(l) => load[l] # None /\ ~load[l].cancelled /\ ~Over(l))'
    BY <2>1 DEF ImgInv, ImgAnswered
  <2> QED BY <2>2 DEF ImgInv, ImgAnswered
<1>4. ImgQueued'
  <2> SUFFICES ASSUME NEW l \in LoadedLoads, NEW n \in DOMAIN imagesAnswers',
                      imagesAnswers'[n].load = l
               PROVE  /\ load[l] # None /\ (load[l].cancelled => Dropping(l)')
                      /\ \A m \in DOMAIN imagesGiven[l] : ~imagesGiven[l][m]
                      /\ \A m \in 1..(n - 1) : imagesAnswers'[m].load = l =>
                           ~imagesAnswers'[m].ends
    BY DEF ImgQueued
  <2>1. CASE n \in DOMAIN imagesAnswers
    <3>1. \A m \in 1..(n - 1) : m \in DOMAIN imagesAnswers
      BY <1>0, <2>1
    <3>2. imagesAnswers[n].load = l
      BY <2>1
    <3>3. \A m \in 1..(n - 1) : imagesAnswers'[m] = imagesAnswers[m]
      BY <3>1
    <3> QED BY <2>1, <3>2, <3>3 DEF ImgInv, ImgQueued
  <2>2. CASE n \in (L + 1)..(L + k)
    <3>1. l \in S
      BY <2>2 DEF L
    <3>2. load[l] # None /\ ~load[l].cancelled /\ ~Over(l)
      BY <1>2, <3>1
    <3>3. ASSUME NEW m \in 1..(n - 1), imagesAnswers'[m].load = l, imagesAnswers'[m].ends
          PROVE  FALSE
      <4>1. m \in DOMAIN imagesAnswers \/ m \in (L + 1)..(L + k)
        BY <1>0, <2>2
      <4>2. CASE m \in DOMAIN imagesAnswers
        <5>1. imagesAnswers[m].load = l /\ imagesAnswers[m].ends
          BY <3>3, <4>2
        <5> QED BY <3>2, <4>2, <5>1 DEF Over
      <4>3. CASE m \in (L + 1)..(L + k)
        <5>1. k = 1
          BY <3>3, <4>3 DEF L
        <5> QED BY <1>0, <2>2, <4>3, <5>1
      <4> QED BY <4>1, <4>2, <4>3
    <3> QED BY <3>2, <3>3 DEF Over
  <2> QED BY <1>1, <2>1, <2>2
<1>5. Loaded!AnsweredOnce' /\ Loaded!Silent
  BY DEF ImgInv, Loaded!AnsweredOnce, Loaded!Silent
<1> QED BY <1>3, <1>4, <1>5

\* A thread of a fetch that goes on.
LEMMA Images_Becomes ==
    ASSUME Loaded!TypeOK, NEW n \in DOMAIN imagesThread, NEW r \in Loaded!Threads,
           imagesThread' = [imagesThread EXCEPT ![n] = r]
    PROVE  /\ imagesThread' \in Seq(Loaded!Threads)
           /\ DOMAIN imagesThread' = DOMAIN imagesThread
           /\ imagesThread'[n] = r
           /\ \A m \in DOMAIN imagesThread \ {n} : imagesThread'[m] = imagesThread[m]
<1>1. imagesThread \in Seq(Loaded!Threads)
  BY DEF Loaded!TypeOK
<1>2. n \in 1..Len(imagesThread)
  BY Images_Of
<1> QED BY <1>1, <1>2, ExceptSeq, LenProperties

\* oxyos_images_fetch.
LEMMA Images_Fetch ==
    ASSUME ImgInv, NEW l \in LoadedLoads, NEW i \in LoadedImages, NEW policy \in Loaded!Policies,
           Loaded!Fetch(l, i, policy)
    PROVE  ImgInv' /\ Loaded!Silent
<1>1. /\ imagesCall = None /\ load[l] = None
      /\ load' = [load EXCEPT ![l] = [image |-> i, cancelled |-> FALSE]]
      /\ UNCHANGED <<flights, memory, imagesAnswers, imagesGiven, clears>>
  BY DEF Loaded!Fetch
<1>2. /\ load' \in [LoadedLoads -> Loaded!LoadsAt \cup {None}]
      /\ load'[l] \in Loaded!LoadsAt /\ ~load'[l].cancelled
      /\ \A m \in LoadedLoads \ {l} : load'[m] = load[m]
  BY <1>1 DEF ImgInv, Loaded!TypeOK, Loaded!LoadsAt
<1>3. load'[l] # None
  BY <1>2, Loaded_Bounds
<1>4. /\ ~Waits(l) /\ imagesGiven[l] = <<>>
      /\ \A n \in DOMAIN imagesAnswers : imagesAnswers[n].load # l
  BY <1>1 DEF ImgInv, ImgAnswered, ImgQueued
<1>5. ~Over(l) /\ ~Over(l)'
  BY <1>1, <1>4 DEF Over
<1>6. ASSUME \A m \in LoadedLoads \ {l} : Waits(m)' => Waits(m)
      PROVE  ImgAnswered' /\ ImgQueued' /\ Loaded!AnsweredOnce' /\ Loaded!Silent
  <2>1. ImgAnswered'
    <3> SUFFICES ASSUME NEW m \in LoadedLoads
                 PROVE  /\ Waits(m)' => load'[m] # None /\ ~load'[m].cancelled /\ ~Over(m)'
                        /\ load'[m] = None => imagesGiven'[m] = <<>>
      BY DEF ImgAnswered
    <3>1. CASE m = l
      BY <1>2, <1>3, <1>5, <3>1
    <3>2. CASE m # l
      <4>1. Over(m)' => Over(m)
        BY <1>1 DEF Over
      <4> QED BY <1>1, <1>2, <1>6, <3>2, <4>1 DEF ImgInv, ImgAnswered
    <3> QED BY <3>1, <3>2
  <2>2. ImgQueued'
    <3>1. \A m \in LoadedLoads : ~Dropping(m)
      BY <1>1 DEF Dropping
    <3>2. ASSUME NEW m \in LoadedLoads, NEW n \in DOMAIN imagesAnswers, imagesAnswers[n].load = m
          PROVE  /\ load'[m] # None /\ ~load'[m].cancelled
                 /\ \A o \in DOMAIN imagesGiven[m] : ~imagesGiven[m][o]
                 /\ \A o \in 1..(n - 1) : imagesAnswers[o].load = m => ~imagesAnswers[o].ends
      <4>1. m # l
        BY <1>4, <3>2
      <4> QED BY <1>2, <3>1, <3>2, <4>1 DEF ImgInv, ImgQueued
    <3> QED BY <1>1, <3>2 DEF ImgQueued
  <2>3. Loaded!AnsweredOnce' /\ Loaded!Silent
    BY <1>1 DEF ImgInv, Loaded!AnsweredOnce, Loaded!Silent
  <2> QED BY <2>1, <2>2, <2>3
<1>7. CASE Loaded!Usable(i, policy)
  <2> DEFINE r == [image |-> i, at |-> "answers", waiting |-> {l}, cancel |-> FALSE, parts |-> 0]
  <2>0. PICK N : N = Len(imagesThread) + 1
    OBVIOUS
  <2>1. imagesThread' = Append(imagesThread, r) /\ imagesCall' = None
    BY <1>7 DEF Loaded!Fetch
  <2>2. /\ r \in Loaded!Threads /\ r.at = "answers" /\ r.waiting = {l} /\ ~r.cancel
    BY DEF Loaded!Threads
  <2>3. imagesThread \in Seq(Loaded!Threads)
    BY DEF ImgInv, Loaded!TypeOK
  <2> HIDE DEF r
  <2>4. /\ imagesThread' \in Seq(Loaded!Threads)
        /\ DOMAIN imagesThread' = DOMAIN imagesThread \cup {N} /\ N \notin DOMAIN imagesThread
        /\ \A n \in DOMAIN imagesThread : imagesThread'[n] = imagesThread[n]
        /\ imagesThread'[N] = r
    BY <2>0, <2>1, <2>2, <2>3, Appended_Is
  <2>5. Loaded!TypeOK'
    BY <1>1, <1>2, <2>1, <2>4 DEF ImgInv, Loaded!TypeOK
  <2>6. ImgFlights'
    <3>1. \A j \in LoadedImages : flights[j] # None => flights[j].by \in DOMAIN imagesThread
      BY Images_Of DEF ImgInv
    <3>2. \A j \in LoadedImages : flights[j] # None =>
             /\ imagesThread'[flights[j].by].image = j
             /\ imagesThread'[flights[j].by].at = "fetches" /\ ~imagesThread'[flights[j].by].cancel
      BY <2>4, <3>1 DEF ImgInv, ImgFlights
    <3>3. \A n \in DOMAIN imagesThread' : imagesThread'[n].cancel /\ imagesThread'[n].at # "ended" =>
             flights[imagesThread'[n].image] = None
      BY <2>2, <2>4 DEF ImgInv, ImgFlights
    <3>4. Loaded!Unwanted'
      BY <1>1, <2>2, <2>4 DEF ImgInv, ImgFlights, Loaded!Unwanted
    <3> QED BY <1>1, <2>1, <3>2, <3>3, <3>4 DEF ImgFlights
  <2>7. /\ \A m \in LoadedLoads : ~Joining(m) /\ ~Joining(m)'
        /\ \A m \in LoadedLoads, j \in LoadedImages : Flying(m, j)' <=> Flying(m, j)
        /\ \A m \in LoadedLoads, n \in DOMAIN imagesThread : Landed(m, n)' <=> Landed(m, n)
        /\ \A m \in LoadedLoads : Landed(m, N)' <=> m = l
    <3>1. \A m \in LoadedLoads : ~Joining(m) /\ ~Joining(m)'
      BY <1>1, <2>1 DEF Joining
    <3>2. \A m \in LoadedLoads, j \in LoadedImages : Flying(m, j)' <=> Flying(m, j)
      BY <1>1 DEF Flying
    <3>3. \A m \in LoadedLoads, n \in DOMAIN imagesThread : Landed(m, n)' <=> Landed(m, n)
      BY <2>4 DEF Landed
    <3>4. \A m \in LoadedLoads : Landed(m, N)' <=> m = l
      BY <2>2, <2>4 DEF Landed
    <3> QED BY <3>1, <3>2, <3>3, <3>4
  <2>8. /\ \A j \in LoadedImages : ~Flying(l, j)
        /\ \A n \in DOMAIN imagesThread : ~Landed(l, n)
    BY <1>4 DEF Waits
  <2>9. ImgWaits'
    <3>1. ASSUME NEW m \in LoadedLoads, NEW j \in LoadedImages, Flying(m, j)'
          PROVE  /\ \A o \in LoadedImages : Flying(m, o)' => o = j
                 /\ \A n \in DOMAIN imagesThread' : ~Landed(m, n)'
      <4>1. m # l /\ Flying(m, j)
        BY <2>7, <2>8, <3>1
      <4>2. /\ \A o \in LoadedImages : Flying(m, o) => o = j
            /\ \A n \in DOMAIN imagesThread : ~Landed(m, n)
        BY <4>1 DEF ImgInv, ImgWaits
      <4> QED BY <2>4, <2>7, <4>1, <4>2
    <3>2. ASSUME NEW m \in LoadedLoads, NEW n \in DOMAIN imagesThread',
                 NEW o \in DOMAIN imagesThread', Landed(m, n)', Landed(m, o)'
          PROVE  n = o
      <4>1. CASE m = l
        <5>1. n = N /\ o = N
          BY <2>4, <2>7, <2>8, <3>2, <4>1
        <5> QED BY <5>1
      <4>2. CASE m # l
        <5>1. /\ n \in DOMAIN imagesThread /\ o \in DOMAIN imagesThread
              /\ Landed(m, n) /\ Landed(m, o)
          BY <2>4, <2>7, <3>2, <4>2
        <5> QED BY <5>1 DEF ImgInv, ImgWaits
      <4> QED BY <4>1, <4>2
    <3> QED BY <2>7, <3>1, <3>2 DEF ImgWaits
  <2>10. \A m \in LoadedLoads \ {l} : Waits(m)' => Waits(m)
    <3> SUFFICES ASSUME NEW m \in LoadedLoads \ {l}, Waits(m)' PROVE Waits(m)
      OBVIOUS
    <3>1. \/ Joining(m)' \/ (\E j \in LoadedImages : Flying(m, j)')
          \/ (\E n \in DOMAIN imagesThread' : Landed(m, n)')
      BY DEF Waits
    <3>2. (\E j \in LoadedImages : Flying(m, j)) \/ (\E n \in DOMAIN imagesThread : Landed(m, n))
      BY <2>4, <2>7, <3>1
    <3> QED BY <3>2 DEF Waits
  <2> QED BY <1>6, <2>5, <2>6, <2>9, <2>10 DEF ImgInv
<1>8. CASE ~Loaded!Usable(i, policy)
  <2>1. /\ imagesCall' = [does |-> "joins", load |-> l, image |-> i]
        /\ imagesThread' = imagesThread
    BY <1>8 DEF Loaded!Fetch
  <2>2. /\ imagesCall' \in Loaded!Calls /\ imagesCall' # None /\ imagesCall'.load = l
        /\ imagesCall'.does = "joins" /\ imagesCall'.image = i
    <3>1. imagesCall' \in Loaded!Calls
      BY <2>1 DEF Loaded!Calls
    <3> QED BY <2>1, <3>1, Loaded_Bounds
  <2>3. Loaded!TypeOK'
    BY <1>1, <1>2, <2>1, <2>2 DEF ImgInv, Loaded!TypeOK
  <2>4. ImgFlights'
    <3>1. \A n \in DOMAIN imagesThread :
            imagesThread[n].image = i /\ imagesThread[n].at # "ended" => ~imagesThread[n].cancel
      BY DEF Loaded!Fetch, Loaded!Running
    <3>2. Loaded!Unwanted'
      BY <1>1, <2>1 DEF ImgInv, ImgFlights, Loaded!Unwanted
    <3> QED BY <1>1, <2>1, <2>2, <3>1, <3>2 DEF ImgInv, ImgFlights
  <2>5. /\ \A m \in LoadedLoads : ~Joining(m) /\ (Joining(m)' <=> m = l)
        /\ \A m \in LoadedLoads, j \in LoadedImages : Flying(m, j)' <=> Flying(m, j)
        /\ \A m \in LoadedLoads, n \in DOMAIN imagesThread : Landed(m, n)' <=> Landed(m, n)
    BY <1>1, <2>1, <2>2 DEF Joining, Flying, Landed
  <2>6. /\ \A j \in LoadedImages : ~Flying(l, j)
        /\ \A n \in DOMAIN imagesThread : ~Landed(l, n)
    BY <1>4 DEF Waits
  <2>7. ImgWaits'
    BY <2>1, <2>5, <2>6 DEF ImgInv, ImgWaits
  <2>8. \A m \in LoadedLoads \ {l} : Waits(m)' => Waits(m)
    BY <2>1, <2>5 DEF Waits
  <2> QED BY <1>6, <2>3, <2>4, <2>7, <2>8 DEF ImgInv
<1> QED BY <1>7, <1>8

\* Where no more loads wait, each still waits in one place.
LEMMA Images_Waits ==
    ASSUME ImgWaits, \A l \in LoadedLoads : Joining(l)' => Joining(l),
           \A l \in LoadedLoads, i \in LoadedImages : Flying(l, i)' => Flying(l, i),
           \A l \in LoadedLoads, n \in DOMAIN imagesThread' :
             Landed(l, n)' => n \in DOMAIN imagesThread /\ Landed(l, n)
    PROVE  ImgWaits' /\ \A l \in LoadedLoads : Waits(l)' => Waits(l)
<1>1. ImgWaits'
  <2>1. ASSUME NEW l \in LoadedLoads, Joining(l)'
        PROVE  /\ \A i \in LoadedImages : ~Flying(l, i)'
               /\ \A n \in DOMAIN imagesThread' : ~Landed(l, n)'
    BY <2>1 DEF ImgWaits
  <2>2. ASSUME NEW l \in LoadedLoads, NEW i \in LoadedImages, Flying(l, i)'
        PROVE  /\ \A j \in LoadedImages : Flying(l, j)' => j = i
               /\ \A n \in DOMAIN imagesThread' : ~Landed(l, n)'
    BY <2>2 DEF ImgWaits
  <2>3. ASSUME NEW l \in LoadedLoads, NEW m \in DOMAIN imagesThread',
               NEW n \in DOMAIN imagesThread', Landed(l, m)', Landed(l, n)'
        PROVE  m = n
    <3>1. /\ m \in DOMAIN imagesThread /\ n \in DOMAIN imagesThread
          /\ Landed(l, m) /\ Landed(l, n)
      BY <2>3
    <3> QED BY <3>1 DEF ImgWaits
  <2> QED BY <2>1, <2>2, <2>3 DEF ImgWaits
<1>2. ASSUME NEW l \in LoadedLoads, Waits(l)'
      PROVE  Waits(l)
  <2>1. \/ Joining(l)' \/ (\E i \in LoadedImages : Flying(l, i)')
        \/ (\E n \in DOMAIN imagesThread' : Landed(l, n)')
    BY <1>2 DEF Waits
  <2>2. \/ Joining(l) \/ (\E i \in LoadedImages : Flying(l, i))
        \/ (\E n \in DOMAIN imagesThread : Landed(l, n))
    BY <2>1
  <2> QED BY <2>2 DEF Waits
<1> QED BY <1>1, <1>2

\* Where the fetches, their threads and the application's calls stay, so does what holds of
\* them.
LEMMA Images_FlightsStay ==
    ASSUME ImgInv, UNCHANGED <<flights, imagesThread>>, imagesCall' \in {imagesCall, None}
    PROVE  /\ ImgFlights' /\ ImgWaits'
           /\ \A l \in LoadedLoads : Waits(l)' => Waits(l)
<1>1. ImgFlights'
  <2>1. Loaded!Unwanted'
    BY DEF ImgInv, ImgFlights, Loaded!Unwanted
  <2>2. \A n \in DOMAIN imagesThread :
          imagesThread[n].cancel /\ imagesThread[n].at # "ended" =>
            (imagesCall' # None =>
               (imagesCall'.does = "joins" => imagesCall'.image # imagesThread[n].image))
    BY DEF ImgInv, ImgFlights
  <2> QED BY <2>1, <2>2 DEF ImgInv, ImgFlights
<1>2. /\ \A l \in LoadedLoads : Joining(l)' => Joining(l)
      /\ \A l \in LoadedLoads, i \in LoadedImages : Flying(l, i)' => Flying(l, i)
      /\ \A l \in LoadedLoads, n \in DOMAIN imagesThread' :
           Landed(l, n)' => n \in DOMAIN imagesThread /\ Landed(l, n)
  BY DEF Joining, Flying, Landed
<1> QED BY <1>1, <1>2, Images_Waits DEF ImgInv

\* A load joins the fetch on its way, or starts one, or is answered at once.
LEMMA Images_Join ==
    ASSUME ImgInv, Loaded!Join
    PROVE  ImgInv' /\ Loaded!Silent
<1>1. /\ imagesCall # None /\ imagesCall.does = "joins" /\ imagesCall' = None
      /\ UNCHANGED <<load, memory, imagesGiven, clears>>
  BY DEF Loaded!Join
<1>2. imagesCall \in Loaded!Calls /\ imagesCall.load \in LoadedLoads
  BY <1>1, Images_Of DEF ImgInv
<1>3. imagesCall.image \in LoadedImages
  BY <1>1, <1>2 DEF Loaded!Calls
<1>4. PICK l \in LoadedLoads, i \in LoadedImages : l = imagesCall.load /\ i = imagesCall.image
  BY <1>2, <1>3
<1>5. /\ \A m \in LoadedLoads : ~Joining(m)' /\ (Joining(m) <=> m = l)
      /\ \A m \in LoadedLoads : ~Dropping(m) /\ ~Dropping(m)'
  BY <1>1, <1>4 DEF Joining, Dropping
<1>6. /\ \A j \in LoadedImages : ~Flying(l, j)
      /\ \A n \in DOMAIN imagesThread : ~Landed(l, n)
      /\ Waits(l)
  BY <1>5 DEF ImgInv, ImgWaits, Waits
<1>7. \A n \in DOMAIN imagesThread : imagesThread[n].cancel /\ imagesThread[n].at # "ended" =>
        flights[imagesThread[n].image] = None /\ imagesThread[n].image # i
  BY <1>1, <1>4 DEF ImgInv, ImgFlights
<1>8. CASE flights[i] # None
  <2> DEFINE f == [flights[i] EXCEPT !.waiting = @ \cup {l}]
  <2>1. flights' = [flights EXCEPT ![i] = f] /\ UNCHANGED <<imagesThread, imagesAnswers>>
    BY <1>4, <1>8 DEF Loaded!Join
  <2>2. flights[i] \in Loaded!Flights
    BY <1>8, Images_Of DEF ImgInv
  <2>3. f \in Loaded!Flights /\ f.by = flights[i].by /\ f.waiting = flights[i].waiting \cup {l}
    BY <2>2 DEF Loaded!Flights
  <2> HIDE DEF f
  <2>4. /\ flights' \in [LoadedImages -> Loaded!Flights \cup {None}] /\ flights'[i] = f
        /\ \A j \in LoadedImages \ {i} : flights'[j] = flights[j]
    BY <2>1, <2>3 DEF ImgInv, Loaded!TypeOK
  <2>5. Loaded!TypeOK'
    BY <1>1, <1>8, <2>1, <2>3, <2>4 DEF ImgInv, Loaded!TypeOK
  <2>6. ImgFlights'
    <3>1. \A j \in LoadedImages : flights'[j] # None => flights[j] # None /\ flights'[j].by = flights[j].by
      BY <1>8, <2>3, <2>4
    <3>2. \A n \in DOMAIN imagesThread : imagesThread[n].cancel /\ imagesThread[n].at # "ended" =>
            flights'[imagesThread[n].image] = None
      BY <1>7, <2>4, Images_Of DEF ImgInv
    <3>3. f # None
      BY <2>3, Loaded_Bounds
    <3>4. Loaded!Unwanted'
      <4> SUFFICES ASSUME NEW n \in DOMAIN imagesThread, imagesThread[n].at = "fetches",
                          ~imagesThread[n].cancel
                   PROVE  /\ flights'[imagesThread[n].image] # None
                          /\ flights'[imagesThread[n].image].by = n
        BY <2>1 DEF Loaded!Unwanted
      <4>1. /\ flights[imagesThread[n].image] # None
            /\ flights[imagesThread[n].image].by = n /\ imagesThread[n].image \in LoadedImages
        BY Images_Of DEF ImgInv, ImgFlights, Loaded!Unwanted
      <4> QED BY <2>3, <2>4, <3>3, <4>1
    <3>5. \A j \in LoadedImages : flights'[j] # None =>
             /\ imagesThread[flights'[j].by].image = j
             /\ imagesThread[flights'[j].by].at = "fetches" /\ ~imagesThread[flights'[j].by].cancel
      BY <3>1 DEF ImgInv, ImgFlights
    <3> QED BY <1>1, <2>1, <3>2, <3>4, <3>5 DEF ImgFlights
  <2>7. /\ \A m \in LoadedLoads, j \in LoadedImages :
             Flying(m, j)' => Flying(m, j) \/ (m = l /\ j = i)
        /\ \A m \in LoadedLoads, n \in DOMAIN imagesThread : Landed(m, n)' <=> Landed(m, n)
    BY <1>8, <2>1, <2>3, <2>4 DEF Flying, Landed
  <2>8. ImgWaits'
    <3>1. ASSUME NEW m \in LoadedLoads, NEW j \in LoadedImages, Flying(m, j)'
          PROVE  /\ \A o \in LoadedImages : Flying(m, o)' => o = j
                 /\ \A n \in DOMAIN imagesThread : ~Landed(m, n)
      <4>1. CASE m = l
        BY <1>6, <2>7, <3>1, <4>1
      <4>2. CASE m # l
        <5>1. Flying(m, j)
          BY <2>7, <3>1, <4>2
        <5> QED BY <2>7, <4>2, <5>1 DEF ImgInv, ImgWaits
      <4> QED BY <4>1, <4>2
    <3>2. ASSUME NEW m \in LoadedLoads, NEW n \in DOMAIN imagesThread,
                 NEW o \in DOMAIN imagesThread, Landed(m, n), Landed(m, o)
          PROVE  n = o
      BY <3>2 DEF ImgInv, ImgWaits
    <3> QED BY <1>5, <2>1, <2>7, <3>1, <3>2 DEF ImgWaits
  <2>9. \A m \in LoadedLoads : Waits(m)' => Waits(m)
    <3> SUFFICES ASSUME NEW m \in LoadedLoads, m # l, Waits(m)' PROVE Waits(m)
      BY <1>6
    <3> QED BY <1>5, <2>1, <2>7 DEF Waits
  <2> QED BY <1>1, <1>5, <2>1, <2>5, <2>6, <2>8, <2>9, Images_Stay DEF ImgInv
<1>9. CASE flights[i] = None /\ imagesAnswers' = imagesAnswers
  <2> DEFINE r == [image |-> i, at |-> "fetches", waiting |-> {}, cancel |-> FALSE, parts |-> 0]
             f == [waiting |-> {l}, by |-> Len(imagesThread) + 1]
  <2>0. PICK N : N = Len(imagesThread) + 1
    OBVIOUS
  <2>1. imagesThread' = Append(imagesThread, r) /\ flights' = [flights EXCEPT ![i] = f]
    <3>1. Append(imagesAnswers, Loaded!Answer(l, TRUE)) # imagesAnswers
      <4>1. /\ imagesAnswers \in Seq([load : LoadedLoads, ends : BOOLEAN])
            /\ Loaded!Answer(l, TRUE) \in [load : LoadedLoads, ends : BOOLEAN]
        BY DEF ImgInv, Loaded!TypeOK, Loaded!Answer
      <4> QED BY <4>1, Appended_Is
    <3> QED BY <1>4, <1>9, <3>1 DEF Loaded!Join
  <2>2. /\ r \in Loaded!Threads /\ r.image = i /\ r.at = "fetches" /\ r.waiting = {} /\ ~r.cancel
    BY DEF Loaded!Threads
  <2>3. imagesThread \in Seq(Loaded!Threads)
    BY DEF ImgInv, Loaded!TypeOK
  <2> HIDE DEF r
  <2>4. /\ imagesThread' \in Seq(Loaded!Threads) /\ N \in Nat
        /\ DOMAIN imagesThread' = DOMAIN imagesThread \cup {N} /\ N \notin DOMAIN imagesThread
        /\ \A n \in DOMAIN imagesThread : imagesThread'[n] = imagesThread[n]
        /\ imagesThread'[N] = r
    BY <2>0, <2>1, <2>2, <2>3, Appended_Is
  <2>5. f \in Loaded!Flights /\ f.by = N /\ f.waiting = {l}
    BY <2>0, <2>4 DEF Loaded!Flights
  <2> HIDE DEF f
  <2>6. /\ flights' \in [LoadedImages -> Loaded!Flights \cup {None}] /\ flights'[i] = f
        /\ \A j \in LoadedImages \ {i} : flights'[j] = flights[j]
    BY <2>1, <2>5 DEF ImgInv, Loaded!TypeOK
  <2>7. Loaded!TypeOK'
    BY <1>1, <1>9, <2>4, <2>5, <2>6 DEF ImgInv, Loaded!TypeOK
  <2>8. ImgFlights'
    <3>1. ASSUME NEW j \in LoadedImages, flights'[j] # None
          PROVE  /\ imagesThread'[flights'[j].by].image = j
                 /\ imagesThread'[flights'[j].by].at = "fetches"
                 /\ ~imagesThread'[flights'[j].by].cancel
      <4>1. CASE j = i
        BY <2>2, <2>4, <2>5, <2>6, <4>1
      <4>2. CASE j # i
        <5>1. flights[j].by \in DOMAIN imagesThread
          BY <2>6, <3>1, <4>2, Images_Of DEF ImgInv
        <5> QED BY <2>4, <2>6, <3>1, <4>2, <5>1 DEF ImgInv, ImgFlights
      <4> QED BY <4>1, <4>2
    <3>2. ASSUME NEW n \in DOMAIN imagesThread', imagesThread'[n].cancel,
                 imagesThread'[n].at # "ended"
          PROVE  flights'[imagesThread'[n].image] = None
      <4>1. n \in DOMAIN imagesThread
        BY <2>2, <2>4, <3>2
      <4> QED BY <1>7, <2>4, <2>6, <3>2, <4>1, Images_Of DEF ImgInv
    <3>3. f # None
      BY <2>5, Loaded_Bounds
    <3>4. Loaded!Unwanted'
      <4> SUFFICES ASSUME NEW n \in DOMAIN imagesThread', imagesThread'[n].at = "fetches",
                          ~imagesThread'[n].cancel
                   PROVE  /\ flights'[imagesThread'[n].image] # None
                          /\ flights'[imagesThread'[n].image].by = n
        BY DEF Loaded!Unwanted
      <4>1. CASE n = N
        BY <2>2, <2>4, <2>5, <2>6, <3>3, <4>1
      <4>2. CASE n \in DOMAIN imagesThread
        <5>1. /\ flights[imagesThread[n].image] # None
              /\ flights[imagesThread[n].image].by = n /\ imagesThread[n].image \in LoadedImages
          BY <2>4, <4>2, Images_Of DEF ImgInv, ImgFlights, Loaded!Unwanted
        <5> QED BY <1>9, <2>4, <2>6, <4>2, <5>1
      <4> QED BY <2>4, <4>1, <4>2
    <3> QED BY <1>1, <3>1, <3>2, <3>4 DEF ImgFlights
  <2>9. /\ \A m \in LoadedLoads, j \in LoadedImages :
             Flying(m, j)' => Flying(m, j) \/ (m = l /\ j = i)
        /\ \A m \in LoadedLoads, n \in DOMAIN imagesThread' :
             Landed(m, n)' => n \in DOMAIN imagesThread /\ Landed(m, n)
    BY <2>2, <2>4, <2>5, <2>6 DEF Flying, Landed
  <2>10. ImgWaits'
    <3>1. ASSUME NEW m \in LoadedLoads, NEW j \in LoadedImages, Flying(m, j)'
          PROVE  /\ \A o \in LoadedImages : Flying(m, o)' => o = j
                 /\ \A n \in DOMAIN imagesThread' : ~Landed(m, n)'
      <4>1. CASE m = l
        BY <1>6, <2>9, <3>1, <4>1
      <4>2. CASE m # l
        <5>1. Flying(m, j)
          BY <2>9, <3>1, <4>2
        <5> QED BY <2>9, <4>2, <5>1 DEF ImgInv, ImgWaits
      <4> QED BY <4>1, <4>2
    <3>2. ASSUME NEW m \in LoadedLoads, NEW n \in DOMAIN imagesThread',
                 NEW o \in DOMAIN imagesThread', Landed(m, n)', Landed(m, o)'
          PROVE  n = o
      <4>1. /\ n \in DOMAIN imagesThread /\ o \in DOMAIN imagesThread
            /\ Landed(m, n) /\ Landed(m, o)
        BY <2>9, <3>2
      <4> QED BY <4>1 DEF ImgInv, ImgWaits
    <3> QED BY <1>5, <3>1, <3>2 DEF ImgWaits
  <2>11. \A m \in LoadedLoads : Waits(m)' => Waits(m)
    <3> SUFFICES ASSUME NEW m \in LoadedLoads, m # l, Waits(m)' PROVE Waits(m)
      BY <1>6
    <3> QED BY <1>5, <2>9 DEF Waits
  <2> QED BY <1>1, <1>5, <1>9, <2>7, <2>8, <2>10, <2>11, Images_Stay DEF ImgInv
<1>10. CASE flights[i] = None /\ imagesAnswers' # imagesAnswers
  <2> DEFINE a == Loaded!Answer(l, TRUE)
  <2>1. imagesAnswers' = Append(imagesAnswers, a) /\ UNCHANGED <<flights, imagesThread>>
    BY <1>4, <1>10 DEF Loaded!Join
  <2>2. a \in [load : LoadedLoads, ends : BOOLEAN] /\ a.load = l
    BY DEF Loaded!Answer
  <2>3. imagesAnswers \in Seq([load : LoadedLoads, ends : BOOLEAN])
    BY DEF ImgInv, Loaded!TypeOK
  <2> HIDE DEF a
  <2>4. /\ imagesAnswers' \in Seq([load : LoadedLoads, ends : BOOLEAN])
        /\ Len(imagesAnswers) \in Nat
        /\ DOMAIN imagesAnswers' = 1..(Len(imagesAnswers) + 1)
        /\ \A n \in DOMAIN imagesAnswers : imagesAnswers'[n] = imagesAnswers[n]
        /\ imagesAnswers'[Len(imagesAnswers) + 1] = a
    BY <2>1, <2>2, <2>3, Appended_Is
  <2>5. Loaded!TypeOK'
    BY <1>1, <2>1, <2>4 DEF ImgInv, Loaded!TypeOK
  <2>6. ImgFlights' /\ ImgWaits' /\ \A m \in LoadedLoads : Waits(m)' => Waits(m)
    BY <1>1, <2>1, Images_FlightsStay
  <2>7. ~Waits(l)'
    BY <1>5, <1>6, <2>1 DEF Waits, Flying, Landed
  <2>8. \A n \in (Len(imagesAnswers) + 1)..(Len(imagesAnswers) + 1) : n = Len(imagesAnswers) + 1
    BY <2>4
  <2>9. ImgAnswered' /\ ImgQueued' /\ Loaded!AnsweredOnce' /\ Loaded!Silent
    <3> DEFINE S == {l}
    <3>1. S \in SUBSET LoadedLoads /\ 1 \in Nat /\ \A m \in S : Waits(m)
      BY <1>6
    <3>2. \A n \in (Len(imagesAnswers) + 1)..(Len(imagesAnswers) + 1) :
             imagesAnswers'[n].load = l
      BY <2>2, <2>4, <2>8
    <3>3. \A m \in LoadedLoads : Waits(m)' => m # l
      BY <2>7
    <3> QED BY <1>1, <1>5, <2>4, <2>6, <3>1, <3>2, <3>3, Images_Adds
  <2> QED BY <2>5, <2>6, <2>9 DEF ImgInv
<1> QED BY <1>8, <1>9, <1>10

\* Remote::cancel: the load waits nowhere any more, and the fetch it alone waited for is
\* cancelled and forgotten.
LEMMA Images_Cancel ==
    ASSUME ImgInv, NEW l \in LoadedLoads, Loaded!Cancel(l)
    PROVE  ImgInv' /\ Loaded!Silent
<1> DEFINE On(i) == IF flights[i] = None THEN FALSE ELSE l \in flights[i].waiting
           Left(i) == flights[i].waiting \ {l}
           Stopped(n) == \E i \in LoadedImages : On(i) /\ Left(i) = {} /\ flights[i].by = n
<1>1. /\ imagesCall = None /\ load[l] # None /\ ~load[l].cancelled
      /\ \A n \in DOMAIN imagesThread : ~Landed(l, n)
      /\ load' = [load EXCEPT ![l].cancelled = TRUE]
      /\ imagesCall' = [does |-> "cancels", load |-> l]
      /\ UNCHANGED <<memory, imagesAnswers, imagesGiven, clears>>
  BY DEF Loaded!Cancel, Landed
<1>2. /\ flights' = [i \in LoadedImages |->
                       IF ~On(i) THEN flights[i] ELSE IF Left(i) = {} THEN None
                       ELSE [flights[i] EXCEPT !.waiting = Left(i)]]
      /\ imagesThread' = [n \in DOMAIN imagesThread |->
                            IF Stopped(n) THEN [imagesThread[n] EXCEPT !.cancel = TRUE]
                            ELSE imagesThread[n]]
  BY DEF Loaded!Cancel
<1>3. /\ load' \in [LoadedLoads -> Loaded!LoadsAt \cup {None}]
      /\ load'[l] \in Loaded!LoadsAt /\ load'[l].cancelled
      /\ \A m \in LoadedLoads \ {l} : load'[m] = load[m]
  <2>1. load[l] \in Loaded!LoadsAt /\ load \in [LoadedLoads -> Loaded!LoadsAt \cup {None}]
    BY <1>1, Images_Of DEF ImgInv, Loaded!TypeOK
  <2>2. [load[l] EXCEPT !.cancelled = TRUE] \in Loaded!LoadsAt
        /\ [load[l] EXCEPT !.cancelled = TRUE].cancelled
    BY <2>1 DEF Loaded!LoadsAt
  <2> QED BY <1>1, <2>1, <2>2
<1>4. /\ imagesCall' \in Loaded!Calls /\ imagesCall' # None
      /\ imagesCall'.load = l /\ imagesCall'.does = "cancels"
  <2>1. imagesCall' \in Loaded!Calls
    BY <1>1 DEF Loaded!Calls
  <2> QED BY <1>1, <2>1, Loaded_Bounds
<1>5. \A i \in LoadedImages :
        /\ flights'[i] \in Loaded!Flights \cup {None}
        /\ flights'[i] # None =>
             /\ flights[i] # None /\ flights'[i].by = flights[i].by
             /\ flights'[i].waiting = flights[i].waiting \ {l} /\ flights'[i].waiting # {}
             /\ ~(On(i) /\ Left(i) = {})
        /\ flights[i] # None /\ ~(On(i) /\ Left(i) = {}) => flights'[i] # None
  <2> SUFFICES ASSUME NEW i \in LoadedImages
               PROVE  /\ flights'[i] \in Loaded!Flights \cup {None}
                      /\ flights'[i] # None =>
                           /\ flights[i] # None /\ flights'[i].by = flights[i].by
                           /\ flights'[i].waiting = flights[i].waiting \ {l}
                           /\ flights'[i].waiting # {} /\ ~(On(i) /\ Left(i) = {})
                      /\ flights[i] # None /\ ~(On(i) /\ Left(i) = {}) => flights'[i] # None
    OBVIOUS
  <2>1. CASE flights[i] = None
    BY <1>2, <2>1
  <2>2. CASE flights[i] # None /\ ~On(i)
    <3>1. flights'[i] = flights[i]
      BY <1>2, <2>2
    <3>2. flights[i] \in Loaded!Flights /\ flights[i].waiting # {}
      BY <2>2, Images_Of DEF ImgInv
    <3>3. flights[i].waiting \ {l} = flights[i].waiting
      BY <2>2
    <3> QED BY <2>2, <3>1, <3>2, <3>3
  <2>3. CASE flights[i] # None /\ On(i) /\ Left(i) = {}
    BY <1>2, <2>3
  <2>4. CASE flights[i] # None /\ On(i) /\ Left(i) # {}
    <3>1. flights'[i] = [flights[i] EXCEPT !.waiting = Left(i)]
      BY <1>2, <2>4
    <3>2. flights[i] \in Loaded!Flights
      BY <2>4, Images_Of DEF ImgInv
    <3>3. /\ flights'[i] \in Loaded!Flights /\ flights'[i].by = flights[i].by
          /\ flights'[i].waiting = Left(i)
      BY <3>1, <3>2 DEF Loaded!Flights
    <3> QED BY <2>4, <3>3, Loaded_Bounds
  <2> QED BY <2>1, <2>2, <2>3, <2>4
<1>6. /\ imagesThread' \in Seq(Loaded!Threads) /\ DOMAIN imagesThread' = DOMAIN imagesThread
      /\ \A n \in DOMAIN imagesThread :
           /\ imagesThread'[n].image = imagesThread[n].image
           /\ imagesThread'[n].at = imagesThread[n].at
           /\ imagesThread'[n].waiting = imagesThread[n].waiting
           /\ Stopped(n) => imagesThread'[n].cancel
           /\ ~Stopped(n) => imagesThread'[n] = imagesThread[n]
  <2> HIDE DEF Stopped
  <2>0. DOMAIN imagesThread' = DOMAIN imagesThread
    BY <1>2
  <2>1. ASSUME NEW n \in DOMAIN imagesThread
        PROVE  /\ imagesThread'[n] \in Loaded!Threads
               /\ imagesThread'[n].image = imagesThread[n].image
               /\ imagesThread'[n].at = imagesThread[n].at
               /\ imagesThread'[n].waiting = imagesThread[n].waiting
               /\ Stopped(n) => imagesThread'[n].cancel
               /\ ~Stopped(n) => imagesThread'[n] = imagesThread[n]
    <3>1. imagesThread[n] \in Loaded!Threads
      BY Images_Of DEF ImgInv
    <3>2. CASE Stopped(n)
      <4>1. imagesThread'[n] = [imagesThread[n] EXCEPT !.cancel = TRUE]
        BY <1>2, <3>2
      <4> QED BY <3>1, <3>2, <4>1 DEF Loaded!Threads
    <3>3. CASE ~Stopped(n)
      <4>1. imagesThread'[n] = imagesThread[n]
        BY <1>2, <3>3
      <4> QED BY <3>1, <3>3, <4>1
    <3> QED BY <3>2, <3>3
  <2>2. /\ DOMAIN imagesThread = 1..Len(imagesThread) /\ Len(imagesThread) \in Nat
        /\ imagesThread' = [n \in 1..Len(imagesThread) |-> imagesThread'[n]]
    BY <1>2, Images_Of DEF ImgInv
  <2>3. imagesThread' \in Seq(Loaded!Threads)
    BY <2>1, <2>2, IsASeq
  <2> QED BY <2>0, <2>1, <2>3
<1>7. \A i \in LoadedImages : flights[i] # None => imagesThread[flights[i].by].image = i
                                                   /\ flights[i].by \in DOMAIN imagesThread
  BY Images_Of DEF ImgInv, ImgFlights
<1> HIDE DEF On, Left
<1>8. Loaded!TypeOK'
  <2>1. flights' \in [LoadedImages -> Loaded!Flights \cup {None}]
    BY <1>2, <1>5
  <2>2. \A i \in LoadedImages : flights'[i] # None =>
          flights'[i].waiting # {} /\ flights'[i].by \in DOMAIN imagesThread'
    BY <1>5, <1>6, <1>7
  <2> QED BY <1>1, <1>3, <1>4, <1>6, <2>1, <2>2 DEF ImgInv, Loaded!TypeOK
<1>9. ImgFlights'
  <2>1. ASSUME NEW i \in LoadedImages, flights'[i] # None
        PROVE  /\ imagesThread'[flights'[i].by].image = i
               /\ imagesThread'[flights'[i].by].at = "fetches"
               /\ ~imagesThread'[flights'[i].by].cancel
    <3>1. ~Stopped(flights[i].by)
      <4> SUFFICES ASSUME NEW j \in LoadedImages, On(j), Left(j) = {},
                          flights[j].by = flights[i].by
                   PROVE  FALSE
        OBVIOUS
      <4>1. flights[j] # None
        BY DEF On
      <4>2. flights[i] # None /\ ~(On(i) /\ Left(i) = {})
        BY <1>5, <2>1
      <4>3. j = i
        BY <1>7, <4>1, <4>2
      <4> QED BY <4>2, <4>3
    <3> HIDE DEF Stopped
    <3> QED BY <1>5, <1>6, <1>7, <2>1, <3>1 DEF ImgInv, ImgFlights
  <2>2. ASSUME NEW n \in DOMAIN imagesThread', imagesThread'[n].cancel,
               imagesThread'[n].at # "ended"
        PROVE  flights'[imagesThread'[n].image] = None
    <3>1. imagesThread[n].image \in LoadedImages
      BY <1>6, Images_Of DEF ImgInv
    <3>2. CASE Stopped(n)
      <4>1. PICK i \in LoadedImages : On(i) /\ Left(i) = {} /\ flights[i].by = n
        BY <3>2
      <4>2. flights[i] # None
        BY <4>1 DEF On
      <4> QED BY <1>5, <1>6, <1>7, <2>2, <4>1, <4>2
    <3>3. CASE ~Stopped(n)
      <4> HIDE DEF Stopped
      <4>1. imagesThread[n].cancel /\ imagesThread[n].at # "ended"
        BY <1>6, <2>2, <3>3
      <4> QED BY <1>5, <1>6, <2>2, <3>1, <4>1 DEF ImgInv, ImgFlights
    <3> QED BY <3>2, <3>3
  <2>3. Loaded!Unwanted'
    <3> SUFFICES ASSUME NEW n \in DOMAIN imagesThread', imagesThread'[n].at = "fetches",
                        ~imagesThread'[n].cancel
                 PROVE  /\ flights'[imagesThread'[n].image] # None
                        /\ flights'[imagesThread'[n].image].by = n
      BY DEF Loaded!Unwanted
    <3>1. /\ ~Stopped(n) /\ imagesThread[n].image \in LoadedImages
          /\ n \in DOMAIN imagesThread
      BY <1>6, Images_Of DEF ImgInv
    <3>2. /\ flights[imagesThread[n].image] # None /\ flights[imagesThread[n].image].by = n
      <4> HIDE DEF Stopped
      <4> QED BY <1>6, <3>1 DEF ImgInv, ImgFlights, Loaded!Unwanted
    <3>3. ~(On(imagesThread[n].image) /\ Left(imagesThread[n].image) = {})
      BY <3>1, <3>2
    <3> HIDE DEF Stopped
    <3> QED BY <1>5, <1>6, <3>1, <3>2, <3>3
  <2> QED BY <1>4, <2>1, <2>2, <2>3 DEF ImgFlights
<1>10. /\ \A m \in LoadedLoads : ~Joining(m)' /\ ~Dropping(m)
       /\ \A m \in LoadedLoads : Dropping(m)' <=> m = l
  BY <1>1, <1>4 DEF Joining, Dropping
<1>11. /\ \A m \in LoadedLoads, i \in LoadedImages : Flying(m, i)' => Flying(m, i) /\ m # l
       /\ \A m \in LoadedLoads, n \in DOMAIN imagesThread' :
            Landed(m, n)' => n \in DOMAIN imagesThread /\ Landed(m, n)
  BY <1>5, <1>6 DEF Flying, Landed
<1>12. ImgWaits' /\ \A m \in LoadedLoads : Waits(m)' => Waits(m)
  BY <1>10, <1>11, Images_Waits DEF ImgInv
<1>13. ~Waits(l)'
  BY <1>1, <1>10, <1>11 DEF Waits
<1>14. ImgAnswered'
  <2> SUFFICES ASSUME NEW m \in LoadedLoads
               PROVE  /\ Waits(m)' => load'[m] # None /\ ~load'[m].cancelled /\ ~Over(m)'
                      /\ load'[m] = None => imagesGiven'[m] = <<>>
    BY DEF ImgAnswered
  <2>1. CASE m = l
    BY <1>3, <1>13, <2>1, Loaded_Bounds
  <2>2. CASE m # l
    BY <1>1, <1>3, <1>12, <2>2 DEF ImgInv, ImgAnswered, Over
  <2> QED BY <2>1, <2>2
<1>15. ImgQueued'
  <2> SUFFICES ASSUME NEW m \in LoadedLoads, NEW n \in DOMAIN imagesAnswers,
                      imagesAnswers[n].load = m
               PROVE  /\ load'[m] # None /\ (load'[m].cancelled => Dropping(m)')
                      /\ \A o \in DOMAIN imagesGiven[m] : ~imagesGiven[m][o]
                      /\ \A o \in 1..(n - 1) : imagesAnswers[o].load = m => ~imagesAnswers[o].ends
    BY <1>1 DEF ImgQueued
  <2>1. /\ load[m] # None /\ (load[m].cancelled => Dropping(m))
        /\ \A o \in DOMAIN imagesGiven[m] : ~imagesGiven[m][o]
        /\ \A o \in 1..(n - 1) : imagesAnswers[o].load = m => ~imagesAnswers[o].ends
    BY DEF ImgInv, ImgQueued
  <2> QED BY <1>3, <1>10, <2>1, Loaded_Bounds
<1>16. Loaded!AnsweredOnce' /\ Loaded!Silent
  BY <1>1 DEF ImgInv, Loaded!AnsweredOnce, Loaded!Silent
<1> QED BY <1>8, <1>9, <1>12, <1>14, <1>15, <1>16 DEF ImgInv

\* Loader::cancel: what is queued of other loads stays, in its order.
LEMMA Images_Drop ==
    ASSUME ImgInv, Loaded!Drop
    PROVE  ImgInv' /\ Loaded!Silent
<1>1. PICK l \in LoadedLoads : l = imagesCall.load
  BY Images_Of DEF Loaded!Drop, ImgInv
<1> DEFINE K == {n \in DOMAIN imagesAnswers : imagesAnswers[n].load # l}
<1>2. /\ imagesCall # None /\ imagesCall.does = "cancels" /\ imagesCall' = None
      /\ imagesAnswers' = AtThose(imagesAnswers, K)
      /\ UNCHANGED <<load, flights, imagesThread, memory, imagesGiven, clears>>
  BY <1>1, Loaded_Sizes DEF Loaded!Drop
<1>3. imagesAnswers \in Seq([load : LoadedLoads, ends : BOOLEAN])
  BY DEF ImgInv, Loaded!TypeOK
<1>4. /\ imagesAnswers' \in Seq([load : LoadedLoads, ends : BOOLEAN])
      /\ \A k \in DOMAIN imagesAnswers' : Kth(K, k) \in K /\ imagesAnswers'[k] = imagesAnswers[Kth(K, k)]
      /\ \A j, k \in DOMAIN imagesAnswers' : j < k => Kth(K, j) < Kth(K, k)
  <2>1. K \in SUBSET DOMAIN imagesAnswers
    OBVIOUS
  <2> HIDE DEF K
  <2> QED BY <1>2, <1>3, <2>1, AtThose_Is
<1>5. Loaded!TypeOK'
  BY <1>2, <1>4 DEF ImgInv, Loaded!TypeOK
<1>6. ImgFlights' /\ ImgWaits' /\ \A m \in LoadedLoads : Waits(m)' => Waits(m)
  BY <1>2, Images_FlightsStay
<1>7. \A m \in LoadedLoads : Over(m)' => Over(m)
  <2> SUFFICES ASSUME NEW m \in LoadedLoads, Over(m)' PROVE Over(m)
    OBVIOUS
  <2>1. CASE \E n \in DOMAIN imagesGiven[m] : imagesGiven[m][n]
    BY <2>1 DEF Over
  <2>2. CASE \E n \in DOMAIN imagesAnswers' : imagesAnswers'[n].load = m /\ imagesAnswers'[n].ends
    <3>1. PICK n \in DOMAIN imagesAnswers' : imagesAnswers'[n].load = m /\ imagesAnswers'[n].ends
      BY <2>2
    <3>2. Kth(K, n) \in DOMAIN imagesAnswers /\ imagesAnswers'[n] = imagesAnswers[Kth(K, n)]
      BY <1>4
    <3> QED BY <3>1, <3>2 DEF Over
  <2> QED BY <1>2, <2>1, <2>2 DEF Over
<1>8. ImgAnswered'
  BY <1>2, <1>6, <1>7 DEF ImgInv, ImgAnswered
<1>9. ImgQueued'
  <2> SUFFICES ASSUME NEW m \in LoadedLoads, NEW n \in DOMAIN imagesAnswers',
                      imagesAnswers'[n].load = m
               PROVE  /\ load[m] # None /\ ~load[m].cancelled
                      /\ \A o \in DOMAIN imagesGiven[m] : ~imagesGiven[m][o]
                      /\ \A o \in 1..(n - 1) : imagesAnswers'[o].load = m => ~imagesAnswers'[o].ends
    BY <1>2 DEF ImgQueued
  <2>1. /\ Kth(K, n) \in DOMAIN imagesAnswers /\ imagesAnswers'[n] = imagesAnswers[Kth(K, n)]
        /\ imagesAnswers[Kth(K, n)].load # l
    BY <1>4
  <2>2. /\ load[m] # None /\ (load[m].cancelled => Dropping(m))
        /\ \A o \in DOMAIN imagesGiven[m] : ~imagesGiven[m][o]
        /\ \A o \in 1..(Kth(K, n) - 1) : imagesAnswers[o].load = m => ~imagesAnswers[o].ends
    BY <2>1 DEF ImgInv, ImgQueued
  <2>3. ~Dropping(m)
    BY <1>1, <2>1 DEF Dropping
  <2>4. ASSUME NEW o \in 1..(n - 1), imagesAnswers'[o].load = m
        PROVE  ~imagesAnswers'[o].ends
    <3>1. o \in DOMAIN imagesAnswers' /\ o < n
      BY <1>4
    <3>2. /\ Kth(K, o) \in DOMAIN imagesAnswers /\ imagesAnswers'[o] = imagesAnswers[Kth(K, o)]
          /\ Kth(K, o) < Kth(K, n)
      BY <1>4, <3>1
    <3>3. Kth(K, o) \in 1..(Kth(K, n) - 1)
      BY <1>3, <2>1, <3>2
    <3> QED BY <2>2, <2>4, <3>2, <3>3
  <2> QED BY <2>2, <2>3, <2>4
<1>10. Loaded!AnsweredOnce' /\ Loaded!Silent
  BY <1>2 DEF ImgInv, Loaded!AnsweredOnce, Loaded!Silent
<1> QED BY <1>5, <1>6, <1>8, <1>9, <1>10 DEF ImgInv

\* Loader::answer: the first answer is given after what was given.
LEMMA Images_Take ==
    ASSUME ImgInv, Loaded!Take
    PROVE  ImgInv' /\ Loaded!Silent
<1>1. /\ imagesCall = None /\ imagesAnswers # <<>>
      /\ imagesGiven' = [imagesGiven EXCEPT ![Head(imagesAnswers).load] =
                           Append(@, Head(imagesAnswers).ends)]
      /\ imagesAnswers' = Tail(imagesAnswers)
      /\ UNCHANGED <<load, imagesCall, flights, imagesThread, memory, clears>>
  BY DEF Loaded!Take
<1>2. /\ imagesAnswers \in Seq([load : LoadedLoads, ends : BOOLEAN])
      /\ imagesGiven \in [LoadedLoads -> Seq(BOOLEAN)]
  BY DEF ImgInv, Loaded!TypeOK
<1>3. /\ Head(imagesAnswers) = imagesAnswers[1] /\ 1 \in DOMAIN imagesAnswers
      /\ Len(imagesAnswers) \in Nat /\ DOMAIN imagesAnswers = 1..Len(imagesAnswers)
  BY <1>1, <1>2
<1>4. PICK l \in LoadedLoads, ends \in BOOLEAN :
        l = imagesAnswers[1].load /\ ends = imagesAnswers[1].ends
  BY <1>3, Images_Of DEF ImgInv
<1>5. /\ imagesAnswers' \in Seq([load : LoadedLoads, ends : BOOLEAN])
      /\ DOMAIN imagesAnswers' = 1..(Len(imagesAnswers) - 1)
      /\ \A n \in DOMAIN imagesAnswers' :
           n + 1 \in DOMAIN imagesAnswers /\ imagesAnswers'[n] = imagesAnswers[n + 1]
  BY <1>1, <1>2, <1>3, HeadTailProperties
<1>6. /\ imagesGiven' = [imagesGiven EXCEPT ![l] = Append(imagesGiven[l], ends)]
      /\ imagesGiven[l] \in Seq(BOOLEAN)
  BY <1>1, <1>2, <1>3, <1>4
<1> DEFINE longer == Append(imagesGiven[l], ends)
<1>7. /\ longer \in Seq(BOOLEAN) /\ Len(imagesGiven[l]) \in Nat
      /\ Len(longer) = Len(imagesGiven[l]) + 1
      /\ DOMAIN imagesGiven[l] = 1..Len(imagesGiven[l])
      /\ DOMAIN longer = 1..(Len(imagesGiven[l]) + 1)
      /\ \A n \in DOMAIN imagesGiven[l] : longer[n] = imagesGiven[l][n]
      /\ longer[Len(imagesGiven[l]) + 1] = ends
  BY <1>4, <1>6, Appended_Is, AppendProperties
<1> HIDE DEF longer
<1>8. /\ imagesGiven' \in [LoadedLoads -> Seq(BOOLEAN)] /\ imagesGiven'[l] = longer
      /\ \A m \in LoadedLoads \ {l} : imagesGiven'[m] = imagesGiven[m]
  BY <1>2, <1>6, <1>7 DEF longer
<1>9. Loaded!TypeOK'
  BY <1>1, <1>5, <1>8 DEF ImgInv, Loaded!TypeOK
<1>10. ImgFlights' /\ ImgWaits' /\ \A m \in LoadedLoads : Waits(m)' => Waits(m)
  BY <1>1, Images_FlightsStay
<1>11. /\ load[l] # None /\ ~load[l].cancelled
       /\ \A n \in DOMAIN imagesGiven[l] : ~imagesGiven[l][n]
  BY <1>1, <1>3, <1>4 DEF ImgInv, ImgQueued, Dropping
<1>12. \A m \in LoadedLoads : Over(m)' => Over(m)
  <2> SUFFICES ASSUME NEW m \in LoadedLoads, Over(m)' PROVE Over(m)
    OBVIOUS
  <2>1. CASE \E n \in DOMAIN imagesGiven'[m] : imagesGiven'[m][n]
    <3>1. CASE m # l
      BY <1>8, <2>1, <3>1 DEF Over
    <3>2. CASE m = l
      <4>1. PICK n \in DOMAIN longer : longer[n]
        BY <1>8, <2>1, <3>2
      <4>2. n \notin DOMAIN imagesGiven[l]
        BY <1>7, <1>11, <4>1
      <4>3. n = Len(imagesGiven[l]) + 1
        BY <1>7, <4>1, <4>2
      <4>4. imagesAnswers[1].ends
        BY <1>4, <1>7, <4>1, <4>3
      <4> QED BY <1>3, <1>4, <3>2, <4>4 DEF Over
    <3> QED BY <3>1, <3>2
  <2>2. CASE \E n \in DOMAIN imagesAnswers' : imagesAnswers'[n].load = m /\ imagesAnswers'[n].ends
    BY <1>5, <2>2 DEF Over
  <2> QED BY <2>1, <2>2 DEF Over
<1>13. ImgAnswered'
  <2> SUFFICES ASSUME NEW m \in LoadedLoads
               PROVE  /\ Waits(m)' => load'[m] # None /\ ~load'[m].cancelled /\ ~Over(m)'
                      /\ load'[m] = None => imagesGiven'[m] = <<>>
    BY DEF ImgAnswered
  <2>1. Waits(m)' => load[m] # None /\ ~load[m].cancelled /\ ~Over(m)'
    BY <1>10, <1>12 DEF ImgInv, ImgAnswered
  <2>2. load[m] = None => imagesGiven'[m] = <<>>
    BY <1>8, <1>11 DEF ImgInv, ImgAnswered
  <2> QED BY <1>1, <2>1, <2>2
<1>14. ImgQueued'
  <2> SUFFICES ASSUME NEW m \in LoadedLoads, NEW n \in DOMAIN imagesAnswers',
                      imagesAnswers'[n].load = m
               PROVE  /\ load[m] # None /\ ~load[m].cancelled
                      /\ \A o \in DOMAIN imagesGiven'[m] : ~imagesGiven'[m][o]
                      /\ \A o \in 1..(n - 1) : imagesAnswers'[o].load = m => ~imagesAnswers'[o].ends
    BY <1>1 DEF ImgQueued
  <2>1. n + 1 \in DOMAIN imagesAnswers /\ imagesAnswers[n + 1].load = m
    BY <1>5
  <2>2. /\ load[m] # None /\ ~load[m].cancelled
        /\ \A o \in DOMAIN imagesGiven[m] : ~imagesGiven[m][o]
        /\ \A o \in 1..((n + 1) - 1) : imagesAnswers[o].load = m => ~imagesAnswers[o].ends
    BY <1>1, <2>1 DEF ImgInv, ImgQueued, Dropping
  <2>3. \A o \in 1..(n - 1) : imagesAnswers'[o].load = m => ~imagesAnswers'[o].ends
    <3> SUFFICES ASSUME NEW o \in 1..(n - 1), imagesAnswers'[o].load = m
                 PROVE  ~imagesAnswers'[o].ends
      OBVIOUS
    <3>1. o \in DOMAIN imagesAnswers' /\ o + 1 \in 1..((n + 1) - 1)
      BY <1>3, <1>5
    <3> QED BY <1>5, <2>2, <3>1
  <2>4. \A o \in DOMAIN imagesGiven'[m] : ~imagesGiven'[m][o]
    <3>1. CASE m # l
      BY <1>8, <2>2, <3>1
    <3>2. CASE m = l
      <4>1. ~ends
        <5>1. 1 \in 1..((n + 1) - 1)
          BY <1>3, <1>5
        <5> QED BY <1>4, <2>2, <3>2, <5>1
      <4>2. \A o \in DOMAIN longer : o \in DOMAIN imagesGiven[l] \/ o = Len(imagesGiven[l]) + 1
        BY <1>7
      <4> QED BY <1>7, <1>8, <1>11, <3>2, <4>1, <4>2
    <3> QED BY <3>1, <3>2
  <2> QED BY <2>2, <2>3, <2>4
<1>15. Loaded!AnsweredOnce'
  <2>1. ASSUME NEW n \in DOMAIN longer, longer[n]
        PROVE  n = Len(longer)
    <3>1. n \notin DOMAIN imagesGiven[l]
      BY <1>7, <1>11, <2>1
    <3> QED BY <1>7, <2>1, <3>1
  <2> QED BY <1>8, <2>1 DEF ImgInv, Loaded!AnsweredOnce
<1>16. Loaded!Silent
  BY <1>8, <1>11 DEF Loaded!Silent
<1> QED BY <1>9, <1>10, <1>13, <1>14, <1>15, <1>16 DEF ImgInv

\* Loader::clear.
LEMMA Images_Clear ==
    ASSUME ImgInv, Loaded!Clear
    PROVE  ImgInv' /\ Loaded!Silent
<1>1. /\ UNCHANGED <<load, imagesCall, flights, imagesThread, imagesAnswers, imagesGiven>>
      /\ clears' = clears + 1
  BY DEF Loaded!Clear
<1>2. PICK kept \in {{}, memory.kept} : memory' = [kept |-> kept, fresh |-> {}]
  BY DEF Loaded!Clear
<1>3. memory'.fresh = {} /\ memory'.kept = kept
  BY <1>2
<1>4. Loaded!TypeOK'
  BY <1>1, <1>3 DEF ImgInv, Loaded!TypeOK
<1>5. ImgFlights' /\ ImgWaits' /\ \A l \in LoadedLoads : Waits(l)' => Waits(l)
  BY <1>1, Images_FlightsStay
<1>6. \A l \in LoadedLoads : Dropping(l) => Dropping(l)'
  BY <1>1 DEF Dropping
<1> QED BY <1>1, <1>4, <1>5, <1>6, Images_Stay DEF ImgInv

\* A fetch's thread that goes on with its image, cancelled or not, and leaves the fetches on
\* their way: it does not start to fetch, and stops only if it was not to go on.
LEMMA Images_Turns ==
    ASSUME ImgInv, NEW n \in DOMAIN imagesThread, NEW r \in Loaded!Threads,
           imagesThread' = [imagesThread EXCEPT ![n] = r],
           r.image = imagesThread[n].image, r.cancel = imagesThread[n].cancel,
           r.waiting \subseteq imagesThread[n].waiting,
           r.at = "fetches" <=> imagesThread[n].at = "fetches",
           imagesThread[n].at = "ended" => r.at = "ended",
           UNCHANGED <<imagesCall, flights>>
    PROVE  /\ imagesThread' \in Seq(Loaded!Threads) /\ DOMAIN imagesThread' = DOMAIN imagesThread
           /\ ImgFlights' /\ ImgWaits'
           /\ \A l \in LoadedLoads : Waits(l)' => Waits(l)
           /\ \A l \in LoadedLoads : Dropping(l) => Dropping(l)'
<1>1. /\ imagesThread' \in Seq(Loaded!Threads) /\ DOMAIN imagesThread' = DOMAIN imagesThread
      /\ imagesThread'[n] = r
      /\ \A m \in DOMAIN imagesThread \ {n} : imagesThread'[m] = imagesThread[m]
  BY Images_Becomes DEF ImgInv
<1>2. \A m \in DOMAIN imagesThread :
        /\ imagesThread'[m].image = imagesThread[m].image
        /\ imagesThread'[m].cancel = imagesThread[m].cancel
        /\ imagesThread'[m].at = "fetches" <=> imagesThread[m].at = "fetches"
        /\ imagesThread[m].at = "ended" => imagesThread'[m].at = "ended"
        /\ imagesThread'[m].waiting \subseteq imagesThread[m].waiting
  BY <1>1
<1>3. \A i \in LoadedImages : flights[i] # None => flights[i].by \in DOMAIN imagesThread
  BY Images_Of DEF ImgInv
<1>4. ImgFlights'
  <2>1. Loaded!Unwanted'
    BY <1>1, <1>2 DEF ImgInv, ImgFlights, Loaded!Unwanted
  <2>2. \A i \in LoadedImages : flights[i] # None =>
          /\ imagesThread'[flights[i].by].image = i
          /\ imagesThread'[flights[i].by].at = "fetches" /\ ~imagesThread'[flights[i].by].cancel
    BY <1>2, <1>3 DEF ImgInv, ImgFlights
  <2>3. ASSUME NEW m \in DOMAIN imagesThread, imagesThread'[m].cancel,
               imagesThread'[m].at # "ended"
        PROVE  /\ flights[imagesThread'[m].image] = None
               /\ imagesCall # None =>
                    (imagesCall.does = "joins" => imagesCall.image # imagesThread'[m].image)
    <3>1. imagesThread[m].cancel /\ imagesThread[m].at # "ended"
      BY <1>2, <2>3
    <3> QED BY <1>2, <3>1 DEF ImgInv, ImgFlights
  <2> QED BY <1>1, <2>1, <2>2, <2>3 DEF ImgFlights
<1>5. /\ \A l \in LoadedLoads : Joining(l)' => Joining(l)
      /\ \A l \in LoadedLoads, i \in LoadedImages : Flying(l, i)' => Flying(l, i)
      /\ \A l \in LoadedLoads, m \in DOMAIN imagesThread' :
           Landed(l, m)' => m \in DOMAIN imagesThread /\ Landed(l, m)
  BY <1>1, <1>2 DEF Joining, Flying, Landed
<1>6. \A l \in LoadedLoads : Dropping(l) => Dropping(l)'
  BY DEF Dropping
<1> QED BY <1>1, <1>4, <1>5, <1>6, Images_Waits DEF ImgInv

\* A part of a body arrives: each load that waits for the fetch is answered its progress.
LEMMA Images_Progress ==
    ASSUME ImgInv, NEW n \in DOMAIN imagesThread, Loaded!Progress(n)
    PROVE  ImgInv' /\ Loaded!Silent
<1> DEFINE r == [imagesThread[n] EXCEPT !.parts = @ + 1]
           S == Loaded!Waiting(n)
<1>1. /\ imagesThread[n].at = "fetches" /\ imagesThread' = [imagesThread EXCEPT ![n] = r]
      /\ UNCHANGED <<load, imagesCall, flights, memory, imagesGiven, clears>>
  BY DEF Loaded!Progress, Loaded!Becomes
<1>2. imagesThread[n] \in Loaded!Threads
  BY Images_Of DEF ImgInv
<1>3. /\ r \in Loaded!Threads /\ r.image = imagesThread[n].image /\ r.at = imagesThread[n].at
      /\ r.waiting = imagesThread[n].waiting /\ r.cancel = imagesThread[n].cancel
  BY <1>2 DEF Loaded!Threads
<1> HIDE DEF r
<1>4. /\ imagesThread' \in Seq(Loaded!Threads) /\ DOMAIN imagesThread' = DOMAIN imagesThread
      /\ ImgFlights' /\ ImgWaits'
      /\ \A l \in LoadedLoads : Waits(l)' => Waits(l)
      /\ \A l \in LoadedLoads : Dropping(l) => Dropping(l)'
  BY <1>1, <1>3, Images_Turns
<1>5. PICK turns \in Loaded!Injection(1..Loaded!Cardinality(S), S) :
        imagesAnswers' = imagesAnswers \o [k \in DOMAIN turns |-> Loaded!Answer(turns[k], FALSE)]
  BY DEF Loaded!Progress
<1>6. S \subseteq LoadedLoads /\ \A l \in S : Waits(l)
  <2>1. imagesThread[n].image \in LoadedImages
    BY Images_Of DEF ImgInv
  <2>2. \A l \in S : Flying(l, imagesThread[n].image)
    BY DEF Loaded!Waiting, Flying
  <2>3. S \subseteq LoadedLoads
    BY <2>1, Images_Of DEF ImgInv, Loaded!Waiting
  <2> QED BY <2>1, <2>2, <2>3 DEF Waits
<1> HIDE DEF S
<1>7. PICK k \in Nat : DOMAIN turns = 1..k /\ \A o \in 1..k : turns[o] \in S
  <2>1. IsFiniteSet(S)
    BY <1>6, Loaded_Bounds, FS_Subset
  <2>2. Cardinality(S) \in Nat
    BY <2>1, FS_CardinalityType
  <2>3. Loaded!Cardinality(S) \in Nat
    BY Zenon, <2>2, Loaded_Sizes
  <2>4. turns \in [1..Loaded!Cardinality(S) -> S]
    BY DEF Loaded!Injection
  <2> QED BY <2>3, <2>4
<1>8. PICK added : added = [o \in 1..k |-> Loaded!Answer(turns[o], FALSE)]
  OBVIOUS
<1>9. /\ added \in Seq([load : LoadedLoads, ends : BOOLEAN]) /\ Len(added) = k
      /\ \A o \in 1..k : added[o].load \in S /\ ~added[o].ends
  <2>1. \A o \in 1..k : Loaded!Answer(turns[o], FALSE) \in [load : LoadedLoads, ends : BOOLEAN]
    BY <1>6, <1>7 DEF Loaded!Answer
  <2>2. added \in Seq([load : LoadedLoads, ends : BOOLEAN])
    <3>1. /\ added = [o \in 1..k |-> added[o]]
          /\ \A o \in 1..k : added[o] = Loaded!Answer(turns[o], FALSE)
      BY <1>8
    <3>2. \A o \in 1..k : added[o] \in [load : LoadedLoads, ends : BOOLEAN]
      BY <2>1, <3>1
    <3> DEFINE A == [load : LoadedLoads, ends : BOOLEAN]
    <3>3. \A o \in 1..k : added[o] \in A
      BY <3>2
    <3> HIDE DEF A
    <3>4. [o \in 1..k |-> added[o]] \in Seq(A)
      BY <1>7, <3>3, IsASeq
    <3>5. added \in Seq(A)
      BY <3>1, <3>4
    <3> QED BY <3>5 DEF A
  <2>3. DOMAIN added = 1..k
    BY <1>8
  <2>4. Len(added) = k
    BY <1>7, <2>2, <2>3
  <2>5. \A o \in 1..k : added[o] = [load |-> turns[o], ends |-> FALSE]
    BY <1>8 DEF Loaded!Answer
  <2> QED BY <1>7, <2>2, <2>4, <2>5
<1>10. imagesAnswers' = imagesAnswers \o added
  BY <1>5, <1>7, <1>8
<1>11. /\ imagesAnswers \in Seq([load : LoadedLoads, ends : BOOLEAN])
       /\ Len(imagesAnswers) \in Nat /\ DOMAIN imagesAnswers = 1..Len(imagesAnswers)
  BY Images_Of DEF ImgInv, Loaded!TypeOK
<1>12. /\ imagesAnswers' \in Seq([load : LoadedLoads, ends : BOOLEAN])
       /\ DOMAIN imagesAnswers' = 1..(Len(imagesAnswers) + k)
       /\ \A m \in 1..(Len(imagesAnswers) + k) : imagesAnswers'[m] =
            IF m <= Len(imagesAnswers) THEN imagesAnswers[m] ELSE added[m - Len(imagesAnswers)]
  <2> DEFINE A == [load : LoadedLoads, ends : BOOLEAN]
  <2>1. imagesAnswers \in Seq(A) /\ added \in Seq(A)
    BY <1>9, <1>11
  <2> HIDE DEF A
  <2>2. /\ imagesAnswers' \in Seq(A) /\ Len(imagesAnswers') = Len(imagesAnswers) + k
        /\ \A m \in 1..(Len(imagesAnswers) + k) : imagesAnswers'[m] =
             IF m <= Len(imagesAnswers) THEN imagesAnswers[m] ELSE added[m - Len(imagesAnswers)]
    BY <1>9, <1>10, <2>1, ConcatProperties
  <2>3. DOMAIN imagesAnswers' = 1..(Len(imagesAnswers) + k)
    BY <2>2, LenProperties
  <2> QED BY <2>2, <2>3 DEF A
<1>13. \A m \in DOMAIN imagesAnswers : imagesAnswers'[m] = imagesAnswers[m]
  BY <1>11, <1>12
<1>14. \A m \in (Len(imagesAnswers) + 1)..(Len(imagesAnswers) + k) :
         imagesAnswers'[m].load \in S /\ ~imagesAnswers'[m].ends
  <2> SUFFICES ASSUME NEW m \in (Len(imagesAnswers) + 1)..(Len(imagesAnswers) + k)
               PROVE  imagesAnswers'[m].load \in S /\ ~imagesAnswers'[m].ends
    OBVIOUS
  <2>1. /\ m \in 1..(Len(imagesAnswers) + k) /\ ~(m <= Len(imagesAnswers))
        /\ m - Len(imagesAnswers) \in 1..k
    BY <1>11
  <2>2. imagesAnswers'[m] = added[m - Len(imagesAnswers)]
    BY <1>12, <2>1
  <2> QED BY <1>9, <2>1, <2>2
<1>15. ImgAnswered' /\ ImgQueued' /\ Loaded!AnsweredOnce' /\ Loaded!Silent
  BY <1>1, <1>4, <1>6, <1>12, <1>13, <1>14, Images_Adds
<1>16. Loaded!TypeOK'
  BY <1>1, <1>4, <1>12 DEF ImgInv, Loaded!TypeOK
<1> QED BY <1>4, <1>15, <1>16 DEF ImgInv

\* A cancelled fetch ends, and the others' images are kept: the loads that waited wait on.
LEMMA Images_Keep ==
    ASSUME ImgInv, NEW n \in DOMAIN imagesThread, Loaded!Keep(n)
    PROVE  ImgInv' /\ Loaded!Silent
<1>1. /\ imagesThread[n].at \in {"arrived", "failed"}
      /\ UNCHANGED <<load, imagesCall, flights, imagesAnswers, imagesGiven, clears>>
  BY DEF Loaded!Keep
<1>2. imagesThread[n] \in Loaded!Threads /\ imagesThread[n].image \in LoadedImages
  BY Images_Of DEF ImgInv
<1>3. PICK r \in Loaded!Threads :
        /\ imagesThread' = [imagesThread EXCEPT ![n] = r]
        /\ r.image = imagesThread[n].image /\ r.cancel = imagesThread[n].cancel
        /\ r.waiting \subseteq imagesThread[n].waiting /\ r.at \in {"ended", "answers"}
  <2>1. CASE imagesThread[n].cancel \/ imagesThread[n].waiting = {}
    <3> DEFINE r == [imagesThread[n] EXCEPT !.at = "ended", !.waiting = {}]
    <3>1. imagesThread' = [imagesThread EXCEPT ![n] = r]
      BY <2>1 DEF Loaded!Keep, Loaded!Becomes
    <3>2. /\ r \in Loaded!Threads /\ r.image = imagesThread[n].image
          /\ r.cancel = imagesThread[n].cancel /\ r.waiting = {} /\ r.at = "ended"
      BY <1>2 DEF Loaded!Threads
    <3> HIDE DEF r
    <3> QED BY <3>1, <3>2
  <2>2. CASE ~(imagesThread[n].cancel \/ imagesThread[n].waiting = {})
    <3> DEFINE r == [imagesThread[n] EXCEPT !.at = "answers"]
    <3>1. imagesThread' = [imagesThread EXCEPT ![n] = r]
      BY <2>2 DEF Loaded!Keep, Loaded!Becomes
    <3>2. /\ r \in Loaded!Threads /\ r.image = imagesThread[n].image
          /\ r.cancel = imagesThread[n].cancel /\ r.waiting = imagesThread[n].waiting
          /\ r.at = "answers"
      BY <1>2 DEF Loaded!Threads
    <3> HIDE DEF r
    <3> QED BY <3>1, <3>2
  <2> QED BY <2>1, <2>2
<1>4. /\ imagesThread' \in Seq(Loaded!Threads) /\ DOMAIN imagesThread' = DOMAIN imagesThread
      /\ ImgFlights' /\ ImgWaits'
      /\ \A l \in LoadedLoads : Waits(l)' => Waits(l)
      /\ \A l \in LoadedLoads : Dropping(l) => Dropping(l)'
  BY <1>1, <1>3, Images_Turns
<1>5. memory'.fresh \subseteq memory'.kept /\ memory'.kept \subseteq LoadedImages
  <2>0. memory.fresh \subseteq memory.kept /\ memory.kept \subseteq LoadedImages
    BY DEF ImgInv, Loaded!TypeOK
  <2>1. CASE memory' = memory
    BY <2>0, <2>1
  <2>2. CASE memory' # memory
    <3>1. PICK fresh \in SUBSET {imagesThread[n].image} :
            memory' = [kept |-> memory.kept \cup {imagesThread[n].image},
                       fresh |-> (memory.fresh \ {imagesThread[n].image}) \cup fresh]
      BY <2>2 DEF Loaded!Keep
    <3>2. /\ memory'.kept = memory.kept \cup {imagesThread[n].image}
          /\ memory'.fresh = (memory.fresh \ {imagesThread[n].image}) \cup fresh
      BY <3>1
    <3> QED BY <1>2, <2>0, <3>2
  <2> QED BY <2>1, <2>2
<1>6. Loaded!TypeOK'
  BY <1>1, <1>4, <1>5 DEF ImgInv, Loaded!TypeOK
<1> QED BY <1>1, <1>4, <1>6, Images_Stay DEF ImgInv

\* A load that waited is answered to its end, and waits no more.
LEMMA Images_Answers ==
    ASSUME ImgInv, NEW n \in DOMAIN imagesThread, Loaded!Answers(n)
    PROVE  ImgInv' /\ Loaded!Silent
<1>1. /\ imagesThread[n].at = "answers"
      /\ UNCHANGED <<load, imagesCall, flights, memory, imagesGiven, clears>>
  BY DEF Loaded!Answers
<1>2. PICK l \in imagesThread[n].waiting :
        /\ imagesAnswers' = Append(imagesAnswers, Loaded!Answer(l, TRUE))
        /\ imagesThread' = [imagesThread EXCEPT ![n] =
             [imagesThread[n] EXCEPT !.waiting = imagesThread[n].waiting \ {l},
                !.at = IF imagesThread[n].waiting \ {l} = {} THEN "ended" ELSE "answers"]]
  BY DEF Loaded!Answers, Loaded!Becomes
<1> DEFINE r == [imagesThread[n] EXCEPT !.waiting = imagesThread[n].waiting \ {l},
                    !.at = IF imagesThread[n].waiting \ {l} = {} THEN "ended" ELSE "answers"]
<1>3. imagesThread[n] \in Loaded!Threads /\ l \in LoadedLoads
  BY Images_Of DEF ImgInv
<1>4. /\ r \in Loaded!Threads /\ r.image = imagesThread[n].image
      /\ r.cancel = imagesThread[n].cancel /\ r.waiting = imagesThread[n].waiting \ {l}
      /\ r.at \in {"ended", "answers"}
  BY <1>3 DEF Loaded!Threads
<1>5. imagesThread' = [imagesThread EXCEPT ![n] = r]
  BY <1>2
<1> HIDE DEF r
<1>6. /\ imagesThread' \in Seq(Loaded!Threads) /\ DOMAIN imagesThread' = DOMAIN imagesThread
      /\ ImgFlights' /\ ImgWaits'
      /\ \A m \in LoadedLoads : Waits(m)' => Waits(m)
      /\ \A m \in LoadedLoads : Dropping(m) => Dropping(m)'
  BY <1>1, <1>4, <1>5, Images_Turns
<1>7. Landed(l, n) /\ Waits(l)
  BY <1>3 DEF Landed, Waits
<1>8. ~Waits(l)'
  <2>1. /\ imagesThread'[n] = r
        /\ \A m \in DOMAIN imagesThread \ {n} : imagesThread'[m] = imagesThread[m]
    BY <1>4, <1>5, Images_Becomes DEF ImgInv
  <2>2. ~Joining(l) /\ \A i \in LoadedImages : ~Flying(l, i)
    BY <1>3, <1>7 DEF ImgInv, ImgWaits
  <2>3. \A m \in DOMAIN imagesThread \ {n} : ~Landed(l, m)
    BY <1>3, <1>7 DEF ImgInv, ImgWaits
  <2>4. ~Joining(l)' /\ \A i \in LoadedImages : ~Flying(l, i)'
    BY <1>1, <2>2 DEF Joining, Flying
  <2>5. \A m \in DOMAIN imagesThread' : ~Landed(l, m)'
    BY <1>4, <1>6, <2>1, <2>3 DEF Landed
  <2> QED BY <2>4, <2>5 DEF Waits
<1> DEFINE a == Loaded!Answer(l, TRUE)
<1>9. a \in [load : LoadedLoads, ends : BOOLEAN] /\ a.load = l
  BY <1>3 DEF Loaded!Answer
<1>10. imagesAnswers \in Seq([load : LoadedLoads, ends : BOOLEAN])
  BY DEF ImgInv, Loaded!TypeOK
<1>11. imagesAnswers' = Append(imagesAnswers, a)
  BY <1>2
<1> HIDE DEF a
<1>12. /\ imagesAnswers' \in Seq([load : LoadedLoads, ends : BOOLEAN])
       /\ Len(imagesAnswers) \in Nat
       /\ DOMAIN imagesAnswers' = 1..(Len(imagesAnswers) + 1)
       /\ \A m \in DOMAIN imagesAnswers : imagesAnswers'[m] = imagesAnswers[m]
       /\ imagesAnswers'[Len(imagesAnswers) + 1] = a
  BY <1>9, <1>10, <1>11, Appended_Is
<1>13. Loaded!TypeOK'
  BY <1>1, <1>6, <1>12 DEF ImgInv, Loaded!TypeOK
<1>14. ImgAnswered' /\ ImgQueued' /\ Loaded!AnsweredOnce' /\ Loaded!Silent
  <2> DEFINE S == {l}
  <2>1. S \in SUBSET LoadedLoads /\ 1 \in Nat /\ \A m \in S : Waits(m)
    BY <1>3, <1>7
  <2>2. \A m \in (Len(imagesAnswers) + 1)..(Len(imagesAnswers) + 1) : m = Len(imagesAnswers) + 1
    BY <1>12
  <2>3. \A m \in (Len(imagesAnswers) + 1)..(Len(imagesAnswers) + 1) : imagesAnswers'[m].load = l
    BY <1>9, <1>12, <2>2
  <2>4. \A m \in LoadedLoads : Waits(m)' => m # l
    BY <1>8
  <2> QED BY <1>1, <1>6, <1>12, <2>1, <2>3, <2>4, Images_Adds
<1> QED BY <1>6, <1>13, <1>14 DEF ImgInv

\* A fetch ends: the loads that waited for it on its way wait for its answers.
LEMMA Images_Arrive ==
    ASSUME ImgInv, NEW n \in DOMAIN imagesThread, Loaded!Arrive(n)
    PROVE  ImgInv' /\ Loaded!Silent
<1>1. /\ imagesThread[n].at = "fetches"
      /\ UNCHANGED <<load, imagesCall, memory, imagesAnswers, imagesGiven, clears>>
  BY DEF Loaded!Arrive
<1>2. PICK i \in LoadedImages : i = imagesThread[n].image
  BY Images_Of DEF ImgInv
<1>3. flights' = [flights EXCEPT ![i] = None]
  BY <1>2 DEF Loaded!Arrive
<1>4. PICK S \in SUBSET LoadedLoads :
        S = Loaded!Waiting(n) /\ \A l \in S : Flying(l, i)
  <2>1. Loaded!Waiting(n) \subseteq LoadedLoads
    BY <1>2, Images_Of DEF ImgInv, Loaded!Waiting
  <2>2. \A l \in Loaded!Waiting(n) : Flying(l, i)
    BY <1>2 DEF Loaded!Waiting, Flying
  <2> QED BY <2>1, <2>2
<1>5. PICK place \in {"arrived", "failed"} :
        imagesThread' = [imagesThread EXCEPT ![n] =
                           [imagesThread[n] EXCEPT !.at = place, !.waiting = S]]
  BY <1>4 DEF Loaded!Arrive, Loaded!Becomes
<1> DEFINE r == [imagesThread[n] EXCEPT !.at = place, !.waiting = S]
<1>6. imagesThread[n] \in Loaded!Threads
  BY Images_Of DEF ImgInv
<1>7. /\ r \in Loaded!Threads /\ r.image = i /\ r.at # "fetches" /\ r.at # "ended"
      /\ r.waiting = S /\ r.cancel = imagesThread[n].cancel
  BY <1>2, <1>6 DEF Loaded!Threads
<1> HIDE DEF r
<1>8. /\ imagesThread' \in Seq(Loaded!Threads) /\ DOMAIN imagesThread' = DOMAIN imagesThread
      /\ imagesThread'[n] = r
      /\ \A m \in DOMAIN imagesThread \ {n} : imagesThread'[m] = imagesThread[m]
  BY <1>5, <1>7, Images_Becomes DEF ImgInv, r
<1>9. /\ flights' \in [LoadedImages -> Loaded!Flights \cup {None}] /\ flights'[i] = None
      /\ \A j \in LoadedImages \ {i} : flights'[j] = flights[j]
  BY <1>3 DEF ImgInv, Loaded!TypeOK
<1>10. Loaded!TypeOK'
  BY <1>1, <1>8, <1>9 DEF ImgInv, Loaded!TypeOK
<1>11. ImgFlights'
  <2>1. ASSUME NEW j \in LoadedImages, flights'[j] # None
        PROVE  /\ imagesThread'[flights'[j].by].image = j
               /\ imagesThread'[flights'[j].by].at = "fetches"
               /\ ~imagesThread'[flights'[j].by].cancel
    <3>1. j # i /\ flights'[j] = flights[j] /\ flights[j] # None
      BY <1>9, <2>1
    <3>2. /\ imagesThread[flights[j].by].image = j /\ flights[j].by \in DOMAIN imagesThread
          /\ imagesThread[flights[j].by].at = "fetches" /\ ~imagesThread[flights[j].by].cancel
      BY <3>1, Images_Of DEF ImgInv, ImgFlights
    <3>3. flights[j].by # n
      BY <1>2, <3>1, <3>2
    <3> QED BY <1>8, <3>1, <3>2, <3>3
  <2>2. ASSUME NEW m \in DOMAIN imagesThread', imagesThread'[m].cancel,
               imagesThread'[m].at # "ended"
        PROVE  /\ flights'[imagesThread'[m].image] = None
               /\ imagesCall # None =>
                    (imagesCall.does = "joins" => imagesCall.image # imagesThread'[m].image)
    <3>1. /\ imagesThread[m].cancel /\ imagesThread[m].at # "ended"
          /\ imagesThread'[m].image = imagesThread[m].image /\ m \in DOMAIN imagesThread
      BY <1>1, <1>2, <1>7, <1>8, <2>2
    <3>2. imagesThread[m].image \in LoadedImages
      BY <3>1, Images_Of DEF ImgInv
    <3> QED BY <1>9, <3>1, <3>2 DEF ImgInv, ImgFlights
  <2>3. Loaded!Unwanted'
    <3> SUFFICES ASSUME NEW m \in DOMAIN imagesThread', imagesThread'[m].at = "fetches",
                        ~imagesThread'[m].cancel
                 PROVE  /\ flights'[imagesThread'[m].image] # None
                        /\ flights'[imagesThread'[m].image].by = m
      BY DEF Loaded!Unwanted
    <3>1. m # n /\ imagesThread'[m] = imagesThread[m] /\ m \in DOMAIN imagesThread
      BY <1>7, <1>8
    <3>2. /\ flights[imagesThread[m].image] # None /\ flights[imagesThread[m].image].by = m
          /\ imagesThread[m].image \in LoadedImages
      BY <3>1, Images_Of DEF ImgInv, ImgFlights, Loaded!Unwanted
    <3>3. imagesThread[m].image # i
      <4> SUFFICES ASSUME imagesThread[m].image = i PROVE FALSE
        OBVIOUS
      <4>1. flights[i] # None /\ flights[i].by = m
        BY <3>2
      <4>2. ~imagesThread[n].cancel
        BY <1>1, <1>2, <4>1 DEF ImgInv, ImgFlights
      <4>3. flights[i].by = n
        BY <1>1, <1>2, <4>2 DEF ImgInv, ImgFlights, Loaded!Unwanted
      <4> QED BY <3>1, <4>1, <4>3
    <3> QED BY <1>9, <3>1, <3>2, <3>3
  <2> QED BY <1>1, <2>1, <2>2, <2>3 DEF ImgFlights
<1>12. /\ \A l \in LoadedLoads : Joining(l)' <=> Joining(l)
       /\ \A l \in LoadedLoads, j \in LoadedImages : Flying(l, j)' <=> Flying(l, j) /\ j # i
       /\ \A l \in LoadedLoads, m \in DOMAIN imagesThread \ {n} : Landed(l, m)' <=> Landed(l, m)
       /\ \A l \in LoadedLoads : Landed(l, n)' => Flying(l, i)
  <2>1. \A l \in LoadedLoads : Joining(l)' <=> Joining(l)
    BY <1>1 DEF Joining
  <2>2. \A l \in LoadedLoads, j \in LoadedImages : Flying(l, j)' <=> Flying(l, j) /\ j # i
    BY <1>9 DEF Flying
  <2>3. \A l \in LoadedLoads, m \in DOMAIN imagesThread \ {n} : Landed(l, m)' <=> Landed(l, m)
    BY <1>8 DEF Landed
  <2>4. \A l \in LoadedLoads : Landed(l, n)' => Flying(l, i)
    BY <1>4, <1>7, <1>8 DEF Landed
  <2> QED BY <2>1, <2>2, <2>3, <2>4
<1>13. ImgWaits'
  <2>1. ASSUME NEW l \in LoadedLoads, Joining(l)'
        PROVE  /\ \A j \in LoadedImages : ~Flying(l, j)'
               /\ \A m \in DOMAIN imagesThread' : ~Landed(l, m)'
    <3>1. /\ \A j \in LoadedImages : ~Flying(l, j)
          /\ \A m \in DOMAIN imagesThread : ~Landed(l, m)
      BY <1>12, <2>1 DEF ImgInv, ImgWaits
    <3> QED BY <1>8, <1>12, <3>1
  <2>2. ASSUME NEW l \in LoadedLoads, NEW j \in LoadedImages, Flying(l, j)'
        PROVE  /\ \A o \in LoadedImages : Flying(l, o)' => o = j
               /\ \A m \in DOMAIN imagesThread' : ~Landed(l, m)'
    <3>1. Flying(l, j) /\ j # i
      BY <1>12, <2>2
    <3>2. /\ \A o \in LoadedImages : Flying(l, o) => o = j
          /\ \A m \in DOMAIN imagesThread : ~Landed(l, m)
      BY <3>1 DEF ImgInv, ImgWaits
    <3> QED BY <1>8, <1>12, <3>1, <3>2
  <2>3. ASSUME NEW l \in LoadedLoads, NEW m \in DOMAIN imagesThread', NEW o \in DOMAIN imagesThread',
               Landed(l, m)', Landed(l, o)'
        PROVE  m = o
    <3>1. CASE Flying(l, i)
      <4>1. \A p \in DOMAIN imagesThread : ~Landed(l, p)
        BY <3>1 DEF ImgInv, ImgWaits
      <4> QED BY <1>8, <1>12, <2>3, <4>1
    <3>2. CASE ~Flying(l, i)
      <4>1. m # n /\ o # n
        BY <1>12, <2>3, <3>2
      <4>2. Landed(l, m) /\ Landed(l, o) /\ m \in DOMAIN imagesThread /\ o \in DOMAIN imagesThread
        BY <1>8, <1>12, <2>3, <4>1
      <4> QED BY <4>2 DEF ImgInv, ImgWaits
    <3> QED BY <3>1, <3>2
  <2> QED BY <2>1, <2>2, <2>3 DEF ImgWaits
<1>14. \A l \in LoadedLoads : Waits(l)' => Waits(l)
  <2> SUFFICES ASSUME NEW l \in LoadedLoads, Waits(l)' PROVE Waits(l)
    OBVIOUS
  <2>1. \/ Joining(l)' \/ (\E j \in LoadedImages : Flying(l, j)')
        \/ (\E m \in DOMAIN imagesThread' : Landed(l, m)')
    BY DEF Waits
  <2>2. \/ Joining(l) \/ (\E j \in LoadedImages : Flying(l, j))
        \/ (\E m \in DOMAIN imagesThread : Landed(l, m))
    BY <1>8, <1>12, <2>1
  <2> QED BY <2>2 DEF Waits
<1>15. \A l \in LoadedLoads : Dropping(l) => Dropping(l)'
  BY <1>1 DEF Dropping
<1> QED BY <1>1, <1>10, <1>11, <1>13, <1>14, <1>15, Images_Stay DEF ImgInv

\* What holds between the steps of images, and what no step does to a cancelled load.
LEMMA Images_Inv ==
    ASSUME ImgInv, [Loaded!Next]_(Loaded!vars)
    PROVE  ImgInv' /\ Loaded!Silent
<1>1. CASE UNCHANGED Loaded!vars
  <2>1. UNCHANGED <<load, imagesCall, flights, imagesThread, memory, imagesAnswers,
                    imagesGiven, clears>>
    BY <1>1 DEF Loaded!vars
  <2>2. Loaded!TypeOK'
    BY <2>1 DEF ImgInv, Loaded!TypeOK
  <2>3. ImgFlights' /\ ImgWaits' /\ \A l \in LoadedLoads : Waits(l)' => Waits(l)
    BY <2>1, Images_FlightsStay
  <2>4. \A l \in LoadedLoads : Dropping(l) => Dropping(l)'
    BY <2>1 DEF Dropping
  <2> QED BY <2>1, <2>2, <2>3, <2>4, Images_Stay DEF ImgInv
<1>2. ASSUME NEW l \in LoadedLoads,
             \/ \E i \in LoadedImages, policy \in Loaded!Policies : Loaded!Fetch(l, i, policy)
             \/ Loaded!Cancel(l)
      PROVE  ImgInv' /\ Loaded!Silent
  BY <1>2, Images_Fetch, Images_Cancel
<1>3. ASSUME NEW n \in DOMAIN imagesThread,
             Loaded!Progress(n) \/ Loaded!Arrive(n) \/ Loaded!Keep(n) \/ Loaded!Answers(n)
      PROVE  ImgInv' /\ Loaded!Silent
  BY <1>3, Images_Progress, Images_Arrive, Images_Keep, Images_Answers
<1> QED BY <1>1, <1>2, <1>3, Images_Join, Images_Drop, Images_Take, Images_Clear
    DEF Loaded!Next

\* Loads of one image share a fetch.
LEMMA Images_OneFetch ==
    ASSUME ImgInv
    PROVE  Loaded!OneFetch
<1> SUFFICES ASSUME NEW i \in LoadedImages
             PROVE  Loaded!Cardinality({n \in Loaded!Running(i) :
                      imagesThread[n].at = "fetches" /\ ~imagesThread[n].cancel}) <= 1
  BY DEF Loaded!OneFetch
<1> DEFINE F == {n \in Loaded!Running(i) :
                   imagesThread[n].at = "fetches" /\ ~imagesThread[n].cancel}
<1>1. \A n \in F : n = flights[i].by
  BY DEF ImgInv, ImgFlights, Loaded!Unwanted, Loaded!Running
<1>2. F = {} \/ F = {flights[i].by}
  <2> HIDE DEF F
  <2> QED BY <1>1
<1> HIDE DEF F
<1>3. Cardinality(F) \in {0, 1}
  BY <1>2, FS_EmptySet, FS_Singleton
<1>4. Loaded!Cardinality(F) \in {0, 1}
  BY Zenon, <1>3, Loaded_Sizes
<1>5. Loaded!Cardinality(F) <= 1
  BY <1>4
<1> QED BY <1>5 DEF F

-----------------------------------------------------------------------------
(* What the network's libraries answer, and what no step takes back.         *)

\* What holds of the requests' answers and the images' of whichever part runs.
AnswersInv ==
    /\ part = "network" => NetInv
    /\ part = "images" => ImgInv

\* A step is one of the part that runs, or changes nothing of its.
LEMMA Answers_Steps ==
    ASSUME [Next]_vars
    PROVE  /\ part = "network" => [Answered!Next]_(Answered!vars)
           /\ part = "images" => [Loaded!Next]_(Loaded!vars)
<1>1. ASSUME part = "network"
      PROVE  [Answered!Next]_(Answered!vars)
  <2>1. CASE NetworkGoes
    BY <2>1 DEF NetworkGoes
  <2>2. CASE UNCHANGED networkVars
    BY <2>2 DEF networkVars, Answered!vars
  <2> QED BY <2>1, <2>2 DEF Next, vars, AccountGoes, SnapshotsGoes, RegistrarGoes,
          InstallerGoes, CacheGoes, FetchGoes, ImagesGoes
<1>2. ASSUME part = "images"
      PROVE  [Loaded!Next]_(Loaded!vars)
  <2>1. CASE ImagesGoes
    BY <2>1 DEF ImagesGoes
  <2>2. CASE UNCHANGED imagesVars
    BY <2>2 DEF imagesVars, Loaded!vars
  <2> QED BY <2>1, <2>2 DEF Next, vars, AccountGoes, SnapshotsGoes, RegistrarGoes,
          InstallerGoes, CacheGoes, FetchGoes, NetworkGoes
<1> QED BY <1>1, <1>2

\* The libraries' invariant holds throughout.
LEMMA Services_AnswersInv == Spec => []AnswersInv
<1>1. Init => AnswersInv
  BY Answered_Init, Images_Init DEF Init, AnswersInv
<1>2. AnswersInv /\ [Next]_vars => AnswersInv'
  <2>1. ASSUME AnswersInv, [Next]_vars
        PROVE  /\ part = "network" => NetInv'
               /\ part = "images" => ImgInv'
    BY <2>1, Answers_Steps, Answered_Inv, Images_Inv DEF AnswersInv
  <2> QED BY <2>1, Part_Stays DEF AnswersInv
<1> QED BY <1>1, <1>2, PTL DEF Spec

(* AnswersInOrder, for any requests, redirects, retries and parts of a     *)
(* body, and any images, finitely many loads and clears: an application    *)
(* hears its request's answers in their order, the descriptor is readable  *)
(* while any wait, and loads of one image share one fetch, which goes on   *)
(* while any of them wants it and answers each of them once.               *)
THEOREM Services_AnswersInOrder == Spec => []AnswersInOrder
<1>1. AnswersInv => AnswersInOrder
  <2> SUFFICES ASSUME AnswersInv PROVE AnswersInOrder
    OBVIOUS
  <2>1. part = "network" => Answered!TypeOK /\ Answered!InOrder /\ Answered!Readable
    BY DEF AnswersInv, NetInv
  <2>2. part = "images" => /\ Loaded!TypeOK /\ Loaded!OneFetch /\ Loaded!Unwanted
                           /\ Loaded!AnsweredOnce
    BY Images_OneFetch DEF AnswersInv, ImgInv, ImgFlights
  <2> QED BY <2>1, <2>2 DEF AnswersInOrder
<1> QED BY <1>1, Services_AnswersInv, PTL

(* NeverBack, for any bounds: no step tells an application an older        *)
(* account, takes back what an account denied, updates a version a session *)
(* holds, or answers a request that is aborted or a load that is cancelled. *)
THEOREM Services_NeverBack == Spec => NeverBack
<1>1. SessionsInv /\ InstallsInv /\ AnswersInv /\ [Next]_vars =>
        [/\ \A p \in SnapshotParts : part = p => Snapshots(p)!RevisionTells
         /\ \A p \in InstallParts : part = p =>
              Install(p)!SwitchedUnheld /\ (p # "plans" => Install(p)!DeniedStays)
         /\ part = "network" => Answered!Silent
         /\ part = "images" => Loaded!Silent]_vars
  <2> SUFFICES ASSUME SessionsInv, InstallsInv, AnswersInv, [Next]_vars
               PROVE  /\ \A p \in SnapshotParts : part = p => Snapshots(p)!RevisionTells
                      /\ \A p \in InstallParts : part = p =>
                           Install(p)!SwitchedUnheld /\ Install(p)!DeniedStays
                      /\ part = "network" => Answered!Silent
                      /\ part = "images" => Loaded!Silent
    OBVIOUS
  <2>1. ASSUME NEW p \in SnapshotParts, part = p
        PROVE  Snapshots(p)!RevisionTells
    BY <2>1, Sessions_Steps, Snapshots_Tell DEF SessionsInv
  <2>2. ASSUME NEW p \in InstallParts, part = p
        PROVE  Install(p)!SwitchedUnheld /\ Install(p)!DeniedStays
    BY <2>2, Installer_Steps, Install_NeverBack DEF InstallsInv
  <2>3. /\ part = "network" => Answered!Silent
        /\ part = "images" => Loaded!Silent
    BY Answers_Steps, Answered_Inv, Images_Inv DEF AnswersInv
  <2> QED BY <2>1, <2>2, <2>3
<1> QED BY <1>1, Services_SessionsInv, Services_InstallsInv, Services_AnswersInv, PTL
    DEF Spec, NeverBack

-----------------------------------------------------------------------------
(* The account service: its theorems, for the constants of either part.      *)

RemovalsProofs == INSTANCE AccountPlatformProofs WITH
    Threads <- AccountThreads("removals"), Kinds <- AccountKinds("removals"),
    Passwords <- AccountPasswords, MaxIssued <- AccountIssued("removals"),
    MaxCalls <- AccountCalls("removals"), MaxFaults <- AccountFaults("removals")
SetUpsProofs == INSTANCE AccountPlatformProofs WITH
    Threads <- AccountThreads("setups"), Kinds <- AccountKinds("setups"),
    Passwords <- AccountPasswords, MaxIssued <- AccountIssued("setups"),
    MaxCalls <- AccountCalls("setups"), MaxFaults <- AccountFaults("setups")

\* A behaviour of the removals is one of the instance its theorems are about.
LEMMA Removals_Same ==
    /\ Account("removals")!AccountBounds => RemovalsProofs!AccountBounds
    /\ Account("removals")!Init => RemovalsProofs!Init
    /\ Account("removals")!Next => RemovalsProofs!Next
    /\ UNCHANGED accountVars => UNCHANGED RemovalsProofs!vars
    /\ RemovalsProofs!TypeOK => Account("removals")!TypeOK
    /\ RemovalsProofs!NoStrayDevice => Account("removals")!NoStrayDevice
    /\ RemovalsProofs!HeldIsLive => Account("removals")!HeldIsLive
    /\ RemovalsProofs!SetUpAgain => Account("removals")!SetUpAgain
    /\ RemovalsProofs!TokenOfHeld => Account("removals")!TokenOfHeld
<1>1. Account("removals")!AccountBounds => RemovalsProofs!AccountBounds
  BY Zenon DEF Account!AccountBounds, RemovalsProofs!AccountBounds, Account!Enrollment,
         RemovalsProofs!Enrollment, Account!Credentials, RemovalsProofs!Credentials
<1>2. Account("removals")!Init => RemovalsProofs!Init
  BY Zenon DEF Account!Init, RemovalsProofs!Init, Account!Idle, RemovalsProofs!Idle
<1>3. Account("removals")!Next => RemovalsProofs!Next
  BY Zenon DEF
         Account!Credentials, RemovalsProofs!Credentials, Account!Enrollment,
         RemovalsProofs!Enrollment, Account!Kept, RemovalsProofs!Kept, Account!Idle,
         RemovalsProofs!Idle, Account!Goes, RemovalsProofs!Goes, Account!GoesTo,
         RemovalsProofs!GoesTo, Account!At, RemovalsProofs!At, Account!Fault,
         RemovalsProofs!Fault, Account!Replied, RemovalsProofs!Replied, Account!Concludes,
         RemovalsProofs!Concludes, Account!StillHolds, RemovalsProofs!StillHolds,
         Account!Rewrite, RemovalsProofs!Rewrite, Account!CredentialOf,
         RemovalsProofs!CredentialOf, Account!Forgets, RemovalsProofs!Forgets,
         Account!PasswordChanges, RemovalsProofs!PasswordChanges, Account!SignsOut,
         RemovalsProofs!SignsOut, Account!AskCheck, RemovalsProofs!AskCheck, Account!Check,
         RemovalsProofs!Check, Account!Background, RemovalsProofs!Background,
         Account!FlagPasswordChanged, RemovalsProofs!FlagPasswordChanged, Account!SignIn,
         RemovalsProofs!SignIn, Account!MintToken, RemovalsProofs!MintToken,
         Account!SignInRefused, RemovalsProofs!SignInRefused, Account!SignInSecondFactor,
         RemovalsProofs!SignInSecondFactor, Account!SignInAccepted,
         RemovalsProofs!SignInAccepted, Account!SetVerifier, RemovalsProofs!SetVerifier,
         Account!Rotate, RemovalsProofs!Rotate, Account!EndOnline, RemovalsProofs!EndOnline,
         Account!Revoked, RemovalsProofs!Revoked, Account!LockVerifier,
         RemovalsProofs!LockVerifier, Account!AskToken, RemovalsProofs!AskToken, Account!Token,
         RemovalsProofs!Token, Account!MintAppToken, RemovalsProofs!MintAppToken,
         Account!AskRemove, RemovalsProofs!AskRemove, Account!Remove, RemovalsProofs!Remove,
         Account!RemoveLocks, RemovalsProofs!RemoveLocks, Account!RemoveForgets,
         RemovalsProofs!RemoveForgets, Account!FinishRemoval, RemovalsProofs!FinishRemoval,
         Account!RemoveFile, RemovalsProofs!RemoveFile, Account!Takable, RemovalsProofs!Takable,
         Account!Enroll, RemovalsProofs!Enroll, Account!EnrollSignsIn,
         RemovalsProofs!EnrollSignsIn, Account!Commit, RemovalsProofs!Commit, Account!Undo,
         RemovalsProofs!Undo, Account!CommitStores, RemovalsProofs!CommitStores,
         Account!CommitVerifies, RemovalsProofs!CommitVerifies, Account!Crash,
         RemovalsProofs!Crash, Account!SignInSteps, RemovalsProofs!SignInSteps,
         Account!CheckSteps, RemovalsProofs!CheckSteps, Account!TokenSteps,
         RemovalsProofs!TokenSteps, Account!RemoveSteps, RemovalsProofs!RemoveSteps,
         Account!SetupSteps, RemovalsProofs!SetupSteps, Account!Steps, RemovalsProofs!Steps,
         Account!Asked, RemovalsProofs!Asked, Account!Next, RemovalsProofs!Next,
         Account!oxyVars, RemovalsProofs!oxyVars, Account!machineVars,
         RemovalsProofs!machineVars, Account!history, RemovalsProofs!history
<1>4. RemovalsProofs!TypeOK => Account("removals")!TypeOK
  BY Zenon DEF
         Account!TypeOK, RemovalsProofs!TypeOK, Account!Call, RemovalsProofs!Call,
         Account!Stages, RemovalsProofs!Stages, Account!Credentials, RemovalsProofs!Credentials,
         Account!Kept, RemovalsProofs!Kept, Account!Enrollment, RemovalsProofs!Enrollment,
         Account!At, RemovalsProofs!At
<1>5. RemovalsProofs!NoStrayDevice => Account("removals")!NoStrayDevice
  BY Zenon DEF Account!NoStrayDevice, RemovalsProofs!NoStrayDevice, Account!CredentialOf,
         RemovalsProofs!CredentialOf, Account!InHand, RemovalsProofs!InHand, Account!At,
         RemovalsProofs!At
<1>6. RemovalsProofs!HeldIsLive => Account("removals")!HeldIsLive
  BY Zenon DEF Account!HeldIsLive, RemovalsProofs!HeldIsLive
<1>7. RemovalsProofs!SetUpAgain => Account("removals")!SetUpAgain
  BY Zenon DEF Account!SetUpAgain, RemovalsProofs!SetUpAgain, Account!At, RemovalsProofs!At,
         Account!Takable, RemovalsProofs!Takable
<1>8. RemovalsProofs!TokenOfHeld => Account("removals")!TokenOfHeld
  BY Zenon DEF Account!TokenOfHeld, RemovalsProofs!TokenOfHeld, Account!StillHolds,
         RemovalsProofs!StillHolds
<1>9. UNCHANGED accountVars => UNCHANGED RemovalsProofs!vars
  BY DEF RemovalsProofs!vars, RemovalsProofs!oxyVars, RemovalsProofs!machineVars, RemovalsProofs!history, accountVars
<1> QED BY <1>1, <1>2, <1>3, <1>4, <1>5, <1>6, <1>7, <1>8, <1>9

\* A behaviour of the setups is one of the instance its theorems are about.
LEMMA SetUps_Same ==
    /\ Account("setups")!AccountBounds => SetUpsProofs!AccountBounds
    /\ Account("setups")!Init => SetUpsProofs!Init
    /\ Account("setups")!Next => SetUpsProofs!Next
    /\ UNCHANGED accountVars => UNCHANGED SetUpsProofs!vars
    /\ SetUpsProofs!TypeOK => Account("setups")!TypeOK
    /\ SetUpsProofs!NoStrayDevice => Account("setups")!NoStrayDevice
    /\ SetUpsProofs!HeldIsLive => Account("setups")!HeldIsLive
    /\ SetUpsProofs!SetUpAgain => Account("setups")!SetUpAgain
    /\ SetUpsProofs!TokenOfHeld => Account("setups")!TokenOfHeld
<1>1. Account("setups")!AccountBounds => SetUpsProofs!AccountBounds
  BY Zenon DEF Account!AccountBounds, SetUpsProofs!AccountBounds, Account!Enrollment,
         SetUpsProofs!Enrollment, Account!Credentials, SetUpsProofs!Credentials
<1>2. Account("setups")!Init => SetUpsProofs!Init
  BY Zenon DEF Account!Init, SetUpsProofs!Init, Account!Idle, SetUpsProofs!Idle
<1>3. Account("setups")!Next => SetUpsProofs!Next
  BY Zenon DEF
         Account!Credentials, SetUpsProofs!Credentials, Account!Enrollment,
         SetUpsProofs!Enrollment, Account!Kept, SetUpsProofs!Kept, Account!Idle,
         SetUpsProofs!Idle, Account!Goes, SetUpsProofs!Goes, Account!GoesTo,
         SetUpsProofs!GoesTo, Account!At, SetUpsProofs!At, Account!Fault, SetUpsProofs!Fault,
         Account!Replied, SetUpsProofs!Replied, Account!Concludes, SetUpsProofs!Concludes,
         Account!StillHolds, SetUpsProofs!StillHolds, Account!Rewrite, SetUpsProofs!Rewrite,
         Account!CredentialOf, SetUpsProofs!CredentialOf, Account!Forgets, SetUpsProofs!Forgets,
         Account!PasswordChanges, SetUpsProofs!PasswordChanges, Account!SignsOut,
         SetUpsProofs!SignsOut, Account!AskCheck, SetUpsProofs!AskCheck, Account!Check,
         SetUpsProofs!Check, Account!Background, SetUpsProofs!Background,
         Account!FlagPasswordChanged, SetUpsProofs!FlagPasswordChanged, Account!SignIn,
         SetUpsProofs!SignIn, Account!MintToken, SetUpsProofs!MintToken, Account!SignInRefused,
         SetUpsProofs!SignInRefused, Account!SignInSecondFactor,
         SetUpsProofs!SignInSecondFactor, Account!SignInAccepted, SetUpsProofs!SignInAccepted,
         Account!SetVerifier, SetUpsProofs!SetVerifier, Account!Rotate, SetUpsProofs!Rotate,
         Account!EndOnline, SetUpsProofs!EndOnline, Account!Revoked, SetUpsProofs!Revoked,
         Account!LockVerifier, SetUpsProofs!LockVerifier, Account!AskToken,
         SetUpsProofs!AskToken, Account!Token, SetUpsProofs!Token, Account!MintAppToken,
         SetUpsProofs!MintAppToken, Account!AskRemove, SetUpsProofs!AskRemove, Account!Remove,
         SetUpsProofs!Remove, Account!RemoveLocks, SetUpsProofs!RemoveLocks,
         Account!RemoveForgets, SetUpsProofs!RemoveForgets, Account!FinishRemoval,
         SetUpsProofs!FinishRemoval, Account!RemoveFile, SetUpsProofs!RemoveFile,
         Account!Takable, SetUpsProofs!Takable, Account!Enroll, SetUpsProofs!Enroll,
         Account!EnrollSignsIn, SetUpsProofs!EnrollSignsIn, Account!Commit, SetUpsProofs!Commit,
         Account!Undo, SetUpsProofs!Undo, Account!CommitStores, SetUpsProofs!CommitStores,
         Account!CommitVerifies, SetUpsProofs!CommitVerifies, Account!Crash, SetUpsProofs!Crash,
         Account!SignInSteps, SetUpsProofs!SignInSteps, Account!CheckSteps,
         SetUpsProofs!CheckSteps, Account!TokenSteps, SetUpsProofs!TokenSteps,
         Account!RemoveSteps, SetUpsProofs!RemoveSteps, Account!SetupSteps,
         SetUpsProofs!SetupSteps, Account!Steps, SetUpsProofs!Steps, Account!Asked,
         SetUpsProofs!Asked, Account!Next, SetUpsProofs!Next, Account!oxyVars,
         SetUpsProofs!oxyVars, Account!machineVars, SetUpsProofs!machineVars, Account!history,
         SetUpsProofs!history
<1>4. SetUpsProofs!TypeOK => Account("setups")!TypeOK
  BY Zenon DEF
         Account!TypeOK, SetUpsProofs!TypeOK, Account!Call, SetUpsProofs!Call, Account!Stages,
         SetUpsProofs!Stages, Account!Credentials, SetUpsProofs!Credentials, Account!Kept,
         SetUpsProofs!Kept, Account!Enrollment, SetUpsProofs!Enrollment, Account!At,
         SetUpsProofs!At
<1>5. SetUpsProofs!NoStrayDevice => Account("setups")!NoStrayDevice
  BY Zenon DEF Account!NoStrayDevice, SetUpsProofs!NoStrayDevice, Account!CredentialOf,
         SetUpsProofs!CredentialOf, Account!InHand, SetUpsProofs!InHand, Account!At,
         SetUpsProofs!At
<1>6. SetUpsProofs!HeldIsLive => Account("setups")!HeldIsLive
  BY Zenon DEF Account!HeldIsLive, SetUpsProofs!HeldIsLive
<1>7. SetUpsProofs!SetUpAgain => Account("setups")!SetUpAgain
  BY Zenon DEF Account!SetUpAgain, SetUpsProofs!SetUpAgain, Account!At, SetUpsProofs!At,
         Account!Takable, SetUpsProofs!Takable
<1>8. SetUpsProofs!TokenOfHeld => Account("setups")!TokenOfHeld
  BY Zenon DEF Account!TokenOfHeld, SetUpsProofs!TokenOfHeld, Account!StillHolds,
         SetUpsProofs!StillHolds
<1>9. UNCHANGED accountVars => UNCHANGED SetUpsProofs!vars
  BY DEF SetUpsProofs!vars, SetUpsProofs!oxyVars, SetUpsProofs!machineVars, SetUpsProofs!history, accountVars
<1> QED BY <1>1, <1>2, <1>3, <1>4, <1>5, <1>6, <1>7, <1>8, <1>9

\* Its behaviours are those of its instance.
LEMMA Removals_Runs == Spec /\ part = "removals" => RemovalsProofs!Spec
<1>1. Init /\ part = "removals" => RemovalsProofs!Init
  BY Removals_Same DEF Init
<1>2. part = "removals" /\ [Next]_vars => [RemovalsProofs!Next]_(RemovalsProofs!vars)
  <2>1. CASE AccountGoes
    BY <2>1, Removals_Same DEF AccountGoes
  <2>2. CASE UNCHANGED accountVars
    BY <2>2, Removals_Same
  <2> QED BY <2>1, <2>2 DEF Next, vars, SnapshotsGoes, RegistrarGoes, InstallerGoes, CacheGoes,
                            FetchGoes, NetworkGoes, ImagesGoes
<1>3. part = "removals" /\ [Next]_vars => (part = "removals")'
  BY Part_Stays
<1> QED BY <1>1, <1>2, <1>3, PTL DEF Spec, RemovalsProofs!Spec

\* Its behaviours are those of its instance.
LEMMA SetUps_Runs == Spec /\ part = "setups" => SetUpsProofs!Spec
<1>1. Init /\ part = "setups" => SetUpsProofs!Init
  BY SetUps_Same DEF Init
<1>2. part = "setups" /\ [Next]_vars => [SetUpsProofs!Next]_(SetUpsProofs!vars)
  <2>1. CASE AccountGoes
    BY <2>1, SetUps_Same DEF AccountGoes
  <2>2. CASE UNCHANGED accountVars
    BY <2>2, SetUps_Same
  <2> QED BY <2>1, <2>2 DEF Next, vars, SnapshotsGoes, RegistrarGoes, InstallerGoes, CacheGoes,
                            FetchGoes, NetworkGoes, ImagesGoes
<1>3. part = "setups" /\ [Next]_vars => (part = "setups")'
  BY Part_Stays
<1> QED BY <1>1, <1>2, <1>3, PTL DEF Spec, SetUpsProofs!Spec

(* CredentialsKept, for any threads, passwords, bounds and faults: the     *)
(* removals' and the setups' behaviours are the account service's, whose   *)
(* theorems hold when an account is not set up while it is removed.        *)
THEOREM Services_CredentialsKept == Spec => []CredentialsKept
<1> DEFINE RemovalsKept == /\ Account("removals")!TypeOK
                           /\ Account("removals")!NoStrayDevice
                           /\ Account("removals")!HeldIsLive
                           /\ Account("removals")!SetUpAgain
                           /\ Account("removals")!TokenOfHeld
           SetUpsKept == /\ Account("setups")!TypeOK
                         /\ Account("setups")!NoStrayDevice
                         /\ Account("setups")!HeldIsLive
                         /\ Account("setups")!SetUpAgain
<1>1. RemovalsProofs!Spec => []RemovalsKept
  <2>1. RemovalsProofs!AccountBounds
    BY AccountsBounds, Removals_Same DEF AccountParts
  <2>2. RemovalsProofs!OneAtATime /\ "setup" \notin AccountKinds("removals")
    BY DEF RemovalsProofs!OneAtATime, AccountKinds, RemovalsKinds
  <2>3. RemovalsProofs!Spec => []RemovalsProofs!TypeOK
    BY <2>1, RemovalsProofs!AccountPlatform_TypeOK
  <2>4. RemovalsProofs!Spec => []RemovalsProofs!NoStrayDevice
    BY <2>1, <2>2, RemovalsProofs!AccountPlatform_NoStrayDevice
  <2>5. RemovalsProofs!Spec => []RemovalsProofs!HeldIsLive
    BY <2>1, RemovalsProofs!AccountPlatform_HeldIsLive
  <2>6. RemovalsProofs!Spec => []RemovalsProofs!SetUpAgain
    BY <2>1, <2>2, RemovalsProofs!AccountPlatform_SetUpAgain
  <2>7. RemovalsProofs!Spec => []RemovalsProofs!TokenOfHeld
    BY <2>1, <2>2, RemovalsProofs!AccountPlatform_TokenOfHeld
  <2>8. /\ RemovalsProofs!TypeOK /\ RemovalsProofs!NoStrayDevice /\ RemovalsProofs!HeldIsLive
        /\ RemovalsProofs!SetUpAgain /\ RemovalsProofs!TokenOfHeld
        => RemovalsKept
    BY Removals_Same
  <2> QED BY <2>3, <2>4, <2>5, <2>6, <2>7, <2>8, PTL
<1>2. SetUpsProofs!Spec => []SetUpsKept
  <2>1. SetUpsProofs!AccountBounds
    BY AccountsBounds, SetUps_Same DEF AccountParts
  <2>2. SetUpsProofs!OneAtATime
    BY DEF SetUpsProofs!OneAtATime, AccountKinds, SetUpsKinds
  <2>3. SetUpsProofs!Spec => []SetUpsProofs!TypeOK
    BY <2>1, SetUpsProofs!AccountPlatform_TypeOK
  <2>4. SetUpsProofs!Spec => []SetUpsProofs!NoStrayDevice
    BY <2>1, <2>2, SetUpsProofs!AccountPlatform_NoStrayDevice
  <2>5. SetUpsProofs!Spec => []SetUpsProofs!HeldIsLive
    BY <2>1, SetUpsProofs!AccountPlatform_HeldIsLive
  <2>6. SetUpsProofs!Spec => []SetUpsProofs!SetUpAgain
    BY <2>1, <2>2, SetUpsProofs!AccountPlatform_SetUpAgain
  <2>7. /\ SetUpsProofs!TypeOK /\ SetUpsProofs!NoStrayDevice /\ SetUpsProofs!HeldIsLive
        /\ SetUpsProofs!SetUpAgain
        => SetUpsKept
    BY SetUps_Same
  <2> QED BY <2>3, <2>4, <2>5, <2>6, <2>7, PTL
<1>3. ~(part = "removals") /\ [Next]_vars => ~(part = "removals")'
  BY Part_Stays
<1>4. ~(part = "setups") /\ [Next]_vars => ~(part = "setups")'
  BY Part_Stays
<1>5. (part = "removals" => RemovalsKept) /\ (part = "setups" => SetUpsKept) => CredentialsKept
  BY DEF CredentialsKept, AccountParts
<1> HIDE DEF RemovalsKept, SetUpsKept
<1>6. Spec => [](part = "removals" => RemovalsKept)
  BY <1>1, <1>3, Removals_Runs, PTL DEF Spec
<1>7. Spec => [](part = "setups" => SetUpsKept)
  BY <1>2, <1>4, SetUps_Runs, PTL DEF Spec
<1> QED BY <1>5, <1>6, <1>7, PTL

=============================================================================
