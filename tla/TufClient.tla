------------------------------ MODULE TufClient ------------------------------
(***************************************************************************)
(* The store's metadata on the machine (crates/oxyos-install/src/tuf.rs):  *)
(* Client::open and Client::refresh, against a repository that publishes   *)
(* releases, rotates the keys of some roles with a new root and then       *)
(* numbers those roles' documents from one again, and whose mirrors may    *)
(* lag.  Each document kept is a file renamed whole: the service may stop  *)
(* between any two of them, and every refresh opens the files again.       *)
(*                                                                         *)
(* A release is a timestamp, a snapshot and a targets document, each with  *)
(* its version and the generation of the keys that signed it; a document   *)
(* is named by the release it is of, which stands for its hash.            *)
(***************************************************************************)
EXTENDS Naturals, Sequences, FiniteSets

CONSTANTS MaxReleases,  \* bound on the releases published
          MaxRoots,     \* bound on the roots published
          Rotated,      \* the roles a new root gives other keys
          Anchor,       \* the version of the image's root
          MaxCrashes,   \* bound on the stops
          Faults,       \* what mirrors and networks do: any of "lag", "lost"
          None

Roles == {"timestamp", "snapshot", "targets"}

ASSUME TufBounds ==
    /\ MaxReleases \in Nat \ {0} /\ MaxRoots \in Nat \ {0} /\ Anchor \in 1..MaxRoots
    /\ Rotated \subseteq Roles /\ MaxCrashes \in Nat

(* A release, and the client of a refresh: its root, the one it opened     *)
(* with, and the documents it trusts.                                      *)
Release == [keys : [Roles -> Nat], version : [Roles -> Nat]]
Client  == [root : Nat, original : Nat, timestamp : Nat \cup {None},
            snapshot : Nat \cup {None}, targets : Nat \cup {None}]

ASSUME NoneAssumption == None \notin Nat \cup Client

VARIABLES
    releases,  \* the repository: its releases, oldest first
    roots,     \* how many roots it has
    expired,   \* releases up to this one have expired
    kept,      \* the files: root's version, and the release each document is of
    client,    \* the open client of a refresh, or None
    at,        \* what the refresh does next
    crashes

vars == <<releases, roots, expired, kept, client, at, crashes>>

(* The generation of a role's keys under a root.                           *)
Keys(root, role) == IF role \in Rotated THEN root ELSE 1
Signed(root, role, n) == releases[n].keys[role] = Keys(root, role)
Version(role, n) == releases[n].version[role]
Newest == Len(releases)

----------------------------------------------------------------------------
(* The repository, which is not this program.                              *)

(* A release: each role's next version, or its first under new keys.       *)
Publish ==
    /\ Newest < MaxReleases
    /\ LET keys == [role \in Roles |-> Keys(roots, role)]
           same(role) == releases[Newest].keys[role] = keys[role]
       IN  releases' = Append(releases,
             [keys |-> keys,
              version |-> [role \in Roles |-> IF same(role) THEN Version(role, Newest) + 1 ELSE 1]])
    /\ UNCHANGED <<roots, expired, kept, client, at, crashes>>

(* A root with other keys, and the release they sign.                      *)
Rotate ==
    /\ roots < MaxRoots /\ Newest < MaxReleases
    /\ roots' = roots + 1
    /\ LET keys == [role \in Roles |-> Keys(roots', role)]
           same(role) == releases[Newest].keys[role] = keys[role]
       IN  releases' = Append(releases,
             [keys |-> keys,
              version |-> [role \in Roles |-> IF same(role) THEN Version(role, Newest) + 1 ELSE 1]])
    /\ UNCHANGED <<expired, kept, client, at, crashes>>

(* Releases expire in the order they were made; the newest is renewed.     *)
Expire ==
    /\ expired + 1 < Newest /\ expired' = expired + 1
    /\ UNCHANGED <<releases, roots, kept, client, at, crashes>>

(* A document by its name: timestamp.json is the newest, or an older one   *)
(* from a mirror that lags; the others are by version, the last so named.  *)
Timestamps == IF "lag" \in Faults THEN 1..Newest ELSE {Newest}
Named(role, version) ==
    LET so == {n \in 1..Newest : Version(role, n) = version}
    IN  CHOOSE n \in so : \A o \in so : o <= n

----------------------------------------------------------------------------
(* open: the newer of the root kept and the image's, and the documents     *)
(* kept that it still verifies.                                            *)

Opened ==
    LET root == IF kept.root # None /\ kept.root > Anchor THEN kept.root ELSE Anchor
        trusted(role) == IF kept[role] # None /\ Signed(root, role, kept[role]) THEN kept[role] ELSE None
    IN  [root |-> root, original |-> root, timestamp |-> trusted("timestamp"),
         snapshot |-> trusted("snapshot"), targets |-> trusted("targets")]

Open ==
    /\ client = None
    /\ client' = Opened /\ at' = "root"
    /\ UNCHANGED <<releases, roots, expired, kept, crashes>>

(* refresh returns: an error leaves what was kept.                         *)
Ends == client' = None /\ at' = "idle"
Fails == Ends /\ UNCHANGED kept

Lost ==
    /\ "lost" \in Faults /\ client # None
    /\ Fails
    /\ UNCHANGED <<releases, roots, expired, crashes>>

(* The roots, one version at a time, each kept before the next is asked    *)
(* for; a mirror that lags has none.                                       *)
NextRoot ==
    /\ at = "root" /\ client.root < roots
    /\ client' = [client EXCEPT !.root = @ + 1]
    /\ kept' = [kept EXCEPT !.root = client.root + 1]
    /\ UNCHANGED <<releases, roots, expired, at, crashes>>

LastRoot ==
    /\ at = "root" /\ (client.root = roots \/ "lag" \in Faults)
    /\ at' = "forget"
    /\ UNCHANGED <<releases, roots, expired, kept, client, crashes>>

(* The timestamp and the snapshot are forgotten with the keys of either.   *)
Forget ==
    /\ at = "forget"
    /\ LET changed == \E role \in {"timestamp", "snapshot"} :
                          Keys(client.root, role) # Keys(client.original, role)
       IN  IF changed
             THEN /\ client' = [client EXCEPT !.timestamp = None, !.snapshot = None]
                  /\ kept' = [kept EXCEPT !.timestamp = None, !.snapshot = None]
             ELSE UNCHANGED <<client, kept>>
    /\ at' = "timestamp"
    /\ UNCHANGED <<releases, roots, expired, crashes>>

(* Whether a timestamp, or the snapshot it names, is older than trusted.   *)
TimestampOlder(n) ==
    client.timestamp # None /\ \E role \in {"timestamp", "snapshot"} :
        Version(role, n) < Version(role, client.timestamp)

(* A mistake: whatever timestamp comes is kept.                            *)
TimestampAny ==
    /\ at = "timestamp"
    /\ \E n \in Timestamps :
         IF Signed(client.root, "timestamp", n) /\ n > expired
           THEN /\ client' = [client EXCEPT !.timestamp = n] /\ kept' = [kept EXCEPT !.timestamp = n]
                /\ at' = "snapshot"
           ELSE Fails
    /\ UNCHANGED <<releases, roots, expired, crashes>>

Timestamp ==
    /\ at = "timestamp"
    /\ \E n \in Timestamps :
         IF Signed(client.root, "timestamp", n) /\ ~TimestampOlder(n) /\ n > expired
           THEN /\ client' = [client EXCEPT !.timestamp = n] /\ kept' = [kept EXCEPT !.timestamp = n]
                /\ at' = "snapshot"
           ELSE Fails
    /\ UNCHANGED <<releases, roots, expired, crashes>>

(* The snapshot the timestamp names, of its hash: its targets no older     *)
(* than the ones of the snapshot trusted.                                  *)
Snapshot ==
    /\ at = "snapshot"
    /\ LET n == Named("snapshot", Version("snapshot", client.timestamp))
           older == client.snapshot # None /\ Version("targets", n) < Version("targets", client.snapshot)
       IN  IF n = client.timestamp /\ Signed(client.root, "snapshot", n) /\ ~older /\ n > expired
             THEN /\ client' = [client EXCEPT !.snapshot = n] /\ kept' = [kept EXCEPT !.snapshot = n]
                  /\ at' = "targets"
             ELSE Fails
    /\ UNCHANGED <<releases, roots, expired, crashes>>

(* A mistake: targets that have expired are kept.                          *)
TargetsExpired ==
    /\ at = "targets"
    /\ LET n == Named("targets", Version("targets", client.snapshot))
           older == client.targets # None
                      /\ Version("targets", client.snapshot) < Version("targets", client.targets)
       IN  IF ~older /\ n = client.snapshot /\ Signed(client.root, "targets", n)
             THEN kept' = [kept EXCEPT !.targets = n] /\ Ends
             ELSE Fails
    /\ UNCHANGED <<releases, roots, expired, crashes>>

(* The targets the snapshot names, of its hash.                            *)
Targets ==
    /\ at = "targets"
    /\ LET n == Named("targets", Version("targets", client.snapshot))
           older == client.targets # None
                      /\ Version("targets", client.snapshot) < Version("targets", client.targets)
       IN  IF ~older /\ n = client.snapshot /\ Signed(client.root, "targets", n) /\ n > expired
             THEN kept' = [kept EXCEPT !.targets = n] /\ Ends
             ELSE Fails
    /\ UNCHANGED <<releases, roots, expired, crashes>>

(* The service stops.                                                      *)
Crash ==
    /\ client # None /\ crashes < MaxCrashes /\ crashes' = crashes + 1
    /\ Ends
    /\ UNCHANGED <<releases, roots, expired, kept>>

----------------------------------------------------------------------------
Init ==
    /\ releases = <<[keys |-> [role \in Roles |-> Keys(Anchor, role)],
                     version |-> [role \in Roles |-> 1]]>>
    /\ roots = Anchor /\ expired = 0
    /\ kept = [root |-> None, timestamp |-> None, snapshot |-> None, targets |-> None]
    /\ client = None /\ at = "idle" /\ crashes = 0

Refreshing == Open \/ NextRoot \/ LastRoot \/ Forget \/ Timestamp \/ Snapshot \/ Targets
Next == Publish \/ Rotate \/ Expire \/ Refreshing \/ Lost \/ Crash

Spec == Init /\ [][Next]_vars

(* The update timer asks again, and a refresh goes on.                     *)
LiveSpec == Spec /\ WF_vars(Refreshing)
----------------------------------------------------------------------------
(* Properties.                                                             *)

Documents == 1..Newest \cup {None}

(* Type correctness: what is kept or trusted is of a release made, and no  *)
(* root is newer than the store's.                                         *)
TypeOK ==
    /\ releases \in Seq(Release) /\ Newest \in 1..MaxReleases
    /\ roots \in Anchor..MaxRoots /\ expired \in Nat /\ crashes \in Nat
    /\ kept \in [root : 1..roots \cup {None}, timestamp : Documents, snapshot : Documents,
                targets : Documents]
    /\ client \in Client \cup {None}
    /\ client # None => /\ {client.root, client.original} \subseteq Anchor..roots
                        /\ {client.timestamp, client.snapshot, client.targets} \subseteq Documents
    /\ at \in {"idle", "root", "forget", "timestamp", "snapshot", "targets"}
    /\ (client = None) <=> (at = "idle")

(* The root kept never goes back, nor do the targets the machine installs  *)
(* from: a release older than the one kept, under the same keys, is        *)
(* refused, though a mirror lags, the service stops between two files or   *)
(* the timestamp and the snapshot were forgotten (refresh's rollback       *)
(* checks).                                                                *)
NoRollback ==
    [][/\ kept.root # None => kept'.root >= kept.root
       /\ \A role \in Roles :
            (kept[role] # None /\ kept'[role] # None /\ kept'[role] # kept[role]
               /\ releases[kept[role]].keys[role] = releases'[kept'[role]].keys[role])
            => releases'[kept'[role]].version[role] >= releases[kept[role]].version[role]]_vars

(* What a refresh that succeeds leaves is one release: its timestamp, its  *)
(* snapshot and its targets, none of them expired.                         *)
KeptIsRelease ==
    [][kept'.targets # kept.targets =>
         /\ kept'.timestamp = kept'.targets /\ kept'.snapshot = kept'.targets
         /\ kept'.targets > expired]_vars

(* Once the store settles, the machine has its newest release in the end,  *)
(* through rotations, versions numbered again and stops at any file.       *)
Catches == <>[][FALSE]_<<releases, roots, expired, crashes>> => <>(kept.targets = Newest)
=============================================================================
