-------------------------- MODULE TufClientProofs --------------------------
(***************************************************************************)
(* Proofs about the store's metadata, for any releases, roots, rotated     *)
(* roles and faults: what is kept never goes back under the same keys, and *)
(* the targets kept are those of one release, of its snapshot and of its   *)
(* timestamp.                                                              *)
(***************************************************************************)
EXTENDS TufClient, TLAPS

-----------------------------------------------------------------------------
(* The inductive invariant.                                                *)

Key(role, n) == releases[n].keys[role]

\* A later release has keys no older, and a later version under the same ones.
ReleasesInOrder ==
    \A role \in Roles : \A m, n \in 1..Newest :
        /\ Key(role, n) <= Keys(roots, role)
        /\ m < n => Key(role, m) <= Key(role, n)
        /\ m < n /\ Key(role, m) = Key(role, n) => Version(role, m) < Version(role, n)

\* The root that the files give: a refresh's root is always it.
Root == IF kept.root # None /\ kept.root > Anchor THEN kept.root ELSE Anchor
RootKept == client # None => client.root = Root

\* What is kept was signed under the root kept, or under an older one.
WasSigned(role, held) == held # None => Key(role, held) <= Keys(Root, role)
KeptWasSigned ==
    /\ WasSigned("timestamp", kept.timestamp)
    /\ WasSigned("snapshot", kept.snapshot)
    /\ WasSigned("targets", kept.targets)

\* A refresh trusts what is kept, but for what newer keys replaced.
Trusts(role, trusted, held) ==
    \/ trusted = held
    \/ trusted = None /\ held # None /\ Key(role, held) < Keys(client.root, role)
TrustsKept ==
    client # None =>
        /\ Trusts("timestamp", client.timestamp, kept.timestamp)
        /\ Trusts("snapshot", client.snapshot, kept.snapshot)
        /\ Trusts("targets", client.targets, kept.targets)

\* The snapshot kept is never of a later release than the timestamp kept, and a refresh that
\* has come so far holds both.
SnapshotBehind ==
    kept.snapshot # None => kept.timestamp # None /\ kept.snapshot <= kept.timestamp
HeldSoFar ==
    /\ at \in {"snapshot", "targets"} =>
          client.timestamp # None /\ client.timestamp = kept.timestamp
    /\ at = "targets" => client.snapshot = client.timestamp /\ kept.snapshot = client.snapshot

KeptInv == RootKept /\ KeptWasSigned /\ TrustsKept /\ SnapshotBehind /\ HeldSoFar
IInv == TypeOK /\ ReleasesInOrder /\ KeptInv

-----------------------------------------------------------------------------
(* The releases.                                                           *)

\* A later root's keys are no older.
LEMMA KeysMonotone ==
    ASSUME NEW role, NEW a \in Nat, NEW b \in Nat
    PROVE  /\ Keys(a, role) \in Nat
           /\ a <= b => Keys(a, role) <= Keys(b, role)
BY DEF Keys

\* The next release, under the same root or under a new one, comes after all there are.
LEMMA Appended ==
    ASSUME TypeOK, ReleasesInOrder, roots <= roots', roots' \in Nat,
           releases' = Append(releases,
             [keys |-> [role \in Roles |-> Keys(roots', role)],
              version |-> [role \in Roles |->
                  IF releases[Newest].keys[role] = Keys(roots', role)
                  THEN Version(role, Newest) + 1 ELSE 1]])
    PROVE  /\ releases' \in Seq(Release) /\ Newest' = Newest + 1
           /\ \A n \in 1..Newest : releases'[n] = releases[n]
           /\ ReleasesInOrder'
<1> DEFINE keys == [role \in Roles |-> Keys(roots', role)]
           version == [role \in Roles |->
                  IF releases[Newest].keys[role] = Keys(roots', role)
                  THEN Version(role, Newest) + 1 ELSE 1]
           next == [keys |-> keys, version |-> version]
<1>1. Newest \in Nat /\ Newest >= 1 /\ roots \in Nat /\ \A n \in 1..Newest : releases[n] \in Release
  BY TufBounds DEF TypeOK, Newest
<1>2. /\ \A n \in 1..Newest : releases[n].keys \in [Roles -> Nat] /\ releases[n].version \in [Roles -> Nat]
      /\ \A n \in 1..Newest, role \in Roles : Key(role, n) \in Nat /\ Version(role, n) \in Nat
  BY <1>1 DEF Release, Key, Version
<1>3. keys \in [Roles -> Nat] /\ version \in [Roles -> Nat]
  <2>1. \A role \in Roles : Keys(roots', role) \in Nat
    BY KeysMonotone
  <2>2. \A role \in Roles : Version(role, Newest) + 1 \in Nat
    BY <1>1, <1>2
  <2> QED BY <2>1, <2>2
<1>4. next \in Release
  BY <1>3 DEF Release
<1>5. releases' = Append(releases, next) /\ releases \in Seq(Release)
  BY DEF TypeOK
<1> HIDE DEF next
<1>6. /\ releases' \in Seq(Release) /\ Len(releases') = Newest + 1
      /\ \A n \in 1..Newest : releases'[n] = releases[n]
      /\ releases'[Newest + 1] = next
  BY <1>1, <1>4, <1>5 DEF Newest
<1>7. ReleasesInOrder'
  <2> SUFFICES ASSUME NEW role \in Roles, NEW k \in 1..Newest + 1, NEW n \in 1..Newest + 1
               PROVE  /\ Key(role, n)' <= Keys(roots', role)
                      /\ k < n => Key(role, k)' <= Key(role, n)'
                      /\ k < n /\ Key(role, k)' = Key(role, n)' => Version(role, k)' < Version(role, n)'
    BY <1>6 DEF ReleasesInOrder, Newest, Keys
  <2>0. PICK N \in Nat : N = Newest
    BY <1>1
  <2>1. \A i \in 1..N : Key(role, i)' = Key(role, i) /\ Version(role, i)' = Version(role, i)
    BY <1>6, <2>0 DEF Key, Version
  <2>2. /\ Key(role, N + 1)' = Keys(roots', role)
        /\ Version(role, N + 1)' =
               IF Key(role, N) = Keys(roots', role) THEN Version(role, N) + 1 ELSE 1
    BY <1>6, <2>0 DEF Key, Version, next
  <2>3. \A i \in 1..N : Key(role, i) <= Keys(roots', role)
    <3>1. Keys(roots, role) <= Keys(roots', role) /\ Keys(roots, role) \in Nat /\ Keys(roots', role) \in Nat
      BY <1>1, KeysMonotone
    <3>2. \A i \in 1..N : Key(role, i) <= Keys(roots, role)
      BY <2>0 DEF ReleasesInOrder
    <3> QED BY <1>2, <2>0, <3>1, <3>2
  <2>4. Keys(roots', role) \in Nat
    BY KeysMonotone
  <2>5. CASE n \in 1..N
    <3>1. k < n => k \in 1..N
      BY <2>0, <2>5
    <3> QED BY <2>0, <2>1, <2>3, <2>5, <3>1 DEF ReleasesInOrder
  <2>6. CASE n = N + 1
    <3>1. CASE k = N + 1
      BY <2>2, <2>4, <2>6, <3>1, <2>0
    <3>2. CASE k \in 1..N
      <4>1. Key(role, n)' = Keys(roots', role) /\ Key(role, k)' = Key(role, k)
            /\ Version(role, k)' = Version(role, k)
        BY <2>1, <2>2, <2>6, <3>2
      <4>2. Key(role, k) <= Keys(roots', role)
        BY <2>3, <3>2
      <4>3. ASSUME Key(role, k) = Keys(roots', role) PROVE Version(role, k) < Version(role, n)'
        <5>1. N \in 1..N
          BY <1>1, <2>0
        <5>2. Key(role, k) <= Key(role, N)
          BY <1>1, <1>2, <2>0, <3>2, <5>1 DEF ReleasesInOrder
        <5>3. Key(role, N) = Keys(roots', role)
          BY <1>2, <2>0, <2>3, <2>4, <4>3, <5>1, <5>2
        <5>4. k = N \/ Version(role, k) < Version(role, N)
          BY <1>1, <2>0, <3>2, <4>3, <5>1, <5>3 DEF ReleasesInOrder
        <5>5. Version(role, n)' = Version(role, N) + 1
          BY <2>2, <2>6, <5>3
        <5> QED BY <1>2, <2>0, <3>2, <5>1, <5>4, <5>5
      <4> QED BY <2>4, <4>1, <4>2, <4>3
    <3> QED BY <2>0, <3>1, <3>2
  <2> QED BY <2>0, <2>5, <2>6
<1> QED BY <1>6, <1>7 DEF Newest

\* The kinds of what a key or a version is.
LEMMA KeyNat ==
    ASSUME TypeOK, NEW role \in Roles, NEW n \in 1..Newest
    PROVE  Key(role, n) \in Nat /\ Version(role, n) \in Nat
<1>1. releases[n] \in Release
  BY DEF TypeOK, Newest
<1> QED BY <1>1 DEF Release, Key, Version

-----------------------------------------------------------------------------
(* Types.                                                                  *)

\* At the start nothing is kept.
LEMMA Init_Inv == ASSUME Init PROVE IInv
<1>1. Anchor \in Nat /\ Anchor >= 1 /\ Anchor \in 1..MaxRoots
  BY TufBounds
<1>2. [keys |-> [role \in Roles |-> Keys(Anchor, role)], version |-> [role \in Roles |-> 1]] \in Release
  BY <1>1, KeysMonotone DEF Release
<1>3. releases \in Seq(Release) /\ Newest = 1
  BY <1>2 DEF Init, Newest
<1>4. TypeOK
  BY <1>1, <1>3, TufBounds DEF Init, TypeOK, Documents
<1>5. ReleasesInOrder
  <2>1. \A role \in Roles : Key(role, 1) = Keys(roots, role) /\ Keys(roots, role) \in Nat
    BY <1>1, KeysMonotone DEF Init, Key
  <2> QED BY <1>3, <2>1 DEF ReleasesInOrder
<1>6. KeptInv
  BY DEF Init, KeptInv, RootKept, KeptWasSigned, WasSigned, TrustsKept, SnapshotBehind, HeldSoFar
<1> QED BY <1>4, <1>5, <1>6 DEF IInv

\* Types across the repository's steps: what is kept is of a release there was.
LEMMA Repository_Types ==
    ASSUME TypeOK, releases' \in Seq(Release), Newest' \in Newest..MaxReleases,
           roots' \in roots..MaxRoots, expired' \in Nat, UNCHANGED <<kept, client, at, crashes>>
    PROVE  TypeOK'
<1>1. Newest \in Nat /\ Newest' \in Nat /\ roots \in Nat /\ roots' \in Nat /\ Anchor \in Nat
  BY TufBounds DEF TypeOK
<1>2. Documents \subseteq Documents' /\ 1..roots \subseteq 1..roots' /\ Anchor..roots \subseteq Anchor..roots'
  BY <1>1 DEF Documents
<1>3. Newest' \in 1..MaxReleases /\ roots' \in Anchor..MaxRoots
  BY <1>1, TufBounds DEF TypeOK
<1>4. kept' \in [root : 1..roots' \cup {None}, timestamp : Documents', snapshot : Documents',
                 targets : Documents']
  BY <1>2 DEF TypeOK
<1> QED BY <1>2, <1>3, <1>4 DEF TypeOK

\* Types across a refresh's steps.
LEMMA Refresh_Types ==
    ASSUME TypeOK, UNCHANGED <<releases, roots, expired>>, crashes' \in Nat,
           kept' \in [root : 1..roots \cup {None}, timestamp : Documents, snapshot : Documents,
                      targets : Documents],
           \/ client' = None /\ at' = "idle"
           \/ /\ client' \in Client
              /\ {client'.root, client'.original} \subseteq Anchor..roots
              /\ {client'.timestamp, client'.snapshot, client'.targets} \subseteq Documents
              /\ at' \in {"root", "forget", "timestamp", "snapshot", "targets"}
    PROVE  TypeOK'
<1>1. Documents' = Documents /\ Newest' = Newest
  BY DEF Documents, Newest
<1> QED BY <1>1, NoneAssumption DEF TypeOK

\* A client that is there, and what it trusts.
LEMMA ClientKinds ==
    ASSUME TypeOK, at # "idle"
    PROVE  /\ client \in Client /\ client # None
           /\ client.root \in Anchor..roots /\ client.original \in Anchor..roots
           /\ client.timestamp \in Documents /\ client.snapshot \in Documents
           /\ client.targets \in Documents
           /\ client.root \in Nat /\ roots \in Nat
BY TufBounds DEF TypeOK

\* What is kept, by its fields, and the root it gives.
LEMMA KeptKinds ==
    ASSUME TypeOK
    PROVE  /\ kept.root \in 1..roots \cup {None}
           /\ kept.timestamp \in Documents /\ kept.snapshot \in Documents /\ kept.targets \in Documents
           /\ Root \in Anchor..roots /\ Root \in Nat /\ roots \in Nat /\ Anchor \in Nat
<1>1. kept.root \in 1..roots \cup {None}
  BY DEF TypeOK
<1>2. roots \in Anchor..MaxRoots /\ Anchor \in 1..MaxRoots /\ MaxRoots \in Nat
  BY TufBounds DEF TypeOK
<1>3. Root \in Anchor..roots
  BY <1>1, <1>2 DEF Root
<1> QED BY <1>1, <1>2, <1>3 DEF TypeOK

-----------------------------------------------------------------------------
(* The repository's steps.                                                 *)

\* What the repository does leaves what the client keeps.
LEMMA Repository_Kept ==
    ASSUME TypeOK, KeptInv, UNCHANGED <<kept, client, at>>,
           \A n \in 1..Newest : releases'[n] = releases[n]
    PROVE  KeptInv'
<1>1. \A role, n : n \in Documents /\ n # None => Key(role, n)' = Key(role, n)
  BY DEF Documents, Key
<1>2. Root' = Root
  BY DEF Root
<1>3. KeptWasSigned'
  BY <1>1, <1>2, KeptKinds DEF KeptInv, KeptWasSigned, WasSigned, Keys
<1>4. TrustsKept'
  BY <1>1, KeptKinds DEF KeptInv, TrustsKept, Trusts, Keys
<1> QED BY <1>2, <1>3, <1>4 DEF KeptInv, RootKept, SnapshotBehind, HeldSoFar

\* The repository keeps the invariant: releases come in order.
LEMMA Repository_Inv ==
    ASSUME IInv, Publish \/ Rotate \/ Expire
    PROVE  IInv'
<1>1. CASE Publish \/ Rotate
  <2>1. /\ roots' \in roots..MaxRoots /\ roots \in Nat /\ roots' \in Nat /\ roots <= roots'
        /\ Newest < MaxReleases
    BY <1>1, TufBounds DEF IInv, TypeOK, Publish, Rotate
  <2>2. releases' = Append(releases,
             [keys |-> [role \in Roles |-> Keys(roots', role)],
              version |-> [role \in Roles |->
                  IF releases[Newest].keys[role] = Keys(roots', role)
                  THEN Version(role, Newest) + 1 ELSE 1]])
    BY <1>1 DEF Publish, Rotate
  <2>3. /\ releases' \in Seq(Release) /\ Newest' = Newest + 1
        /\ \A n \in 1..Newest : releases'[n] = releases[n]
        /\ ReleasesInOrder'
    BY <2>1, <2>2, Appended DEF IInv
  <2>4. UNCHANGED <<expired, kept, client, at, crashes>>
    BY <1>1 DEF Publish, Rotate
  <2>5. Newest' \in Newest..MaxReleases
    BY <2>1, <2>3, TufBounds DEF IInv, TypeOK
  <2>6. TypeOK'
    BY <2>1, <2>3, <2>4, <2>5, Repository_Types DEF IInv, TypeOK
  <2> QED BY <2>3, <2>4, <2>6, Repository_Kept DEF IInv
<1>2. CASE Expire
  <2>1. UNCHANGED <<releases, roots, kept, client, at, crashes>> /\ expired' \in Nat
    BY <1>2 DEF IInv, TypeOK, Expire
  <2>2. TypeOK'
    BY <2>1 DEF IInv, TypeOK, Documents, Newest
  <2>3. ReleasesInOrder'
    BY <2>1 DEF IInv, ReleasesInOrder, Newest, Key, Version
  <2> QED BY <2>1, <2>2, <2>3, Repository_Kept DEF IInv
<1> QED BY <1>1, <1>2

-----------------------------------------------------------------------------
(* A refresh.                                                              *)

\* A step of the refresh leaves the releases in order.
LEMMA Refresh_Order ==
    ASSUME ReleasesInOrder, UNCHANGED <<releases, roots>> PROVE ReleasesInOrder'
BY DEF ReleasesInOrder, Newest, Key, Version, Keys

\* A refresh that ends leaves what was kept.
LEMMA Ends_Inv ==
    ASSUME IInv, Ends, UNCHANGED <<releases, roots, expired, kept>>, crashes' \in Nat
    PROVE  IInv'
<1>1. TypeOK'
  BY Refresh_Types DEF IInv, TypeOK, Ends
<1>2. KeptInv'
  BY DEF IInv, Ends, KeptInv, RootKept, KeptWasSigned, WasSigned, TrustsKept, Root, Key, Keys,
         SnapshotBehind, HeldSoFar
<1> QED BY <1>1, <1>2, Refresh_Order DEF IInv

\* Opening a client reads the root kept.
LEMMA Open_Inv == ASSUME IInv, Open PROVE IInv'
<1>1. /\ client' = Opened /\ at' = "root"
      /\ UNCHANGED <<releases, roots, expired, kept, crashes>>
  BY DEF Open
<1> DEFINE trusted(role, held) ==
              IF held # None /\ Signed(Root, role, held) THEN held ELSE None
<1>2. Opened = [root |-> Root, original |-> Root,
                timestamp |-> trusted("timestamp", kept.timestamp),
                snapshot |-> trusted("snapshot", kept.snapshot),
                targets |-> trusted("targets", kept.targets)]
  BY DEF Opened, Root
<1>3. \A role : \A held \in Documents : trusted(role, held) \in Documents
  BY DEF Documents
<1>4. \A held \in Documents : held \in Nat \cup {None}
  BY DEF Documents
<1>5. TypeOK'
  <2>1. /\ trusted("timestamp", kept.timestamp) \in Documents
        /\ trusted("snapshot", kept.snapshot) \in Documents
        /\ trusted("targets", kept.targets) \in Documents
    BY <1>3, KeptKinds DEF IInv
  <2> HIDE DEF trusted
  <2>2. client' \in Client
    BY <1>1, <1>2, <1>4, <2>1, KeptKinds DEF IInv, Client
  <2>3. /\ client'.root = Root /\ client'.original = Root
        /\ client'.timestamp \in Documents /\ client'.snapshot \in Documents
        /\ client'.targets \in Documents
    BY <1>1, <1>2, <2>1
  <2> QED BY <1>1, <2>2, <2>3, KeptKinds, Refresh_Types DEF IInv, TypeOK
<1>6. Root' = Root
  BY <1>1 DEF Root
<1>7. RootKept'
  BY <1>1, <1>2, <1>6 DEF RootKept
<1>8. KeptWasSigned'
  BY <1>1, <1>6 DEF IInv, KeptInv, KeptWasSigned, WasSigned, Key, Keys
<1>9. ASSUME NEW role \in Roles, NEW held \in Documents, WasSigned(role, held)
      PROVE  \/ trusted(role, held) = held
             \/ trusted(role, held) = None /\ held # None /\ Key(role, held) < Keys(Root, role)
  <2>1. CASE held # None /\ ~Signed(Root, role, held)
    <3>1. Key(role, held) \in Nat /\ Keys(Root, role) \in Nat
      BY <2>1, <1>9, KeyNat, KeysMonotone, KeptKinds DEF IInv, Documents
    <3>2. Key(role, held) <= Keys(Root, role) /\ Key(role, held) # Keys(Root, role)
      BY <1>9, <2>1 DEF WasSigned, Signed, Key
    <3> QED BY <2>1, <3>1, <3>2
  <2> QED BY <2>1
<1>10. TrustsKept'
  <2> HIDE DEF trusted
  <2>1. /\ client'.root = Root /\ client'.timestamp = trusted("timestamp", kept.timestamp)
        /\ client'.snapshot = trusted("snapshot", kept.snapshot)
        /\ client'.targets = trusted("targets", kept.targets)
    BY <1>1, <1>2
  <2>2. /\ WasSigned("timestamp", kept.timestamp) /\ WasSigned("snapshot", kept.snapshot)
        /\ WasSigned("targets", kept.targets)
    BY DEF IInv, KeptInv, KeptWasSigned
  <2> QED BY <1>1, <1>9, <2>1, <2>2, KeptKinds
             DEF IInv, TrustsKept, Trusts, Roles, Key, Keys
<1>11. SnapshotBehind' /\ HeldSoFar'
  BY <1>1 DEF IInv, KeptInv, SnapshotBehind, HeldSoFar
<1> QED BY <1>1, <1>5, <1>7, <1>8, <1>10, <1>11, Refresh_Order DEF IInv, KeptInv

\* A newer root is kept before it is used.
LEMMA NextRoot_Inv == ASSUME IInv, NextRoot PROVE IInv'
<1>1. /\ at = "root" /\ client.root < roots
      /\ client' = [client EXCEPT !.root = client.root + 1]
      /\ kept' = [kept EXCEPT !.root = client.root + 1]
      /\ UNCHANGED <<releases, roots, expired, at, crashes>>
  BY DEF NextRoot
<1>2. /\ client \in Client /\ client.root \in Anchor..roots /\ client.root \in Nat
      /\ roots \in Nat /\ client.root = Root
  BY <1>1, ClientKinds DEF IInv, KeptInv, RootKept
<1>3. /\ client' \in Client /\ client'.root = client.root + 1
      /\ client'.original = client.original /\ client'.timestamp = client.timestamp
      /\ client'.snapshot = client.snapshot /\ client'.targets = client.targets
  BY <1>1, <1>2 DEF Client
<1>4. /\ kept'.root = client.root + 1 /\ kept'.timestamp = kept.timestamp
      /\ kept'.snapshot = kept.snapshot /\ kept'.targets = kept.targets
      /\ kept' \in [root : 1..roots \cup {None}, timestamp : Documents, snapshot : Documents,
                    targets : Documents]
  <2>1. client.root + 1 \in 1..roots
    BY <1>1, <1>2, TufBounds
  <2>2. kept \in [root : 1..roots \cup {None}, timestamp : Documents, snapshot : Documents,
                 targets : Documents]
    BY DEF IInv, TypeOK
  <2> QED BY <1>1, <2>1, <2>2
<1>5. TypeOK'
  BY <1>1, <1>2, <1>3, <1>4, ClientKinds, TufBounds, Refresh_Types DEF IInv, TypeOK
<1>6. Root' = Root + 1
  BY <1>2, <1>4, NoneAssumption, TufBounds DEF Root
<1>7. \A role \in Roles : Keys(Root, role) <= Keys(Root', role)
                            /\ Keys(Root, role) \in Nat /\ Keys(Root', role) \in Nat
  BY <1>2, <1>6, KeysMonotone
<1>8. ASSUME NEW role \in Roles, NEW held \in Documents
      PROVE  /\ held # None /\ WasSigned(role, held) => Key(role, held)' <= Keys(Root', role)
             /\ held # None /\ Key(role, held) < Keys(Root, role) => Key(role, held)' < Keys(Root', role)
  <2> SUFFICES ASSUME held # None
               PROVE  /\ WasSigned(role, held) => Key(role, held)' <= Keys(Root', role)
                      /\ Key(role, held) < Keys(Root, role) => Key(role, held)' < Keys(Root', role)
    OBVIOUS
  <2>1. Key(role, held)' = Key(role, held) /\ Key(role, held) \in Nat
    BY <1>1, KeyNat DEF IInv, Key, Documents
  <2> QED BY <1>7, <2>1 DEF WasSigned
<1>9. KeptWasSigned'
  BY <1>4, <1>8, KeptKinds DEF IInv, KeptInv, KeptWasSigned, WasSigned, Roles, Keys
<1>10. TrustsKept'
  BY <1>1, <1>2, <1>3, <1>4, <1>6, <1>8, KeptKinds, NoneAssumption
     DEF IInv, TypeOK, KeptInv, TrustsKept, Trusts, Roles, Keys
<1>11. RootKept' /\ SnapshotBehind' /\ HeldSoFar'
  BY <1>1, <1>2, <1>3, <1>4, <1>6 DEF IInv, KeptInv, RootKept, SnapshotBehind, HeldSoFar
<1> QED BY <1>1, <1>5, <1>9, <1>10, <1>11, Refresh_Order DEF IInv, KeptInv

\* With no newer root the refresh goes on.
LEMMA LastRoot_Inv == ASSUME IInv, LastRoot PROVE IInv'
<1>1. /\ at = "root" /\ at' = "forget"
      /\ UNCHANGED <<releases, roots, expired, kept, client, crashes>>
  BY DEF LastRoot
<1>2. TypeOK'
  BY <1>1 DEF IInv, TypeOK, Documents, Newest
<1>3. KeptInv'
  BY <1>1 DEF IInv, KeptInv, RootKept, KeptWasSigned, WasSigned, TrustsKept, Trusts, Root, Key,
              Keys, SnapshotBehind, HeldSoFar
<1> QED BY <1>1, <1>2, <1>3, Refresh_Order DEF IInv

\* What rotated keys signed is forgotten.
LEMMA Forget_Inv == ASSUME IInv, Forget PROVE IInv'
<1>1. at = "forget" /\ at' = "timestamp" /\ UNCHANGED <<releases, roots, expired, crashes>>
  BY DEF Forget
<1>2. client \in Client /\ client # None
  BY <1>1, ClientKinds DEF IInv
<1>3. CASE UNCHANGED <<client, kept>>
  <2>1. TypeOK'
    BY <1>1, <1>3 DEF IInv, TypeOK, Documents, Newest
  <2>2. KeptInv'
    BY <1>1, <1>3 DEF IInv, KeptInv, RootKept, KeptWasSigned, WasSigned, TrustsKept, Trusts, Root,
                      Key, Keys, SnapshotBehind, HeldSoFar
  <2> QED BY <1>1, <2>1, <2>2, Refresh_Order DEF IInv
<1>4. CASE /\ client' = [client EXCEPT !.timestamp = None, !.snapshot = None]
           /\ kept' = [kept EXCEPT !.timestamp = None, !.snapshot = None]
  <2>1. /\ client' \in Client /\ client' # None /\ client'.root = client.root
        /\ client'.original = client.original /\ client'.targets = client.targets
        /\ client'.timestamp = None /\ client'.snapshot = None
    BY <1>2, <1>4, NoneAssumption DEF Client
  <2>2. None \in Documents
    BY DEF Documents
  <2>3. /\ kept' \in [root : 1..roots \cup {None}, timestamp : Documents, snapshot : Documents,
                      targets : Documents]
        /\ kept'.root = kept.root /\ kept'.targets = kept.targets
        /\ kept'.timestamp = None /\ kept'.snapshot = None
    BY <1>4, <2>2 DEF IInv, TypeOK
  <2>4. TypeOK'
    BY <1>1, <2>1, <2>2, <2>3, ClientKinds, Refresh_Types DEF IInv, TypeOK
  <2>5. Root' = Root
    BY <2>3 DEF Root
  <2>6. KeptWasSigned'
    BY <1>1, <2>3, <2>5 DEF IInv, KeptInv, KeptWasSigned, WasSigned, Key, Keys
  <2>7. TrustsKept'
    BY <1>1, <1>2, <2>1, <2>3 DEF IInv, KeptInv, TrustsKept, Trusts, Key, Keys
  <2>8. RootKept' /\ SnapshotBehind' /\ HeldSoFar'
    BY <1>1, <1>2, <2>1, <2>3, <2>5 DEF IInv, KeptInv, RootKept, SnapshotBehind, HeldSoFar
  <2> QED BY <1>1, <2>4, <2>6, <2>7, <2>8, Refresh_Order DEF IInv, KeptInv
<1> QED BY <1>3, <1>4 DEF Forget

\* A timestamp that is taken is of a release no older than the one kept, whether that is
\* trusted still or signed with keys replaced since (TrustedMetadata's rollback checks).
LEMMA Timestamp_Later ==
    ASSUME IInv, at = "timestamp", NEW n \in 1..Newest,
           Signed(client.root, "timestamp", n), ~TimestampOlder(n), kept.timestamp # None
    PROVE  kept.timestamp \in 1..Newest /\ kept.timestamp <= n
<1>1. kept.timestamp \in 1..Newest /\ n \in Nat /\ kept.timestamp \in Nat
  BY KeptKinds DEF IInv, Documents
<1>2. client # None /\ client.root = Root /\ "timestamp" \in Roles
  BY ClientKinds DEF IInv, KeptInv, RootKept, Roles
<1>3. /\ Key("timestamp", n) = Keys(Root, "timestamp")
      /\ Key("timestamp", kept.timestamp) <= Keys(Root, "timestamp")
      /\ Key("timestamp", n) \in Nat /\ Key("timestamp", kept.timestamp) \in Nat
      /\ Version("timestamp", n) \in Nat /\ Version("timestamp", kept.timestamp) \in Nat
  BY <1>1, <1>2, KeyNat DEF IInv, KeptInv, KeptWasSigned, WasSigned, Signed, Key
<1>4. SUFFICES ASSUME n < kept.timestamp PROVE FALSE
  BY <1>1
<1>5. Key("timestamp", n) <= Key("timestamp", kept.timestamp)
  BY <1>1, <1>2, <1>4 DEF IInv, ReleasesInOrder
<1>6. Key("timestamp", n) = Key("timestamp", kept.timestamp)
  BY <1>3, <1>5
<1>7. Version("timestamp", n) < Version("timestamp", kept.timestamp)
  BY <1>1, <1>2, <1>4, <1>6 DEF IInv, ReleasesInOrder
<1>8. client.timestamp = kept.timestamp
  BY <1>2, <1>3, <1>6 DEF IInv, KeptInv, TrustsKept, Trusts
<1> QED BY <1>7, <1>8 DEF TimestampOlder

\* A timestamp is kept only if it is no older.
LEMMA Timestamp_Inv == ASSUME IInv, Timestamp PROVE IInv'
<1>1. at = "timestamp" /\ UNCHANGED <<releases, roots, expired, crashes>>
  BY DEF Timestamp
<1>2. CASE Fails
  BY <1>1, <1>2, Ends_Inv DEF IInv, TypeOK, Fails
<1>3. ASSUME NEW n \in Timestamps, Signed(client.root, "timestamp", n), ~TimestampOlder(n),
             client' = [client EXCEPT !.timestamp = n], kept' = [kept EXCEPT !.timestamp = n],
             at' = "snapshot"
      PROVE  IInv'
  <2>1. n \in 1..Newest /\ n \in Documents /\ n \in Nat /\ n # None
    BY <1>3, NoneAssumption DEF IInv, TypeOK, Timestamps, Documents
  <2>2. client \in Client /\ client # None
    BY <1>1, ClientKinds DEF IInv
  <2>3. /\ client' \in Client /\ client' # None /\ client'.root = client.root
        /\ client'.original = client.original /\ client'.targets = client.targets
        /\ client'.timestamp = n /\ client'.snapshot = client.snapshot
    BY <1>3, <2>1, <2>2, NoneAssumption DEF Client
  <2>4. /\ kept' \in [root : 1..roots \cup {None}, timestamp : Documents, snapshot : Documents,
                      targets : Documents]
        /\ kept'.root = kept.root /\ kept'.targets = kept.targets
        /\ kept'.timestamp = n /\ kept'.snapshot = kept.snapshot
    BY <1>3, <2>1 DEF IInv, TypeOK
  <2>5. TypeOK'
    BY <1>1, <1>3, <2>1, <2>3, <2>4, ClientKinds, Refresh_Types DEF IInv, TypeOK
  <2>6. Root' = Root
    BY <2>4 DEF Root
  <2>7. Key("timestamp", n) <= Keys(Root, "timestamp")
    <3>1. Key("timestamp", n) = Keys(Root, "timestamp")
      BY <1>3, <2>2 DEF IInv, KeptInv, RootKept, Signed, Key
    <3>2. Keys(Root, "timestamp") \in Nat
      BY KeptKinds, KeysMonotone DEF IInv
    <3> QED BY <3>1, <3>2
  <2>8. KeptWasSigned'
    BY <1>1, <2>4, <2>6, <2>7 DEF IInv, KeptInv, KeptWasSigned, WasSigned, Key, Keys
  <2>9. TrustsKept'
    BY <1>1, <2>2, <2>3, <2>4 DEF IInv, KeptInv, TrustsKept, Trusts, Key, Keys
  <2>10. SnapshotBehind'
    <3>1. CASE kept.snapshot = None
      BY <2>4, <3>1 DEF SnapshotBehind
    <3>2. CASE kept.snapshot # None
      <4>1. kept.timestamp # None /\ kept.snapshot <= kept.timestamp
        BY <3>2 DEF IInv, KeptInv, SnapshotBehind
      <4>2. kept.timestamp <= n /\ kept.timestamp \in Nat
        BY <1>1, <1>3, <2>1, <4>1, Timestamp_Later
      <4>3. kept.snapshot \in Nat
        BY <3>2, KeptKinds DEF IInv, Documents
      <4> QED BY <2>1, <2>4, <4>1, <4>2, <4>3 DEF SnapshotBehind
    <3> QED BY <3>1, <3>2
  <2>11. RootKept' /\ HeldSoFar'
    BY <1>3, <2>1, <2>2, <2>3, <2>4, <2>6 DEF IInv, KeptInv, RootKept, HeldSoFar
  <2> QED BY <1>1, <2>5, <2>8, <2>9, <2>10, <2>11, Refresh_Order DEF IInv, KeptInv
<1> QED BY <1>2, <1>3 DEF Timestamp

\* A snapshot is kept only if it is the timestamp's.
LEMMA Snapshot_Inv == ASSUME IInv, Snapshot PROVE IInv'
<1>1. at = "snapshot" /\ UNCHANGED <<releases, roots, expired, crashes>>
  BY DEF Snapshot
<1>2. CASE Fails
  BY <1>1, <1>2, Ends_Inv DEF IInv, TypeOK, Fails
<1>3. ASSUME NEW n, n = client.timestamp, Signed(client.root, "snapshot", n),
             client' = [client EXCEPT !.snapshot = n], kept' = [kept EXCEPT !.snapshot = n],
             at' = "targets"
      PROVE  IInv'
  <2>1. /\ client.timestamp # None /\ client.timestamp = kept.timestamp
        /\ client \in Client /\ client # None
    BY <1>1, ClientKinds DEF IInv, KeptInv, HeldSoFar
  <2>2. n \in 1..Newest /\ n \in Documents /\ n \in Nat /\ n # None
    BY <1>3, <2>1, KeptKinds, NoneAssumption DEF IInv, TypeOK, Documents
  <2>3. /\ client' \in Client /\ client' # None /\ client'.root = client.root
        /\ client'.original = client.original /\ client'.targets = client.targets
        /\ client'.timestamp = n /\ client'.snapshot = n
    BY <1>3, <2>1, <2>2, NoneAssumption DEF Client
  <2>4. /\ kept' \in [root : 1..roots \cup {None}, timestamp : Documents, snapshot : Documents,
                      targets : Documents]
        /\ kept'.root = kept.root /\ kept'.targets = kept.targets
        /\ kept'.timestamp = n /\ kept'.snapshot = n
    BY <1>3, <2>1, <2>2 DEF IInv, TypeOK
  <2>5. TypeOK'
    BY <1>1, <1>3, <2>2, <2>3, <2>4, ClientKinds, Refresh_Types DEF IInv, TypeOK
  <2>6. Root' = Root
    BY <2>4 DEF Root
  <2>7. Key("snapshot", n) <= Keys(Root, "snapshot")
    <3>1. Key("snapshot", n) = Keys(Root, "snapshot")
      BY <1>3, <2>1 DEF IInv, KeptInv, RootKept, Signed, Key
    <3>2. Keys(Root, "snapshot") \in Nat
      BY KeptKinds, KeysMonotone DEF IInv
    <3> QED BY <3>1, <3>2
  <2>8. KeptWasSigned'
    BY <1>1, <1>3, <2>1, <2>4, <2>6, <2>7 DEF IInv, KeptInv, KeptWasSigned, WasSigned, Key, Keys
  <2>9. TrustsKept'
    BY <1>1, <2>1, <2>3, <2>4 DEF IInv, KeptInv, TrustsKept, Trusts, Key, Keys
  <2>10. SnapshotBehind'
    BY <2>2, <2>4 DEF SnapshotBehind
  <2>11. RootKept' /\ HeldSoFar'
    BY <1>3, <2>1, <2>2, <2>3, <2>4, <2>6 DEF IInv, KeptInv, RootKept, HeldSoFar
  <2> QED BY <1>1, <2>5, <2>8, <2>9, <2>10, <2>11, Refresh_Order DEF IInv, KeptInv
<1> QED BY <1>2, <1>3 DEF Snapshot

\* Targets that are kept are of the release whose timestamp and snapshot are.
LEMMA Targets_Kept ==
    ASSUME IInv, Targets, ~Fails
    PROVE  /\ kept' = [kept EXCEPT !.targets = client.snapshot] /\ Ends
           /\ client.snapshot \in 1..Newest /\ client.snapshot # None
           /\ client.snapshot = kept.timestamp /\ client.snapshot = kept.snapshot
           /\ client.snapshot > expired
           /\ Signed(client.root, "targets", client.snapshot)
           /\ client.targets # None =>
                 ~(Version("targets", client.snapshot) < Version("targets", client.targets))
<1>1. /\ client.timestamp # None /\ client.timestamp = kept.timestamp
      /\ client.snapshot = client.timestamp /\ kept.snapshot = client.snapshot
  BY DEF Targets, IInv, KeptInv, HeldSoFar
<1>2. client.snapshot \in 1..Newest
  BY <1>1, KeptKinds DEF IInv, Documents
<1> QED BY <1>1, <1>2 DEF Targets

\* Targets are kept only if they are the snapshot's.
LEMMA Targets_Inv == ASSUME IInv, Targets PROVE IInv'
<1>1. at = "targets" /\ UNCHANGED <<releases, roots, expired, crashes>>
  BY DEF Targets
<1>2. CASE Fails
  BY <1>1, <1>2, Ends_Inv DEF IInv, TypeOK, Fails
<1>3. CASE ~Fails
  <2> DEFINE n == client.snapshot
  <2>1. /\ kept' = [kept EXCEPT !.targets = n] /\ Ends /\ n \in 1..Newest /\ n # None
        /\ Signed(client.root, "targets", n)
    BY <1>3, Targets_Kept
  <2>2. client # None
    BY <1>1, ClientKinds DEF IInv
  <2> HIDE DEF n
  <2>3. n \in Documents
    BY <2>1 DEF Documents
  <2>4. /\ kept' \in [root : 1..roots \cup {None}, timestamp : Documents, snapshot : Documents,
                      targets : Documents]
        /\ kept'.root = kept.root /\ kept'.targets = n
        /\ kept'.timestamp = kept.timestamp /\ kept'.snapshot = kept.snapshot
    BY <2>1, <2>3 DEF IInv, TypeOK
  <2>5. TypeOK'
    BY <1>1, <2>1, <2>4, Refresh_Types DEF IInv, TypeOK, Ends
  <2>6. Root' = Root
    BY <2>4 DEF Root
  <2>7. Key("targets", n) <= Keys(Root, "targets")
    <3>1. Key("targets", n) = Keys(Root, "targets")
      BY <2>1, <2>2 DEF IInv, KeptInv, RootKept, Signed, Key
    <3>2. Keys(Root, "targets") \in Nat
      BY KeptKinds, KeysMonotone DEF IInv
    <3> QED BY <3>1, <3>2
  <2>8. KeptWasSigned'
    BY <1>1, <2>4, <2>6, <2>7 DEF IInv, KeptInv, KeptWasSigned, WasSigned, Key, Keys
  <2>9. RootKept' /\ TrustsKept' /\ SnapshotBehind' /\ HeldSoFar'
    BY <2>1, <2>4 DEF IInv, KeptInv, RootKept, TrustsKept, SnapshotBehind, HeldSoFar, Ends
  <2> QED BY <1>1, <2>5, <2>8, <2>9, Refresh_Order DEF IInv, KeptInv
<1> QED BY <1>2, <1>3

\* Every step keeps the invariant.
LEMMA Next_Inv == ASSUME IInv, [Next]_vars PROVE IInv'
<1>1. CASE Publish \/ Rotate \/ Expire BY <1>1, Repository_Inv
<1>2. CASE Open BY <1>2, Open_Inv
<1>3. CASE NextRoot BY <1>3, NextRoot_Inv
<1>4. CASE LastRoot BY <1>4, LastRoot_Inv
<1>5. CASE Forget BY <1>5, Forget_Inv
<1>6. CASE Timestamp BY <1>6, Timestamp_Inv
<1>7. CASE Snapshot BY <1>7, Snapshot_Inv
<1>8. CASE Targets BY <1>8, Targets_Inv
<1>9. CASE Lost \/ Crash
  <2>1. Ends /\ UNCHANGED <<releases, roots, expired, kept>> /\ crashes' \in Nat
    BY <1>9 DEF IInv, TypeOK, Lost, Crash, Fails
  <2> QED BY <2>1, Ends_Inv
<1>10. CASE UNCHANGED vars
  <2>1. UNCHANGED <<releases, roots, expired, kept, client, at, crashes>>
    BY <1>10 DEF vars
  <2>2. TypeOK'
    BY <2>1 DEF IInv, TypeOK, Documents, Newest
  <2>3. KeptInv'
    BY <2>1 DEF IInv, KeptInv, RootKept, KeptWasSigned, WasSigned, TrustsKept, Trusts, Root, Key,
                Keys, SnapshotBehind, HeldSoFar
  <2> QED BY <2>1, <2>2, <2>3, Refresh_Order DEF IInv
<1> QED BY <1>1, <1>2, <1>3, <1>4, <1>5, <1>6, <1>7, <1>8, <1>9, <1>10 DEF Next, Refreshing

-----------------------------------------------------------------------------
(* The theorems.                                                           *)

\* The inductive invariant holds of every behaviour.
THEOREM TufClient_Invariant == Spec => []IInv
<1>1. Init => IInv
  BY Init_Inv
<1>2. IInv /\ [Next]_vars => IInv'
  BY Next_Inv
<1> QED BY <1>1, <1>2, PTL DEF Spec

\* The store's metadata keeps its types: what is kept is of a release that was made.
THEOREM TufClient_TypeOK == Spec => []TypeOK
BY TufClient_Invariant, PTL DEF IInv

\* A role's document kept gives way to an older version only under other keys.
NotBack(role, held, new) ==
    held # None /\ new # None /\ new # held /\ releases[held].keys[role] = releases'[new].keys[role]
        => releases'[new].version[role] >= releases[held].version[role]

\* Of two releases with the same keys of a role, the later has the later version.
LEMMA Later_NotBack ==
    ASSUME IInv, UNCHANGED releases, NEW role \in Roles, NEW m \in 1..Newest, NEW n \in 1..Newest, m <= n
    PROVE  NotBack(role, m, n)
<1>1. Version(role, m) \in Nat /\ Version(role, n) \in Nat
  BY KeyNat DEF IInv
<1>2. m < n /\ Key(role, m) = Key(role, n) => Version(role, m) < Version(role, n)
  BY DEF IInv, ReleasesInOrder
<1> QED BY <1>1, <1>2 DEF NotBack, Key, Version

\* The root kept never goes back, nor does a role's document under the same keys, though a
\* mirror lags, the service stops between two files, or the timestamp is forgotten.
THEOREM TufClient_NoRollback == Spec => NoRollback
<1> DEFINE Forward ==
       /\ kept.root # None => kept'.root >= kept.root
       /\ \A role \in Roles :
            (kept[role] # None /\ kept'[role] # None /\ kept'[role] # kept[role]
               /\ releases[kept[role]].keys[role] = releases'[kept'[role]].keys[role])
            => releases'[kept'[role]].version[role] >= releases[kept[role]].version[role]
<1>1. ASSUME kept.root # None => kept'.root >= kept.root,
             NotBack("timestamp", kept.timestamp, kept'.timestamp),
             NotBack("snapshot", kept.snapshot, kept'.snapshot),
             NotBack("targets", kept.targets, kept'.targets)
      PROVE  Forward
  BY <1>1 DEF Roles, NotBack
<1>2. ASSUME IInv, [Next]_vars PROVE Forward
  <2> USE <1>2
  <2>1. kept.root # None => kept.root >= kept.root
    BY KeptKinds DEF IInv
  <2>2. CASE UNCHANGED kept
    BY <1>1, <2>1, <2>2 DEF NotBack
  <2>3. CASE NextRoot
    <3>1. /\ kept'.timestamp = kept.timestamp /\ kept'.snapshot = kept.snapshot
          /\ kept'.targets = kept.targets /\ kept'.root = client.root + 1
      BY <2>3 DEF IInv, TypeOK, NextRoot
    <3>2. client.root = Root /\ client.root \in Nat
      BY <2>3, ClientKinds DEF IInv, KeptInv, RootKept, NextRoot
    <3>3. kept.root # None => kept.root <= Root /\ kept.root \in Nat
      BY KeptKinds, TufBounds DEF IInv, Root
    <3> QED BY <1>1, <3>1, <3>2, <3>3 DEF NotBack
  <2>4. CASE Forget
    <3>1. /\ kept'.timestamp \in {kept.timestamp, None} /\ kept'.snapshot \in {kept.snapshot, None}
          /\ kept'.targets = kept.targets /\ kept'.root = kept.root
      BY <2>4 DEF IInv, TypeOK, Forget
    <3> QED BY <1>1, <2>1, <3>1 DEF NotBack
  <2>5. ASSUME NEW n \in Timestamps, Signed(client.root, "timestamp", n), ~TimestampOlder(n),
               kept' = [kept EXCEPT !.timestamp = n], at = "timestamp", UNCHANGED releases
        PROVE  Forward
    <3>1. /\ kept'.timestamp = n /\ kept'.snapshot = kept.snapshot
          /\ kept'.targets = kept.targets /\ kept'.root = kept.root
      BY <2>5 DEF IInv, TypeOK
    <3>2. n \in 1..Newest
      BY DEF IInv, TypeOK, Timestamps
    <3>3. kept.timestamp # None => NotBack("timestamp", kept.timestamp, n)
      BY <2>5, <3>2, Timestamp_Later, Later_NotBack DEF Roles
    <3> QED BY <1>1, <2>1, <3>1, <3>3 DEF NotBack
  <2>6. ASSUME Snapshot, ~UNCHANGED kept PROVE Forward
    <3>1. /\ kept' = [kept EXCEPT !.snapshot = client.timestamp] /\ UNCHANGED releases
          /\ at = "snapshot"
      BY <2>6 DEF Snapshot, Fails
    <3>2. /\ kept'.timestamp = kept.timestamp /\ kept'.snapshot = kept.timestamp
          /\ kept'.targets = kept.targets /\ kept'.root = kept.root
      BY <3>1 DEF IInv, TypeOK, KeptInv, HeldSoFar
    <3>3. kept.snapshot # None => NotBack("snapshot", kept.snapshot, kept.timestamp)
      BY <3>1, KeptKinds, Later_NotBack DEF IInv, KeptInv, SnapshotBehind, Documents, Roles
    <3> QED BY <1>1, <2>1, <3>2, <3>3 DEF NotBack
  <2>7. ASSUME Targets, ~UNCHANGED kept PROVE Forward
    <3>1. ~Fails /\ UNCHANGED releases /\ at = "targets"
      BY <2>7 DEF Targets, Fails
    <3> DEFINE n == client.snapshot
    <3>2. /\ kept' = [kept EXCEPT !.targets = n] /\ n \in 1..Newest /\ n # None
          /\ Signed(client.root, "targets", n)
          /\ client.targets # None => ~(Version("targets", n) < Version("targets", client.targets))
      BY <2>7, <3>1, Targets_Kept
    <3>3. client # None
      BY <3>1, ClientKinds DEF IInv
    <3> HIDE DEF n
    <3>4. /\ kept'.timestamp = kept.timestamp /\ kept'.snapshot = kept.snapshot
          /\ kept'.targets = n /\ kept'.root = kept.root
      BY <3>2 DEF IInv, TypeOK
    <3>5. ASSUME kept.targets # None PROVE NotBack("targets", kept.targets, n)
      <4>1. kept.targets \in 1..Newest /\ "targets" \in Roles
        BY <3>5, KeptKinds DEF IInv, Documents, Roles
      <4>2. /\ Key("targets", n) = Keys(client.root, "targets") /\ Key("targets", n) \in Nat
            /\ Version("targets", n) \in Nat /\ Version("targets", kept.targets) \in Nat
            /\ Key("targets", kept.targets) \in Nat
        BY <3>2, <4>1, KeyNat DEF IInv, Signed, Key
      <4>3. CASE client.targets = kept.targets
        BY <3>1, <3>2, <3>5, <4>2, <4>3 DEF NotBack, Version
      <4>4. CASE Key("targets", kept.targets) < Keys(client.root, "targets")
        <5>1. Key("targets", kept.targets) # Key("targets", n)
          BY <4>2, <4>4
        <5> QED BY <3>1, <5>1 DEF NotBack, Key
      <4> QED BY <3>3, <4>3, <4>4 DEF IInv, KeptInv, TrustsKept, Trusts
    <3> QED BY <1>1, <2>1, <3>4, <3>5 DEF NotBack
  <2> QED BY <2>2, <2>3, <2>4, <2>5, <2>6, <2>7
          DEF Next, Refreshing, Publish, Rotate, Expire, Open, LastRoot, Timestamp, Lost, Crash,
              Fails, vars
<1>3. IInv /\ [Next]_vars => [Forward]_vars
  BY <1>2
<1> QED BY <1>3, TufClient_Invariant, PTL DEF Spec, NoRollback

\* Targets are kept only beside the timestamp and the snapshot of their own release, which has
\* not expired.
THEOREM TufClient_KeptIsRelease == Spec => KeptIsRelease
<1> DEFINE Whole == kept'.targets # kept.targets =>
                      /\ kept'.timestamp = kept'.targets /\ kept'.snapshot = kept'.targets
                      /\ kept'.targets > expired
<1>1. ASSUME IInv, [Next]_vars PROVE Whole
  <2>1. CASE Targets
    <3>1. CASE Fails
      BY <3>1 DEF Fails
    <3>2. CASE ~Fails
      <4>1. /\ kept' = [kept EXCEPT !.targets = client.snapshot]
            /\ client.snapshot = kept.timestamp /\ client.snapshot = kept.snapshot
            /\ client.snapshot > expired
        BY <1>1, <2>1, <3>2, Targets_Kept
      <4> QED BY <1>1, <4>1 DEF IInv, TypeOK
    <3> QED BY <3>1, <3>2
  <2>2. CASE ~Targets
    <3>1. kept'.targets = kept.targets
      BY <1>1, <2>2 DEF IInv, TypeOK, Next, Refreshing, Publish, Rotate, Expire, Open, NextRoot,
         LastRoot, Forget, Timestamp, Snapshot, Lost, Crash, Fails, vars
    <3> QED BY <3>1
  <2> QED BY <2>1, <2>2
<1>2. IInv /\ [Next]_vars => [Whole]_vars
  BY <1>1
<1> QED BY <1>2, TufClient_Invariant, PTL DEF Spec, KeptIsRelease
=============================================================================
