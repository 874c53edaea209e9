-------------------------- MODULE AccountSnapshots --------------------------
(***************************************************************************)
(* What the accounts' service tells a session's applications of their      *)
(* account (crates/oxyos-account/src/platform.rs, session.rs): a snapshot  *)
(* read from the account's file with no lock held, its revision given      *)
(* under the lock of what is live, and subscribers woken on every change.  *)
(*                                                                         *)
(* A change is the file's, then its revision, then the waking: other       *)
(* threads run between them.  The online calls of the account are one at a *)
(* time (AccountPlatform), a setup is not one of them.                     *)
(***************************************************************************)
EXTENDS Naturals

CONSTANTS Subscribers,
          MaxChanges,  \* bound on the account's changes
          SetUpAgain,  \* whether the account is set up while a session of it runs
          None

SnapshotBounds == /\ MaxChanges \in Nat /\ SetUpAgain \in BOOLEAN
                  /\ None \notin Nat \cup {"signed_in", "signed_out"}

VARIABLES
    file,      \* the account's file: none, ready, or out (its credential forgotten)
    profile,   \* what it says of the account
    online,    \* Live.online
    counter,   \* Platform.revision
    revision,  \* Live.revision, once the account is live
    identity,  \* Live.identity
    caller,    \* what is left of the change being made
    woken,     \* subscribers whose waker is written
    at,        \* what each subscriber's thread does
    read,      \* the file as its thread read it
    sent,      \* the snapshot it was last told
    changes

changeVars == <<counter, revision, identity>>
toldVars   == <<woken, at, read, sent>>
vars == <<file, profile, online, changeVars, caller, toldVars, changes>>

Status(f) == IF f = "ready" THEN "signed_in" ELSE "signed_out"
Watching == {s \in Subscribers : at[s] # "gone"}

Change == changes < MaxChanges /\ changes' = changes + 1 /\ caller = "idle"

----------------------------------------------------------------------------
(* Changes.                                                                *)

(* The account is signed out: revoked or removed.  The file first.         *)
Forget ==
    /\ Change /\ file = "ready"
    /\ file' = "out" /\ caller' = "switching"
    /\ UNCHANGED <<profile, online, changeVars, toldVars>>

Switched ==
    /\ caller = "switching"
    /\ counter' = counter + 1 /\ revision' = counter' /\ identity' = None
    /\ caller' = "waking"
    /\ UNCHANGED <<file, profile, online, toldVars, changes>>

(* update_profile: the file, then its subscribers.                         *)
UpdateProfile ==
    /\ Change /\ file = "ready"
    /\ profile' = 1 - profile /\ caller' = "waking"
    /\ UNCHANGED <<file, online, changeVars, toldVars>>

(* reached: whether the last call reached Oxy.                             *)
Reached ==
    /\ Change
    /\ online' = ~online /\ caller' = "waking"
    /\ UNCHANGED <<file, profile, changeVars, toldVars>>

Changed ==
    /\ caller = "waking"
    /\ woken' = woken \cup Watching /\ caller' = "idle"
    /\ UNCHANGED <<file, profile, online, changeVars, at, read, sent, changes>>

(* commit: the account set up again.                                       *)
SetUp ==
    /\ SetUpAgain /\ changes < MaxChanges /\ changes' = changes + 1
    /\ file' = "ready" /\ profile' \in {0, 1}
    /\ UNCHANGED <<online, changeVars, caller, toldVars>>

(* finish_removal: the user's processes have gone, subscribers with them.  *)
FinishRemoval ==
    /\ Change /\ file = "out" /\ Watching = {}
    /\ file' = "none" /\ revision' = None /\ identity' = None
    /\ UNCHANGED <<profile, online, counter, caller, toldVars>>

----------------------------------------------------------------------------
(* A subscriber's thread (subscribed).                                     *)

Subscribe(s) ==
    /\ at[s] = "gone" /\ file # "none"
    /\ at' = [at EXCEPT ![s] = "reading"]
    /\ woken' = woken \ {s} /\ sent' = [sent EXCEPT ![s] = None]
    /\ UNCHANGED <<file, profile, online, changeVars, caller, read, changes>>

(* snapshot: the file is read with no lock held.                           *)
ReadFile(s) ==
    /\ at[s] = "reading"
    /\ read' = [read EXCEPT ![s] = [file |-> file, profile |-> profile]]
    /\ at' = [at EXCEPT ![s] = "telling"]
    /\ UNCHANGED <<file, profile, online, changeVars, caller, woken, sent, changes>>

(* A mistake: a snapshot of another status keeps the revision there was.   *)
IdentifiedOnce(status) ==
    /\ identity' = status /\ UNCHANGED counter
    /\ revision' = (IF revision = None THEN counter ELSE revision)

(* The revision a status is told under: a new one when the last snapshot   *)
(* made was of another.                                                    *)
Identified(status) ==
    /\ identity' = status
    /\ IF identity \notin {None, status}
         THEN counter' = counter + 1 /\ revision' = counter'
         ELSE revision' = (IF revision = None THEN counter ELSE revision) /\ UNCHANGED counter

(* The rest of snapshot, and its telling if it says something new.         *)
Tell(s) ==
    /\ at[s] = "telling"
    /\ LET status == Status(read[s].file)
           now(rev) == [status |-> status, online |-> online, revision |-> rev,
                        profile |-> IF read[s].file = "ready" THEN read[s].profile ELSE None]
       IN  IF read[s].file = "none"
             THEN sent' = [sent EXCEPT ![s] = now(counter)] /\ UNCHANGED changeVars
             ELSE Identified(status) /\ sent' = [sent EXCEPT ![s] = now(revision')]
    /\ at' = [at EXCEPT ![s] = "waiting"]
    /\ UNCHANGED <<file, profile, online, caller, woken, read, changes>>

Wake(s) ==
    /\ at[s] = "waiting" /\ s \in woken
    /\ woken' = woken \ {s}
    /\ at' = [at EXCEPT ![s] = "reading"]
    /\ UNCHANGED <<file, profile, online, changeVars, caller, read, sent, changes>>

(* Its process or its session is gone.                                     *)
Ended(s) ==
    /\ at[s] # "gone"
    /\ at' = [at EXCEPT ![s] = "gone"] /\ woken' = woken \ {s}
    /\ UNCHANGED <<file, profile, online, changeVars, caller, read, sent, changes>>

----------------------------------------------------------------------------
Init ==
    /\ file = "ready" /\ profile = 0 /\ online = FALSE
    /\ counter = 0 /\ revision = None /\ identity = None
    /\ caller = "idle" /\ woken = {} /\ changes = 0
    /\ at = [s \in Subscribers |-> "gone"]
    /\ read = [s \in Subscribers |-> None] /\ sent = [s \in Subscribers |-> None]

Telling(s) == ReadFile(s) \/ Tell(s) \/ Wake(s)
Next == \/ Forget \/ Switched \/ UpdateProfile \/ Reached \/ Changed \/ SetUp \/ FinishRemoval
        \/ \E s \in Subscribers : Subscribe(s) \/ Telling(s) \/ Ended(s)

Spec == Init /\ [][Next]_vars
----------------------------------------------------------------------------
(* Properties.                                                             *)

Snapshot == [status: {"signed_in", "signed_out"}, online: BOOLEAN, revision: Nat,
             profile: {0, 1, None}]

(* Type correctness.                                                       *)
TypeOK ==
    /\ file \in {"none", "ready", "out"} /\ profile \in {0, 1} /\ online \in BOOLEAN
    /\ counter \in Nat /\ revision \in Nat \cup {None} /\ changes \in 0..MaxChanges
    /\ identity \in {"signed_in", "signed_out", None} /\ caller \in {"idle", "switching", "waking"}
    /\ at \in [Subscribers -> {"gone", "reading", "telling", "waiting"}]
    /\ woken \subseteq Watching
    /\ sent \in [Subscribers -> Snapshot \cup {None}]

(* An application never takes an older status for a newer one: a           *)
(* subscriber told another status is told a higher revision, though the    *)
(* file was read before the lock that gives it.                            *)
RevisionTells ==
    \A s \in Subscribers :
      sent[s] # None /\ sent'[s] # None /\ sent'[s].status # sent[s].status
        => sent'[s].revision > sent[s].revision

(* No change is missed ("now and on every change", session.rs): once it is *)
(* made, a subscriber that is not woken has been told what the file says.  *)
ToldLatest ==
    \A s \in Subscribers :
        caller = "idle" /\ at[s] = "waiting" /\ s \notin woken =>
            /\ sent[s].status = Status(file) /\ sent[s].online = online
            /\ file = "ready" => sent[s].profile = profile
=============================================================================
