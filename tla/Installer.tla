------------------------------ MODULE Installer ------------------------------
(***************************************************************************)
(* The install service (crates/oxyos-install/src/install.rs, ipc.rs): one  *)
(* application on a machine of several accounts.  A release is prepared,   *)
(* assembled without the state's lock, then placed and switched to, or     *)
(* staged, under it; sessions hold the versions they run; a new version    *)
(* that exits before its first window is rolled back; what nothing names   *)
(* is collected.                                                           *)
(*                                                                         *)
(* Each connection has a thread.  The lock's holder writes several files,  *)
(* each renamed whole: they are steps of their own, since the service may  *)
(* stop between any two of them.                                           *)
(***************************************************************************)
EXTENDS Naturals, Sequences, FiniteSets, FiniteSetsExt

CONSTANTS Accounts, Sessions, Threads,
          MaxCode,       \* releases have version codes 1 to MaxCode
          NewKeyFrom,    \* the first release signed by the lineage's next key
          Declaring,     \* releases that declare the capability shown at install
          UnshownExits,  \* UNSHOWN_EXITS
          MaxExits,      \* bound on the exits counted of one version
          MaxCrashes,    \* bound on the service's stops
          Requests,      \* the requests made, beyond commit, hold and release
          Overlap,       \* whether requests come while a release is applied
          None

Codes == 1..MaxCode

(* An account's record, a session's hold, a connection's release, and what *)
(* the lock's holder writes.                                               *)
Staged == [code: Codes, consent: BOOLEAN]
Records == [current: Codes, shown: BOOLEAN, exits: 0..MaxExits, previous: Codes \cup {None},
            staged: Staged \cup {None}, bad: SUBSET Codes,
            decision: {None, "granted", "denied"}]
Holds == [account: Accounts, code: Codes, exited: BOOLEAN]
Calls == [account: Accounts, code: Codes, consented: BOOLEAN, tree: BOOLEAN,
          stage: {"planned", "asked", "checked", "assembling", "ready"}]
Todos == {<<"pin", "record", "entry", "collect">>, <<"record", "entry", "collect">>,
          <<"entry", "record", "collect">>, <<"record", "collect">>, <<"entry", "collect">>,
          <<"record", "entry">>, <<"entry">>, <<"collect">>, <<"pin">>}
Locks == [account: Accounts, next: Records \cup {None}, todo: Todos, key: {None, 1, 2},
          by: {"apply", "uninstall", "consent", "decide", "release", "shown", "exited"}]

InstallBounds ==
    /\ MaxCode \in Nat \ {0} /\ UnshownExits \in Nat /\ MaxExits \in Nat /\ MaxCrashes \in Nat
    /\ NewKeyFrom \in Nat /\ Declaring \subseteq Codes /\ Overlap \in BOOLEAN
    /\ None \notin Nat \cup {"granted", "denied"} \cup Staged \cup Records \cup Holds \cup Calls
                 \cup Locks

VARIABLES
    record,      \* users/<user>/<id>.json, or None
    entry,       \* the version users/<user>/applications/<id>.desktop names
    trees,       \* the version directories of the package
    pinned,      \* installed/<id>.json: the developer's key
    held,        \* what each session's connection holds
    locked,      \* what the lock's holder has yet to write
    call,        \* each connection's plan, or the release it applies
    released,    \* the newest release in the store
    candidates,  \* Checks.candidates, once the store was read
    confirmed,   \* history: what each account agreed to
    crashes

files == <<record, entry, trees, pinned>>
vars == <<files, held, locked, call, released, candidates, confirmed, crashes>>

Key(code) == IF code >= NewKeyFrom THEN 2 ELSE 1
Shown(code) == {<<"key", Key(code)>>} \cup (IF code \in Declaring THEN {<<"capability", 1>>} ELSE {})
Has(a) == record[a] # None
Holders(a, code) == {s \in Sessions : held[s] # None /\ held[s].account = a /\ held[s].code = code}

(* consent_needed.                                                         *)
ConsentNeeded(from, to) == Key(from) # Key(to) \/ (to \in Declaring /\ from \notin Declaring)

(* decide_capabilities.                                                    *)
DecideCapabilities(mine, code) ==
    [mine EXCEPT !.decision = IF code \in Declaring /\ @ = None THEN "granted" ELSE @]

(* The versions a record names.                                            *)
Names(mine) ==
    {mine.current, mine.previous, IF mine.staged = None THEN None ELSE mine.staged.code} \ {None}

(* collect's keep: what the records name, and what sessions hold.          *)
Named == UNION {Names(record[a]) : a \in {b \in Accounts : Has(b)}}
Kept == Named \cup {held[s].code : s \in {z \in Sessions : held[z] # None}}

(* A mistake: what sessions hold is not kept.                              *)
CollectUnheld ==
    /\ trees' = trees \cap Named
    /\ pinned' = IF \E a \in Accounts : Has(a) THEN pinned ELSE None

CollectFiles ==
    /\ trees' = trees \cap Kept
    /\ pinned' = IF \E a \in Accounts : Has(a) THEN pinned ELSE None

----------------------------------------------------------------------------
(* The state's lock, and what is written under it.                         *)

Free == locked = None
(* Requests come while no release is applied, unless they overlap.         *)
Quiet == ~Overlap => Free /\ \A t \in Threads : call[t] # None => call[t].stage = "planned"
Asked(request) == request \in Requests /\ Free /\ Quiet

Writes(a, mine, todo, by) ==
    locked' = [account |-> a, next |-> mine, todo |-> todo, key |-> None, by |-> by]

(* The lock is let go with the last of what was to be written.             *)
Wrote == locked' = IF Len(locked.todo) = 1 THEN None ELSE [locked EXCEPT !.todo = Tail(@)]
Due(what) == locked # None /\ Head(locked.todo) = what

WriteInstalled ==
    /\ Due("pin")
    /\ pinned' = locked.key /\ Wrote
    /\ UNCHANGED <<record, entry, trees, held, call, released, candidates, confirmed, crashes>>

(* The account's record, or its removal.                                   *)
WriteRecord ==
    /\ Due("record")
    /\ record' = [record EXCEPT ![locked.account] = locked.next] /\ Wrote
    /\ confirmed' = IF locked.next = None THEN [confirmed EXCEPT ![locked.account] = {}] ELSE confirmed
    /\ UNCHANGED <<entry, trees, pinned, held, call, released, candidates, crashes>>

(* write_entry reads the version's manifest: without its tree it fails, and *)
(* the request with it.                                                    *)
WriteEntry ==
    /\ Due("entry")
    /\ LET a == locked.account
       IN  CASE locked.next = None -> entry' = [entry EXCEPT ![a] = None] /\ Wrote
             [] locked.next # None /\ locked.next.current \in trees ->
                  entry' = [entry EXCEPT ![a] = locked.next.current] /\ Wrote
             [] OTHER -> locked' = None /\ UNCHANGED entry
    /\ UNCHANGED <<record, trees, pinned, held, call, released, candidates, confirmed, crashes>>

Collect ==
    /\ Due("collect")
    /\ CollectFiles /\ Wrote
    /\ UNCHANGED <<record, entry, held, call, released, candidates, confirmed, crashes>>

----------------------------------------------------------------------------
(* A release prepared and applied.                                         *)

Publish ==
    /\ released < MaxCode /\ released' = released + 1
    /\ UNCHANGED <<files, held, locked, call, candidates, confirmed, crashes>>

(* verify: the pinned key, or one its lineage hands over to.               *)
Verified(code) == pinned # None => Key(code) >= pinned

Starts(t, a, code, consented, stage) ==
    call' = [call EXCEPT ![t] = [account |-> a, code |-> code, consented |-> consented,
                                 stage |-> stage, tree |-> FALSE]]

(* prepare: the newest release the account has not rolled back.  No lock.  *)
Prepare(t, a) ==
    /\ call[t] = None /\ Quiet
    /\ LET offered == (1..released) \ (IF Has(a) THEN record[a].bad ELSE {})
       IN  /\ offered # {}
           /\ ~(Has(a) /\ Max(offered) < record[a].current)
           /\ Verified(Max(offered))
           /\ Has(a) /\ record[a].current # Max(offered) => record[a].current \in trees
           /\ Starts(t, a, Max(offered), TRUE, "planned")
    /\ UNCHANGED <<files, held, locked, released, candidates, confirmed, crashes>>

Commit(t) ==
    /\ call[t] # None /\ call[t].stage = "planned" /\ Quiet
    /\ call' = [call EXCEPT ![t].stage = "asked"]
    /\ UNCHANGED <<files, held, locked, released, candidates, confirmed, crashes>>

(* run_check: at most three releases some account wants, newest first.     *)
Check ==
    /\ "update" \in Requests /\ Quiet
    /\ LET wanted == {c \in 1..released : /\ Verified(c)
                                          /\ \E a \in Accounts : Has(a) /\ c > record[a].current
                                                                        /\ c \notin record[a].bad}
       IN  candidates' = {c \in wanted : Cardinality({d \in wanted : d > c}) < 3}
    /\ UNCHANGED <<files, held, locked, call, released, confirmed, crashes>>

(* update: the account's record and candidate_for, with no lock.           *)
Update(t, a) ==
    /\ "update" \in Requests /\ call[t] = None /\ Quiet /\ candidates # None /\ Has(a)
    /\ LET newer == {c \in candidates : c > record[a].current /\ c \notin record[a].bad}
       IN  newer # {} /\ Starts(t, a, Max(newer), FALSE, "asked")
    /\ UNCHANGED <<files, held, locked, released, candidates, confirmed, crashes>>

At(t, stage) == call[t] # None /\ call[t].stage = stage

(* apply's first look at the record, under the lock it then lets go:       *)
(* Downgrade or RolledBack.                                                *)
ApplyChecks(t) ==
    /\ At(t, "asked") /\ Free
    /\ LET a == call[t].account  code == call[t].code
       IN  IF Has(a) /\ (code < record[a].current \/ code \in record[a].bad)
             THEN call' = [call EXCEPT ![t] = None]
             ELSE call' = [call EXCEPT ![t].stage = "checked"]
    /\ UNCHANGED <<files, held, locked, released, candidates, confirmed, crashes>>

(* Whether the version's directory is there, with no lock.                 *)
ApplyLooks(t) ==
    /\ At(t, "checked")
    /\ call' = [call EXCEPT ![t].stage = IF call[t].code \in trees THEN "ready" ELSE "assembling"]
    /\ UNCHANGED <<files, held, locked, released, candidates, confirmed, crashes>>

Assemble(t) ==
    /\ At(t, "assembling")
    /\ call' = [call EXCEPT ![t].stage = "ready", ![t].tree = TRUE]
    /\ UNCHANGED <<files, held, locked, released, candidates, confirmed, crashes>>

AssembleFails(t) ==
    /\ At(t, "assembling") /\ Free
    /\ call' = [call EXCEPT ![t] = None] /\ CollectFiles
    /\ UNCHANGED <<record, entry, held, locked, released, candidates, confirmed, crashes>>

Switched(mine) ==
    DecideCapabilities([mine EXCEPT !.previous = mine.current, !.current = mine.staged.code,
                                    !.shown = FALSE, !.exits = 0, !.staged = None],
                       mine.staged.code)

(* try_switch: a version staged that waits for no consent, and no session. *)
Switches(mine, holders) == ~mine.staged.consent /\ holders = {}

TrySwitch(mine, holders) == IF Switches(mine, holders) THEN Switched(mine) ELSE mine

Fresh(code) == [current |-> code, shown |-> FALSE, exits |-> 0, previous |-> None,
                staged |-> None, bad |-> {}, decision |-> None]

(* The version staged, and whether it waits for the account's consent.     *)
StagedFor(mine, c) ==
    [mine EXCEPT !.staged = [code |-> c.code,
                             consent |-> ~c.consented /\ ConsentNeeded(mine.current, c.code)]]

(* The rest of apply, under the lock taken again: place, the machine's key, *)
(* the account's record and entry, and what nothing names collected.  A    *)
(* version whose facts cannot be read ends it there.                       *)
ApplyTakes(t) ==
    /\ At(t, "ready") /\ Free
    /\ LET c == call[t]  a == c.account
           now == Holders(a, record[a].current)
           todo == (IF pinned = Key(c.code) THEN <<>> ELSE <<"pin">>) \o <<"record", "entry", "collect">>
           write(mine) == locked' = [account |-> a, next |-> mine, todo |-> todo,
                                     key |-> Key(c.code), by |-> "apply"]
           pinOnly == IF pinned = Key(c.code) THEN locked' = None
                      ELSE locked' = [account |-> a, next |-> None, todo |-> <<"pin">>,
                                      key |-> Key(c.code), by |-> "apply"]
       IN  /\ trees' = IF c.tree THEN trees \cup {c.code} ELSE trees
           /\ IF ~Has(a) THEN write(DecideCapabilities(Fresh(c.code), c.code))
              ELSE IF record[a].current = c.code THEN write(DecideCapabilities(record[a], c.code))
              ELSE LET mine == StagedFor(record[a], c)
                   IN  IF record[a].current \in trees' /\ (Switches(mine, now) => c.code \in trees')
                         THEN write(TrySwitch(mine, now)) ELSE pinOnly
           /\ confirmed' = IF c.consented THEN [confirmed EXCEPT ![a] = @ \cup Shown(c.code)] ELSE confirmed
    /\ call' = [call EXCEPT ![t] = None]
    /\ UNCHANGED <<record, entry, pinned, held, released, candidates, crashes>>

----------------------------------------------------------------------------
(* An account's other requests, each one section of the lock.              *)

Uninstall(a) ==
    /\ Asked("uninstall") /\ Has(a)
    /\ Writes(a, None, <<"entry", "record", "collect">>, "uninstall")
    /\ UNCHANGED <<files, held, call, released, candidates, confirmed, crashes>>

(* consent: the version staged; another is Stale.                          *)
Consent(a) ==
    /\ Asked("consent") /\ Has(a) /\ record[a].staged # None
    /\ LET mine == [record[a] EXCEPT !.staged.consent = FALSE]
           now == Holders(a, mine.current)
       IN  /\ Switches(mine, now) => mine.staged.code \in trees
           /\ Writes(a, TrySwitch(mine, now), <<"record", "entry", "collect">>, "consent")
           /\ confirmed' = [confirmed EXCEPT ![a] = @ \cup Shown(mine.staged.code)]
    /\ UNCHANGED <<files, held, call, released, candidates, crashes>>

(* decide: a capability the account's decisions name.                      *)
Decide(a) ==
    /\ Asked("decide") /\ Has(a) /\ record[a].decision # None
    /\ \E d \in {"granted", "denied"} \ {record[a].decision} :
         Writes(a, [record[a] EXCEPT !.decision = d], <<"record", "entry">>, "decide")
    /\ UNCHANGED <<files, held, call, released, candidates, confirmed, crashes>>

(* hold: a session runs a version the account's record names.              *)
Hold(s, a) ==
    /\ held[s] = None /\ Free /\ Quiet /\ Has(a)
    /\ \E code \in Names(record[a]) \cap trees :
         held' = [held EXCEPT ![s] = [account |-> a, code |-> code, exited |-> FALSE]]
    /\ UNCHANGED <<files, locked, call, released, candidates, confirmed, crashes>>

(* release, or the session's connection ended: the version staged that     *)
(* waits only for it is switched to.                                       *)
Release(s) ==
    /\ held[s] # None /\ Free /\ Quiet
    /\ held' = [held EXCEPT ![s] = None]
    /\ LET a == held[s].account  mine == record[a]
           due == Has(a) /\ mine.staged # None /\ Switches(mine, Holders(a, mine.current) \ {s})
       IN  IF ~due THEN Writes(a, None, <<"collect">>, "release")
           ELSE IF mine.staged.code \in trees
             THEN Writes(a, Switched(mine), <<"record", "entry", "collect">>, "release")
             ELSE UNCHANGED locked
    /\ UNCHANGED <<files, call, released, candidates, confirmed, crashes>>

(* shown: the version before is no longer kept.                            *)
ShowsWindow(s) ==
    /\ Asked("exited") /\ held[s] # None /\ ~held[s].exited
    /\ LET a == held[s].account
       IN  /\ Has(a) /\ record[a].current = held[s].code /\ ~record[a].shown
           /\ Writes(a, [record[a] EXCEPT !.shown = TRUE, !.previous = None],
                     <<"record", "entry", "collect">>, "shown")
    /\ UNCHANGED <<files, held, call, released, candidates, confirmed, crashes>>

(* The version before, when the new one never showed a window.             *)
RolledBack(mine) ==
    [mine EXCEPT !.bad = @ \cup {mine.current}, !.current = mine.previous, !.previous = None,
                 !.shown = TRUE, !.exits = 0]

(* exited, having shown no window.                                         *)
Exited(s) ==
    /\ Asked("exited") /\ held[s] # None /\ ~held[s].exited
    /\ held' = [held EXCEPT ![s].exited = TRUE]
    /\ LET a == held[s].account  mine == [record[a] EXCEPT !.exits = @ + 1]
       IN  /\ Has(a) /\ record[a].current = held[s].code /\ ~record[a].shown
           /\ mine.exits <= MaxExits
           /\ IF mine.exits >= UnshownExits /\ mine.previous # None
                THEN Writes(a, RolledBack(mine), <<"record", "entry", "collect">>, "exited")
                ELSE Writes(a, mine, <<"record", "entry">>, "exited")
    /\ UNCHANGED <<files, call, released, candidates, confirmed, crashes>>

----------------------------------------------------------------------------
(* The service stops, wherever it is, and recovers: connections and holds  *)
(* are gone with it, what was being assembled is removed, entries are      *)
(* written again from their records and what nothing names is collected.   *)
Restart ==
    /\ crashes < MaxCrashes /\ crashes' = crashes + 1
    /\ locked' = None /\ call' = [t \in Threads |-> None] /\ held' = [s \in Sessions |-> None]
    /\ candidates' = None
    /\ entry' = [a \in Accounts |-> IF Has(a) /\ record[a].current \in trees
                                      THEN record[a].current
                                      ELSE IF Has(a) THEN None ELSE entry[a]]
    /\ trees' = trees \cap Named
    /\ pinned' = IF \E a \in Accounts : Has(a) THEN pinned ELSE None
    /\ UNCHANGED <<record, released, confirmed>>

Init ==
    /\ record = [a \in Accounts |-> None] /\ entry = [a \in Accounts |-> None]
    /\ trees = {} /\ pinned = None /\ released = 1 /\ candidates = None
    /\ held = [s \in Sessions |-> None] /\ locked = None
    /\ call = [t \in Threads |-> None] /\ confirmed = [a \in Accounts |-> {}] /\ crashes = 0

Writing == WriteInstalled \/ WriteRecord \/ WriteEntry \/ Collect
Applying(t) == ApplyChecks(t) \/ ApplyLooks(t) \/ Assemble(t) \/ AssembleFails(t) \/ ApplyTakes(t)
Next ==
    \/ Writing \/ Publish \/ Check \/ Restart
    \/ \E t \in Threads : Commit(t) \/ Applying(t) \/ \E a \in Accounts : Prepare(t, a) \/ Update(t, a)
    \/ \E a \in Accounts : Uninstall(a) \/ Consent(a) \/ Decide(a)
    \/ \E s \in Sessions : Release(s) \/ ShowsWindow(s) \/ Exited(s) \/ \E a \in Accounts : Hold(s, a)

Spec == Init /\ [][Next]_vars

(* The lock's holder goes on.                                              *)
LiveSpec == Spec /\ WF_vars(Writing)
----------------------------------------------------------------------------
(* Properties.                                                             *)

(* Type correctness.                                                       *)
TypeOK ==
    /\ record \in [Accounts -> Records \cup {None}]
    /\ entry \in [Accounts -> Codes \cup {None}]
    /\ trees \subseteq Codes /\ pinned \in {None, 1, 2} /\ released \in Codes
    /\ candidates = None \/ candidates \subseteq Codes
    /\ held \in [Sessions -> Holds \cup {None}] /\ call \in [Threads -> Calls \cup {None}]
    /\ locked \in Locks \cup {None}
    /\ confirmed \in [Accounts -> SUBSET ({"key", "capability"} \X {1, 2})]

(* What an account's record names is there to run: its current version,    *)
(* the one it would be rolled back to and the one staged, through every    *)
(* collection and every restart (collect, recover).                        *)
NamedAreThere == \A a \in Accounts : Has(a) => Names(record[a]) \subseteq trees

(* A version a session holds is never removed (hold), though another       *)
(* account's request collects meanwhile.                                   *)
HeldAreThere == \A s \in Sessions : held[s] # None => held[s].code \in trees

(* Between requests the registry lists what the account's record says      *)
(* (write_account, recover): the entry is of the current version, and      *)
(* there is none of an application the account does not have.              *)
EntryFollows ==
    Free => \A a \in Accounts : entry[a] = IF Has(a) THEN record[a].current ELSE None

(* An entry never outlives its record, even when the service stops between *)
(* the two files (remove_account_files).                                   *)
EntryHasRecord ==
    Free => \A a \in Accounts : entry[a] # None => Has(a)

(* A release the account rolled back is never its version again (apply's   *)
(* RolledBack, "never offered to it again").                               *)
NotBadAgain ==
    \A a \in Accounts : Has(a) =>
        /\ record[a].current \notin record[a].bad
        /\ record[a].staged # None => record[a].staged.code \notin record[a].bad

(* An account runs nothing it did not agree to: the key and the            *)
(* capabilities of its version, and of one staged that waits for no        *)
(* consent, were confirmed for it (consent_needed, try_switch).            *)
Agreed ==
    \A a \in Accounts : Has(a) =>
        /\ Shown(record[a].current) \subseteq confirmed[a]
        /\ record[a].staged # None /\ ~record[a].staged.consent
             => Shown(record[a].staged.code) \subseteq confirmed[a]

(* An update never moves an account from a version one of its sessions     *)
(* holds (try_switch): only the record's rollback does.                    *)
SwitchedUnheld ==
    \A a \in Accounts : Has(a) /\ record'[a] # None /\ record'[a].current > record[a].current
      => Holders(a, record[a].current) = {}

(* What an account denied stays denied until it decides again, whatever    *)
(* versions come and go (decide_capabilities).                             *)
DeniedStays ==
    \A a \in Accounts : Has(a) /\ record'[a] # None /\ record[a].decision = "denied"
                        /\ record'[a].decision # "denied" => locked.by = "decide"

(* A version staged that waits for no consent waits for a running copy     *)
(* ("applied once the account's running copy stops"): one of the account's *)
(* sessions still holds a version, and its release will switch it.         *)
StagedWaitsForCopy ==
    Free => \A a \in Accounts :
        Has(a) /\ record[a].staged # None /\ ~record[a].staged.consent
          => \E s \in Sessions : held[s] # None /\ held[s].account = a

(* A version staged is not forgotten: if the account's copies have all ended again and      *)
(* again, the version staged is switched to, or another is staged.         *)
StagedSwitches ==
    \A a \in Accounts : \A code \in Codes :
        LET waits == Has(a) /\ record[a].staged = [code |-> code, consent |-> FALSE]
        IN  []<>(\A s \in Sessions : held[s] = None) => (waits ~> ~waits)

(* The machine's key only moves along the lineage while some account has   *)
(* the application ("an account installing later is never handed another   *)
(* key than the one pinned, or the one its lineage hands over to").        *)
KeyMovesOn == pinned # None /\ pinned' # None => pinned' >= pinned

(* While a session holds the account's current version it stays current    *)
(* ("the account's current version is not switched away from").            *)
HeldStaysCurrent ==
    \A a \in Accounts : Has(a) /\ record'[a] # None /\ record'[a].current # record[a].current
      => Holders(a, record[a].current) = {}

(* Only a capability the account's current version declares is decided.    *)
DecidesDeclared ==
    locked # None /\ locked.by = "decide" => record[locked.account].current \in Declaring
=============================================================================
