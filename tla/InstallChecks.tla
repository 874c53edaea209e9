---------------------------- MODULE InstallChecks ----------------------------
(***************************************************************************)
(* The install service's checks for updates, and what it tells those who   *)
(* watch an account's update state (crates/oxyos-install/src/install.rs:   *)
(* check, automatic, watch, notify, update_state, set_automatic).          *)
(*                                                                         *)
(* Each connection's thread asks for a check; one asked for while another  *)
(* runs joins it.  A watcher is told the state now and at each change: the *)
(* state is read from the checks, then from the records, under the lock of *)
(* the watchers but not under one of its own.                              *)
(***************************************************************************)
EXTENDS Naturals, FiniteSets

CONSTANTS Threads, Watchers,
          MaxChecks,   \* bound on the checks made
          MaxChanges,  \* bound on the records' changes
          LateWatch,   \* whether watchers come while the service is at work
          None

ASSUME CheckBounds == MaxChecks \in Nat /\ MaxChanges \in Nat /\ LateWatch \in BOOLEAN

(* The checks' part of an update state, the state, and the lock held.      *)
Checks  == [running : BOOLEAN, generation : Nat, failed : BOOLEAN]
States  == [checks : Checks, records : Nat]
Reading == [by : Threads, checks : Checks]

ASSUME NoReading == None \notin Reading

VARIABLES
    running, generation, failed,  \* Checks
    records,    \* how often the account's records, holds or options changed
    thread,     \* where each connection's thread is
    joined,     \* the generation a thread waits for the end of
    watchers,   \* Installer.watchers
    telling,    \* the watchers' lock: who holds it, and the checks' part of the state read
    told,       \* the state each watcher was last told
    watching    \* where a connection that asks to watch is

checks == <<running, generation, failed>>
vars == <<checks, records, thread, joined, watchers, telling, told, watching>>

ChecksNow == [running |-> running, generation |-> generation, failed |-> failed]
StateNow == [checks |-> ChecksNow, records |-> records]
Goes(t, to) == thread' = [thread EXCEPT ![t] = to]

----------------------------------------------------------------------------
(* check.                                                                  *)

(* Unless watchers come late, one comes while nothing is at work, and      *)
(* nothing begins before it is a watcher.                                  *)
Resting == LateWatch \/ \A t \in Threads : thread[t] = "idle"
Begins == LateWatch \/ \A w \in Watchers : watching[w] # "told"

(* A mistake: a check asked for while one runs makes another.              *)
AskAlone(t) ==
    /\ thread[t] = "idle" /\ generation < MaxChecks /\ Begins
    /\ running' = TRUE /\ Goes(t, "telling start") /\ UNCHANGED joined
    /\ UNCHANGED <<generation, failed, records, watchers, telling, told, watching>>

(* A check that runs is joined; otherwise this thread makes one.           *)
Ask(t) ==
    /\ thread[t] = "idle" /\ generation < MaxChecks /\ Begins
    /\ IF running
         THEN Goes(t, "joined") /\ joined' = [joined EXCEPT ![t] = generation] /\ UNCHANGED running
         ELSE running' = TRUE /\ Goes(t, "telling start") /\ UNCHANGED joined
    /\ UNCHANGED <<generation, failed, records, watchers, telling, told, watching>>

(* The condition a joiner waits for.                                       *)
Ended(t) == ~running \/ generation # joined[t]

(* The joiner is woken and answers what the last check came to.            *)
Join(t) ==
    /\ thread[t] = "joined" /\ Ended(t)
    /\ Goes(t, "idle") /\ joined' = [joined EXCEPT ![t] = 0]
    /\ UNCHANGED <<checks, records, watchers, telling, told, watching>>

(* A mistake: a check that failed is not counted.                          *)
RunCheckUncounted(t) ==
    /\ thread[t] = "checking"
    /\ running' = FALSE /\ failed' \in BOOLEAN
    /\ generation' = IF failed' THEN generation ELSE generation + 1
    /\ Goes(t, "telling end")
    /\ UNCHANGED <<records, joined, watchers, telling, told, watching>>

(* run_check ends, with its candidates or its failure.                     *)
RunCheck(t) ==
    /\ thread[t] = "checking"
    /\ running' = FALSE /\ generation' = generation + 1 /\ failed' \in BOOLEAN
    /\ Goes(t, "telling end")
    /\ UNCHANGED <<records, joined, watchers, telling, told, watching>>

(* set_automatic, hold, decide and the rest: a change under the records'   *)
(* lock, then its notify.                                                  *)
Change(t) ==
    /\ thread[t] = "idle" /\ records < MaxChanges /\ Begins
    /\ records' = records + 1 /\ Goes(t, "telling change")
    /\ UNCHANGED <<checks, joined, watchers, telling, told, watching>>

----------------------------------------------------------------------------
(* notify: the watchers' lock, the checks' part of the state, the records' *)
(* part, then each watcher told; one that ended is dropped.                *)

Tells(t) == thread[t] \in {"telling start", "telling end", "telling change"}
After(t) == IF thread[t] = "telling start" THEN "checking" ELSE "idle"

NotifyReads(t) ==
    /\ Tells(t) /\ telling = None
    /\ telling' = [by |-> t, checks |-> ChecksNow]
    /\ UNCHANGED <<checks, records, thread, joined, watchers, told, watching>>

(* A mistake: watchers are told of a check's start only.                   *)
NotifyStart(t) ==
    /\ Tells(t) /\ telling # None /\ telling.by = t
    /\ told' = [w \in Watchers |-> IF w \in watchers /\ thread[t] # "telling end"
                                     THEN [checks |-> telling.checks, records |-> records] ELSE told[w]]
    /\ telling' = None /\ Goes(t, After(t)) /\ UNCHANGED watchers
    /\ UNCHANGED <<checks, records, joined, watching>>

Notify(t) ==
    /\ Tells(t) /\ telling # None /\ telling.by = t
    /\ told' = [w \in Watchers |-> IF w \in watchers
                                     THEN [checks |-> telling.checks, records |-> records] ELSE told[w]]
    /\ telling' = None /\ Goes(t, After(t)) /\ UNCHANGED watchers
    /\ UNCHANGED <<checks, records, joined, watching>>

----------------------------------------------------------------------------
(* watch: the state is read and told, and only then is the watcher added.  *)

WatchTells(w) ==
    /\ Resting /\ watching[w] = "away"
    /\ told' = [told EXCEPT ![w] = StateNow]
    /\ watching' = [watching EXCEPT ![w] = "told"]
    /\ UNCHANGED <<checks, records, thread, joined, watchers, telling>>

WatchAdds(w) ==
    /\ watching[w] = "told" /\ telling = None
    /\ watchers' = watchers \cup {w}
    /\ watching' = [watching EXCEPT ![w] = "watching"]
    /\ UNCHANGED <<checks, records, thread, joined, telling, told>>

(* unwatch, or a send that failed.                                         *)
Unwatch(w) ==
    /\ watching[w] = "watching" /\ telling = None
    /\ watchers' = watchers \ {w}
    /\ watching' = [watching EXCEPT ![w] = "gone"]
    /\ UNCHANGED <<checks, records, thread, joined, telling, told>>

----------------------------------------------------------------------------
Init ==
    /\ running = FALSE /\ generation = 0 /\ failed = FALSE /\ records = 0
    /\ thread = [t \in Threads |-> "idle"] /\ joined = [t \in Threads |-> 0]
    /\ telling = None
    /\ watchers = {} /\ watching = [w \in Watchers |-> "away"]
    /\ told = [w \in Watchers |-> StateNow]

Works(t) == Join(t) \/ RunCheck(t) \/ NotifyReads(t) \/ Notify(t)
Next ==
    \/ \E t \in Threads : Ask(t) \/ Change(t) \/ Works(t)
    \/ \E w \in Watchers : WatchTells(w) \/ WatchAdds(w) \/ Unwatch(w)

Spec == Init /\ [][Next]_vars

(* Threads run; the store answers, or its fetches time out.  The watchers' *)
(* lock is given to each that waits for it in the end.                     *)
LiveSpec == Spec /\ \A t \in Threads : /\ WF_vars(Join(t)) /\ WF_vars(RunCheck(t)) /\ WF_vars(Notify(t))
                                       /\ SF_vars(NotifyReads(t))
----------------------------------------------------------------------------
(* Properties.                                                             *)

(* Type correctness.                                                       *)
TypeOK ==
    /\ running \in BOOLEAN /\ generation \in Nat /\ failed \in BOOLEAN /\ records \in Nat
    /\ thread \in [Threads -> {"idle", "joined", "checking",
                             "telling start", "telling end", "telling change"}]
    /\ joined \in [Threads -> Nat]
    /\ telling \in Reading \cup {None} /\ (telling # None => Tells(telling.by))
    /\ told \in [Watchers -> States]
    /\ watching \in [Watchers -> {"away", "told", "watching", "gone"}]
    /\ watchers = {w \in Watchers : watching[w] = "watching"}

(* The store is read by one check at a time, and the state says so exactly *)
(* while it is ("a check asked for while one runs joins it").              *)
OneCheck ==
    LET making == {t \in Threads : thread[t] \in {"telling start", "checking"}}
    IN  Cardinality(making) <= 1 /\ (running <=> making # {})

(* A check asked for while one ran is answered by one that ended since     *)
(* ("answered when it ends"), never by an older one.                       *)
JoinerAnsweredLater ==
    [][\A t \in Threads : thread[t] = "joined" /\ thread'[t] = "idle"
         => generation > joined[t]]_vars

(* Once every change's notify has been made, a watcher was told the state  *)
(* there is ("told it now and at each change").                            *)
ToldAtRest ==
    (\A t \in Threads : thread[t] \in {"idle", "joined", "checking"}) =>
        \A w \in watchers : told[w] = StateNow

(* Every check asked for is answered, by its own end or by the one joined, *)
(* though it fails.                                                        *)
ChecksAnswered == \A t \in Threads : thread[t] # "idle" ~> thread[t] = "idle"
=============================================================================
