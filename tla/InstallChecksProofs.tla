------------------------ MODULE InstallChecksProofs ------------------------
(***************************************************************************)
(* Proofs about the install service's checks, for any threads, watchers    *)
(* and bounds: one check at a time, whoever joins one is answered by it or *)
(* by a later one, and, where no watcher comes while the service is at     *)
(* work, every watcher ends up told the state there is.                    *)
(***************************************************************************)
EXTENDS InstallChecks, FiniteSetTheorems, TLAPS

-----------------------------------------------------------------------------
(* The inductive invariant.                                                *)

\* The threads that make a check: one at the most, and exactly while one runs.
Making(t) == thread[t] \in {"telling start", "checking"}
OneMakes ==
    /\ \A p, q \in Threads : Making(p) /\ Making(q) => p = q
    /\ running <=> \E p \in Threads : Making(p)

\* A thread that joined waits for the check that runs, or it has ended.
JoinersWait ==
    \A p \in Threads : thread[p] = "joined" =>
        generation > joined[p] \/ (running /\ generation = joined[p])

CheckInv == OneMakes /\ JoinersWait

\* A thread that is yet to tell, besides the one that has read the checks.
YetToTell(t) == Tells(t) /\ (telling = None \/ telling.by # t)

\* What was read of the checks is what they are, or someone is yet to tell.
ReadIsNow == telling # None => telling.checks = ChecksNow \/ \E t \in Threads : YetToTell(t)

\* A watcher was told the state there is, or is about to be.
ToldOrToBe ==
    \A w \in watchers : \/ told[w] = StateNow
                        \/ telling # None
                        \/ \E t \in Threads : YetToTell(t)

\* A watcher that comes at rest was told the state, and nothing begins meanwhile.
ComesAtRest ==
    \A w \in Watchers : watching[w] = "told" =>
        told[w] = StateNow /\ \A t \in Threads : thread[t] = "idle"

ToldInv == ReadIsNow /\ ToldOrToBe /\ ComesAtRest

-----------------------------------------------------------------------------
(* Types.                                                                  *)

\* The start is well formed.
LEMMA Init_Types == ASSUME Init PROVE TypeOK
<1>1. StateNow \in States
  BY DEF Init, ChecksNow, StateNow, Checks, States
<1>2. watchers = {w \in Watchers : watching[w] = "watching"}
  BY DEF Init
<1> QED BY <1>1, <1>2 DEF Init, TypeOK

\* Every step keeps the types.
LEMMA Next_Types == ASSUME TypeOK, [Next]_vars PROVE TypeOK'
<1> USE DEF Goes, checks, Reading, Tells
<1>1. ASSUME NEW t \in Threads, Ask(t) PROVE TypeOK'
  BY <1>1 DEF TypeOK, Ask, Tells
<1>2. ASSUME NEW t \in Threads, Change(t) PROVE TypeOK'
  <2>1. records' \in Nat
    <3>1. records \in Nat /\ records' = records + 1
      BY <1>2 DEF TypeOK, Change
    <3> QED BY <3>1
  <2>2. telling' # None => telling'.by \in Threads /\ telling'.by # t /\ Tells(telling'.by)
    BY <1>2 DEF TypeOK, Change
  <2> QED BY <1>2, <2>1, <2>2 DEF TypeOK, Change
<1>3. ASSUME NEW t \in Threads, Join(t) PROVE TypeOK'
  BY <1>3 DEF TypeOK, Join, Tells
<1>4. ASSUME NEW t \in Threads, RunCheck(t) PROVE TypeOK'
  <2>1. generation' \in Nat
    <3>1. generation \in Nat /\ generation' = generation + 1
      BY <1>4 DEF TypeOK, RunCheck
    <3> QED BY <3>1
  <2>2. telling' # None => telling'.by \in Threads /\ telling'.by # t /\ Tells(telling'.by)
    BY <1>4 DEF TypeOK, RunCheck
  <2> QED BY <1>4, <2>1, <2>2 DEF TypeOK, RunCheck
<1>5. ASSUME NEW t \in Threads, NotifyReads(t) PROVE TypeOK'
  <2>1. telling' \in Reading /\ telling'.by = t
    BY <1>5 DEF TypeOK, NotifyReads, Reading, ChecksNow, Checks
  <2> QED BY <1>5, <2>1 DEF TypeOK, NotifyReads, Tells
<1>6. ASSUME NEW t \in Threads, Notify(t) PROVE TypeOK'
  <2>1. [checks |-> telling.checks, records |-> records] \in States
    BY <1>6 DEF TypeOK, Notify, Reading, States
  <2>2. told' \in [Watchers -> States]
    BY <1>6, <2>1 DEF TypeOK, Notify
  <2>3. After(t) \in {"checking", "idle"}
    BY DEF After
  <2> QED BY <1>6, <2>2, <2>3 DEF TypeOK, Notify
<1>7. ASSUME NEW w \in Watchers, WatchTells(w) PROVE TypeOK'
  <2>1. StateNow \in States
    BY DEF TypeOK, StateNow, States, ChecksNow, Checks
  <2> QED BY <1>7, <2>1 DEF TypeOK, WatchTells, Tells
<1>8. ASSUME NEW w \in Watchers, WatchAdds(w) PROVE TypeOK'
  BY <1>8 DEF TypeOK, WatchAdds, Tells
<1>9. ASSUME NEW w \in Watchers, Unwatch(w) PROVE TypeOK'
  BY <1>9 DEF TypeOK, Unwatch, Tells
<1>10. CASE UNCHANGED vars
  BY <1>10 DEF TypeOK, vars, Tells
<1> QED BY <1>1, <1>2, <1>3, <1>4, <1>5, <1>6, <1>7, <1>8, <1>9, <1>10 DEF Next, Works

-----------------------------------------------------------------------------
(* One check at a time, and its joiners.                                   *)

\* Every step keeps one check, made by one task, and its joiners waiting.
LEMMA Next_Checks == ASSUME TypeOK, CheckInv, [Next]_vars PROVE CheckInv'
<1> USE DEF Goes, checks
<1>1. ASSUME NEW t \in Threads, Ask(t) PROVE CheckInv'
  <2>1. CASE running
    BY <1>1, <2>1 DEF TypeOK, Ask, CheckInv, OneMakes, JoinersWait, Making
  <2>2. CASE ~running
    BY <1>1, <2>2 DEF TypeOK, Ask, CheckInv, OneMakes, JoinersWait, Making
  <2> QED BY <2>1, <2>2
<1>2. ASSUME NEW t \in Threads, Change(t) PROVE CheckInv'
  BY <1>2 DEF TypeOK, Change, CheckInv, OneMakes, JoinersWait, Making
<1>3. ASSUME NEW t \in Threads, Join(t) PROVE CheckInv'
  BY <1>3 DEF TypeOK, Join, CheckInv, OneMakes, JoinersWait, Making
<1>4. ASSUME NEW t \in Threads, RunCheck(t) PROVE CheckInv'
  <2>1. OneMakes'
    BY <1>4 DEF TypeOK, RunCheck, CheckInv, OneMakes, Making
  <2>2. generation \in Nat /\ joined \in [Threads -> Nat]
    BY DEF TypeOK
  <2>3. \A u \in Threads : thread[u] = "joined" => generation + 1 > joined[u]
    <3> SUFFICES ASSUME NEW u \in Threads, thread[u] = "joined" PROVE generation + 1 > joined[u]
      OBVIOUS
    <3>1. joined[u] \in Nat
      BY <2>2
    <3>2. generation > joined[u] \/ generation = joined[u]
      BY DEF CheckInv, JoinersWait
    <3> QED BY <2>2, <3>1, <3>2
  <2>4. JoinersWait'
    BY <1>4, <2>3 DEF TypeOK, RunCheck, JoinersWait
  <2> QED BY <2>1, <2>4 DEF CheckInv
<1>5. ASSUME NEW t \in Threads, NotifyReads(t) PROVE CheckInv'
  BY <1>5 DEF NotifyReads, CheckInv, OneMakes, JoinersWait, Making
<1>6. ASSUME NEW t \in Threads, Notify(t) PROVE CheckInv'
  <2>1. \A u \in Threads : Making(u)' <=> Making(u)
    BY <1>6 DEF TypeOK, Notify, After, Tells, Making
  <2>2. \A u \in Threads : thread'[u] = "joined" => thread[u] = "joined"
    BY <1>6 DEF TypeOK, Notify, After
  <2>3. UNCHANGED <<running, generation, joined>>
    BY <1>6 DEF Notify
  <2>4. OneMakes'
    BY <2>1, <2>3 DEF CheckInv, OneMakes
  <2>5. JoinersWait'
    BY <2>2, <2>3 DEF CheckInv, JoinersWait
  <2> QED BY <2>4, <2>5 DEF CheckInv
<1>7. CASE \E w \in Watchers : WatchTells(w) \/ WatchAdds(w) \/ Unwatch(w)
  <2>1. UNCHANGED <<running, generation, thread, joined>>
    BY <1>7 DEF WatchTells, WatchAdds, Unwatch
  <2> QED BY <2>1 DEF CheckInv, OneMakes, JoinersWait, Making
<1>8. CASE UNCHANGED vars
  BY <1>8 DEF vars, CheckInv, OneMakes, JoinersWait, Making
<1> QED BY <1>1, <1>2, <1>3, <1>4, <1>5, <1>6, <1>7, <1>8 DEF Next, Works

-----------------------------------------------------------------------------
(* What watchers are told.                                                 *)

\* A change, a check that begins or one that ends leaves its thread yet to tell.
LEMMA Begins_Told ==
    ASSUME TypeOK, ToldInv, NEW t \in Threads, thread[t] \in {"idle", "checking"},
           NEW to \in {"telling start", "telling end", "telling change"},
           Goes(t, to), UNCHANGED <<watchers, telling, told, watching>>,
           \A w \in Watchers : watching[w] # "told"
    PROVE  ToldInv'
<1>1. YetToTell(t)'
  BY DEF TypeOK, Goes, YetToTell, Tells
<1> QED BY <1>1 DEF ToldInv, ReadIsNow, ToldOrToBe, ComesAtRest

\* A thread at rest that joins, or answers, changes nothing of what is told.
LEMMA Rests_Told ==
    ASSUME TypeOK, ToldInv, NEW t \in Threads, ~Tells(t), NEW to \in {"joined", "idle"},
           Goes(t, to), UNCHANGED <<checks, records, watchers, telling, told, watching>>,
           to # "idle" => \A w \in Watchers : watching[w] # "told"
    PROVE  ToldInv'
<1>1. \A u \in Threads : YetToTell(u) <=> YetToTell(u)'
  BY DEF TypeOK, Goes, YetToTell, Tells
<1>2. StateNow' = StateNow /\ ChecksNow' = ChecksNow
  BY DEF StateNow, ChecksNow, checks
<1>3. ComesAtRest'
  BY <1>2 DEF TypeOK, ToldInv, ComesAtRest, Goes
<1> QED BY <1>1, <1>2, <1>3 DEF ToldInv, ReadIsNow, ToldOrToBe

\* Every step keeps what watchers were told, or are about to be.
LEMMA Next_Told ==
    ASSUME LateWatch = FALSE, TypeOK, ToldInv, [Next]_vars
    PROVE  ToldInv'
<1>1. ASSUME NEW t \in Threads, Ask(t) PROVE ToldInv'
  <2>1. thread[t] = "idle" /\ \A w \in Watchers : watching[w] # "told"
    BY <1>1 DEF Ask, Begins
  <2>2. CASE running
    BY <1>1, <2>1, <2>2, Rests_Told DEF TypeOK, Ask, Tells, checks
  <2>3. CASE ~running
    BY <1>1, <2>1, <2>3, Begins_Told DEF Ask
  <2> QED BY <2>2, <2>3
<1>2. ASSUME NEW t \in Threads, Change(t) PROVE ToldInv'
  BY <1>2, Begins_Told DEF Change, Begins
<1>3. ASSUME NEW t \in Threads, Join(t) PROVE ToldInv'
  BY <1>3, Rests_Told DEF Join, Tells
<1>4. ASSUME NEW t \in Threads, RunCheck(t) PROVE ToldInv'
  <2>1. \A w \in Watchers : watching[w] # "told"
    BY <1>4 DEF ToldInv, ComesAtRest, RunCheck
  <2> QED BY <1>4, <2>1, Begins_Told DEF RunCheck
<1>5. ASSUME NEW t \in Threads, NotifyReads(t) PROVE ToldInv'
  <2>1. telling' # None /\ telling'.checks = ChecksNow'
    <3>1. telling' \in Reading
      BY <1>5 DEF TypeOK, NotifyReads, Reading, ChecksNow, Checks
    <3> QED BY <1>5, <3>1, NoReading DEF NotifyReads, checks, ChecksNow
  <2> QED BY <1>5, <2>1 DEF NotifyReads, ToldInv, ReadIsNow, ToldOrToBe, ComesAtRest, StateNow,
                             ChecksNow, checks
<1>6. ASSUME NEW t \in Threads, Notify(t) PROVE ToldInv'
  <2>1. telling' = None /\ StateNow' = StateNow /\ watchers' = watchers
    BY <1>6 DEF Notify, StateNow, ChecksNow, checks
  <2>2. ASSUME NEW w \in watchers' PROVE told'[w] = StateNow' \/ \E u \in Threads : YetToTell(u)'
    <3>1. told'[w] = [checks |-> telling.checks, records |-> records]
      BY <1>6, <2>1, <2>2 DEF TypeOK, Notify
    <3>2. CASE telling.checks = ChecksNow
      BY <2>1, <3>1, <3>2 DEF StateNow
    <3>3. ASSUME NEW u \in Threads, YetToTell(u) PROVE YetToTell(u)'
      <4>1. u # t
        BY <1>6, <3>3 DEF YetToTell, Notify
      <4> QED BY <1>6, <2>1, <3>3, <4>1 DEF TypeOK, YetToTell, Notify, Goes, Tells
    <3> QED BY <1>6, <3>2, <3>3 DEF ToldInv, ReadIsNow, Notify
  <2>3. ComesAtRest'
    BY <1>6 DEF ToldInv, ComesAtRest, Notify, Tells
  <2> QED BY <2>1, <2>2, <2>3 DEF ToldInv, ReadIsNow, ToldOrToBe
<1>7. ASSUME NEW w \in Watchers, WatchTells(w) PROVE ToldInv'
  <2>1. w \notin watchers /\ \A v \in Watchers : told'[v] = IF v = w THEN StateNow ELSE told[v]
    BY <1>7 DEF TypeOK, WatchTells
  <2>2. /\ StateNow' = StateNow /\ ChecksNow' = ChecksNow /\ watchers' = watchers
        /\ telling' = telling /\ \A u \in Threads : YetToTell(u)' <=> YetToTell(u)
    BY <1>7 DEF WatchTells, StateNow, ChecksNow, checks, YetToTell, Tells
  <2>3. ComesAtRest'
    BY <1>7, <2>1, <2>2 DEF TypeOK, ToldInv, ComesAtRest, WatchTells, Resting
  <2> QED BY <2>1, <2>2, <2>3 DEF TypeOK, ToldInv, ReadIsNow, ToldOrToBe
<1>8. ASSUME NEW w \in Watchers, WatchAdds(w) PROVE ToldInv'
  <2>1. told[w] = StateNow
    BY <1>8 DEF ToldInv, ComesAtRest, WatchAdds
  <2> QED BY <1>8, <2>1 DEF TypeOK, WatchAdds, ToldInv, ReadIsNow, ToldOrToBe, ComesAtRest,
                            StateNow, ChecksNow, checks, YetToTell, Tells
<1>9. ASSUME NEW w \in Watchers, Unwatch(w) PROVE ToldInv'
  BY <1>9 DEF TypeOK, Unwatch, ToldInv, ReadIsNow, ToldOrToBe, ComesAtRest,
              StateNow, ChecksNow, checks, YetToTell, Tells
<1>10. CASE UNCHANGED vars
  BY <1>10 DEF vars, ToldInv, ReadIsNow, ToldOrToBe, ComesAtRest,
              StateNow, ChecksNow, checks, YetToTell, Tells
<1> QED BY <1>1, <1>2, <1>3, <1>4, <1>5, <1>6, <1>7, <1>8, <1>9, <1>10 DEF Next, Works

-----------------------------------------------------------------------------
(* The theorems.                                                           *)

\* The inductive invariant of the checks holds of every behaviour.
THEOREM InstallChecks_Invariant == Spec => [](TypeOK /\ CheckInv)
<1>1. Init => TypeOK /\ CheckInv
  BY Init_Types DEF Init, CheckInv, OneMakes, JoinersWait, Making
<1>2. TypeOK /\ CheckInv /\ [Next]_vars => (TypeOK /\ CheckInv)'
  BY Next_Types, Next_Checks
<1> QED BY <1>1, <1>2, PTL DEF Spec

\* The store is read by one check at a time, and the state says so exactly while it is.
THEOREM InstallChecks_OneCheck == Spec => []OneCheck
<1>1. CheckInv => OneCheck
  <2> SUFFICES ASSUME CheckInv PROVE OneCheck
    OBVIOUS
  <2> DEFINE making == {t \in Threads : thread[t] \in {"telling start", "checking"}}
  <2>1. running <=> making # {}
    BY DEF CheckInv, OneMakes, Making
  <2> HIDE DEF making
  <2>2. Cardinality(making) <= 1
    <3>1. CASE making = {}
      <4>1. Cardinality(making) = 0
        BY <3>1, FS_EmptySet
      <4> QED BY <4>1
    <3>2. ASSUME NEW t \in making PROVE Cardinality(making) = 1
      <4>1. making = {t}
        BY <3>2 DEF making, CheckInv, OneMakes, Making
      <4> QED BY <4>1, FS_Singleton
    <3> QED BY <3>1, <3>2
  <2> QED BY <2>1, <2>2 DEF OneCheck, making
<1> QED BY <1>1, InstallChecks_Invariant, PTL

\* Whoever joins a check is answered by it or by a later one.
THEOREM InstallChecks_JoinerAnsweredLater == Spec => JoinerAnsweredLater
<1> DEFINE Later == \A t \in Threads : thread[t] = "joined" /\ thread'[t] = "idle"
                                         => generation > joined[t]
<1>1. ASSUME TypeOK, CheckInv, [Next]_vars PROVE Later
  <2> SUFFICES ASSUME NEW t \in Threads, thread[t] = "joined", thread'[t] = "idle"
               PROVE  generation > joined[t]
    OBVIOUS
  <2>1. Join(t)
    BY <1>1 DEF TypeOK, Next, Works, Ask, Change, Join, RunCheck, NotifyReads, Notify, Tells, Goes,
                WatchTells, WatchAdds, Unwatch, vars
  <2> QED BY <1>1, <2>1 DEF CheckInv, JoinersWait, Join, Ended
<1>2. TypeOK /\ CheckInv /\ [Next]_vars => [Later]_vars
  BY <1>1
<1> QED BY <1>2, InstallChecks_Invariant, PTL DEF Spec, JoinerAnsweredLater

\* Where no watcher comes while the service is at work, each was told the state there is once
\* every change has been told.
THEOREM InstallChecks_ToldAtRest == ASSUME LateWatch = FALSE PROVE Spec => []ToldAtRest
<1>1. Init => TypeOK /\ ToldInv
  BY Init_Types DEF Init, ToldInv, ReadIsNow, ToldOrToBe, ComesAtRest
<1>2. TypeOK /\ ToldInv /\ [Next]_vars => (TypeOK /\ ToldInv)'
  BY Next_Types, Next_Told
<1>3. TypeOK /\ ToldInv => ToldAtRest
  BY DEF TypeOK, ToldInv, ToldOrToBe, ToldAtRest, YetToTell, Tells, Reading
<1> QED BY <1>1, <1>2, <1>3, PTL DEF Spec
=============================================================================
