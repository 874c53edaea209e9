---------------------------- MODULE LockChecker ----------------------------
(***************************************************************************)
(* The password checker and its throttle (crates/oxyos-auth/src/checker.rs *)
(* and Throttle in lib.rs): one password at a time on a thread of its own, *)
(* and after five rejections in a row each attempt waits, twice as long    *)
(* each time.                                                              *)
(*                                                                         *)
(* Time is counted in the throttle's first wait (30 s).  `left` is what    *)
(* Throttle::wait answers, so time passing only shortens it.               *)
(***************************************************************************)
EXTENDS Naturals

CONSTANTS FreeAttempts,  \* FREE_ATTEMPTS
          LongestWait,   \* LONGEST_WAIT, in first waits
          MostDoublings, \* the doublings' cap
          CountMax,      \* the largest count of rejections (u32::MAX)
          MaxStreak      \* bound: rejections in a row

BoundAssumption == {FreeAttempts, LongestWait, MostDoublings, CountMax, MaxStreak} \subseteq Nat
FirstAssumption == FreeAttempts > 0 /\ LongestWait > 0
CountAssumption == CountMax >= FreeAttempts

VARIABLES
    checking,    \* Checker::checking
    answer,      \* the thread's answer, not read yet
    rejections,  \* Throttle::rejections
    left,        \* Throttle::until, from now
    streak,      \* history: guesses rejected in a row
    since        \* history: how long ago the last one was, at most LongestWait
vars == <<checking, answer, rejections, left, streak, since>>

Outcomes == {"accepted", "rejected", "failed"}
Least(a, b) == IF a < b THEN a ELSE b

Init ==
    /\ checking = FALSE /\ answer = "none"
    /\ rejections = 0 /\ left = 0
    /\ streak = 0 /\ since = LongestWait

\* Checker::attempt: not while one is checked, nor before the throttle's wait is over.
Attempt ==
    /\ ~checking /\ left = 0
    /\ checking' = TRUE
    /\ UNCHANGED <<answer, rejections, left, streak, since>>

\* The thread: PAM's answer, or the online check's, or PAM failing.
ThreadAnswers ==
    /\ checking /\ answer = "none"
    /\ \E outcome \in Outcomes : answer' = outcome
    /\ UNCHANGED <<checking, rejections, left, streak, since>>

\* Throttle::record of a rejection: the count saturates, the doublings are capped before the
\* shift, and the wait is at most the longest.
Counted == Least(rejections + 1, CountMax)
WaitAfter(count) ==
    LET doublings == Least(count - FreeAttempts, MostDoublings)
    IN  Least(2 ^ doublings, LongestWait)

RecordRejected ==
    /\ rejections' = Counted
    /\ left' = IF Counted >= FreeAttempts THEN WaitAfter(Counted) ELSE left
    /\ streak' = streak + 1
    /\ since' = 0

RecordAccepted ==
    /\ rejections' = 0 /\ left' = 0
    /\ streak' = 0 /\ since' = LongestWait

\* Checker::answer: a PAM failure is no guess, and is not counted.
Answer ==
    /\ answer # "none"
    /\ answer' = "none" /\ checking' = FALSE
    /\ \/ answer = "accepted" /\ RecordAccepted
       \/ answer = "rejected" /\ streak < MaxStreak /\ RecordRejected
       \/ answer = "failed" /\ UNCHANGED <<rejections, left, streak, since>>

TimePasses ==
    /\ left' = IF left = 0 THEN 0 ELSE left - 1
    /\ since' = Least(since + 1, LongestWait)
    /\ UNCHANGED <<checking, answer, rejections, streak>>

Next == Attempt \/ ThreadAnswers \/ Answer \/ TimePasses

Spec == Init /\ [][Next]_vars

-----------------------------------------------------------------------------
\* Every part of the state is of its kind; no wait is longer than LONGEST_WAIT, so a person is
\* never kept out longer (Throttle::record).
TypeOK ==
    /\ checking \in BOOLEAN /\ answer \in Outcomes \cup {"none"}
    /\ rejections \in 0..CountMax
    /\ left \in 0..LongestWait
    /\ streak \in Nat /\ since \in 0..LongestWait

\* The wait the documentation gives after n rejections in a row: none, then a first wait
\* doubling each time up to the longest.
Promised(n) ==
    IF n < FreeAttempts THEN 0
    ELSE IF \E k \in 0..LongestWait : k <= n - FreeAttempts /\ 2 ^ k >= LongestWait
         THEN LongestWait
         ELSE 2 ^ (n - FreeAttempts)

\* However many guesses were made, and whatever their count saturates at, a further one is
\* checked only when the wait promised for those before it is over (Throttle::record, wait).
GuessesSpaced == checking' /\ ~checking => since >= Promised(streak)
=============================================================================
