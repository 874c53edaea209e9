------------------------------ MODULE IdleLock ------------------------------
(***************************************************************************)
(* The session's idle lock (crates/oxyos-compositor/src/idle.rs and the    *)
(* turn that follows it, lib.rs): with no input for the user's `lock_after`*)
(* the session locks.  The deadline is computed, never polled: the turn    *)
(* waits until it at most.                                                 *)
(*                                                                         *)
(* Time passes only while the turn waits; what wakes it comes with the     *)
(* wait's end.  The scene's count of input is whether it changed since     *)
(* Idle last looked.  `armed` is a history: when the documentation says    *)
(* the deadline was last armed.                                            *)
(***************************************************************************)
EXTENDS Naturals

CONSTANTS Afters,   \* the settings of lock_after: Never or a time
          MaxTime,  \* bound: the clock
          Never

TimeAssumption  == MaxTime \in Nat
AfterAssumption == Never \in Afters /\ Afters \ {Never} \subseteq Nat \ {0}

VARIABLES
    phase,      \* "seat", "wait", "woken" or "answer": where the turn is
    now,
    after,      \* Idle::after
    since,      \* Idle::since
    held,       \* Idle::held
    idle,       \* Idle::idle, as logind was told
    seen,       \* Idle::locked: the lock as last seen
    moved,      \* the scene's activity differs from Idle::activity
    locked,     \* the scene's lock
    armed,      \* history: when the deadline was last armed
    touched     \* history: when the person's input last came
vars == <<phase, now, after, since, held, idle, seen, moved, locked, armed, touched>>

Init ==
    /\ phase = "seat" /\ now = 0
    /\ after \in Afters /\ since = 0 /\ armed = 0 /\ touched = 0
    /\ held = FALSE /\ idle = FALSE /\ seen = FALSE /\ moved = FALSE /\ locked = FALSE

\* Idle::set_lock_after.
SetLockAfter(new) ==
    /\ phase = "seat"
    /\ new # after
    /\ after' = new /\ since' = now /\ armed' = now
    /\ UNCHANGED <<phase, now, held, idle, seen, moved, locked, touched>>

\* Idle::set_held, from logind's inhibitors (Compositor::follow_seat).
SetHeld(new) ==
    /\ phase = "seat"
    /\ new # held
    /\ held' = new
    /\ since' = IF held THEN now ELSE since
    /\ armed' = IF held THEN now ELSE armed
    /\ UNCHANGED <<phase, now, after, idle, seen, moved, locked, touched>>

\* The shortcut, the shell, logind: the session locks.
Lock ==
    /\ phase \in {"seat", "woken"}
    /\ ~locked
    /\ locked' = TRUE
    /\ UNCHANGED <<phase, now, after, since, held, idle, seen, moved, armed, touched>>

\* Scene::user_input: read as the turn wakes.
Input ==
    /\ phase = "woken"
    /\ moved' = TRUE /\ armed' = now /\ touched' = now
    /\ UNCHANGED <<phase, now, after, since, held, idle, seen, locked>>

\* A mistake: input on the lock screen does not count.
FollowIdleLocking ==
    /\ phase \in {"seat", "woken"}
    /\ phase' = IF phase = "seat" THEN "wait" ELSE "answer"
    /\ LET from  == IF (moved \/ seen) /\ ~locked THEN now ELSE since
           is    == ~held /\ after # Never /\ now >= from + after
       IN  /\ since' = from
           /\ moved' = FALSE
           /\ idle' = is
           /\ locked' = (locked \/ is)
           /\ seen' = (locked \/ is)
    /\ UNCHANGED <<now, after, held, armed, touched>>

\* Idle::turn, of Compositor::follow_idle, at the start of the turn and before its frame.
FollowIdle ==
    /\ phase \in {"seat", "woken"}
    /\ phase' = IF phase = "seat" THEN "wait" ELSE "answer"
    /\ LET arms  == moved \/ (seen /\ ~locked)
           from  == IF arms THEN now ELSE since
           is    == ~held /\ after # Never /\ now >= from + after
       IN  /\ since' = from
           /\ moved' = FALSE
           /\ idle' = is
           /\ locked' = (locked \/ is)
           /\ seen' = (locked \/ is)
    /\ UNCHANGED <<now, after, held, armed, touched>>

\* Idle::deadline: none while nothing can lock or make the session idle.
Deadline == IF idle \/ held \/ after = Never THEN Never ELSE since + after

\* Compositor::next_wake: time passes while the turn waits, until the deadline at most.
TimePasses ==
    /\ phase = "wait" /\ now < MaxTime
    /\ Deadline # Never => now < Deadline
    /\ now' = now + 1
    /\ UNCHANGED <<phase, after, since, held, idle, seen, moved, locked, armed, touched>>

Wake ==
    /\ phase = "wait"
    /\ phase' = "woken"
    /\ UNCHANGED <<now, after, since, held, idle, seen, moved, locked, armed, touched>>

\* Compositor::authenticate: an accepted password unlocks.
Authenticate(accepted) ==
    /\ phase = "answer"
    /\ phase' = "seat"
    /\ accepted => locked
    /\ locked' = (locked /\ ~accepted)
    /\ armed' = IF accepted THEN now ELSE armed
    /\ UNCHANGED <<now, after, since, held, idle, seen, moved, touched>>

Next ==
    \/ FollowIdle \/ Lock \/ Input \/ TimePasses \/ Wake
    \/ \E new \in Afters : SetLockAfter(new)
    \/ \E new \in BOOLEAN : SetHeld(new)
    \/ \E accepted \in BOOLEAN : Authenticate(accepted)

Spec == Init /\ [][Next]_vars

-----------------------------------------------------------------------------
\* Every part of the state is of its kind, and nothing was armed in the future.
TypeOK ==
    /\ phase \in {"seat", "wait", "woken", "answer"}
    /\ after \in Afters
    /\ {now, since, armed, touched} \subseteq 0..MaxTime /\ since <= now /\ armed <= now
    /\ {held, idle, seen, moved, locked} \subseteq BOOLEAN

\* The time with nothing to arm the deadline again.
LeftAlone == ~held /\ after # Never /\ now >= armed + after

\* Left alone, the session never goes on unlocked past the deadline: no turn waits beyond it
\* (Idle::deadline, Compositor::next_wake).
LocksInTime == ~held /\ after # Never /\ now > armed + after => locked

\* The idle lock never comes early: not before the time since the last input, unlock, change
\* or end of holding idle back (ADR 0010, decision 5).
NeverEarly == phase' # phase /\ ~locked /\ locked' => LeftAlone

\* logind is told the session is idle once the deadline passes, and no longer once the person
\* is back, whether it is locked or not.
HintFollows == phase = "wait" /\ ~held /\ after # Never =>
    /\ idle => now >= touched + after
    /\ now > armed + after => idle
=============================================================================
