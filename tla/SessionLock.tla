---------------------------- MODULE SessionLock ----------------------------
(***************************************************************************)
(* The session's lock (crates/oxyos-compositor-core/src/scene/lock.rs,     *)
(* scene.rs; crates/oxyos-compositor/src/lib.rs; the session's PAM path in *)
(* tools/oxyos-session/src/main.rs and crates/oxyos-auth/src/checker.rs).  *)
(*                                                                         *)
(* A lock surface gives a password chunk by chunk; the scene keeps it      *)
(* until the compositor's turn takes it to a thread that checks it, one at *)
(* a time, and only an acceptance unlocks.  Before the machine sleeps the  *)
(* session locks, and holds sleep back until every display shows the lock. *)
(*                                                                         *)
(* Abstractions.  One lock screen client (the shell).  A chunk is a part   *)
(* of the password and remembers the lock it was given under (a history).  *)
(* What a frame shows is whether it is of the locked session.  How long    *)
(* the throttle waits is module LockChecker's; here it refuses or not.     *)
(***************************************************************************)
EXTENDS Naturals, Sequences

CONSTANTS LockSurfaces, Displays,
          Parts,       \* how many parts the right password has, given in order
          Chunks,      \* the most chunks a password has (MAX_SECRET_BYTES)
          SeatEvents,  \* which events logind sends: "lock", "sleep", "pause"
          MaxLocks,    \* bound: how often the session locks
          MaxFrames,   \* bound: frames for what clients draw or the pointer moving
          MaxEvents,   \* bound: events logind sends of its own
          None

ASSUME BoundAssumption  == {Parts, Chunks, MaxLocks, MaxFrames, MaxEvents} \subseteq Nat
ASSUME PartsAssumption  == Parts \in 1..Chunks
ASSUME EventsAssumption == SeatEvents \subseteq {"lock", "sleep", "pause"}

\* A part of a password, with the lock it was given under; a password submitted; one that
\* is checked, with its answer.
Account  == {None, "own", "other"}
Chunk    == [part : 1..Parts, lock : Nat]
Password == [surface : LockSurfaces, account : Account, secret : Seq(Chunk)]
Asked    == [secret : Seq(Chunk), answer : {None, "accepted", "rejected"}]

ASSUME NoneAssumption ==
    None \notin LockSurfaces \cup Password \cup Asked \cup Seq(Chunk) \cup {"accepted", "rejected"}

VARIABLES
    phase,      \* where the compositor's turn is
    locked,
    locks,      \* history: how often the session locked
    surfaces,   \* the live lock surfaces
    receiving,  \* the chunks each lock surface gave
    accounts,   \* the account its next password is for
    submitted,  \* the password for the turn to take
    checking,   \* the surface whose password is checked, for the scene
    asked,      \* the same, for the compositor
    thread,     \* the checker's thread: the password and its answer
    owed,       \* history: the surfaces told nothing yet of their password
    unlocked,   \* history: the password of the last unlock
    screens,    \* what each display shows and what comes
    away,       \* another session has the displays
    queue,      \* logind's events not read yet
    events,     \* how many logind sent
    machine,    \* "awake", "preparing" or "asleep"
    held,       \* the session's sleep inhibitor
    sleeping,   \* the machine is about to sleep, for the compositor
    drawn       \* frames for what clients drew or the pointer moving

scene == <<locked, locks, surfaces, receiving, accounts, submitted, checking, owed, unlocked>>
check == <<asked, thread>>
shown == <<screens, away, drawn>>
seat  == <<queue, events, machine, held, sleeping>>
vars  == <<phase, scene, check, shown, seat>>

Pending == {"none", "frame", "pointer"}
Screen  == [display : BOOLEAN, pending : Pending, recompose : BOOLEAN,
            composed : {"nothing", "open", "locked"},
            composingLocked : BOOLEAN, shownLocked : BOOLEAN,
            picture : {"none", "open", "locked"}]

\* Compositor::new: nothing composed yet, the session's sleep held back.
Init ==
    /\ phase = "seat"
    /\ locked = FALSE /\ locks = 0 /\ surfaces = {}
    /\ receiving = [s \in LockSurfaces |-> <<>>]
    /\ accounts = [s \in LockSurfaces |-> None]
    /\ submitted = None /\ checking = None /\ asked = None /\ thread = None
    /\ owed = {} /\ unlocked = None
    /\ screens = [d \in Displays |->
          [display |-> TRUE, pending |-> "none", recompose |-> TRUE, composed |-> "nothing",
           composingLocked |-> FALSE, shownLocked |-> FALSE, picture |-> "none"]]
    /\ away = FALSE /\ drawn = 0
    /\ queue = <<>> /\ events = 0 /\ machine = "awake" /\ held = TRUE /\ sleeping = FALSE

(***************************************************************************)
(* The scene's lock                                                        *)
(***************************************************************************)

\* Scene::lock: once; nothing of an earlier password is left to forget.
Lock ==
    /\ locked' = TRUE
    /\ locks' = IF locked THEN locks ELSE locks + 1
    /\ UNCHANGED <<surfaces, receiving, accounts, submitted, checking, owed, unlocked>>

\* A mistake: a password submitted and not taken stays when its surface goes.
ForgetGiven(gone) ==
    /\ receiving' = [s \in LockSurfaces |-> IF s \in gone THEN <<>> ELSE receiving[s]]
    /\ accounts' = [s \in LockSurfaces |-> IF s \in gone THEN None ELSE accounts[s]]
    /\ owed' = owed \ gone
    /\ UNCHANGED <<submitted, checking>>

\* Scene::forget_secrets: with `gone`, the surfaces that go, or all on unlocking.  A password
\* the session has taken is the session's to answer.
Forget(gone) ==
    LET drops == submitted # None /\ submitted.surface \in gone
    IN  /\ receiving' = [s \in LockSurfaces |-> IF s \in gone THEN <<>> ELSE receiving[s]]
        /\ accounts' = [s \in LockSurfaces |-> IF s \in gone THEN None ELSE accounts[s]]
        /\ submitted' = IF drops THEN None ELSE submitted
        /\ checking' = IF drops THEN None ELSE checking
        /\ owed' = owed \ gone

\* Scene::remove_node of lock surfaces: destroyed one by one, or with their client.
Remove(gone) ==
    /\ surfaces' = surfaces \ gone
    /\ Forget(gone)
    /\ UNCHANGED <<locked, locks, unlocked>>

CreateLockSurface(s) ==
    /\ s \notin surfaces
    /\ surfaces' = surfaces \cup {s}
    /\ UNCHANGED <<locked, locks, receiving, accounts, submitted, checking, owed, unlocked>>

\* Scene::receive_secret.  One chunk too many disconnects the client.
AuthenticateSecret(s, part) ==
    /\ s \in surfaces
    /\ locked
    /\ IF Len(receiving[s]) < Chunks
       THEN /\ receiving' = [receiving EXCEPT ![s] = Append(@, [part |-> part, lock |-> locks])]
            /\ UNCHANGED <<locked, locks, surfaces, accounts, submitted, checking, owed, unlocked>>
       ELSE Remove(surfaces)

\* Scene::lock_request (AuthenticateAccount).
AuthenticateAccount(s, account) ==
    /\ s \in surfaces /\ locked
    /\ accounts' = [accounts EXCEPT ![s] = account]
    /\ UNCHANGED <<locked, locks, surfaces, receiving, submitted, checking, owed, unlocked>>

\* A mistake: a second password is submitted while one is checked.
AuthenticateAnyway(s) ==
    /\ s \in surfaces /\ locked
    /\ receiving' = [receiving EXCEPT ![s] = <<>>]
    /\ accounts' = [accounts EXCEPT ![s] = None]
    /\ checking' = s
    /\ submitted' = [surface |-> s, account |-> accounts[s], secret |-> receiving[s]]
    /\ owed' = owed \cup {s}
    /\ UNCHANGED <<locked, locks, surfaces, unlocked>>

\* Scene::submit_secret: busy while another is checked, whichever surface asked for it.
Authenticate(s) ==
    /\ s \in surfaces
    /\ receiving' = [receiving EXCEPT ![s] = <<>>]
    /\ accounts' = [accounts EXCEPT ![s] = None]
    /\ IF locked /\ checking = None
       THEN /\ checking' = s
            /\ submitted' = [surface |-> s, account |-> accounts[s], secret |-> receiving[s]]
            /\ owed' = owed \cup {s}
       ELSE UNCHANGED <<checking, submitted, owed>>
    /\ UNCHANGED <<locked, locks, surfaces, unlocked>>

\* The clients' requests and the person's keys, as the turn reads them.
Requests ==
    /\ phase = "read"
    /\ \/ ~locked /\ locks < MaxLocks /\ Lock
       \/ \E s \in LockSurfaces :
             \/ CreateLockSurface(s)
             \/ s \in surfaces /\ Remove({s})
             \/ Authenticate(s)
             \/ \E part \in 1..Parts : AuthenticateSecret(s, part)
             \/ \E account \in {"own", "other"} : AuthenticateAccount(s, account)
       \/ surfaces # {} /\ Remove(surfaces)
    /\ UNCHANGED <<phase, check, shown, seat>>

(***************************************************************************)
(* The authentication path                                                 *)
(***************************************************************************)

Right(secret) == Len(secret) = Parts /\ \A i \in 1..Parts : secret[i].part = i

\* Checker's thread: PAM, then Oxy, answer; the right password may still be refused.
ThreadAnswers ==
    /\ thread # None /\ thread.answer = None
    /\ \E outcome \in {"accepted", "rejected"} :
          /\ outcome = "accepted" => Right(thread.secret)
          /\ thread' = [thread EXCEPT !.answer = outcome]
    /\ UNCHANGED <<phase, scene, asked, shown, seat>>

\* Scene::authenticated, then unlock on an acceptance.
Told(s) ==
    /\ checking' = IF checking = s THEN None ELSE checking
    /\ owed' = owed \ {s}

Unlock(secret) ==
    /\ locked' = FALSE
    /\ unlocked' = secret
    /\ receiving' = [s \in LockSurfaces |-> <<>>]
    /\ accounts' = [s \in LockSurfaces |-> None]
    /\ submitted' = None
    /\ owed' = {}
    /\ checking' = IF checking = asked \/ submitted # None THEN None ELSE checking
    /\ UNCHANGED <<locks, surfaces>>

\* A mistake: any answer unlocks.
AnswerAny ==
    /\ phase = "answer"
    /\ phase' = "take"
    /\ IF asked = None \/ thread = None \/ thread.answer = None
       THEN UNCHANGED <<scene, check>>
       ELSE asked' = None /\ thread' = None /\ Unlock(thread.secret)
    /\ UNCHANGED <<shown, seat>>

\* Compositor::authenticate, its first half: the answer of the password being checked.
Answer ==
    /\ phase = "answer"
    /\ phase' = "take"
    /\ IF asked = None \/ thread = None \/ thread.answer = None
       THEN UNCHANGED <<scene, check>>
       ELSE /\ asked' = None
            /\ thread' = None
            /\ IF thread.answer = "accepted"
               THEN Unlock(thread.secret)
               ELSE /\ Told(asked)
                    /\ UNCHANGED <<locked, locks, surfaces, receiving, accounts, submitted, unlocked>>
    /\ UNCHANGED <<shown, seat>>

\* Compositor::authenticate, its second half, and Pam::attempt: another account's password is
\* rejected, and the throttle may refuse it, at once.
Take ==
    /\ phase = "take"
    /\ phase' = "frame"
    /\ IF submitted = None THEN UNCHANGED <<scene, check>>
       ELSE /\ submitted' = None
            /\ \/ /\ submitted.account # "other"
                  /\ thread = None
                  /\ thread' = [secret |-> submitted.secret, answer |-> None]
                  /\ asked' = submitted.surface
                  /\ UNCHANGED <<checking, owed>>
               \/ Told(submitted.surface) /\ UNCHANGED check
            /\ UNCHANGED <<locked, locks, surfaces, receiving, accounts, unlocked>>
    /\ UNCHANGED <<shown, seat>>

(***************************************************************************)
(* The displays                                                            *)
(***************************************************************************)

Now == IF locked THEN "locked" ELSE "open"
Changed(d) == screens[d].recompose \/ screens[d].composed # Now

\* compose_screen, present and handed_over, of a frame: handed to the display, or the display
\* fails; without a display, or away, it is shown nowhere.
Composed(d, works) ==
    LET there == screens[d].display /\ ~away
    IN  [screens[d] EXCEPT !.composed = Now, !.recompose = FALSE, !.composingLocked = locked,
                           !.pending = IF there /\ works THEN "frame" ELSE "none",
                           !.display = @ /\ (there => works)]

\* Compositor::frame: the screens with no frame on its way; one composes when something of it
\* changed, else the pointer may have moved on it.
Frame ==
    /\ phase = "frame"
    /\ phase' = "sleep"
    /\ \E draws \in SUBSET Displays, fails \in SUBSET Displays, moves \in SUBSET Displays :
          /\ draws \cup moves # {} => drawn < MaxFrames
          /\ drawn' = IF draws \cup moves = {} THEN drawn ELSE drawn + 1
          /\ fails \subseteq {d \in Displays : Changed(d) \/ d \in draws}
          /\ moves \subseteq {d \in Displays : screens[d].display /\ ~away} \ draws
          /\ screens' = [d \in Displays |->
                IF screens[d].pending # "none" THEN screens[d]
                ELSE IF Changed(d) \/ d \in draws THEN Composed(d, d \notin fails)
                ELSE IF d \in moves THEN [screens[d] EXCEPT !.pending = "pointer"]
                ELSE screens[d]]
    /\ UNCHANGED <<scene, check, away, seat>>

\* Compositor::complete_screen_flip of a frame that flipped.
Flipped(screen) ==
    IF screen.pending = "pointer" THEN [screen EXCEPT !.pending = "none"]
    ELSE [screen EXCEPT !.pending = "none", !.shownLocked = screen.composingLocked,
                        !.picture = IF screen.composingLocked THEN "locked" ELSE "open"]

\* A frame that never flipped, or the display gone: composed again.
Unflipped(screen, gone) ==
    IF screen.pending = "pointer"
    THEN [screen EXCEPT !.pending = "none", !.display = @ /\ ~gone]
    ELSE [screen EXCEPT !.pending = "none", !.composed = "nothing", !.recompose = TRUE,
                        !.display = @ /\ ~gone]

CompleteFlip(d) ==
    /\ phase = "read"
    /\ screens[d].pending # "none"
    /\ \/ screens' = [screens EXCEPT ![d] = Flipped(@)]
       \/ screens' = [screens EXCEPT ![d] = Unflipped(@, TRUE)]
    /\ UNCHANGED <<phase, scene, check, away, drawn, seat>>

(***************************************************************************)
(* The seat and sleep                                                      *)
(***************************************************************************)

\* logind: its own events, external.
LogindSends ==
    /\ machine # "asleep"
    /\ events < MaxEvents
    /\ \/ "lock" \in SeatEvents /\ queue' = Append(queue, "lock") /\ UNCHANGED machine
       \/ /\ "sleep" \in SeatEvents /\ machine = "awake"
          /\ queue' = Append(queue, "sleep") /\ machine' = "preparing"
       \/ "pause" \in SeatEvents /\ queue' = Append(queue, "pause") /\ UNCHANGED machine
       \/ "pause" \in SeatEvents /\ queue' = Append(queue, "resume") /\ UNCHANGED machine
    /\ events' = events + 1
    /\ UNCHANGED <<phase, scene, check, shown, held, sleeping>>

\* The machine sleeps once nothing holds it back; it wakes and says so.
MachineSleeps ==
    /\ machine = "preparing" /\ ~held
    /\ machine' = "asleep"
    /\ UNCHANGED <<phase, scene, check, shown, queue, events, held, sleeping>>

MachineWakes ==
    /\ machine = "asleep"
    /\ machine' = "awake"
    /\ queue' = Append(queue, "wake")
    /\ UNCHANGED <<phase, scene, check, shown, events, held, sleeping>>

\* Compositor::follow_seat: one event.
FollowSeat ==
    /\ phase = "seat" /\ queue # <<>>
    /\ queue' = Tail(queue)
    /\ CASE Head(queue) = "lock" ->
              Lock /\ UNCHANGED <<shown, held, sleeping>>
         [] Head(queue) = "sleep" ->
              Lock /\ sleeping' = TRUE /\ UNCHANGED <<shown, held>>
         [] Head(queue) = "wake" ->
              sleeping' = FALSE /\ held' = TRUE /\ UNCHANGED <<scene, shown>>
         [] Head(queue) = "pause" /\ ~away ->
              /\ away' = TRUE
              /\ \E lost \in SUBSET Displays :
                    screens' = [d \in Displays |->
                       LET screen == screens[d] IN
                       [(IF screen.pending = "none" THEN screen
                         ELSE IF d \in lost THEN Unflipped(screen, FALSE) ELSE Flipped(screen))
                        EXCEPT !.picture = "none"]]
              /\ UNCHANGED <<scene, drawn, held, sleeping>>
         [] Head(queue) = "resume" /\ away ->
              /\ away' = FALSE
              /\ screens' = [d \in Displays |->
                    [screens[d] EXCEPT !.composed = "nothing", !.recompose = TRUE]]
              /\ UNCHANGED <<scene, drawn, held, sleeping>>
         [] OTHER -> UNCHANGED <<scene, shown, held, sleeping>>
    /\ UNCHANGED <<phase, check, events, machine>>

\* The turn goes on, from the seat's events to the clients' and from those to the answer.
Wait == phase = "seat" /\ queue = <<>> /\ phase' = "read"
        /\ UNCHANGED <<scene, check, shown, seat>>
Serve == phase = "read" /\ phase' = "answer"
         /\ UNCHANGED <<scene, check, shown, seat>>

\* A mistake: a frame on its way is not waited for.
LockShownSoon ==
    /\ locked
    /\ away \/ \A d \in Displays : screens[d].display => screens[d].shownLocked

\* A mistake: a display that went is waited for.
LockShownEvery ==
    /\ locked
    /\ away \/ \A d \in Displays : screens[d].shownLocked /\ screens[d].pending = "none"

\* Compositor::lock_shown.
LockShown ==
    /\ locked
    /\ away \/ \A d \in Displays :
          screens[d].display => screens[d].shownLocked /\ screens[d].pending = "none"

\* Compositor::follow_lock: sleep is let go once the lock is on screen.
FollowLock ==
    /\ phase = "sleep"
    /\ phase' = "seat"
    /\ IF sleeping /\ LockShown
       THEN sleeping' = FALSE /\ held' = FALSE
       ELSE UNCHANGED <<sleeping, held>>
    /\ UNCHANGED <<scene, check, shown, queue, events, machine>>

Turn == FollowSeat \/ Wait \/ Serve \/ Answer \/ Take \/ Frame \/ FollowLock

Next ==
    \/ machine # "asleep" /\ (Turn \/ Requests \/ ThreadAnswers \/ \E d \in Displays : CompleteFlip(d))
    \/ LogindSends \/ MachineSleeps \/ MachineWakes

Spec == Init /\ [][Next]_vars

\* The turn goes on, PAM answers, displays flip and the machine wakes.
LiveSpec ==
    /\ Spec
    /\ WF_vars(machine # "asleep" /\ Turn)
    /\ WF_vars(machine # "asleep" /\ ThreadAnswers)
    /\ \A d \in Displays : SF_vars(machine # "asleep" /\ CompleteFlip(d))
    /\ WF_vars(MachineSleeps) /\ WF_vars(MachineWakes)

-----------------------------------------------------------------------------
(***************************************************************************)
(* Properties                                                              *)
(***************************************************************************)

\* Every part of the state is of its kind: what is receiving never passes MAX_SECRET_BYTES.
SceneTypes ==
    /\ locked \in BOOLEAN /\ locks \in Nat
    /\ surfaces \subseteq LockSurfaces /\ owed \subseteq LockSurfaces
    /\ receiving \in [LockSurfaces -> Seq(Chunk)]
    /\ \A s \in LockSurfaces : Len(receiving[s]) <= Chunks
    /\ accounts \in [LockSurfaces -> Account]
    /\ submitted \in Password \cup {None}
    /\ checking \in LockSurfaces \cup {None}
    /\ unlocked \in Seq(Chunk) \cup {None}
CheckTypes == asked \in LockSurfaces \cup {None} /\ thread \in Asked \cup {None}
ShownTypes == screens \in [Displays -> Screen] /\ away \in BOOLEAN
SeatTypes ==
    /\ machine \in {"awake", "preparing", "asleep"}
    /\ held \in BOOLEAN /\ sleeping \in BOOLEAN
TypeOK ==
    /\ phase \in {"seat", "read", "answer", "take", "frame", "sleep"}
    /\ SceneTypes /\ CheckTypes /\ ShownTypes /\ SeatTypes

\* The session is unlocked only by the right password, given whole while the lock it ends
\* lasted (Scene::receive_secret, Compositor::authenticate).
UnlockEarned ==
    ~locked /\ locks > 0 =>
        /\ unlocked # None /\ Right(unlocked)
        /\ \A i \in 1..Len(unlocked) : unlocked[i].lock = locks

\* Nothing of a password is kept past the lock or past the surface that gave it
\* (Scene::forget_secrets).
NothingKept ==
    /\ \A s \in LockSurfaces :
          ~locked \/ s \notin surfaces => receiving[s] = <<>> /\ accounts[s] = None
    /\ submitted # None => locked /\ submitted.surface \in surfaces

\* The scene, the compositor and the checker agree on the password being checked: one at a
\* time, so the checker is never asked while it checks (Checker::attempt's Busy).
OneCheck ==
    /\ asked # None => thread # None /\ checking = asked /\ submitted = None
    /\ thread # None => asked # None
    /\ checking # None => submitted # None \/ asked = checking

\* The machine is let go only while every display shows the lock, and nothing else is on its
\* way to one (Compositor::lock_shown).
SleepBehindLock ==
    [][held /\ ~held' =>
          /\ locked
          /\ away \/ \A d \in Displays : screens[d].display =>
                screens[d].picture = "locked" /\ screens[d].pending = "none"]_vars

\* The machine never sleeps, and so never wakes, with the session unlocked (ADR 0010).
NeverWakesUnlocked == machine = "asleep" => locked

\* A lock surface always hears of the password it submitted (or went, or the session is
\* unlocked), so no later one is busy for ever.
EveryPasswordAnswered == \A s \in LockSurfaces : s \in owed ~> s \notin owed

\* A machine about to sleep is let go, once the lock is on screen.
SleepLetGo == sleeping ~> (~sleeping \/ ~locked)
=============================================================================
