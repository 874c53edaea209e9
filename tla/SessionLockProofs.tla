------------------------- MODULE SessionLockProofs -------------------------
(***************************************************************************)
(* Proofs about the session's lock, for any lock surfaces, displays, parts *)
(* of the password and bounds: only the right password, given under the    *)
(* lock it ends, unlocks; nothing of a password is kept; one password is   *)
(* checked at a time; and sleep is let go only behind the lock.            *)
(***************************************************************************)
EXTENDS SessionLock, TLAPS

-----------------------------------------------------------------------------
(* The inductive invariant.                                                *)

\* What is given was given under the lock there is.
OfThisLock(secret) == \A i \in 1..Len(secret) : secret[i].lock = locks

\* The password submitted is the one the scene says is checked.
SubmittedIsChecked == submitted # None => checking = submitted.surface

\* What is received, submitted or checked belongs to the lock there is.
GivenUnderThisLock ==
    /\ \A s \in LockSurfaces : OfThisLock(receiving[s])
    /\ submitted # None => OfThisLock(submitted.secret)
    /\ thread # None => locked /\ OfThisLock(thread.secret)

\* PAM accepts only the right password.
AcceptedIsRight == thread # None /\ thread.answer = "accepted" => Right(thread.secret)

LockInv ==
    /\ UnlockEarned /\ NothingKept /\ OneCheck
    /\ SubmittedIsChecked /\ GivenUnderThisLock /\ AcceptedIsRight

\* A display that is said to show the lock does, unless it is to be composed again or its
\* next frame is on its way.
ShownIsPicture ==
    ~away => \A d \in Displays :
        screens[d].display /\ screens[d].shownLocked /\ screens[d].pending # "frame" =>
            screens[d].picture = "locked" \/ screens[d].recompose

\* When sleep is looked at, what was to be composed again is on its way.
NothingToCompose ==
    phase = "sleep" /\ ~away => \A d \in Displays :
        screens[d].display /\ screens[d].pending = "none" => ~screens[d].recompose

ShownInv == ShownIsPicture /\ NothingToCompose

IInv == TypeOK /\ LockInv /\ ShownInv

-----------------------------------------------------------------------------
(* Types.                                                                  *)

\* A password kept is one of those three kinds, and none of them is None.
LEMMA Kinds ==
    ASSUME TypeOK
    PROVE  /\ submitted # None <=> submitted \in Password
           /\ thread # None <=> thread \in Asked
           /\ unlocked # None <=> unlocked \in Seq(Chunk)
           /\ None \notin LockSurfaces
           /\ None \notin {"accepted", "rejected"}
BY NoneAssumption DEF TypeOK, SceneTypes, CheckTypes

\* The start is well formed.
LEMMA Init_Types == Init => TypeOK
<1> SUFFICES ASSUME Init PROVE TypeOK
  OBVIOUS
<1>1. SceneTypes
  <2>1. <<>> \in Seq(Chunk) /\ Len(<<>>) <= Chunks
    BY BoundAssumption
  <2>2. /\ receiving \in [LockSurfaces -> Seq(Chunk)]
        /\ \A s \in LockSurfaces : Len(receiving[s]) <= Chunks
    BY <2>1 DEF Init
  <2>3. accounts \in [LockSurfaces -> Account]
    BY DEF Init, Account
  <2> QED BY <2>2, <2>3 DEF Init, SceneTypes
<1>2. CheckTypes /\ ShownTypes /\ SeatTypes
  BY DEF Init, CheckTypes, ShownTypes, SeatTypes, Screen, Pending
<1> QED BY <1>1, <1>2 DEF Init, TypeOK

\* Scene::lock.
LEMMA Lock_Types == ASSUME SceneTypes, Lock PROVE SceneTypes'
BY DEF SceneTypes, Lock

\* Scene::forget_secrets with the surfaces that go.
LEMMA Remove_Types ==
    ASSUME SceneTypes, NEW gone \in SUBSET LockSurfaces, Remove(gone)
    PROVE  SceneTypes'
<1>1. /\ receiving' \in [LockSurfaces -> Seq(Chunk)]
      /\ \A s \in LockSurfaces : Len(receiving'[s]) <= Chunks
      /\ accounts' \in [LockSurfaces -> Account]
  BY BoundAssumption, PartsAssumption DEF SceneTypes, Remove, Forget, Account
<1>2. submitted' \in Password \cup {None} /\ checking' \in LockSurfaces \cup {None}
  BY DEF SceneTypes, Remove, Forget
<1> QED BY <1>1, <1>2 DEF SceneTypes, Remove, Forget

\* A chunk more of a password, or the client gone.
LEMMA AuthenticateSecret_Types ==
    ASSUME SceneTypes, NEW s \in LockSurfaces, NEW part \in 1..Parts,
           AuthenticateSecret(s, part)
    PROVE  SceneTypes'
<1>1. CASE Len(receiving[s]) < Chunks
  <2>1. [part |-> part, lock |-> locks] \in Chunk
    BY DEF SceneTypes, Chunk
  <2>2. /\ Append(receiving[s], [part |-> part, lock |-> locks]) \in Seq(Chunk)
        /\ Len(Append(receiving[s], [part |-> part, lock |-> locks])) <= Chunks
    BY <1>1, <2>1, BoundAssumption DEF SceneTypes
  <2> QED BY <1>1, <2>2 DEF SceneTypes, AuthenticateSecret
<1>2. CASE ~(Len(receiving[s]) < Chunks)
  <2>1. Remove(surfaces)
    BY <1>2 DEF AuthenticateSecret
  <2> QED BY <2>1, Remove_Types DEF SceneTypes
<1> QED BY <1>1, <1>2

\* Scene::submit_secret.
LEMMA Authenticate_Types ==
    ASSUME SceneTypes, NEW s \in LockSurfaces, Authenticate(s)
    PROVE  SceneTypes'
<1>1. [surface |-> s, account |-> accounts[s], secret |-> receiving[s]] \in Password
  BY DEF SceneTypes, Password
<1>2. /\ receiving' \in [LockSurfaces -> Seq(Chunk)]
      /\ \A t \in LockSurfaces : Len(receiving'[t]) <= Chunks
      /\ accounts' \in [LockSurfaces -> Account]
  BY BoundAssumption, PartsAssumption DEF SceneTypes, Authenticate, Account
<1> QED BY <1>1, <1>2 DEF SceneTypes, Authenticate

\* What clients and the person ask of the scene.
LEMMA Requests_Types == ASSUME TypeOK, Requests PROVE TypeOK'
<1>1. SceneTypes'
  <2>1. CASE Lock
    BY <2>1, Lock_Types DEF TypeOK
  <2>2. ASSUME NEW s \in LockSurfaces, CreateLockSurface(s) PROVE SceneTypes'
    BY <2>2 DEF TypeOK, SceneTypes, CreateLockSurface
  <2>3. ASSUME NEW s \in LockSurfaces, Remove({s}) PROVE SceneTypes'
    BY <2>3, Remove_Types DEF TypeOK
  <2>4. ASSUME NEW s \in LockSurfaces, Authenticate(s) PROVE SceneTypes'
    BY <2>4, Authenticate_Types DEF TypeOK
  <2>5. ASSUME NEW s \in LockSurfaces, NEW part \in 1..Parts, AuthenticateSecret(s, part)
        PROVE  SceneTypes'
    BY <2>5, AuthenticateSecret_Types DEF TypeOK
  <2>6. ASSUME NEW s \in LockSurfaces, NEW account \in {"own", "other"},
               AuthenticateAccount(s, account)
        PROVE  SceneTypes'
    BY <2>6 DEF TypeOK, SceneTypes, AuthenticateAccount, Account
  <2>7. CASE Remove(surfaces)
    BY <2>7, Remove_Types DEF TypeOK, SceneTypes
  <2> QED BY <2>1, <2>2, <2>3, <2>4, <2>5, <2>6, <2>7 DEF Requests
<1> QED BY <1>1 DEF TypeOK, Requests, CheckTypes, ShownTypes, SeatTypes, check, shown, seat

\* The answer of the password checked.
LEMMA Answer_Types == ASSUME TypeOK, Answer PROVE TypeOK'
<1>1. SceneTypes' /\ CheckTypes'
  <2>1. CASE UNCHANGED <<scene, check>>
    BY <2>1 DEF TypeOK, SceneTypes, CheckTypes, scene, check
  <2>2. CASE asked' = None /\ thread' = None /\ thread # None /\ Unlock(thread.secret)
    <3>1. thread.secret \in Seq(Chunk)
      BY <2>2, Kinds DEF Asked
    <3>2. /\ receiving' \in [LockSurfaces -> Seq(Chunk)]
          /\ \A s \in LockSurfaces : Len(receiving'[s]) <= Chunks
          /\ accounts' \in [LockSurfaces -> Account]
      BY <2>2, BoundAssumption, PartsAssumption DEF Unlock, Account
    <3> QED BY <2>2, <3>1, <3>2 DEF TypeOK, SceneTypes, CheckTypes, Unlock
  <2>3. CASE /\ asked' = None /\ thread' = None /\ Told(asked)
             /\ UNCHANGED <<locked, locks, surfaces, receiving, accounts, submitted, unlocked>>
    BY <2>3 DEF TypeOK, SceneTypes, CheckTypes, Told
  <2> QED BY <2>1, <2>2, <2>3 DEF Answer
<1> QED BY <1>1 DEF TypeOK, Answer, ShownTypes, SeatTypes, shown, seat

\* A password taken to the thread, or refused at once.
LEMMA Take_Types == ASSUME TypeOK, Take PROVE TypeOK'
<1>1. SceneTypes' /\ CheckTypes'
  <2>1. CASE UNCHANGED <<scene, check>>
    BY <2>1 DEF TypeOK, SceneTypes, CheckTypes, scene, check
  <2>2. CASE /\ submitted # None /\ submitted' = None
             /\ thread' = [secret |-> submitted.secret, answer |-> None]
             /\ asked' = submitted.surface
             /\ UNCHANGED <<checking, owed>>
             /\ UNCHANGED <<locked, locks, surfaces, receiving, accounts, unlocked>>
    <3>1. submitted.surface \in LockSurfaces /\ submitted.secret \in Seq(Chunk)
      BY <2>2, Kinds DEF Password
    <3>2. thread' \in Asked
      BY <2>2, <3>1 DEF Asked
    <3> QED BY <2>2, <3>1, <3>2 DEF TypeOK, SceneTypes, CheckTypes
  <2>3. CASE /\ submitted # None /\ submitted' = None /\ Told(submitted.surface)
             /\ UNCHANGED check
             /\ UNCHANGED <<locked, locks, surfaces, receiving, accounts, unlocked>>
    BY <2>3 DEF TypeOK, SceneTypes, CheckTypes, Told, check
  <2> QED BY <2>1, <2>2, <2>3 DEF Take
<1> QED BY <1>1 DEF TypeOK, Take, ShownTypes, SeatTypes, shown, seat

\* A screen after a flip, or one that failed, is a screen.
LEMMA Flip_Screen ==
    ASSUME NEW screen \in Screen, NEW gone \in BOOLEAN
    PROVE  Flipped(screen) \in Screen /\ Unflipped(screen, gone) \in Screen
BY DEF Screen, Pending, Flipped, Unflipped

\* Compositor::frame.
LEMMA Frame_Types == ASSUME TypeOK, Frame PROVE TypeOK'
<1>1. ShownTypes'
  <2>1. \A d \in Displays : screens[d] \in Screen
    BY DEF TypeOK, ShownTypes
  <2>2. \A d \in Displays : \A works \in BOOLEAN : Composed(d, works) \in Screen
    <3>1. Now \in {"nothing", "open", "locked"} /\ locked \in BOOLEAN
      BY DEF TypeOK, SceneTypes, Now
    <3> SUFFICES ASSUME NEW d \in Displays, NEW works \in BOOLEAN
                 PROVE  Composed(d, works) \in Screen
      OBVIOUS
    <3> DEFINE there == screens[d].display /\ ~away
               pending == IF there /\ works THEN "frame" ELSE "none"
               display == screens[d].display /\ (there => works)
    <3>2. pending \in Pending /\ display \in BOOLEAN
      BY DEF Pending
    <3>3. Composed(d, works) = [screens[d] EXCEPT !.composed = Now, !.recompose = FALSE,
             !.composingLocked = locked, !.pending = pending, !.display = display]
      BY <2>1 DEF Composed, Screen
    <3> HIDE DEF pending, display
    <3> QED BY <2>1, <3>1, <3>2, <3>3 DEF Screen
  <2>3. \A d \in Displays : [screens[d] EXCEPT !.pending = "pointer"] \in Screen
    BY <2>1 DEF Screen, Pending
  <2>4. PICK draws \in SUBSET Displays, fails \in SUBSET Displays, moves \in SUBSET Displays :
           screens' = [d \in Displays |->
                IF screens[d].pending # "none" THEN screens[d]
                ELSE IF Changed(d) \/ d \in draws THEN Composed(d, d \notin fails)
                ELSE IF d \in moves THEN [screens[d] EXCEPT !.pending = "pointer"]
                ELSE screens[d]]
    BY DEF Frame
  <2> QED BY <2>1, <2>2, <2>3, <2>4 DEF TypeOK, ShownTypes, Frame
<1> QED BY <1>1 DEF TypeOK, Frame, SceneTypes, CheckTypes, SeatTypes, scene, check, seat

\* A flip told, or a display gone.
LEMMA CompleteFlip_Types ==
    ASSUME TypeOK, NEW d \in Displays, CompleteFlip(d)
    PROVE  TypeOK'
<1>1. screens' \in [Displays -> Screen]
  BY Flip_Screen DEF TypeOK, ShownTypes, CompleteFlip
<1> QED BY <1>1 DEF TypeOK, CompleteFlip, SceneTypes, CheckTypes, ShownTypes, SeatTypes,
                    scene, check, seat

\* One event of logind's.
LEMMA FollowSeat_Types == ASSUME TypeOK, FollowSeat PROVE TypeOK'
<1>1. SceneTypes'
  <2>1. Lock \/ UNCHANGED scene
    BY DEF FollowSeat
  <2> QED BY <2>1, Lock_Types DEF TypeOK, SceneTypes, scene
<1>2. screens' \in [Displays -> Screen]
  <2>1. \A d \in Displays : screens[d] \in Screen
    BY DEF TypeOK, ShownTypes
  <2>2. CASE UNCHANGED screens
    BY <2>2 DEF TypeOK, ShownTypes
  <2>3. ASSUME NEW lost \in SUBSET Displays,
               screens' = [d \in Displays |->
                       LET screen == screens[d] IN
                       [(IF screen.pending = "none" THEN screen
                         ELSE IF d \in lost THEN Unflipped(screen, FALSE) ELSE Flipped(screen))
                        EXCEPT !.picture = "none"]]
        PROVE  screens' \in [Displays -> Screen]
    <3>1. \A screen \in Screen : [screen EXCEPT !.picture = "none"] \in Screen
      BY DEF Screen
    <3> QED BY <2>1, <2>3, <3>1, Flip_Screen
  <2>4. CASE screens' = [d \in Displays |->
                    [screens[d] EXCEPT !.composed = "nothing", !.recompose = TRUE]]
    BY <2>1, <2>4 DEF Screen
  <2> QED BY <2>2, <2>3, <2>4 DEF FollowSeat, shown
<1>3. away' \in BOOLEAN /\ held' \in BOOLEAN /\ sleeping' \in BOOLEAN
  BY DEF TypeOK, ShownTypes, SeatTypes, FollowSeat, shown
<1> QED BY <1>1, <1>2, <1>3 DEF TypeOK, FollowSeat, CheckTypes, ShownTypes, SeatTypes, check

\* Every step keeps the types.
LEMMA Next_Types == ASSUME TypeOK, [Next]_vars PROVE TypeOK'
<1> USE DEF scene, check, shown, seat
<1>1. CASE Requests BY <1>1, Requests_Types
<1>2. CASE ThreadAnswers
  <2>1. thread' \in Asked
    BY <1>2, Kinds DEF ThreadAnswers, Asked
  <2> QED BY <1>2, <2>1 DEF ThreadAnswers, TypeOK, SceneTypes, CheckTypes, ShownTypes, SeatTypes
<1>3. CASE Answer BY <1>3, Answer_Types
<1>4. CASE Take BY <1>4, Take_Types
<1>5. CASE Frame BY <1>5, Frame_Types
<1>6. CASE FollowSeat BY <1>6, FollowSeat_Types
<1>7. ASSUME NEW d \in Displays, CompleteFlip(d) PROVE TypeOK'
  BY <1>7, CompleteFlip_Types
<1>8. CASE LogindSends \/ MachineSleeps \/ MachineWakes \/ FollowLock
  <2>1. UNCHANGED <<scene, check, screens, away>>
    BY <1>8 DEF LogindSends, MachineSleeps, MachineWakes, FollowLock
  <2>2. SceneTypes' /\ CheckTypes' /\ ShownTypes'
    BY <2>1 DEF TypeOK, SceneTypes, CheckTypes, ShownTypes
  <2>3. phase' \in {"seat", phase} /\ SeatTypes'
    BY <1>8 DEF TypeOK, SeatTypes, LogindSends, MachineSleeps, MachineWakes, FollowLock
  <2> QED BY <2>2, <2>3 DEF TypeOK
<1>9. CASE Wait
  BY <1>9 DEF Wait, TypeOK, SceneTypes, CheckTypes, ShownTypes, SeatTypes
<1>10. CASE Serve
  BY <1>10 DEF Serve, TypeOK, SceneTypes, CheckTypes, ShownTypes, SeatTypes
<1>11. CASE UNCHANGED vars
  <2>1. UNCHANGED <<phase, scene, check, shown, seat>>
    BY <1>11 DEF vars
  <2>2. SceneTypes' /\ CheckTypes'
    BY <2>1 DEF TypeOK, SceneTypes, CheckTypes
  <2>3. ShownTypes' /\ SeatTypes'
    BY <2>1 DEF TypeOK, ShownTypes, SeatTypes
  <2> QED BY <2>1, <2>2, <2>3 DEF TypeOK
<1> QED BY <1>1, <1>2, <1>3, <1>4, <1>5, <1>6, <1>7, <1>8, <1>9, <1>10, <1>11
    DEF Next, Turn

-----------------------------------------------------------------------------
(* What unlocks.                                                           *)

\* Nothing of the lock changes.
LEMMA Same_Lock == ASSUME LockInv, UNCHANGED <<scene, check>> PROVE LockInv'
BY DEF scene, check, LockInv, UnlockEarned, NothingKept, OneCheck, SubmittedIsChecked,
       GivenUnderThisLock, OfThisLock, AcceptedIsRight, Right

\* A new lock begins with nothing of a password given.
LEMMA Lock_Lock == ASSUME TypeOK, LockInv, Lock, UNCHANGED check PROVE LockInv'
<1>1. CASE locked
  <2>1. UNCHANGED <<scene, check>>
    BY <1>1 DEF Lock, TypeOK, SceneTypes, scene
  <2> QED BY <2>1, Same_Lock
<1>2. CASE ~locked
  <2>1. /\ \A s \in LockSurfaces : receiving[s] = <<>> /\ accounts[s] = None
        /\ submitted = None /\ thread = None
    BY <1>2 DEF LockInv, NothingKept, GivenUnderThisLock
  <2> QED BY <2>1 DEF Lock, check, LockInv, UnlockEarned, NothingKept, OneCheck,
                      SubmittedIsChecked, GivenUnderThisLock, OfThisLock, AcceptedIsRight, Right
<1> QED BY <1>1, <1>2

\* A surface that goes takes what it gave along; what the session took goes on.
LEMMA Remove_Lock ==
    ASSUME TypeOK, LockInv, NEW gone \in SUBSET LockSurfaces, Remove(gone), UNCHANGED check
    PROVE  LockInv'
<1> USE DEF check, Remove, Forget
<1>1. UnlockEarned' /\ AcceptedIsRight'
  BY DEF LockInv, UnlockEarned, AcceptedIsRight, Right
<1>2. NothingKept'
  BY DEF TypeOK, SceneTypes, LockInv, NothingKept
<1>3. OneCheck' /\ SubmittedIsChecked'
  BY DEF LockInv, OneCheck, SubmittedIsChecked
<1>4. GivenUnderThisLock'
  <2>1. \A s \in LockSurfaces : receiving'[s] = <<>> \/ receiving'[s] = receiving[s]
    OBVIOUS
  <2> QED BY <2>1 DEF LockInv, GivenUnderThisLock, OfThisLock
<1> QED BY <1>1, <1>2, <1>3, <1>4 DEF LockInv

\* A chunk more is of the lock there is.
LEMMA AuthenticateSecret_Lock ==
    ASSUME TypeOK, LockInv, NEW s \in LockSurfaces, NEW part \in 1..Parts,
           AuthenticateSecret(s, part), UNCHANGED check
    PROVE  LockInv'
<1>1. CASE Len(receiving[s]) < Chunks
  <2> DEFINE more == Append(receiving[s], [part |-> part, lock |-> locks])
  <2>1. /\ s \in surfaces /\ locked
        /\ receiving' = [receiving EXCEPT ![s] = more]
        /\ UNCHANGED <<locked, locks, surfaces, accounts, submitted, checking, owed, unlocked>>
    BY <1>1 DEF AuthenticateSecret
  <2>2. receiving[s] \in Seq(Chunk) /\ [part |-> part, lock |-> locks] \in Chunk
    BY DEF TypeOK, SceneTypes, Chunk
  <2>3. OfThisLock(more)
    <3>1. OfThisLock(receiving[s])
      BY DEF LockInv, GivenUnderThisLock
    <3>2. /\ Len(more) = Len(receiving[s]) + 1
          /\ \A i \in 1..Len(receiving[s]) : more[i] = receiving[s][i]
          /\ more[Len(receiving[s]) + 1] = [part |-> part, lock |-> locks]
      BY <2>2
    <3>3. Len(receiving[s]) \in Nat
      BY <2>2
    <3> HIDE DEF more
    <3> QED BY <3>1, <3>2, <3>3 DEF OfThisLock
  <2> HIDE DEF more
  <2>4. \A t \in LockSurfaces : receiving'[t] = IF t = s THEN more ELSE receiving[t]
    BY <2>1 DEF TypeOK, SceneTypes
  <2>5. GivenUnderThisLock'
    BY <2>1, <2>3, <2>4 DEF LockInv, GivenUnderThisLock, OfThisLock, check
  <2>6. NothingKept'
    BY <2>1, <2>4 DEF LockInv, NothingKept
  <2>7. UnlockEarned' /\ OneCheck' /\ SubmittedIsChecked' /\ AcceptedIsRight'
    BY <2>1 DEF LockInv, UnlockEarned, OneCheck, SubmittedIsChecked, AcceptedIsRight, Right, check
  <2> QED BY <2>5, <2>6, <2>7 DEF LockInv
<1>2. CASE ~(Len(receiving[s]) < Chunks)
  <2>1. Remove(surfaces)
    BY <1>2 DEF AuthenticateSecret
  <2> QED BY <2>1, Remove_Lock DEF TypeOK, SceneTypes
<1> QED BY <1>1, <1>2

\* A password is submitted only while none is checked.
LEMMA Authenticate_Lock ==
    ASSUME TypeOK, LockInv, NEW s \in LockSurfaces, Authenticate(s), UNCHANGED check
    PROVE  LockInv'
<1>1. /\ \A t \in LockSurfaces : receiving'[t] = IF t = s THEN <<>> ELSE receiving[t]
      /\ \A t \in LockSurfaces : accounts'[t] = IF t = s THEN None ELSE accounts[t]
      /\ s \in surfaces /\ UNCHANGED <<locked, locks, surfaces, unlocked, asked, thread>>
  BY DEF TypeOK, SceneTypes, Authenticate, check
<1>2. CASE locked /\ checking = None
  <2>1. /\ submitted' = [surface |-> s, account |-> accounts[s], secret |-> receiving[s]]
        /\ checking' = s
    BY <1>2 DEF Authenticate
  <2>2. submitted' # None
    <3>1. submitted' \in Password
      BY <2>1 DEF TypeOK, SceneTypes, Password
    <3> QED BY <3>1, NoneAssumption
  <2>3. asked = None /\ thread = None
    BY <1>2 DEF LockInv, OneCheck
  <2>4. OfThisLock(receiving[s])
    BY DEF LockInv, GivenUnderThisLock
  <2>5. NothingKept' /\ OneCheck' /\ SubmittedIsChecked' /\ UnlockEarned' /\ AcceptedIsRight'
    BY <1>1, <1>2, <2>1, <2>2, <2>3 DEF LockInv, NothingKept, OneCheck, SubmittedIsChecked,
       UnlockEarned, AcceptedIsRight, Right
  <2>6. GivenUnderThisLock'
    BY <1>1, <2>1, <2>3, <2>4 DEF LockInv, GivenUnderThisLock, OfThisLock
  <2> QED BY <2>5, <2>6 DEF LockInv
<1>3. CASE ~(locked /\ checking = None)
  <2>1. UNCHANGED <<checking, submitted>>
    BY <1>3 DEF Authenticate
  <2> QED BY <1>1, <2>1 DEF LockInv, NothingKept, OneCheck, SubmittedIsChecked,
             UnlockEarned, AcceptedIsRight, Right, GivenUnderThisLock, OfThisLock
<1> QED BY <1>2, <1>3

\* What clients and the person ask of the scene.
LEMMA Requests_Lock == ASSUME TypeOK, LockInv, Requests PROVE LockInv'
<1>0. UNCHANGED check
  BY DEF Requests
<1>1. CASE Lock
  BY <1>0, <1>1, Lock_Lock
<1>2. ASSUME NEW s \in LockSurfaces, CreateLockSurface(s) PROVE LockInv'
  BY <1>0, <1>2 DEF CreateLockSurface, check, LockInv, NothingKept, OneCheck,
     SubmittedIsChecked, UnlockEarned, AcceptedIsRight, Right, GivenUnderThisLock, OfThisLock
<1>3. ASSUME NEW s \in LockSurfaces, Remove({s}) PROVE LockInv'
  BY <1>0, <1>3, Remove_Lock
<1>4. ASSUME NEW s \in LockSurfaces, Authenticate(s) PROVE LockInv'
  BY <1>0, <1>4, Authenticate_Lock
<1>5. ASSUME NEW s \in LockSurfaces, NEW part \in 1..Parts, AuthenticateSecret(s, part)
      PROVE  LockInv'
  BY <1>0, <1>5, AuthenticateSecret_Lock
<1>6. ASSUME NEW s \in LockSurfaces, NEW account \in {"own", "other"},
             AuthenticateAccount(s, account)
      PROVE  LockInv'
  <2>1. \A t \in LockSurfaces : t # s => accounts'[t] = accounts[t]
    BY <1>6 DEF AuthenticateAccount, TypeOK, SceneTypes
  <2> QED BY <1>0, <1>6, <2>1 DEF AuthenticateAccount, check, LockInv, NothingKept, OneCheck,
       SubmittedIsChecked, UnlockEarned, AcceptedIsRight, Right, GivenUnderThisLock, OfThisLock
<1>7. CASE Remove(surfaces)
  BY <1>0, <1>7, Remove_Lock DEF TypeOK, SceneTypes
<1> QED BY <1>1, <1>2, <1>3, <1>4, <1>5, <1>6, <1>7 DEF Requests

\* PAM answers the password it was asked.
LEMMA ThreadAnswers_Lock == ASSUME TypeOK, LockInv, ThreadAnswers PROVE LockInv'
<1>1. PICK outcome \in {"accepted", "rejected"} :
         /\ outcome = "accepted" => Right(thread.secret)
         /\ thread' = [thread EXCEPT !.answer = outcome]
  BY DEF ThreadAnswers
<1>2. thread \in Asked
  BY Kinds DEF ThreadAnswers
<1>3. thread'.secret = thread.secret /\ thread'.answer = outcome /\ thread' # None
  <2>1. thread' \in Asked
    BY <1>1, <1>2 DEF Asked
  <2>2. thread' # None
    BY <2>1, NoneAssumption
  <2> QED BY <1>1, <1>2, <2>2 DEF Asked
<1> QED BY <1>1, <1>3 DEF ThreadAnswers, scene, LockInv, NothingKept, OneCheck,
     SubmittedIsChecked, UnlockEarned, AcceptedIsRight, Right, GivenUnderThisLock, OfThisLock

\* An acceptance unlocks with the password checked; a refusal ends its check.
LEMMA Answer_Lock == ASSUME TypeOK, LockInv, Answer PROVE LockInv'
<1>1. CASE UNCHANGED <<scene, check>>
  BY <1>1, Same_Lock
<1>2. CASE /\ asked # None /\ thread # None /\ thread.answer = "accepted"
           /\ asked' = None /\ thread' = None /\ Unlock(thread.secret)
  <2>1. thread.secret # None
    BY <1>2, Kinds, NoneAssumption DEF Asked
  <2>2. checking = asked /\ OfThisLock(thread.secret) /\ Right(thread.secret)
    BY <1>2 DEF LockInv, OneCheck, GivenUnderThisLock, AcceptedIsRight
  <2>3. UnlockEarned'
    BY <1>2, <2>1, <2>2 DEF Unlock, UnlockEarned, Right, OfThisLock
  <2>4. NothingKept' /\ OneCheck' /\ SubmittedIsChecked' /\ AcceptedIsRight'
    BY <1>2, <2>2 DEF Unlock, NothingKept, OneCheck, SubmittedIsChecked, AcceptedIsRight
  <2>5. GivenUnderThisLock'
    BY <1>2 DEF Unlock, GivenUnderThisLock, OfThisLock
  <2> QED BY <2>3, <2>4, <2>5 DEF LockInv
<1>3. CASE /\ asked # None /\ thread # None
           /\ asked' = None /\ thread' = None /\ Told(asked)
           /\ UNCHANGED <<locked, locks, surfaces, receiving, accounts, submitted, unlocked>>
  BY <1>3 DEF Told, LockInv, NothingKept, OneCheck,
     SubmittedIsChecked, UnlockEarned, AcceptedIsRight, Right, GivenUnderThisLock, OfThisLock
<1> QED BY <1>1, <1>2, <1>3 DEF Answer

\* The password submitted is the one the thread is asked, or is refused at once.
LEMMA Take_Lock == ASSUME TypeOK, LockInv, Take PROVE LockInv'
<1>1. CASE UNCHANGED <<scene, check>>
  BY <1>1, Same_Lock
<1>2. CASE /\ submitted # None /\ submitted' = None
           /\ thread' = [secret |-> submitted.secret, answer |-> None]
           /\ asked' = submitted.surface
           /\ UNCHANGED <<checking, owed>>
           /\ UNCHANGED <<locked, locks, surfaces, receiving, accounts, unlocked>>
  <2>1. submitted \in Password
    BY <1>2, Kinds
  <2>2. asked' # None /\ thread' # None /\ thread'.answer # "accepted"
    <3>1. thread' \in Asked
      BY <1>2, <2>1 DEF Password, Asked
    <3> QED BY <1>2, <2>1, <3>1, NoneAssumption DEF Password
  <2>3. locked /\ checking = submitted.surface /\ OfThisLock(submitted.secret)
    BY <1>2 DEF LockInv, NothingKept, SubmittedIsChecked, GivenUnderThisLock
  <2> QED BY <1>2, <2>2, <2>3 DEF LockInv, NothingKept, OneCheck,
       SubmittedIsChecked, UnlockEarned, AcceptedIsRight, Right, GivenUnderThisLock, OfThisLock
<1>3. CASE /\ submitted # None /\ submitted' = None /\ Told(submitted.surface)
           /\ UNCHANGED check
           /\ UNCHANGED <<locked, locks, surfaces, receiving, accounts, unlocked>>
  BY <1>3 DEF check, Told, LockInv, NothingKept, OneCheck,
     SubmittedIsChecked, UnlockEarned, AcceptedIsRight, Right, GivenUnderThisLock, OfThisLock
<1> QED BY <1>1, <1>2, <1>3 DEF Take

\* Every step keeps the invariant of the passwords.
LEMMA Next_Lock == ASSUME TypeOK, LockInv, [Next]_vars PROVE LockInv'
<1>1. CASE Requests BY <1>1, Requests_Lock
<1>2. CASE ThreadAnswers BY <1>2, ThreadAnswers_Lock
<1>3. CASE Answer BY <1>3, Answer_Lock
<1>4. CASE Take BY <1>4, Take_Lock
<1>5. CASE FollowSeat
  <2>1. UNCHANGED check /\ (Lock \/ UNCHANGED scene)
    BY <1>5 DEF FollowSeat
  <2> QED BY <2>1, Lock_Lock, Same_Lock
<1>6. CASE Frame \/ FollowLock \/ Wait \/ Serve \/ \E d \in Displays : CompleteFlip(d)
  <2>1. UNCHANGED <<scene, check>>
    BY <1>6 DEF Frame, FollowLock, Wait, Serve, CompleteFlip
  <2> QED BY <2>1, Same_Lock
<1>7. CASE LogindSends \/ MachineSleeps \/ MachineWakes \/ UNCHANGED vars
  <2>1. UNCHANGED <<scene, check>>
    BY <1>7 DEF LogindSends, MachineSleeps, MachineWakes, vars
  <2> QED BY <2>1, Same_Lock
<1> QED BY <1>1, <1>2, <1>3, <1>4, <1>5, <1>6, <1>7 DEF Next, Turn

-----------------------------------------------------------------------------
(* What the displays show.                                                 *)

\* The screens and what is due stay, and sleep is not looked at.
LEMMA Same_Shown == ASSUME ShownInv, UNCHANGED <<screens, away>>, phase' # "sleep" \/ phase' = phase
                    PROVE  ShownInv'
BY DEF ShownInv, ShownIsPicture, NothingToCompose

\* Compositor::frame leaves nothing to compose that is not on its way.
LEMMA Frame_Shown == ASSUME TypeOK, ShownInv, Frame PROVE ShownInv'
<1>1. PICK draws \in SUBSET Displays, fails \in SUBSET Displays, moves \in SUBSET Displays :
         screens' = [d \in Displays |->
                IF screens[d].pending # "none" THEN screens[d]
                ELSE IF Changed(d) \/ d \in draws THEN Composed(d, d \notin fails)
                ELSE IF d \in moves THEN [screens[d] EXCEPT !.pending = "pointer"]
                ELSE screens[d]]
  BY DEF Frame
<1>2. away' = away /\ phase' = "sleep"
  BY DEF Frame
<1>3. ASSUME ~away, NEW d \in Displays, screens'[d].display
      PROVE  /\ screens'[d].shownLocked /\ screens'[d].pending # "frame" =>
                   screens'[d].picture = "locked" \/ screens'[d].recompose
             /\ screens'[d].pending = "none" => ~screens'[d].recompose
  <2>1. screens[d] \in Screen
    BY DEF TypeOK, ShownTypes
  <2>2. CASE screens[d].pending # "none"
    BY <1>1, <1>3, <2>2 DEF ShownInv, ShownIsPicture
  <2>3. CASE screens[d].pending = "none" /\ (Changed(d) \/ d \in draws)
    <3>1. screens'[d] = Composed(d, d \notin fails)
      BY <1>1, <2>3
    <3>2. /\ screens'[d].display => screens[d].display /\ (screens[d].display /\ ~away => d \notin fails)
          /\ screens'[d].pending =
                IF screens[d].display /\ ~away /\ d \notin fails THEN "frame" ELSE "none"
      BY <2>1, <3>1 DEF Composed, Screen
    <3> QED BY <1>3, <3>2
  <2>4. CASE screens[d].pending = "none" /\ ~(Changed(d) \/ d \in draws) /\ d \in moves
    <3>1. screens'[d] = [screens[d] EXCEPT !.pending = "pointer"]
      BY <1>1, <2>4
    <3> QED BY <1>3, <2>1, <2>4, <3>1 DEF ShownInv, ShownIsPicture, Screen
  <2>5. CASE screens[d].pending = "none" /\ ~(Changed(d) \/ d \in draws) /\ d \notin moves
    <3>1. screens'[d] = screens[d] /\ ~screens[d].recompose
      BY <1>1, <2>5 DEF Changed
    <3> QED BY <1>3, <2>5, <3>1 DEF ShownInv, ShownIsPicture
  <2> QED BY <2>2, <2>3, <2>4, <2>5
<1> QED BY <1>2, <1>3 DEF ShownInv, ShownIsPicture, NothingToCompose

\* A flip puts on the display what was handed to it; a display gone shows nothing.
LEMMA CompleteFlip_Shown ==
    ASSUME TypeOK, ShownInv, NEW d \in Displays, CompleteFlip(d)
    PROVE  ShownInv'
<1>1. away' = away /\ phase' = phase /\ phase = "read"
  BY DEF CompleteFlip
<1>2. screens[d] \in Screen /\ \A e \in Displays : e # d => screens'[e] = screens[e]
  BY DEF TypeOK, ShownTypes, CompleteFlip
<1>3. CASE screens'[d] = Flipped(screens[d])
  <2>1. CASE screens[d].pending = "pointer"
    <3>1. screens'[d] = [screens[d] EXCEPT !.pending = "none"]
      BY <1>3, <2>1 DEF Flipped
    <3>2. /\ screens'[d].display = screens[d].display
          /\ screens'[d].shownLocked = screens[d].shownLocked
          /\ screens'[d].picture = screens[d].picture
          /\ screens'[d].recompose = screens[d].recompose
      BY <1>2, <3>1 DEF Screen
    <3> QED BY <1>1, <1>2, <2>1, <3>2 DEF ShownInv, ShownIsPicture, NothingToCompose
  <2>2. CASE screens[d].pending # "pointer"
    <3>1. screens'[d].shownLocked => screens'[d].picture = "locked"
      BY <1>2, <1>3, <2>2 DEF Flipped, Screen
    <3> QED BY <1>1, <1>2, <3>1 DEF ShownInv, ShownIsPicture, NothingToCompose
  <2> QED BY <2>1, <2>2
<1>4. CASE screens'[d] = Unflipped(screens[d], TRUE)
  <2>1. ~screens'[d].display
    BY <1>2, <1>4 DEF Unflipped, Screen
  <2> QED BY <1>1, <1>2, <2>1 DEF ShownInv, ShownIsPicture, NothingToCompose
<1> QED BY <1>3, <1>4 DEF TypeOK, ShownTypes, CompleteFlip

\* The displays come back with everything to be composed again.
LEMMA FollowSeat_Shown == ASSUME TypeOK, ShownInv, FollowSeat PROVE ShownInv'
<1>1. phase' = phase /\ phase = "seat"
  BY DEF FollowSeat
<1>2. CASE UNCHANGED <<screens, away>>
  BY <1>1, <1>2, Same_Shown
<1>3. CASE away'
  BY <1>1, <1>3 DEF ShownInv, ShownIsPicture, NothingToCompose
<1>4. CASE screens' = [d \in Displays |->
              [screens[d] EXCEPT !.composed = "nothing", !.recompose = TRUE]]
  <2>1. \A d \in Displays : screens[d] \in Screen
    BY DEF TypeOK, ShownTypes
  <2>2. \A d \in Displays : screens'[d].recompose
    BY <1>4, <2>1 DEF Screen
  <2> QED BY <1>1, <2>2 DEF ShownInv, ShownIsPicture, NothingToCompose
<1> QED BY <1>2, <1>3, <1>4 DEF FollowSeat, shown

\* Every step keeps displays that are said to show the lock showing it.
LEMMA Next_Shown == ASSUME TypeOK, ShownInv, [Next]_vars PROVE ShownInv'
<1>1. CASE Frame BY <1>1, Frame_Shown
<1>2. CASE FollowSeat BY <1>2, FollowSeat_Shown
<1>3. ASSUME NEW d \in Displays, CompleteFlip(d) PROVE ShownInv'
  BY <1>3, CompleteFlip_Shown
<1>4. CASE Requests \/ ThreadAnswers \/ Answer \/ Take \/ FollowLock \/ Wait \/ Serve
  <2>1. UNCHANGED <<screens, away>> /\ (phase' # "sleep" \/ phase' = phase)
    BY <1>4 DEF Requests, ThreadAnswers, Answer, Take, FollowLock, Wait, Serve, shown
  <2> QED BY <2>1, Same_Shown
<1>5. CASE LogindSends \/ MachineSleeps \/ MachineWakes \/ UNCHANGED vars
  <2>1. UNCHANGED <<phase, screens, away>>
    BY <1>5 DEF LogindSends, MachineSleeps, MachineWakes, vars, shown
  <2> QED BY <2>1, Same_Shown
<1> QED BY <1>1, <1>2, <1>3, <1>4, <1>5 DEF Next, Turn

-----------------------------------------------------------------------------
(* The theorems.                                                           *)

\* The inductive invariant holds of every behaviour.
THEOREM SessionLock_Invariant == Spec => []IInv
<1>1. Init => IInv
  <2> SUFFICES ASSUME Init PROVE LockInv /\ ShownInv
    BY Init_Types DEF IInv
  <2>1. LockInv
    BY DEF Init, LockInv, UnlockEarned, NothingKept, OneCheck, SubmittedIsChecked,
           GivenUnderThisLock, OfThisLock, AcceptedIsRight
  <2>2. ShownInv
    BY DEF Init, ShownInv, ShownIsPicture, NothingToCompose
  <2> QED BY <2>1, <2>2
<1>2. IInv /\ [Next]_vars => IInv'
  BY Next_Types, Next_Lock, Next_Shown DEF IInv
<1> QED BY <1>1, <1>2, PTL DEF Spec

\* Every part of the state is of its kind: a password never passes MAX_SECRET_BYTES.
THEOREM SessionLock_TypeOK == Spec => []TypeOK
BY SessionLock_Invariant, PTL DEF IInv

\* Only the right password, given whole under the lock it ends, unlocks the session.
THEOREM SessionLock_UnlockEarned == Spec => []UnlockEarned
<1>1. IInv => UnlockEarned
  BY DEF IInv, LockInv
<1> QED BY <1>1, SessionLock_Invariant, PTL

\* Nothing of a password is kept past the lock or the surface that gave it.
THEOREM SessionLock_NothingKept == Spec => []NothingKept
<1>1. IInv => NothingKept
  BY DEF IInv, LockInv
<1> QED BY <1>1, SessionLock_Invariant, PTL

\* One password is checked at a time, and all three parts agree on which.
THEOREM SessionLock_OneCheck == Spec => []OneCheck
<1>1. IInv => OneCheck
  BY DEF IInv, LockInv
<1> QED BY <1>1, SessionLock_Invariant, PTL

\* The machine is let go only while every display there is shows the lock.
THEOREM SessionLock_SleepBehindLock == Spec => SleepBehindLock
<1> DEFINE Behind ==
       held /\ ~held' =>
          /\ locked
          /\ away \/ \A d \in Displays : screens[d].display =>
                screens[d].picture = "locked" /\ screens[d].pending = "none"
<1>1. ASSUME IInv, [Next]_vars PROVE Behind
  <2> SUFFICES ASSUME held, ~held' PROVE Behind
    OBVIOUS
  <2>1. FollowLock
    BY <1>1 DEF Next, Turn, Requests, ThreadAnswers, Answer, Take, Frame, FollowSeat, Wait, Serve,
         CompleteFlip, LogindSends, MachineSleeps, MachineWakes, vars, seat
  <2>2. phase = "sleep" /\ LockShown
    BY <2>1 DEF FollowLock
  <2> QED BY <1>1, <2>2 DEF IInv, ShownInv, ShownIsPicture, NothingToCompose, LockShown
<1>2. IInv /\ [Next]_vars => [Behind]_vars
  BY <1>1
<1> QED BY <1>2, SessionLock_Invariant, PTL DEF Spec, SleepBehindLock
=============================================================================
